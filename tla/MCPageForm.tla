------------------------------ MODULE MCPageForm ------------------------------
\* Keycloak's login and code pages of both themes, and those one or two edits away: a token
\* added, dropped or doubled, or a run of tokens put into an element.
EXTENDS PageForm

NoClick == [index |-> -1, id |-> ""]
El(name) == [token |-> "start", name |-> name, closed |-> FALSE, id |-> "", field |-> "",
             kind |-> "", value |-> "", checked |-> FALSE, away |-> FALSE, for |-> -1,
             device |-> -1, onclick |-> NoClick, action |-> NoAction, post |-> FALSE]
Close(name) == [El(name) EXCEPT !.token = "end"]
Words(text) == [token |-> "text", text |-> text]

Query == <<[name |-> "session_code", value |-> "s"], [name |-> "execution", value |-> "e"],
           [name |-> "client_id", value |-> "c"], [name |-> "tab_id", value |-> "t"]>>
Own   == [site |-> "own", path |-> "login-actions", query |-> Query]

FormTo(action) == [El("form") EXCEPT !.action = action, !.post = TRUE]
Field(name, type, value) == [El("input") EXCEPT !.field = name, !.kind = type, !.value = value]
Button == [El("button") EXCEPT !.field = "login", !.kind = "submit"]
Device(n, id, on) == [Field("selectedCredentialId", "radio", id) EXCEPT !.device = n, !.checked = on]
For(n) == [El("label") EXCEPT !.for = n]
Tile(n, id) == [El("div") EXCEPT !.device = n, !.onclick = [index |-> n, id |-> id]]
Message(id) == [El("div") EXCEPT !.id = id]

MCMarkup == [
    form   |-> FormTo(Own),
    get    |-> [FormTo(Own) EXCEPT !.post = FALSE],
    away   |-> FormTo([Own EXCEPT !.site = "other"]),
    path   |-> FormTo([Own EXCEPT !.path = "other"]),
    nowhere |-> FormTo(NoAction),
    repeat |-> FormTo([Own EXCEPT !.query = Append(Query, Query[1])]),
    lacks  |-> FormTo([Own EXCEPT !.query = Tail(Query)]),
    empty  |-> FormTo([Own EXCEPT !.query[2].value = ""]),
    user   |-> Field("username", "text", "u"),
    pass   |-> Field("password", "password", ""),
    cred   |-> Field("credentialId", "hidden", "x"),
    stay   |-> Field("rememberMe", "checkbox", "on"),
    login  |-> Button,
    leave  |-> [Button EXCEPT !.away = TRUE],
    extra  |-> Field("other", "hidden", "y"),
    otp    |-> Field("otp", "text", ""),
    otpRadio |-> Field("otp", "radio", ""),
    radio0 |-> Device(0, "d0", TRUE),
    radio1 |-> Device(1, "d1", FALSE),
    radio2 |-> Device(2, "d2", FALSE),
    hidden |-> Field("selectedCredentialId", "hidden", "d0"),
    hidden9 |-> Field("selectedCredentialId", "hidden", "d9"),
    tile0  |-> Tile(0, "d0"),
    tile1  |-> Tile(1, "d1"),
    tile2  |-> Tile(2, "d2"),
    label0 |-> For(0),
    label1 |-> For(1),
    label7 |-> For(7),
    error  |-> Message("input-error"),
    wrapper |-> Message("input-error-container-username"),
    noError |-> [Message("input-error") EXCEPT !.closed = TRUE],
    div    |-> El("div"),
    template |-> El("template"),
    words  |-> Words("words"),
    blank  |-> Words(Blank),
    formEnd |-> Close("form"),
    divEnd |-> Close("div"),
    labelEnd |-> Close("label"),
    templateEnd |-> Close("template")]

LoginPage(top) ==
    <<top, "user", "pass", "error", "words", "divEnd", "cred", "login", "formEnd">>
BasePage  == <<"form", "radio0", "label0", "words", "labelEnd", "radio1", "label1", "words",
               "labelEnd", "otp", "formEnd">>
TilesPage == <<"form", "hidden", "tile0", "words", "divEnd", "tile1", "words", "divEnd",
               "otp", "formEnd">>

Additions == {"form", "formEnd", "template", "templateEnd", "div", "divEnd", "labelEnd", "error",
              "wrapper", "noError", "words", "blank", "stay", "extra", "otpRadio", "leave",
              "hidden9", "radio2", "tile2"}
Few == {"template", "templateEnd", "div", "divEnd", "words", "error", "formEnd"}

Put(s, i, t) == SubSeq(s, 1, i) \o <<t>> \o SubSeq(s, i + 1, Len(s))
Added(s, ts) == {Put(s, i, t): i \in 0..Len(s), t \in ts}
Dropped(s)   == {RemoveAt(s, i): i \in 1..Len(s)}
Doubled(s)   == {Put(s, i, s[i]): i \in 1..Len(s)}
Wraps(s)     == {Put(Put(s, j, e[2]), i, e[1]): i \in 0..Len(s), j \in 0..Len(s),
                 e \in {<<"template", "templateEnd">>, <<"div", "divEnd">>,
                        <<"label7", "labelEnd">>, <<"error", "divEnd">>}}
Edited(s)    == {s} \cup Added(s, Additions) \cup Dropped(s) \cup Doubled(s) \cup Wraps(s)
Twice(s)     == UNION {Added(t, Few) \cup Dropped(t): t \in Added(s, Few) \cup Dropped(s)}

MCPages ==
    UNION {{LoginPage(top), <<top>> \o Tail(BasePage)}:
           top \in {"get", "away", "path", "nowhere", "repeat", "lacks", "empty"}}
    \cup UNION {Edited(s) \cup Twice(s): s \in {LoginPage("form"), BasePage, TilesPage}}

MCAnswers == {
    <<>>, <<[name |-> "username", value |-> "ann"], [name |-> "password", value |-> "pw"]>>,
    <<[name |-> "password", value |-> "pw"]>>, <<[name |-> "otp", value |-> "123"]>>,
    <<[name |-> "password", value |-> "pw"], [name |-> "password", value |-> "px"]>>}
    \cup {<<[name |-> "otp", value |-> "123"], [name |-> "selectedCredentialId", value |-> d]>>:
          d \in {"d0", "d1", "d2", "d9"}}
=============================================================================
