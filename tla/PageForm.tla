------------------------------- MODULE PageForm -------------------------------
(***************************************************************************)
(* A Keycloak page on its way to the form that answers it: one pass of the  *)
(* scanner over the page's tokens (flow/classify.rs), the kind of page it   *)
(* makes of them, the form it extracts (flow/form.rs), and what is posted   *)
(* back for a set of answers.                                               *)
(*                                                                          *)
(* A token is a start tag with the attributes the scanner reads, an end     *)
(* tag, or a piece of text.  A text is the sequence of its pieces; only     *)
(* whether anything of it is visible matters.                               *)
(***************************************************************************)
EXTENDS Integers, FiniteSets, SequencesExt

CONSTANTS
    Markup,      \* the tokens, by name: start tags with their attributes, end tags, texts
    Pages,       \* the pages Keycloak may send: sequences of names of tokens
    Answered,    \* the answers a factor may hand to the form: Seq([name, value])
    Blank,       \* a text clean_label leaves nothing of
    NoAction     \* no action attribute, or an empty one

VARIABLES
    page,     \* the page's tokens
    at,       \* how many of them the tokenizer has handed over
    scan,     \* Scan
    kind,     \* PageKind, or that the page is still being read
    devices,  \* PageKind::OneTimeCode::devices, as their ids
    form,     \* Form
    submitted \* the fields posted, or that nothing was

vars == <<page, at, scan, kind, devices, form, submitted>>

LoginFields  == {"username", "password", "credentialId", "rememberMe", "login"}
OtpFields    == {"otp", "selectedCredentialId", "login"}
LoginPosted  == {"username", "password", "credentialId"}
OtpPosted    == {"otp", "selectedCredentialId"}
ActionQuery  == {"session_code", "execution", "client_id", "tab_id"}

\* An attribute the tag has not, or an empty one.
Absent == ""

NoCapture == [target |-> "none", ref |-> 0, tag |-> Absent, depth |-> 0, text |-> <<>>]
NoForm    == [action |-> NoAction, fields |-> <<>>, devices |-> {}]
Nothing   == [fields |-> <<>>, answers |-> <<>>]

Fresh == [forms |-> 0, inForm |-> FALSE, action |-> NoAction, post |-> FALSE,
          controls |-> <<>>, labels |-> <<>>, tiles |-> <<>>, errors |-> <<>>,
          capture |-> NoCapture, templates |-> 0, suspicious |-> FALSE]

TypeOK ==
    /\ at \in 0..Len(page)
    /\ scan.templates \in Nat /\ scan.forms \in Nat
    /\ kind \in {"reading", "unknown", "refused", "login", "rejected", "code"}

Init ==
    /\ \E names \in Pages: page = [i \in DOMAIN names |-> Markup[names[i]]]
    /\ at = 0 /\ scan = Fresh
    /\ kind = "reading" /\ devices = <<>> /\ form = NoForm /\ submitted = Nothing

\* A page is made of tokens; a tag has a name, the controls are inputs and buttons, and what is
\* asked of a start tag is a yes or no, or a number; an answer is a name and a value.
ASSUME PageAssumption ==
    /\ \A names \in Pages: names \in Seq(DOMAIN Markup)
    /\ \A m \in DOMAIN Markup:
           /\ Markup[m].token \in {"start", "end"} =>
                  Markup[m].name \notin {Absent, "select", "textarea"}
           /\ Markup[m].token = "start" =>
                  /\ Markup[m].closed \in BOOLEAN /\ Markup[m].away \in BOOLEAN
                  /\ Markup[m].for \in Int /\ Markup[m].device \in Int
    /\ \A answers \in Answered: answers \in Seq([name: STRING, value: STRING])

\* The elements of q at the places given, in order: SelectSeq, as a function proofs can open.
Sifted(q, places) ==
    LET sifted[n \in 0..Len(q)] ==
            IF n = 0 THEN <<>>
            ELSE IF n \in places THEN Append(sifted[n - 1], q[n]) ELSE sifted[n - 1]
    IN  sifted[Len(q)]

-----------------------------------------------------------------------------
(* The scanner *)

\* clean_label: what of a text can be seen.
Visible(text) == Sifted(text, {i \in DOMAIN text: text[i] # Blank})

\* keycloak.v2's "input-error-container-..." wrappers are on every page and say nothing.
IsFieldError(id) == id \in {"input-error", "input-error-username"}

\* Scan::begin
Begin(s, target, ref, tag) ==
    IF s.capture = NoCapture /\ ~tag.closed
    THEN [s EXCEPT !.capture = [target |-> target, ref |-> ref, tag |-> tag.name,
                                depth |-> 1, text |-> <<>>]]
    ELSE s

\* Scan::control
Control(s, tag) ==
    LET seen == [s EXCEPT !.suspicious = @ \/ tag.away]
    IN  IF tag.field = Absent THEN seen
        ELSE IF ~s.inForm THEN [seen EXCEPT !.suspicious = TRUE]
        ELSE [seen EXCEPT !.controls = Append(@, [name |-> tag.field, kind |-> tag.kind,
                                                  value |-> tag.value, checked |-> tag.checked])]

\* The element itself: a form, a control, or a label for some element.
Opened(s, tag) ==
    CASE tag.name = "form" /\ s.inForm -> [s EXCEPT !.suspicious = TRUE]
      [] tag.name = "form" /\ ~s.inForm ->
            [s EXCEPT !.inForm = TRUE, !.forms = @ + 1, !.action = tag.action, !.post = tag.post]
      [] tag.name \in {"input", "button"} -> Control(s, tag)
      [] tag.name = "label" /\ tag.for >= 0 -> Begin(s, "label", tag.for, tag)
      [] OTHER -> s

\* toggle_credential: onclick names the tile's own index and an id; an input has its value.
Credential(tag) ==
    IF tag.name = "input" THEN tag.value
    ELSE IF tag.onclick.index = tag.device THEN tag.onclick.id ELSE Absent

\* What the element's id marks: a message, or a device.
Marked(s, tag) ==
    IF IsFieldError(tag.id) THEN Begin(s, "error", 0, tag)
    ELSE IF tag.device < 0 THEN s
    ELSE LET tile  == [index |-> tag.device, credential |-> Credential(tag),
                       isInput |-> tag.name = "input", text |-> <<>>]
             added == [s EXCEPT !.tiles = Append(@, tile)]
         IN  IF tile.isInput THEN added ELSE Begin(added, "tile", Len(added.tiles), tag)

\* Scan::start
Start(s, tag) ==
    LET nests   == tag.name = "template" /\ ~tag.closed
        inside  == [s EXCEPT !.templates = @ + IF nests THEN 1 ELSE 0]
        deepens == inside.capture.tag = tag.name /\ ~tag.closed
        entered == [inside EXCEPT !.capture.depth = @ + IF deepens THEN 1 ELSE 0]
    IN  IF inside.templates > 0 THEN inside ELSE Marked(Opened(entered, tag), tag)

\* The element that started the capture closes.
Closed(s) ==
    LET done == [s EXCEPT !.capture = NoCapture]
        text == Visible(s.capture.text)
    IN  CASE s.capture.target = "label" ->
               [done EXCEPT !.labels = Append(@, [for |-> s.capture.ref, text |-> text])]
          [] s.capture.target = "tile"  -> [done EXCEPT !.tiles[s.capture.ref].text = text]
          [] s.capture.target = "error" ->
               IF text = <<>> THEN done ELSE [done EXCEPT !.errors = Append(@, text)]

\* Mutant: the first end tag of the capture's name ends it, nested or not.
EndAtFirst(s, name) ==
    IF s.templates > 0 THEN [s EXCEPT !.templates = @ - IF name = "template" THEN 1 ELSE 0]
    ELSE LET left == [s EXCEPT !.inForm = @ /\ name # "form"]
         IN  IF left.capture.tag = name THEN Closed(left) ELSE left

\* Scan::end
End(s, name) ==
    IF s.templates > 0 THEN [s EXCEPT !.templates = @ - IF name = "template" THEN 1 ELSE 0]
    ELSE LET left == [s EXCEPT !.inForm = @ /\ name # "form"]
         IN  IF left.capture.tag # name THEN left
             ELSE IF left.capture.depth > 1 THEN [left EXCEPT !.capture.depth = @ - 1]
             ELSE Closed(left)

Text(s, piece) ==
    IF s.templates = 0 /\ s.capture # NoCapture
    THEN [s EXCEPT !.capture.text = Append(@, piece)]
    ELSE s

Token == page[at + 1]

\* Scan::run, one token of the page.
Read ==
    /\ kind = "reading" /\ at < Len(page)
    /\ at' = at + 1
    /\ \/ Token.token = "start" /\ scan' = Start(scan, Token)
       \/ Token.token = "end"   /\ scan' = End(scan, Token.name)
       \/ Token.token = "text"  /\ scan' = Text(scan, Token.text)
    /\ UNCHANGED <<page, kind, devices, form, submitted>>

-----------------------------------------------------------------------------
(* The kind of page *)

Names(s) == {s.controls[i].name: i \in DOMAIN s.controls}

IsDeviceRadio(control) == control.kind = "radio" /\ control.name = "selectedCredentialId"

\* Mutant: every radio may repeat a name, not the device choice alone.
UniqueButRadios(s) ==
    \A i \in DOMAIN s.controls:
        s.controls[i].kind = "radio" \/ \A j \in 1..(i - 1): s.controls[j].name # s.controls[i].name

\* Scan::unique
Unique(s) ==
    \A i \in DOMAIN s.controls:
        \/ IsDeviceRadio(s.controls[i])
        \/ \A j \in 1..(i - 1): s.controls[j].name # s.controls[i].name

\* The tiles, in the order of their indices; none when these are not 0, 1, 2, ...
TilesInOrder(s) ==
    [k \in 1..Len(s.tiles) |-> s.tiles[CHOOSE i \in DOMAIN s.tiles: s.tiles[i].index = k - 1]]

IndicesRun(s) == {s.tiles[i].index: i \in DOMAIN s.tiles} = 0..(Len(s.tiles) - 1)

Label(s, tile) ==
    LET own == Sifted(s.labels, {i \in DOMAIN s.labels: s.labels[i].for = tile.index})
    IN  IF ~tile.isInput THEN tile.text ELSE IF own = <<>> THEN <<>> ELSE own[1].text

\* The values of the page's device fields of one kind, in page order.
Selected(s, type) ==
    LET fields == Sifted(s.controls, {i \in DOMAIN s.controls:
                          s.controls[i].name = "selectedCredentialId" /\ s.controls[i].kind = type})
    IN  [i \in DOMAIN fields |-> fields[i].value]

\* The themes mark the choice up differently, and a page must be wholly one or the other:
\* a radio for each device (base), or one hidden field and tiles (keycloak.v2).
Consistent(s, tiles, ids) ==
    LET radios == Selected(s, "radio")
        hidden == Selected(s, "hidden")
    IN  \/ /\ radios # <<>> /\ hidden = <<>>
           /\ radios = ids /\ \A i \in DOMAIN tiles: tiles[i].isInput
        \/ /\ radios = <<>> /\ Len(hidden) = 1
           /\ \/ ids = <<>>
              \/ hidden[1] \in ToSet(ids) /\ \A i \in DOMAIN tiles: ~tiles[i].isInput
        \/ radios = <<>> /\ hidden = <<>> /\ ids = <<>>

\* Scan::devices gives a list.
DevicesGiven(s) ==
    /\ IndicesRun(s)
    /\ LET tiles == TilesInOrder(s)
           ids   == [k \in DOMAIN tiles |-> tiles[k].credential]
       IN  /\ \A k \in DOMAIN tiles: ids[k] # Absent /\ Label(s, tiles[k]) # <<>>
           /\ IsInjective(ids)
           /\ \A i \in DOMAIN s.controls:
                  s.controls[i].name = "selectedCredentialId" =>
                      s.controls[i].kind \in {"radio", "hidden"}
           /\ Consistent(s, tiles, ids)

OneForm(s) == ~s.suspicious /\ s.forms = 1

\* Scan::kind
IsLogin(s) ==
    /\ OneForm(s) /\ {"username", "password"} \subseteq Names(s)
    /\ Names(s) \subseteq LoginFields /\ Unique(s) /\ s.tiles = <<>>

IsCode(s) ==
    /\ OneForm(s) /\ "otp" \in Names(s) /\ "password" \notin Names(s)
    /\ Names(s) \subseteq OtpFields /\ Unique(s) /\ DevicesGiven(s)

-----------------------------------------------------------------------------
(* The form *)

\* action_url, check_action
ActionOK(action) ==
    /\ action # NoAction
    /\ action.site = "own" /\ action.path = "login-actions"
    /\ \A i, j \in DOMAIN action.query: action.query[i].name = action.query[j].name => i = j
    /\ \A name \in ActionQuery: \E i \in DOMAIN action.query:
           action.query[i].name = name /\ action.query[i].value # Absent

\* Mutant: a radio or checkbox that is not selected is posted too.
FieldsUnselected(s, posted) ==
    Sifted(s.controls, {i \in DOMAIN s.controls: s.controls[i].name \in posted})

\* What a browser would submit, of what the page may post.
Fields(s, posted) ==
    Sifted(s.controls,
         {i \in DOMAIN s.controls:
             /\ s.controls[i].name \in posted
             /\ s.controls[i].kind \in {"radio", "checkbox"} => s.controls[i].checked})

ValuesOf(fields, name) == {fields[i].value: i \in {j \in DOMAIN fields: fields[j].name = name}}

\* extract of a page that is recognised as kind k.
Recognised(k, posted, ids) ==
    IF scan.post /\ ActionOK(scan.action)
    THEN LET fields == Fields(scan, posted)
         IN  /\ kind' = k /\ devices' = ids
             /\ form' = [action |-> scan.action, fields |-> fields,
                         devices |-> IF ids = <<>> THEN ValuesOf(fields, "selectedCredentialId")
                                     ELSE ToSet(ids)]
    ELSE kind' = "refused" /\ UNCHANGED <<devices, form>>

\* form::extract, and what present() makes of a page that carries a message.
Extract ==
    /\ kind = "reading" /\ at = Len(page)
    /\ \/ /\ IsLogin(scan)
          /\ Recognised(IF scan.errors = <<>> THEN "login" ELSE "rejected", LoginPosted, <<>>)
       \/ /\ IsCode(scan)
          /\ LET tiles == TilesInOrder(scan)
             IN  Recognised("code", OtpPosted, [k \in DOMAIN tiles |-> tiles[k].credential])
       \/ /\ ~IsLogin(scan) /\ ~IsCode(scan)
          /\ kind' = "unknown" /\ UNCHANGED <<devices, form>>
    /\ UNCHANGED <<page, at, scan, submitted>>

\* Mutant: a device is not compared with those the page offers.
TakesAnyDevice(f, answers) ==
    /\ \A i \in DOMAIN answers: \E j \in DOMAIN f.fields: f.fields[j].name = answers[i].name
    /\ \A i, j \in DOMAIN answers: answers[i].name = answers[j].name => i = j

\* Form::submit sends the answers.
Takes(f, answers) ==
    /\ \A i \in DOMAIN answers: \E j \in DOMAIN f.fields: f.fields[j].name = answers[i].name
    /\ \A i, j \in DOMAIN answers: answers[i].name = answers[j].name => i = j
    /\ \A i \in DOMAIN answers:
           answers[i].name = "selectedCredentialId" => answers[i].value \in f.devices

\* The page's fields, in page order, with the answers filled in.
Filled(f, answers) ==
    [i \in DOMAIN f.fields |->
        LET name == f.fields[i].name
            own  == Sifted(answers, {j \in DOMAIN answers: answers[j].name = name})
        IN  [name |-> name, value |-> IF own = <<>> THEN f.fields[i].value ELSE own[1].value]]

Submit(answers) ==
    /\ kind \in {"login", "code"} /\ submitted = Nothing
    /\ Takes(form, answers)
    /\ submitted' = [fields |-> Filled(form, answers), answers |-> answers]
    /\ UNCHANGED <<page, at, scan, kind, devices, form>>

Next == Read \/ Extract \/ \E answers \in Answered: Submit(answers)

Spec == Init /\ [][Next]_vars

-----------------------------------------------------------------------------
(* What the page says, read off the whole of it: where its templates, its   *)
(* form and its messages begin and end.                                     *)

Starts(i, name) == page[i].token = "start" /\ page[i].name = name
Ends(i, name)   == page[i].token = "end" /\ page[i].name = name
Opens(i, name)  == Starts(i, name) /\ ~page[i].closed

\* How many templates are open after the first i tokens.
OpenTemplates ==
    LET open[i \in 0..Len(page)] ==
            IF i = 0 THEN 0
            ELSE IF Opens(i, "template") THEN open[i - 1] + 1
            ELSE IF Ends(i, "template") /\ open[i - 1] > 0 THEN open[i - 1] - 1
            ELSE open[i - 1]
    IN  open

\* The tokens a browser shows or submits.
Live ==
    LET open == OpenTemplates
    IN  {i \in DOMAIN page: open[i - 1] = 0 /\ open[i] = 0}

InForm(i, live) ==
    \E j \in live: /\ j < i /\ Starts(j, "form")
                  /\ \A k \in live: j < k /\ k < i => ~Ends(k, "form")

\* The end of the element that begins at i, or the end of the page.
EndOf(i, live) ==
    LET name      == page[i].name
        balance(j) == Cardinality({k \in live: i <= k /\ k <= j /\ Opens(k, name)})
                      - Cardinality({k \in live: i <= k /\ k <= j /\ Ends(k, name)})
        ends      == {j \in live: j > i /\ balance(j) = 0}
    IN  IF ends = {} THEN Len(page) + 1 ELSE Min(ends)

\* A label for some element: its text names the element.
LabelFor(i) == page[i].name = "label" /\ page[i].for >= 0

\* An element whose text is read for what it says: a label, a message, or a device's tile.
Collects(i) ==
    /\ page[i].token = "start" /\ ~page[i].closed
    /\ \/ LabelFor(i)
       \/ IsFieldError(page[i].id)
       \/ page[i].device >= 0 /\ page[i].name # "input"

\* The messages for rejected fields the page shows: elements with such an id and text to be
\* seen anywhere between their tags, or up to the end of the page if they are never closed.
Messages ==
    LET live == Live
    IN  {i \in live:
            /\ page[i].token = "start" /\ ~page[i].closed /\ IsFieldError(page[i].id)
            /\ \E j \in live: /\ i < j /\ j < EndOf(i, live)
                             /\ page[j].token = "text" /\ page[j].text # Blank}

\* Those that stand by themselves, as both themes put them: closed, no label for a field, and
\* inside no other element whose text is read.
PlainMessages ==
    LET live == Live
    IN  {i \in Messages:
            /\ EndOf(i, live) <= Len(page) /\ ~LabelFor(i)
            /\ \A j \in live: j < i /\ Collects(j) => i >= EndOf(j, live)}

Controls(live) == {i \in live: page[i].token = "start" /\ page[i].name \in {"input", "button"}}

IsKnown == kind \in {"login", "rejected", "code"}

\* A page is recognised only if, of all a browser would show of it, there is one form, every
\* named control is inside it, submits to it, and is on the kind's own list, and no name is
\* there twice but the device choice's (classify.rs: "anything else is Unknown").
RecognisedIsPlain ==
    IsKnown =>
        LET live     == Live
            controls == Controls(live)
            names    == {page[i].field: i \in controls} \ {Absent}
        IN  /\ Cardinality({i \in live: Starts(i, "form")}) = 1
            /\ \A i \in controls: ~page[i].away /\ (page[i].field # Absent => InForm(i, live))
            /\ names \subseteq IF kind = "code" THEN OtpFields ELSE LoginFields
            /\ (IF kind = "code" THEN {"otp"} ELSE {"username", "password"}) \subseteq names
            /\ \A i, j \in controls:
                   i # j /\ page[i].field = page[j].field /\ page[i].field # Absent =>
                       page[i].field = "selectedCredentialId" /\ page[i].kind = "radio"

\* A login page ends the login as rejected only if it shows a message for a rejected field, so
\* no empty wrapper and no message inside a template ends one; and it does if one of the messages
\* it shows is closed and stands in no label, tile or other message: whatever elements are in it
\* or before it, such a refusal is never taken for a fresh page (driver.rs: present).
RefusalIsSeen ==
    /\ kind = "rejected" => Messages # {}
    /\ kind = "login" => PlainMessages = {}

\* The device choice: each device offered is one the form takes, when the page posts a choice
\* at all, and no other is taken (form.rs: "a chosen device must be one the page offers").
OfferedIsTaken ==
    kind = "code" /\ devices # <<>> =>
        LET chosen(id) == <<[name |-> "selectedCredentialId", value |-> id]>>
            tags       == {i \in DOMAIN page: page[i].token = "start"}
            ids        == {page[i].value: i \in tags} \cup {page[i].onclick.id: i \in tags}
        IN  /\ IsInjective(devices) /\ Absent \notin ToSet(devices)
            /\ ValuesOf(form.fields, "selectedCredentialId") # {} =>
                   \A id \in ids: Takes(form, chosen(id)) <=> id \in ToSet(devices)

\* What is posted goes to the site's login-actions address and is what a browser would submit of
\* the page, cut to the charter's Table 2: each answer in its own field, every other field as
\* the page has it; a device posted is the page's own or one it offers.
PostsTheAnswers ==
    submitted # Nothing =>
        LET allowed  == IF kind = "code" THEN OtpPosted ELSE LoginPosted
            submits  == {i \in Controls(Live):
                            /\ page[i].field \in allowed
                            /\ page[i].kind \in {"radio", "checkbox"} => page[i].checked}
            answered == {submitted.answers[i].name: i \in DOMAIN submitted.answers}
            fields   == ToSet(submitted.fields)
        IN  /\ form.action.site = "own" /\ form.action.path = "login-actions"
            /\ Len(submitted.fields) = Cardinality(submits)
            /\ ToSet(submitted.answers) \subseteq fields
            /\ \A field \in fields \ ToSet(submitted.answers):
                   /\ field.name \notin answered
                   /\ \E i \in submits: field = [name |-> page[i].field, value |-> page[i].value]
            /\ \A field \in fields: field.name = "selectedCredentialId" /\ devices # <<>> =>
                   field.value \in ToSet(devices)
=============================================================================
