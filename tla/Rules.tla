------------------------------- MODULE Rules -------------------------------
(***************************************************************************)
(* The judgements of the code that keep no state, each put to the cases     *)
(* where it could go wrong: which endpoints, tokens, answers and codes are  *)
(* taken, what PAM would ask, and what the JSON parser reads.  A case is    *)
(* judged once; the properties compare the verdict with what the rule is    *)
(* for.                                                                     *)
(***************************************************************************)
EXTENDS Discovery, IdClaims, Challenges, OneTimeCodes, SensitiveJson

CONSTANTS
    EndpointCases,   \* a configuration, a realm, and an endpoint of that realm
    RequestCases,    \* the query of an authorization endpoint, and a login's request
    ClaimsCases,     \* the claims of a signed token
    Clients, Issuer0, Nonce0,
    AnswerCases,     \* a challenge, and an answer to it
    PlanCases,       \* a challenge
    PageCases,       \* answers to the password page, with or without a login hint
    CodeCases,       \* a secret, a time, a period, a number of digits, and the code typed
    JsonCases,       \* a sequence of tokens, and the value it was written for, if any
    TextCases        \* the characters after an opening quote, and what they were to spell, if any

IsSeq(s) == s \in Seq(ToSet(s))

\* The segment after the realm in every endpoint Keycloak has.
Protocol == "protocol"

\* An endpoint of case.realm: "realms", or what hides it, the realm, and Keycloak's resource path,
\* below a context path.
OfItsRealm(c) ==
    LET path == c.url.path
    IN  \E at \in 1 .. Len(path) - 2:
            /\ IF c.hides THEN path[at] \in Encoded \ {c.config.realm} ELSE path[at] = Realms
            /\ path[at + 1] = c.realm /\ c.realm # Empty /\ path[at + 2] = Protocol
            /\ Settled(path, at + 2)
            /\ c.underRealms <=> at \in AfterRealms(path)

\* A configuration, or an address, that nothing may come of.
Unfit(c) ==
    \/ ~Validate(c.config)
    \/ c.url.scheme # "https" \/ c.url.origin # c.config.server.origin
    \/ c.url.credentials \/ c.url.fragment

ASSUME EndpointCasesAssumption ==
    /\ Encoded \cap {Empty, Realms, Protocol} = {}
    /\ \A c \in EndpointCases:
           /\ IsSeq(c.config.server.path) /\ IsSeq(c.url.path)
           /\ Unfit(c) => c.hides
           /\ ~Unfit(c) => OfItsRealm(c)

\* What a request is made of is valid, or odd.
ASSUME RequestCasesAssumption ==
    \A c \in RequestCases:
        /\ IsSeq(c.query) /\ IsSeq(c.request.scopes)
        /\ c.request.verifier \in PkceVerifiers \cup {"odd"}
        /\ {c.request.state, c.request.nonce} \subseteq RequestTokens \cup {"odd"}
        /\ ToSet(c.request.scopes) \subseteq ScopeTokens \cup {"odd"}

ASSUME ClaimsCasesAssumption ==
    None \notin Clients /\ \A claims \in ClaimsCases: IsSeq(claims.aud.of)

\* A challenge offers something only if it is of a kind to.
ChallengeShape(c) ==
    /\ c.kind \in {"Username", "Password", "RecoveryCode", "Info"} \cup Offers
    /\ IsSeq(c.offered) /\ (c.kind \notin Offers => c.offered = <<>>)

\* An answer has a text, a choice or fields as its kind has them.
AnswerShape(a) ==
    /\ a.kind \notin {"Username", "Password", "OneTimeCode", "RecoveryCode"} => a.text = ""
    /\ a.kind \notin {"OneTimeCode", "WebAuthn", "ChooseMethod"} => a.chosen = NoChoice
    /\ IsSeq(a.given) /\ (a.kind # "RequiredAction" => a.given = <<>>)

ASSUME ChallengeCasesAssumption ==
    /\ \A c \in AnswerCases: ChallengeShape(c.challenge) /\ AnswerShape(c.answer)
    /\ \A c \in PlanCases: ChallengeShape(c)
    /\ \A c \in PageCases: c.hinted \in BOOLEAN /\ IsSeq(c.answers)

\* SHA-1's digests have twenty bytes, the other algorithms' more.
IsDigest(digest) == digest \in Seq(0 .. 255) /\ Len(digest) >= 20

\* Every counter has a digest.
ASSUME CodeCasesAssumption ==
    /\ DOMAIN Hmac \subseteq Nat /\ \A k \in DOMAIN Hmac: IsDigest(Hmac[k])
    /\ \A c \in CodeCases:
           /\ c.time \in Nat /\ c.period \in Nat /\ IsSeq(c.typed)
           /\ c.period # 0 => c.time \div c.period \in DOMAIN Hmac

-----------------------------------------------------------------------------
(* How values, strings and numbers are written *)

\* The number that digits of a base stand for.
Number(base, digits) ==
    LET upto[n \in 0 .. Len(digits)] == IF n = 0 THEN 0 ELSE upto[n - 1] * base + digits[n]
    IN  upto[Len(digits)]

\* All the ways to spell a character inside a string.
SpellingsOf(c) ==
    CASE c = "quote" -> {<<"slash", "quote">>}
      [] c = "slash" -> {<<"slash", "slash">>}
      [] c = "newline" -> {<<"slash", "n">>}
      [] c = "unit" -> {<<"unit">>, <<"slash", "u", "unit">>}
      [] c = "pair" -> {<<"slash", "u", "high", "slash", "u", "low">>}
      [] c \in {"n", "u", "x", "high", "low"} -> {<<c>>}
      [] OTHER -> {}

SpelledOn(texts, c) == {t \o s: t \in texts, s \in SpellingsOf(c)}

Spelled(v) ==
    LET upto[n \in 0 .. Len(v)] == IF n = 0 THEN {<<>>} ELSE SpelledOn(upto[n - 1], v[n])
    IN  upto[Len(v)]

\* The characters of a text, raw ones that no string may hold among them.
Characters == {"quote", "slash", "n", "u", "x", "unit", "high", "low", "control", "bad"}

\* A document without its blanks.
Dense(s) ==
    LET upto[n \in 0 .. Len(s)] ==
            IF n = 0 THEN <<>>
            ELSE IF s[n] = "sp" THEN upto[n - 1] ELSE Append(upto[n - 1], s[n])
    IN  upto[Len(s)]

Followed(row, item, sign) == row \o Append(item, sign)

\* Items, each as text has it, with a sign behind the last and commas behind the others.
Row(items, text, last) ==
    LET Sign(n) == IF n = Len(items) THEN last ELSE "comma"
        upto[n \in 0 .. Len(items)] ==
            IF n = 0 THEN <<>> ELSE Followed(upto[n - 1], text[items[n]], Sign(n))
    IN  upto[Len(items)]

\* Items up to the bracket that closes them.
Listed(items, text, close) == IF items = <<>> THEN <<close>> ELSE Row(items, text, close)

\* A key and a value.
MemberTexts(inner) == [m \in Strings \X DOMAIN inner |-> <<m[1], "colon">> \o inner[m[2]]]

DistinctKeys(members) == IsInjective([i \in DOMAIN members |-> members[i][1]])

\* The values with parts of those that inner writes: no object has a key twice.
ValuesOver(inner) ==
    ({"scalar"} \X (Strings \cup Scalars))
        \cup ({"array"} \X Seq(DOMAIN inner))
        \cup ({"object"} \X {m \in Seq(Strings \X DOMAIN inner): DistinctKeys(m)})

TextOf(inner, v) ==
    CASE v[1] = "scalar" -> <<v[2]>>
      [] v[1] = "array"  -> <<"lbracket">> \o Listed(v[2], inner, "rbracket")
      [] v[1] = "object" -> <<"lbrace">> \o Listed(v[2], MemberTexts(inner), "rbrace")

\* How the values of so many levels are written without blanks.
Writing(levels) ==
    LET text[n \in 0 .. levels] ==
            IF n = 0 THEN [v \in {} |-> <<>>]
            ELSE [v \in ValuesOver(text[n - 1]) |-> TextOf(text[n - 1], v)]
    IN  text[levels]

\* The signs of a document, a blank, and what is behind it.
Signs == {"lbrace", "rbrace", "lbracket", "rbracket", "comma", "colon", "sp", "end"}

\* "end" is no token, and the tokens that stand for themselves are none of the signs.
ASSUME JsonAssumption ==
    /\ MaxDepth \in Nat
    /\ (Strings \cup Scalars) \cap Signs = {}
    /\ \A c \in JsonCases:
           /\ IsSeq(c.text) /\ "end" \notin ToSet(c.text)
           /\ \A v \in c.means \cap DOMAIN Writing(MaxDepth + 1):
                  Writing(MaxDepth + 1)[v] = Dense(c.text)

ASSUME TextAssumption ==
    \A c \in TextCases:
        /\ c.text \in Seq(Characters)
        /\ \A v \in c.means: IsSeq(v) /\ \E t \in Spelled(v): c.text = Append(t, "quote")

VARIABLES rule, case, judged, verdict

ruleVars == <<rule, case, judged, verdict>>

Init ==
    /\ judged = FALSE /\ verdict = {}
    /\ \/ rule = "endpoint" /\ case \in EndpointCases
       \/ rule = "request" /\ case \in RequestCases
       \/ rule = "claims" /\ case \in ClaimsCases
       \/ rule = "answer" /\ case \in AnswerCases
       \/ rule = "plan" /\ case \in PlanCases
       \/ rule = "page" /\ case \in PageCases
       \/ rule = "code" /\ case \in CodeCases
       \/ rule = "json" /\ case \in JsonCases
       \/ rule = "text" /\ case \in TextCases

Judge(r, judgement) ==
    /\ rule = r /\ ~judged /\ judged' = TRUE /\ verdict' = judgement
    /\ UNCHANGED <<rule, case>>

\* The client's configuration is checked, and the endpoint against the issuer it makes.
JudgeEndpoint ==
    Judge("endpoint",
          {Discover([status |-> 200, issuer |-> Issuer(c), endpoints |-> <<case.url>>], Issuer(c)):
           c \in {d \in {case.config}: Validate(d)}})

JudgeRequest == Judge("request", AuthorizationUrl(case.query, case.request))

\* By whom, and when, the token is taken.
JudgeClaims ==
    Judge("claims", {at \in Clients \X Time: ValidateClaims(case, Issuer0, at[1], Nonce0, at[2])})

JudgeAnswer == Judge("answer", {Check(case.challenge, case.answer)})

JudgePlan == Judge("plan", Plans(case))

\* The answers are taken in the order the page asks, and make its fields.
JudgePage ==
    LET asks == PageAsks(case.hinted) IN
    Judge("page", IF Len(case.answers) = Len(asks)
                     /\ \A i \in DOMAIN asks: Check([kind |-> asks[i]], case.answers[i])
                  THEN PageFields(case.answers) ELSE {})

\* A TOTP code is the HOTP code of its period's number.
JudgeCode ==
    Judge("code", VerifyTotp(case.secret, case.time, case.period, case.digits, case.typed))

JudgeJson == Judge("json", Parse(case.text))

JudgeText == Judge("text", String(case.text))

Next ==
    \/ JudgeEndpoint \/ JudgeRequest \/ JudgeClaims \/ JudgeAnswer \/ JudgePlan \/ JudgePage
    \/ JudgeCode \/ JudgeJson \/ JudgeText

Spec == Init /\ [][Next]_ruleVars

-----------------------------------------------------------------------------
(* Properties *)

Judged(r) == rule = r /\ judged

\* A valid configuration takes the endpoints Keycloak has for its realm, however the context paths
\* of the two look, and takes none that Keycloak would serve for another realm, were its path
\* written with "realms" encoded (endpoint, issuer_realm, endpoint_in_realm).  Only what is named
\* "realms" cannot be told: the realm, from a context path that ends in "realms", and its
\* endpoints, from those of a realm "protocol" under such a path.
EndpointInItsRealm ==
    Judged("endpoint") =>
        /\ case.realm = case.config.realm /\ ~case.hides => verdict = {TRUE}
        /\ TRUE \in verdict =>
               \/ case.realm = case.config.realm
               \/ case.config.realm = Realms /\ case.underRealms
               \/ case.realm = Realms /\ case.config.realm = Protocol

\* The address a login starts at asks what the engine will check the answer by: each parameter of
\* its request is there once and with its own value, whatever the endpoint's own query, which is
\* kept, and nothing there replaces the request; a request is only refused for a collision or
\* for a text that has no place in it (authorization_url).
AsksForItself ==
    Judged("request") =>
        LET r == case.request
            named(query, name) == {i \in DOMAIN query: query[i].name = name}
            own == {Param("response_type", <<"code">>), Param("client_id", <<r.client>>),
                    Param("redirect_uri", <<r.redirect>>), Param("state", <<r.state>>),
                    Param("nonce", <<r.nonce>>), Param("code_challenge_method", <<"S256">>),
                    Param("code_challenge", <<"sha256", r.verifier>>)}
                   \cup {Param("login_hint", hint): hint \in {r.hint} \ {NoHint}}
        IN  /\ \A query \in verdict:
                   /\ \A p \in own: \E i \in DOMAIN query: query[i] = p /\ named(query, p.name) = {i}
                   /\ \E i \in named(query, "scope"):
                          /\ named(query, "scope") = {i} /\ IsInjective(query[i].value)
                          /\ ToSet(query[i].value) = ToSet(r.scopes) \cup {"openid"}
                   /\ named(query, "request") = {} /\ named(query, "request_uri") = {}
                   /\ IsPrefix(case.query, query)
            /\ verdict = {} =>
                   \/ \E i \in DOMAIN case.query: case.query[i].name \in Reserved
                   \/ r.verifier = "odd" \/ r.state = "odd" \/ r.nonce = "odd"
                   \/ "odd" \in ToSet(r.scopes)

\* Where a login goes, and what it asks for there, is its own realm's and its own.
LoginGoesToItsRealm == EndpointInItsRealm /\ AsksForItself

\* No token is taken by two clients; one that is taken is taken from then on until it expires, at
\* the end of u64 too, and never after (audience_matches, validate_claims).
TokenForOneClient ==
    Judged("claims") =>
        \A a, b \in verdict:
            /\ a[1] = b[1] /\ a[2] < case.exp
            /\ \A t \in a[2] .. case.exp - 1: <<a[1], t>> \in verdict

\* An answer taken chooses what was offered, and answers each field of a required action once
\* and nothing else, if the page's fields have different names; the answers taken to the
\* password page make its fields, each once (Expect::check, PasswordFactor).
AnswersFit ==
    /\ Judged("answer") /\ TRUE \in verdict =>
           LET offered == case.challenge.offered
               names   == [i \in DOMAIN case.answer.given |-> case.answer.given[i].name]
           IN  /\ offered # <<>> /\ case.challenge.kind # "RequiredAction" =>
                      case.answer.chosen \in ToSet(offered)
               /\ case.challenge.kind = "RequiredAction" /\ IsInjective(offered) =>
                      IsInjective(names) /\ ToSet(names) = ToSet(offered)
    /\ Judged("page") =>
           \A fields \in verdict:
               [i \in DOMAIN fields |-> fields[i].name] =
                   IF case.hinted THEN <<"password">> ELSE <<"username", "password">>

\* What an answer says, part by part.
Part(answer, part) ==
    CASE part = "text" -> {answer.text}
      [] part = "chosen" -> {answer.chosen}
      [] OTHER -> {answer.given[i].value: i \in Answers(answer, part)}

Taken(challenge) ==
    {c.answer: c \in {d \in AnswerCases: d.challenge = challenge /\ Check(challenge, d.answer)}}

\* What the user is to be asked for: the text of an answer that has one, a device if there are
\* several, a method even if there is one, and each field of a required action.
Wanted(challenge) ==
    CASE challenge.kind \in {"Username", "Password", "RecoveryCode"} -> {"text"}
      [] challenge.kind = "OneTimeCode" ->
             IF Len(challenge.offered) > 1 THEN {"text", "chosen"} ELSE {"text"}
      [] challenge.kind = "ChooseMethod" -> {"chosen"}
      [] challenge.kind = "RequiredAction" -> ToSet(challenge.offered)
      [] challenge.kind \in {"Info", "WebAuthn"} -> {}

\* PAM asks for what the user is to be asked for and for nothing else, for nothing twice if the
\* fields have different names; that tells every answer the engine takes from every other; it
\* echoes exactly what Challenge::input and Field::secret call visible; and no challenge that can
\* be answered is refused, but for a NUL in what Keycloak sent (conversation.rs: plan, checked).
PlanSuffices ==
    Judged("plan") =>
        /\ \A plan \in verdict:
               LET asks  == {i \in DOMAIN plan.messages: plan.messages[i] \notin ToSet(Tell)}
                   asked == {plan.messages[i]: i \in asks}
                   parts == {m.part: m \in asked}
               IN  /\ parts = Wanted(case)
                   /\ IsInjective(case.offered) =>
                          \A i, j \in asks: plan.messages[i].part = plan.messages[j].part => i = j
                   /\ plan.next = "CollectInput" <=> parts # {}
                   /\ plan.next # "WebAuthnAdapter" =>
                          \A a, b \in Taken(case):
                              \A p \in {"text", "chosen"} \cup ToSet(case.offered):
                                  Part(a, p) # Part(b, p) => p \in parts
                   /\ \A m \in asked:
                          m.style = "HiddenInput" <=>
                              \/ Input(case) = "Hidden" /\ m.part = "text"
                              \/ Input(case) = "Form" /\ m.part \in case.secret
        /\ verdict = {} => Taken(case) = {} \/ case.nul

\* A typed code is taken exactly when it is as many digits as the credential has, and these are
\* the last digits of the 31-bit number in the digest of the period the clock is in: no shorter
\* or longer code, no other period's (hotp, totp, constant_time_eq).
CodeIsItsDigits ==
    Judged("code") =>
        /\ verdict = {} <=>
               case.period = 0 \/ case.secret.length < MinSecret \/ case.digits \notin 6 .. 8
        /\ TRUE \in verdict <=>
               /\ verdict # {}
               /\ Len(case.typed) = case.digits /\ ToSet(case.typed) \subseteq 0 .. 9
               /\ \E k \in DOMAIN Hmac:
                      /\ k * case.period <= case.time /\ case.time < (k + 1) * case.period
                      /\ LET at    == Hmac[k][Len(Hmac[k])] % 16
                             bytes == SubSeq(Hmac[k], at + 1, at + 4)
                         IN  Number(256, <<bytes[1] % 128>> \o Tail(bytes)) % 10^case.digits
                                 = Number(10, case.typed)

\* A document is read as the value it writes, blanks or no, if no object in it has a key twice and
\* nothing is nested deeper than MaxDepth, and no other document is read (parse, object, array).
DocumentIsItsValue ==
    Judged("json") =>
        LET writing == Writing(MaxDepth + 1) IN
        /\ \A v \in verdict: v \in DOMAIN writing /\ writing[v] = Dense(case.text)
        /\ \A v \in case.means: v \in DOMAIN writing => verdict = {v}

\* A string is read as the characters it spells, up to its own closing quote, and no other text is
\* (string, hex4).
StringIsItsCharacters ==
    Judged("text") =>
        /\ \A r \in verdict:
               /\ case.text[r.next - 1] = "quote"
               /\ SubSeq(case.text, 1, r.next - 2) \in Spelled(r.value)
        /\ \A v \in case.means: verdict = {[value |-> v, next |-> Len(case.text) + 1]}

\* What decides over a secret is read as it was written, to the end, and as nothing else: codes,
\* documents and strings (hotp, constant_time_eq, parse, string).
ReadsAsWritten == CodeIsItsDigits /\ DocumentIsItsValue /\ StringIsItsCharacters
=============================================================================
