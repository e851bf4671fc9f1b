------------------------------ MODULE MCRules ------------------------------
(***************************************************************************)
(* The cases: for each rule all combinations of what it tells apart, and    *)
(* for the two parsers texts that are right and those one edit away.        *)
(***************************************************************************)
EXTENDS Rules

Put(s, i, t) == SubSeq(s, 1, i) \o <<t>> \o SubSeq(s, i + 1, Len(s))
Edits(s, ts) == {s} \cup {Put(s, i, t): i \in 0 .. Len(s), t \in ts} \cup {RemoveAt(s, i): i \in DOMAIN s}
                \cup {ReplaceAt(s, i, t): i \in DOMAIN s, t \in ts}

MCEncoded == {"%72ealms", "my%20realm"}

Contexts == {<<>>, <<"a">>, <<"realms">>, <<"realms", "test">>, <<"realms", "other">>, <<"a", "">>,
             <<"realms", "">>, <<"realms", "test", "a">>}
Server(path) == [scheme |-> "https", origin |-> "k", credentials |-> FALSE, query |-> FALSE,
                 fragment |-> FALSE, path |-> path]
Config0(path, realm) ==
    [server |-> Server(path), realm |-> realm, client |-> "c", timeout |-> 15,
     redirect |-> [query |-> FALSE, fragment |-> FALSE]]
RealmNames == {"test", "other", "realms", "my%20realm", "protocol"}
MCEndpointCases ==
    {[config |-> Config0(a, r), realm |-> q, hides |-> h, underRealms |-> Len(b) + 1 \in AfterRealms(Append(b, "x")),
      url |-> Server(b \o <<IF h THEN "%72ealms" ELSE "realms", q, "protocol", "token">>)]:
     a \in Contexts, b \in Contexts, r \in RealmNames, q \in RealmNames, h \in BOOLEAN}
    \cup
    {[config |-> [Config0(<<>>, "test") EXCEPT !.server[f] = TRUE], realm |-> "none", hides |-> TRUE,
      underRealms |-> FALSE, url |-> Server(<<"realms", "test", "token">>)]:
     f \in {"credentials", "query", "fragment"}}
    \cup
    {[config |-> Config0(<<>>, "test"), realm |-> "none", hides |-> TRUE, underRealms |-> FALSE,
      url |-> u]:
     u \in {[Server(<<"realms", "test", "token">>) EXCEPT !.origin = "elsewhere"],
            [Server(<<"realms", "test", "token">>) EXCEPT !.scheme = "http"],
            [Server(<<"realms", "test", "token">>) EXCEPT !.credentials = TRUE],
            [Server(<<"realms", "test", "token">>) EXCEPT !.fragment = TRUE]}}

Odd == "odd"
Request0 == [client |-> "c", redirect |-> "app", scopes |-> <<>>, hint |-> NoHint, verifier |-> "v",
             state |-> "s", nonce |-> "n"]
MCRequestCases ==
    [query: {<<>>} \cup {<<Param("ui_locales", <<"de">>), Param(name, <<"x">>)>>:
                          name \in Reserved \cup {"ui_locales", "prompt"}},
     request: {[Request0 EXCEPT !.scopes = scopes, !.hint = hint]:
               hint \in {NoHint, <<"alice">>},
               scopes \in UNION {[1 .. k -> {"openid", "email", "roles", Odd}]: k \in 0 .. 3}}
              \cup {[Request0 EXCEPT ![f] = Odd]: f \in {"verifier", "state", "nonce"}}]

MCClients == {"c1", "c2"}
Audiences ==
    {[kind |-> "none", of |-> <<>>]} \cup {[kind |-> "one", of |-> <<c>>]: c \in {"c1", "api"}}
    \cup {[kind |-> "many", of |-> s]:
          s \in UNION {[1 .. n -> {"c1", "c2", "api", NotText}]: n \in 0 .. 2}}
Claims0 == [iss |-> "i", aud |-> [kind |-> "one", of |-> <<"c1">>], azp |-> None, exp |-> 3,
            nbf |-> NoTime, iat |-> 0, nonce |-> "n", sub |-> "u"]
MCClaimsCases ==
    {[Claims0 EXCEPT !.aud = a, !.azp = z]: a \in Audiences, z \in {None, NotText, "c1", "c2"}}
    \cup {[Claims0 EXCEPT !.exp = e, !.nbf = b, !.iat = i]:
          e \in 0 .. BadTime, b \in 0 .. BadTime, i \in 0 .. BadTime}
    \cup {[Claims0 EXCEPT ![f] = v]: f \in {"iss", "nonce", "sub"}, v \in {None, NotText, "", "i", "n"}}

Names == {"a", "b"}
Upto(n, set) == UNION {[1 .. k -> set]: k \in 0 .. n}
Plain(kind) == [kind |-> kind, offered |-> <<>>, secret |-> {}, told |-> FALSE, nul |-> FALSE]
MCPlanCases ==
    {Plain(k): k \in {"Username", "Password", "RecoveryCode", "Info"}}
    \cup {[Plain("Info") EXCEPT !.nul = TRUE]}
    \cup {[Plain(k) EXCEPT !.offered = o, !.nul = n]:
          k \in {"OneTimeCode", "ChooseMethod"}, o \in {s \in Upto(2, Names): IsInjective(s)}, n \in BOOLEAN}
    \cup {[Plain("WebAuthn") EXCEPT !.offered = o]: o \in Upto(2, Names)}
    \cup {[Plain("RequiredAction") EXCEPT !.offered = o, !.secret = s, !.told = t]:
          o \in Upto(2, Names), s \in SUBSET Names, t \in BOOLEAN}
Reply(kind) == [kind |-> kind, text |-> "", chosen |-> NoChoice, given |-> <<>>]
MCAnswers ==
    {[Reply(k) EXCEPT !.text = t]: k \in {"Username", "Password", "RecoveryCode"}, t \in {"x", "y"}}
    \cup {[Reply("OneTimeCode") EXCEPT !.text = t, !.chosen = c]:
          t \in {"x", "y"}, c \in Names \cup {"c", NoChoice}}
    \cup {[Reply(k) EXCEPT !.chosen = c]: k \in {"WebAuthn", "ChooseMethod"}, c \in Names \cup {"c"}}
    \cup {[Reply("RequiredAction") EXCEPT !.given = g]:
          g \in Upto(2, [name: Names, value: {"x", "y"}]) \cup [1 .. 3 -> [name: Names, value: {"x"}]]}
    \cup {Reply("Acknowledge")}
MCAnswerCases == [challenge: MCPlanCases, answer: MCAnswers]
MCPageCases ==
    [hinted: BOOLEAN, answers: Upto(3, {[Reply(k) EXCEPT !.text = "x"]: k \in {"Username", "Password", "RecoveryCode"}})]

\* Digests of RFC 4226's test secret, and one whose number is 1042.
MCHmac ==
    LET rfc0 == <<204, 147, 207, 24, 80, 141, 148, 147, 76, 100, 182, 93, 139, 167, 102, 127, 183, 205, 228, 176>>
        rfc1 == <<117, 164, 138, 25, 212, 203, 225, 0, 100, 78, 138, 193, 57, 126, 234, 116, 122, 45, 51, 171>>
        few  == <<1, 2, 128, 0, 4, 18, 7, 8, 9, 10, 11, 12, 13, 14, 15, 16, 17, 18, 19, 98>>
    IN  [k \in 0 .. 7 |-> CASE k = 0 -> rfc0 [] k \in {1, 3} -> rfc1 [] k > 3 \/ k = 2 -> few]
Typed == {<<7, 5, 5, 2, 2, 4>>, <<8, 4, 7, 5, 5, 2, 2, 4>>, <<2, 8, 7, 0, 8, 2>>, <<4, 2, 8, 7, 0, 8, 2>>,
          <<9, 4, 2, 8, 7, 0, 8, 2>>, <<0, 0, 1, 0, 4, 2>>, <<1, 0, 4, 2>>, <<0, 0, 0, 0, 1, 0, 4, 2>>}
MCCodeCases ==
    [secret: {[length |-> 16]}, time: 0 .. 7, period: {2, 3}, digits: 6 .. 8,
     typed: UNION {Edits(t, {0, 7}): t \in Typed}]
    \cup [secret: {[length |-> 15], [length |-> 16]}, time: {0, 5}, period: 0 .. 1, digits: 5 .. 9, typed: Typed]

Leaves == {<<"scalar", "k">>, <<"scalar", "1">>, <<"array", <<>>>>, <<"object", <<>>>>}
Few == {<<"scalar", "k">>, <<"array", <<>>>>}
Arrays(vs) == {<<"array", s>>: s \in Upto(2, vs)}
Objects(vs) ==
    {<<"object", s>>: s \in {m \in Upto(2, {"k", "l"} \X vs): IsInjective([i \in DOMAIN m |-> m[i][1]])}}
Nested == {<<"array", <<v>>>>: v \in Arrays(Few)} \cup {<<"object", <<<<"k", v>>>>>>: v \in Objects(Few)}
\* Some are nested deeper than MaxDepth.
Write(v) == Writing(MaxDepth + 2)[v]
MCTrees == Leaves \cup Arrays(Leaves) \cup Objects(Leaves) \cup Nested
Alone(texts) == {[text |-> t, means |-> {}]: t \in texts}
MCJsonCases ==
    {[text |-> Write(v), means |-> {v}]: v \in MCTrees}
    \cup UNION {{[text |-> Put(Write(v), i, "sp"), means |-> {v}]: i \in 0 .. Len(Write(v))}: v \in MCTrees}
    \cup Alone(UNION {Edits(Write(v), {"lbrace", "rbrace", "lbracket", "rbracket", "colon", "comma", "k", "sp"}):
                      v \in Leaves \cup Nested \cup Arrays(Few) \cup Objects(Few)})

Units == {<<<<c>>, c>>: c \in {"n", "u", "x", "unit", "high", "low"}}
         \cup {<<<<"slash", e>>, Escapes[e]>>: e \in DOMAIN Escapes}
         \cup {<<<<"slash", "u", "unit">>, "unit">>,
               <<<<"slash", "u", "high", "slash", "u", "low">>, "pair">>}
SpelledOut(us) == Append(FlattenSeq([i \in DOMAIN us |-> us[i][1]]), "quote")
Means(us) == [i \in DOMAIN us |-> us[i][2]]
MCTextCases ==
    {[text |-> SpelledOut(us), means |-> {Means(us)}]: us \in Upto(3, Units)}
    \cup Alone({Append(s, "quote"):
                s \in Upto(3, {"quote", "slash", "u", "n", "x", "control", "bad", "unit", "low"})})
    \cup Alone(UNION {Edits(SpelledOut(us), {"quote", "slash", "u", "x", "high", "low", "control"}):
                      us \in Upto(2, Units)})
=============================================================================
