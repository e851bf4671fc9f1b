----------------------------- MODULE MCPageFetch -----------------------------
EXTENDS Exchange

\* Keycloak, another service on its host, and one that is not HTTPS.
Site(scheme, host, port) == [scheme |-> scheme, host |-> host, port |-> port]
MCOrigins == {Site("https", <<"org", "kc">>, 443), Site("https", <<"org", "kc">>, 8443),
              Site("http", <<"org">>, 80)}

Cookie(name, domain, expiry) == [name |-> name, domain |-> domain, expiry |-> expiry]
MCCookies == {Cookie("session", <<"org", "kc">>, 0), Cookie("session", <<"org", "kc">>, 1),
              Cookie("session", <<"org", "kc">>, 3), Cookie("hint", <<"org">>, 2),
              Cookie("", <<"org">>, 0)}

Reply(status, location, lines, pieces) ==
    [status |-> status, location |-> location, headers |-> lines, body |-> pieces]
MCReplies == {Reply(200, "absent", 2, 2), Reply(200, "absent", 3, 0), Reply(302, "same", 1, 0),
              Reply(302, "absent", 0, 0), Reply(304, "absent", 1, 0), Reply(400, "absent", 0, 3)}

\* A page is asked for, or a form posted with its one header line; the form may be too large.
\* The API posts forms, and asks with an access token, which may hold any character.
Field(bytes, escaped) == [bytes |-> bytes, escaped |-> escaped]
Line(length) == [length |-> length, copied |-> length, control |-> FALSE]
Get == [fields |-> <<>>, lines |-> <<>>]
Post(fields) == [fields |-> fields, lines |-> <<Line(3)>>]

MCPageRequests == {Get, Post(<<Field(1, 1), Field(2, 1)>>), Post(<<Field(5, 0)>>)}
MCApiRequests ==
    {Post(<<Field(1, 1)>>), [fields |-> <<>>, lines |-> <<Line(4), Line(2)>>],
     [fields |-> <<>>, lines |-> <<[length |-> 4, copied |-> 2, control |-> TRUE]>>]}
\* Bound: forms, the API and kept pages come before the first cookie; then pages are fetched and
\* dropped one by one.
Apart ==
    \/ clock = 1 /\ \A origin \in Origins: given[origin] = {} /\ giving = {}
    \/ /\ asking \in {NoRequest, Get} /\ lost = {}
       /\ held \cap Kept # {} => stage \in {"leaving", "idle"}
=============================================================================
