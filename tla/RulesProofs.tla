---------------------------- MODULE RulesProofs ----------------------------
(***************************************************************************)
(* What the rules without state promise for every input: an endpoint is one *)
(* realm's, an authorization request asks for each thing once, a token is   *)
(* one client's until it expires, an answer taken fits its challenge, PAM   *)
(* asks for what an answer needs, and a code, a string and a document are   *)
(* read as what they say, in whole; and that the counters of the second     *)
(* factors count what they handed out or took, whatever the width of the    *)
(* integers, the codes and the requests.                                    *)
(***************************************************************************)
EXTENDS Rules, SecondFactors, FiniteSetTheorems, SequenceTheorems, WellFoundedInduction, TLAPS

-----------------------------------------------------------------------------
(* Counting *)

\* A set of numbers has a least one.
LEMMA LeastOfAll ==
    ASSUME NEW T \in SUBSET Nat, T # {}
    PROVE  \E m \in T: \A k \in T: m <= k
<1> DEFINE below == {p \in Nat \X Nat: p[1] < p[2]}
<1>1. IsWellFoundedOn(below, Nat)
    BY NatLessThanWellFounded, Zenon DEF OpToRel
<1>2. PICK m \in T: \A k \in T: ~(<<k, m>> \in below)
    BY <1>1, WFMin
<1>3. ASSUME NEW k \in T PROVE m <= k
    <2>1. <<k, m>> \in Nat \X Nat /\ <<k, m>>[1] = k /\ <<k, m>>[2] = m
        OBVIOUS
    <2>2. ~(k < m)
        BY <1>2, <2>1
    <2> QED
        BY <2>2
<1> QED
    BY <1>3

\* Induction up to a number, over the numbers of a set.
LEMMA UpTo ==
    ASSUME NEW N \in Nat, NEW G, 0 \in G, \A n \in 1..N: n - 1 \in G => n \in G
    PROVE  \A n \in 0..N: n \in G
<1> DEFINE bad == {n \in 0..N: n \notin G}
<1>1. ASSUME bad # {} PROVE FALSE
    <2>1. bad \in SUBSET Nat
        OBVIOUS
    <2>2. PICK n \in bad: \A k \in bad: n <= k
        <3> HIDE DEF bad
        <3> QED
            BY <1>1, <2>1, LeastOfAll
    <2>3. n \in 1..N /\ n - 1 \in 0..N /\ ~(n <= n - 1)
        OBVIOUS
    <2>4. n - 1 \notin bad
        BY <2>2, <2>3
    <2> QED
        BY <2>3, <2>4
<1> QED
    BY <1>1

\* A value can be stepped on from for as long as there are steps.
LEMMA StepsOn ==
    ASSUME NEW T, NEW base \in T, NEW N \in Nat, NEW step \in [1..N -> [T -> T]]
    PROVE  \E f \in [0..N -> T]: f[0] = base /\ \A n \in 1..N: f[n] = step[n][f[n - 1]]
<1> DEFINE steps(f, n) == /\ f \in [0..n -> T] /\ f[0] = base
                          /\ \A i \in 1..n: f[i] = step[i][f[i - 1]]
           bad == {n \in 0..N: ~\E f: steps(f, n)}
<1>1. ASSUME NEW n \in bad, \A k \in bad: n <= k PROVE FALSE
    <2>1. CASE n = 0
        <3>1. steps([i \in 0..0 |-> base], 0)
            OBVIOUS
        <3> QED
            BY <2>1, <3>1
    <2>2. CASE n # 0
        <3>1. n \in 1..N /\ n - 1 \in 0..N
            BY <2>2
        <3>2. n - 1 \notin bad
            <4> HIDE DEF bad
            <4> QED
                BY <1>1, <3>1
        <3>3. PICK f: steps(f, n - 1)
            BY <3>1, <3>2
        <3> DEFINE g == [i \in 0..n |-> IF i = n THEN step[n][f[n - 1]] ELSE f[i]]
        <3>4. step[n][f[n - 1]] \in T
            BY <3>1, <3>3
        <3>5. \A i \in 0..n: i # n => i \in 0..(n - 1)
            BY <3>1
        <3>6. g \in [0..n -> T]
            BY <3>3, <3>4, <3>5
        <3>7. g[0] = base
            BY <3>1, <3>3
        <3>8. ASSUME NEW i \in 1..n PROVE g[i] = step[i][g[i - 1]]
            <4>1. i \in 0..n /\ i - 1 \in 0..n /\ i - 1 # n
                BY <3>1
            <4>2. g[i - 1] = f[i - 1]
                BY <4>1
            <4>3. CASE i = n
                BY <4>1, <4>2, <4>3
            <4>4. CASE i # n
                <5>1. i \in 1..(n - 1) /\ g[i] = f[i]
                    BY <3>1, <4>1, <4>4
                <5>2. f[i] = step[i][f[i - 1]]
                    BY <3>3, <5>1
                <5> QED
                    BY <4>2, <5>1, <5>2
            <4> QED
                BY <4>3, <4>4
        <3>9. steps(g, n)
            <4> HIDE DEF g
            <4> QED
                BY <3>6, <3>7, <3>8
        <3> QED
            BY <3>9
    <2> QED
        BY <2>1, <2>2
<1>2. bad = {}
    <2>1. bad \in SUBSET Nat
        OBVIOUS
    <2> HIDE DEF bad
    <2> QED
        BY <1>1, <2>1, LeastOfAll
<1>3. N \in 0..N /\ N \notin bad
    BY <1>2
<1>4. PICK f: steps(f, N)
    BY <1>3
<1> QED
    BY <1>4

-----------------------------------------------------------------------------
(* The endpoints of a realm *)

\* After a settled pair no other follows (token.rs, endpoint_in_realm).
LEMMA SettledIsLast ==
    ASSUME NEW S, NEW path \in Seq(S), NEW r, r # Realms, NEW at \in Pairs(path, r),
           Settled(path, at), NEW p \in AfterRealms(path)
    PROVE  p <= at
<1>1. /\ at \in DOMAIN path /\ path[at] = r /\ path[at] # Empty /\ p \in DOMAIN path
      /\ Len(path) \in Nat /\ DOMAIN path = 1..Len(path)
    BY DEF Pairs, AfterRealms
<1>2. PICK i \in 1 .. p - 1: path[i] = Realms /\ \A k \in i + 1 .. p - 1: path[k] = Empty
    BY DEF AfterRealms
<1>3. SUFFICES ASSUME at < p PROVE FALSE
    BY <1>1
<1>4. i # at
    BY <1>1, <1>2
<1>5. ~(at < i)
    <2>1. SUFFICES ASSUME at < i PROVE FALSE
        OBVIOUS
    <2>2. i \in at + 1 .. Len(path)
        BY <1>1, <1>2, <2>1
    <2> QED
        BY <1>2, <2>2 DEF Settled
<1>6. ~(i < at)
    <2>1. SUFFICES ASSUME i < at PROVE FALSE
        OBVIOUS
    <2>2. at \in i + 1 .. p - 1
        BY <1>1, <1>2, <1>3, <2>1
    <2> QED
        BY <1>1, <1>2, <2>2
<1> QED
    BY <1>1, <1>2, <1>4, <1>5, <1>6

\* No endpoint path is taken for two realms, unless one of them is named "realms" (token.rs,
\* endpoint_in_realm): whatever the context path, and wherever the realms stand in it.
THEOREM EndpointOfOneRealm ==
    ASSUME NEW S, NEW path \in Seq(S), NEW r, NEW q, r # Realms, q # Realms,
           EndpointInRealm(path, r), EndpointInRealm(path, q)
    PROVE  r = q
<1>1. PICK a \in Pairs(path, r): Settled(path, a)
    BY DEF EndpointInRealm
<1>2. PICK b \in Pairs(path, q): Settled(path, b)
    BY DEF EndpointInRealm
<1>3. /\ a \in AfterRealms(path) /\ path[a] = r /\ b \in AfterRealms(path) /\ path[b] = q
      /\ a \in Nat /\ b \in Nat
    BY DEF Pairs, AfterRealms
<1>4. a <= b /\ b <= a
    BY <1>1, <1>2, <1>3, SettledIsLast
<1> QED
    BY <1>3, <1>4

\* The issuer a configuration makes names its realm, and no other (config.rs, Config::issuer).
LEMMA IssuerNamesItsRealm ==
    ASSUME NEW config, Validate(config), IsSeq(config.server.path)
    PROVE  IssuerRealm(Issuer(config).path) = {config.realm}
<1> DEFINE own  == config.server.path
           S    == ToSet(own) \cup {Realms, config.realm}
           base == IF own # <<>> /\ Last(own) = Empty THEN Front(own) ELSE own
           path == base \o <<Realms, config.realm>>
           n    == Len(base)
<1>1. own \in Seq(S)
    BY DEF IsSeq
<1>2. base \in Seq(S)
    <2>1. own # <<>> => Front(own) \in Seq(S)
        <3> HIDE DEF S, own
        <3> QED
            BY <1>1 DEF Front
    <2> QED
        BY <1>1, <2>1
<1>3. <<Realms, config.realm>> \in Seq(S)
    OBVIOUS
<1> HIDE DEF base, S
<1>4. /\ path \in Seq(S) /\ n \in Nat /\ Len(path) = n + 2 /\ DOMAIN path = 1..(n + 2)
      /\ path[n + 1] = Realms /\ path[n + 2] = config.realm
    BY <1>2, <1>3
<1>5. config.realm # Empty
    BY DEF Validate
<1>6. Issuer(config).path = path
    <2>1. Issuer(config) = [config.server EXCEPT !.path = path]
        BY DEF Issuer, path, base
    <2> QED
        BY <2>1
<1> HIDE DEF path, n
<1>7. n + 2 \in AfterRealms(path)
    <2>1. n + 1 \in 1 .. (n + 2) - 1 /\ \A k \in (n + 1) + 1 .. (n + 2) - 1: path[k] = Empty
        BY <1>4
    <2> QED
        BY <1>4, <1>5, <2>1 DEF AfterRealms
<1>8. ASSUME NEW at \in AfterRealms(path)
      PROVE  (\A k \in at + 1 .. Len(path): path[k] = Empty) <=> at = n + 2
    <2>1. at \in 1..(n + 2)
        BY <1>4 DEF AfterRealms
    <2>2. ASSUME at # n + 2 PROVE n + 2 \in at + 1 .. Len(path)
        BY <1>4, <2>1, <2>2
    <2>3. ASSUME at = n + 2 PROVE \A k \in at + 1 .. Len(path): path[k] = Empty
        BY <1>4, <2>3
    <2> QED
        BY <1>4, <1>5, <2>2, <2>3
<1>9. {at \in AfterRealms(path): \A k \in at + 1 .. Len(path): path[k] = Empty} = {n + 2}
    BY <1>7, <1>8
<1> QED
    BY <1>4, <1>6, <1>9 DEF IssuerRealm

\* Keycloak's endpoints of a realm are taken for it (token.rs, endpoint_in_realm).
LEMMA OwnEndpointTaken ==
    ASSUME NEW c, IsSeq(c.url.path), OfItsRealm(c), ~c.hides, Protocol \notin Encoded
    PROVE  EndpointInRealm(c.url.path, c.realm)
<1> DEFINE path == c.url.path
<1>1. PICK at \in 1 .. Len(path) - 2:
          /\ path[at] = Realms /\ path[at + 1] = c.realm /\ c.realm # Empty
          /\ path[at + 2] = Protocol /\ Settled(path, at + 2)
    BY DEF OfItsRealm
<1>2. Len(path) \in Nat /\ DOMAIN path = 1..Len(path)
    BY DEF IsSeq
<1> HIDE DEF path
<1>3. at + 1 \in DOMAIN path /\ at + 2 \in DOMAIN path
    BY <1>1, <1>2
<1>4. at + 1 \in Pairs(path, c.realm)
    <2>1. at \in 1 .. (at + 1) - 1 /\ \A k \in at + 1 .. (at + 1) - 1: path[k] = Empty
        BY <1>1, <1>2
    <2> QED
        BY <1>1, <1>3, <2>1 DEF AfterRealms, Pairs
<1>5. Protocol # Realms /\ Protocol # Empty
    BY Zenon DEF Protocol, Realms, Empty
<1>6. Settled(path, at + 1)
    <2>1. \A k \in (at + 1) + 1 .. Len(path): k = at + 2 \/ k \in (at + 2) + 1 .. Len(path)
        BY <1>1, <1>2
    <2> QED
        BY <1>1, <1>5, <2>1 DEF Settled
<1>7. ASSUME NEW p \in Pairs(path, c.realm) PROVE p <= at + 1
    <2>1. p \in AfterRealms(path) /\ path[p] = c.realm /\ p \in 1..Len(path)
        BY <1>2 DEF Pairs, AfterRealms
    <2>2. PICK i \in 1 .. p - 1: path[i] = Realms /\ \A k \in i + 1 .. p - 1: path[k] = Empty
        BY <2>1 DEF AfterRealms
    <2>3. SUFFICES ASSUME at + 1 < p PROVE FALSE
        BY <1>1, <1>2, <2>1
    <2>4. ~(at + 1 < i)
        <3>1. at + 1 < i => i \in (at + 1) + 1 .. Len(path)
            BY <1>1, <1>2, <2>1, <2>2
        <3> QED
            BY <1>6, <2>2, <3>1 DEF Settled
    <2>5. ~(i < at + 1)
        <3>1. i < at + 1 => at + 1 \in i + 1 .. p - 1
            BY <1>1, <1>2, <2>1, <2>2, <2>3
        <3> QED
            BY <1>1, <2>2, <3>1
    <2>6. i = at + 1
        BY <1>1, <1>2, <2>1, <2>2, <2>4, <2>5
    <2>7. p = at + 2
        <3>1. at + 2 < p => at + 2 \in i + 1 .. p - 1
            BY <1>1, <1>2, <2>1, <2>6
        <3>2. ~(at + 2 < p)
            BY <1>1, <1>5, <2>2, <3>1
        <3> QED
            BY <1>1, <1>2, <2>1, <2>3, <3>2
    <2> QED
        BY <1>1, <1>5, <2>1, <2>2, <2>6, <2>7
<1> QED
    BY <1>4, <1>6, <1>7 DEF EndpointInRealm, path

\* What is taken for a realm is of that realm, but for what is named "realms" (token.rs,
\* endpoint_in_realm).
LEMMA TakenIsOfItsRealm ==
    ASSUME NEW c, IsSeq(c.url.path), OfItsRealm(c), EndpointInRealm(c.url.path, c.config.realm),
           Encoded \cap {Empty, Realms, Protocol} = {}
    PROVE  \/ c.realm = c.config.realm
           \/ c.config.realm = Realms /\ c.underRealms
           \/ c.realm = Realms /\ c.config.realm = Protocol
<1> DEFINE path == c.url.path
           own  == c.config.realm
<1>1. PICK at \in 1 .. Len(path) - 2:
          /\ IF c.hides THEN path[at] \in Encoded \ {own} ELSE path[at] = Realms
          /\ path[at + 1] = c.realm /\ c.realm # Empty
          /\ path[at + 2] = Protocol /\ Settled(path, at + 2)
          /\ c.underRealms <=> at \in AfterRealms(path)
    BY DEF OfItsRealm
<1>2. Len(path) \in Nat /\ DOMAIN path = 1..Len(path)
    BY DEF IsSeq
<1>3. PICK p \in Pairs(path, own): Settled(path, p)
    BY DEF EndpointInRealm
<1> HIDE DEF path, own
<1>4. p \in AfterRealms(path) /\ path[p] = own /\ p \in 1..Len(path)
    BY <1>2 DEF Pairs, AfterRealms
<1>5. PICK i \in 1 .. p - 1: path[i] = Realms /\ \A k \in i + 1 .. p - 1: path[k] = Empty
    BY <1>4 DEF AfterRealms
<1>6. Protocol # Realms /\ Protocol # Empty
    BY Zenon DEF Protocol, Realms, Empty
<1>7. ~(p < at)
    <2>1. p < at => at \in p + 1 .. Len(path)
        BY <1>1, <1>2, <1>4
    <2> QED
        BY <1>1, <1>3, <2>1 DEF Settled
<1>8. CASE p = at
    BY <1>1, <1>4, <1>8 DEF own
<1>9. CASE p = at + 1
    BY <1>1, <1>4, <1>9 DEF own
<1>10. CASE at + 1 < p
    <2>1. ~(i < at + 1)
        <3>1. i < at + 1 => at + 1 \in i + 1 .. p - 1
            BY <1>1, <1>2, <1>4, <1>5, <1>10
        <3> QED
            BY <1>1, <1>5, <3>1
    <2>2. ~(at + 1 < i)
        <3>1. at + 1 < i => i = at + 2 \/ i \in (at + 2) + 1 .. Len(path)
            BY <1>1, <1>2, <1>4, <1>5
        <3> QED
            BY <1>1, <1>5, <1>6, <3>1 DEF Settled
    <2>3. i = at + 1
        BY <1>1, <1>2, <1>4, <1>5, <2>1, <2>2
    <2>4. p = at + 2
        <3>1. at + 2 < p => at + 2 \in i + 1 .. p - 1
            BY <1>1, <1>2, <1>4, <2>3
        <3>2. ~(at + 2 < p)
            BY <1>1, <1>5, <1>6, <3>1
        <3> QED
            BY <1>1, <1>2, <1>4, <1>10, <3>2
    <2> QED
        BY <1>1, <1>4, <1>5, <2>3, <2>4 DEF own
<1> QED
    BY <1>1, <1>2, <1>4, <1>7, <1>8, <1>9, <1>10

-----------------------------------------------------------------------------
(* The authorization request *)

\* The scopes asked for are each asked once, and "openid" with them (token.rs, authorization_url).
LEMMA ScopesOnce ==
    ASSUME NEW S, NEW asked \in Seq(S)
    PROVE  /\ IsInjective(Scopes(asked))
           /\ ToSet(Scopes(asked)) = ToSet(asked) \cup {"openid"}
<1> DEFINE T == S \cup {"openid"}
           N == Len(asked)
           add(s, x) == IF x \in ToSet(s) THEN s ELSE Append(s, x)
           next(f, n) == IF n = 0 THEN <<"openid">> ELSE add(f[n - 1], asked[n])
           kept == CHOOSE f: f = [n \in 0..N |-> next(f, n)]
           step == [n \in 1..N |-> [s \in Seq(T) |-> add(s, asked[n])]]
<1>1. N \in Nat /\ \A n \in 1..N: asked[n] \in T
    OBVIOUS
<1>2. <<"openid">> \in Seq(T)
    OBVIOUS
<1> HIDE DEF T
<1>3. ASSUME NEW s \in Seq(T), NEW x \in T PROVE add(s, x) \in Seq(T)
    OBVIOUS
<1>4. step \in [1..N -> [Seq(T) -> Seq(T)]]
    BY <1>1, <1>3
<1>5. PICK f \in [0..N -> Seq(T)]:
          f[0] = <<"openid">> /\ \A n \in 1..N: f[n] = step[n][f[n - 1]]
    <2> DEFINE V == Seq(T)
               first == <<"openid">>
    <2>1. first \in V /\ N \in Nat /\ step \in [1..N -> [V -> V]]
        BY <1>1, <1>2, <1>4
    <2> HIDE DEF step, N, V, first
    <2>2. \E f \in [0..N -> V]: f[0] = first /\ \A n \in 1..N: f[n] = step[n][f[n - 1]]
        BY <2>1, StepsOn
    <2> QED
        BY <2>2 DEF V, first
<1>6. ASSUME NEW n \in 0..N PROVE f[n] = next(f, n)
    <2>1. n # 0 => n \in 1..N /\ n - 1 \in 0..N
        BY <1>1
    <2>2. n # 0 => f[n] = step[n][f[n - 1]] /\ f[n - 1] \in Seq(T)
        BY <1>5, <2>1
    <2>3. n # 0 => step[n][f[n - 1]] = add(f[n - 1], asked[n])
        <3> HIDE DEF add
        <3> QED
            BY <2>1, <2>2
    <2> HIDE DEF add, step
    <2> QED
        BY <1>5, <2>2, <2>3
<1>7. f = [n \in 0..N |-> next(f, n)]
    <2> HIDE DEF next
    <2>1. f = [n \in 0..N |-> f[n]]
        BY <1>5
    <2> QED
        BY <1>6, <2>1
<1>8. kept = [n \in 0..N |-> next(kept, n)]
    BY <1>7
<1>9. Scopes(asked) = kept[N]
    BY DEF Scopes
<1> HIDE DEF kept
<1>10. ASSUME NEW n \in 0..N PROVE kept[n] = next(kept, n)
    <2> HIDE DEF next
    <2> QED
        BY <1>8
<1> DEFINE upto(n) == {asked[k]: k \in 1..n} \cup {"openid"}
           good(n) == /\ kept[n] \in Seq(T) /\ IsInjective(kept[n])
                      /\ ToSet(kept[n]) = upto(n)
           bad == {n \in 0..N: ~good(n)}
<1>11. ASSUME NEW s \in Seq(T), NEW x \in T, IsInjective(s)
       PROVE  /\ add(s, x) \in Seq(T) /\ IsInjective(add(s, x))
              /\ ToSet(add(s, x)) = ToSet(s) \cup {x}
    <2>1. CASE x \in ToSet(s)
        BY <1>11, <2>1
    <2>2. CASE x \notin ToSet(s)
        <3> DEFINE t == Append(s, x)
                   l == Len(s)
        <3>1. /\ l \in Nat /\ DOMAIN s = 1..l /\ t \in Seq(T) /\ DOMAIN t = 1..(l + 1)
              /\ t[l + 1] = x /\ \A k \in 1..l: t[k] = s[k]
            OBVIOUS
        <3> HIDE DEF t, l
        <3>2. ASSUME NEW a \in DOMAIN t, NEW b \in DOMAIN t, t[a] = t[b] PROVE a = b
            <4>1. \A k \in DOMAIN t: k = l + 1 \/ k \in 1..l
                BY <3>1
            <4>2. \A k \in 1..l: t[k] # x
                BY <2>2, <3>1 DEF ToSet
            <4>3. a \in 1..l /\ b \in 1..l => a = b
                BY <1>11, <3>1, <3>2 DEF IsInjective
            <4> QED
                BY <3>1, <3>2, <4>1, <4>2, <4>3
        <3>3. ToSet(t) = ToSet(s) \cup {x}
            <4>1. \A k: k \in DOMAIN t <=> k \in 1..l \/ k = l + 1
                BY <3>1
            <4>2. \A y: y \in ToSet(t) <=> (\E k \in 1..l: y = s[k]) \/ y = x
                BY <3>1, <4>1 DEF ToSet
            <4> QED
                BY <3>1, <4>2 DEF ToSet
        <3>4. add(s, x) = t
            BY <2>2 DEF t
        <3> QED
            BY <3>1, <3>2, <3>3, <3>4 DEF IsInjective
    <2> QED
        BY <2>1, <2>2
<1> HIDE DEF add
<1>12. ASSUME NEW n \in bad, \A k \in bad: n <= k PROVE FALSE
    <2>1. CASE n = 0
        <3>1. kept[0] = <<"openid">>
            BY <1>1, <1>10
        <3>2. IsInjective(<<"openid">>) /\ ToSet(<<"openid">>) = {"openid"}
            BY DEF IsInjective, ToSet
        <3>3. upto(0) = {"openid"}
            OBVIOUS
        <3>4. good(0)
            BY <1>2, <3>1, <3>2, <3>3
        <3> QED
            BY <2>1, <3>4
    <2>2. CASE n # 0
        <3>1. n \in 1..N /\ n - 1 \in 0..N
            BY <1>1, <2>2
        <3>2. good(n - 1)
            <4>1. n - 1 \notin bad
                <5> HIDE DEF bad
                <5> QED
                    BY <1>1, <1>12, <3>1
            <4> QED
                BY <3>1, <4>1
        <3>3. kept[n] = add(kept[n - 1], asked[n])
            BY <1>10, <2>2, <3>1
        <3>4. upto(n) = upto(n - 1) \cup {asked[n]}
            <4>1. \A k: k \in 1..n <=> k \in 1..(n - 1) \/ k = n
                BY <1>1, <3>1
            <4> QED
                BY <4>1
        <3>5. good(n)
            <4> HIDE DEF upto
            <4> QED
                BY <1>1, <1>11, <3>1, <3>2, <3>3, <3>4
        <3> QED
            BY <3>5
    <2> QED
        BY <2>1, <2>2
<1>13. bad = {}
    <2>1. bad \in SUBSET Nat
        BY <1>1
    <2> HIDE DEF bad
    <2> QED
        BY <1>12, <2>1, LeastOfAll
<1>14. good(N)
    <2>1. N \in 0..N
        BY <1>1
    <2> HIDE DEF good
    <2> QED
        BY <1>13, <2>1
<1>15. upto(N) = ToSet(asked) \cup {"openid"}
    BY DEF ToSet
<1> QED
    BY <1>9, <1>14, <1>15

\* The parameters of a request, but for its scopes.
OwnParameters(r) ==
    {Param("response_type", <<"code">>), Param("client_id", <<r.client>>),
     Param("redirect_uri", <<r.redirect>>), Param("state", <<r.state>>),
     Param("nonce", <<r.nonce>>), Param("code_challenge_method", <<"S256">>),
     Param("code_challenge", <<"sha256", r.verifier>>)}
    \cup {Param("login_hint", hint): hint \in {r.hint} \ {NoHint}}

\* The parameters of a request have different names.
DifferInName(ours) ==
    /\ ours \in Seq({ours[k]: k \in DOMAIN ours}) /\ Len(ours) \in Nat
    /\ DOMAIN ours = 1..Len(ours)
    /\ \A a, b \in DOMAIN ours: ours[a].name = ours[b].name => a = b

\* They are the request's own, and the client's to choose.
SayTheRequest(ours, request) ==
    /\ \A a \in DOMAIN ours: ours[a].name \in Reserved \ {"request", "request_uri"}
    /\ \A p \in OwnParameters(request) \cup {Param("scope", Scopes(request.scopes))}:
           \E a \in DOMAIN ours: ours[a] = p

\* What a request asks for, it asks for once, and for nothing that would replace it.
LEMMA AskedNamesDiffer ==
    ASSUME NEW request, NEW ours, ours = Asked(request)
    PROVE  DifferInName(ours) /\ SayTheRequest(ours, request)
<1> DEFINE first == <<Param("response_type", <<"code">>), Param("client_id", <<request.client>>),
                      Param("redirect_uri", <<request.redirect>>),
                      Param("scope", Scopes(request.scopes)),
                      Param("code_challenge", PkceChallenge(request.verifier)),
                      Param("code_challenge_method", <<"S256">>),
                      Param("state", <<request.state>>), Param("nonce", <<request.nonce>>)>>
           hint == IF request.hint = NoHint THEN <<>> ELSE <<Param("login_hint", request.hint)>>
           R == {first[k]: k \in 1..8} \cup {Param("login_hint", request.hint)}
           name == <<"response_type", "client_id", "redirect_uri", "scope", "code_challenge",
                     "code_challenge_method", "state", "nonce", "login_hint">>
<1>1. first \in Seq(R) /\ Len(first) = 8 /\ \A k \in 1..8: first[k].name = name[k]
    BY DEF Param
<1>2. hint \in Seq(R) /\ Len(hint) \in 0..1 /\ (Len(hint) = 1 => hint[1].name = name[9])
    <2>1. /\ Param("login_hint", request.hint) \in R
          /\ Param("login_hint", request.hint).name = name[9]
        BY DEF Param
    <2> DEFINE last == Param("login_hint", request.hint)
    <2>2. hint = <<>> \/ hint = <<last>>
        OBVIOUS
    <2>3. last \in R /\ last.name = name[9]
        BY <2>1
    <2> HIDE DEF hint, R, name, last
    <2>4. CASE hint = <<>>
        BY <2>4
    <2>5. CASE hint = <<last>>
        BY <2>3, <2>5
    <2> QED
        BY <2>2, <2>4, <2>5
<1>3. ours = first \o hint
    BY DEF Asked
<1>4. \A a, b \in 1..9: name[a] = name[b] => a = b
    OBVIOUS
<1> HIDE DEF first, hint, name, R
<1>5. /\ ours \in Seq(R) /\ Len(ours) = 8 + Len(hint) /\ DOMAIN ours = 1..Len(ours)
      /\ \A k \in 1..8: ours[k] = first[k]
      /\ Len(hint) = 1 => ours[9] = hint[1]
    <2>1. /\ first \o hint \in Seq(R) /\ Len(first \o hint) = Len(first) + Len(hint)
          /\ DOMAIN (first \o hint) = 1..(Len(first) + Len(hint))
          /\ \A k \in 1..Len(first): (first \o hint)[k] = first[k]
          /\ \A k \in 1..Len(hint): (first \o hint)[Len(first) + k] = hint[k]
        <3>1. first \in Seq(R) /\ hint \in Seq(R)
            BY <1>1, <1>2
        <3> QED
            BY <3>1
    <2>2. ours \in Seq(R) /\ Len(ours) = 8 + Len(hint) /\ DOMAIN ours = 1..Len(ours)
        BY <1>1, <1>3, <2>1
    <2>3. \A k \in 1..8: ours[k] = first[k]
        BY <1>1, <1>3, <2>1
    <2>4. ASSUME Len(hint) = 1 PROVE ours[9] = hint[1]
        <3>1. 1 \in 1..Len(hint) /\ Len(first) + 1 = 9
            BY <1>1, <2>4
        <3> QED
            BY <1>3, <2>1, <3>1
    <2> QED
        BY <2>2, <2>3, <2>4
<1>6. ASSUME NEW k \in DOMAIN ours PROVE k \in 1..9 /\ ours[k].name = name[k]
    <2>1. CASE k \in 1..8
        BY <1>1, <1>5, <2>1
    <2>2. CASE k \notin 1..8
        <3> DEFINE n == Len(hint)
        <3>1. n \in 0..1 /\ k \in 1..(8 + n)
            BY <1>2, <1>5
        <3> HIDE DEF n
        <3>2. k = 9 /\ n = 1
            BY <2>2, <3>1
        <3> QED
            BY <1>2, <1>5, <3>2 DEF n
    <2> QED
        BY <2>1, <2>2
<1>7. ours \in Seq({ours[k]: k \in DOMAIN ours})
    BY <1>5
<1>8. Len(ours) \in Nat
    BY <1>2, <1>5
<1>9. ASSUME NEW a \in DOMAIN ours, NEW b \in DOMAIN ours, ours[a].name = ours[b].name PROVE a = b
    BY <1>4, <1>6, <1>9
<1>10. ASSUME NEW a \in DOMAIN ours PROVE ours[a].name \in Reserved \ {"request", "request_uri"}
    <2>1. \A k \in 1..9: name[k] \in Reserved \ {"request", "request_uri"}
        BY DEF name, Reserved
    <2> QED
        BY <1>6, <2>1
<1>11. ASSUME NEW p \in OwnParameters(request) \cup {Param("scope", Scopes(request.scopes))}
       PROVE  \E a \in DOMAIN ours: ours[a] = p
    <2>1. \/ \E k \in 1..8: p = first[k]
          \/ request.hint # NoHint /\ p = Param("login_hint", request.hint)
        <3>1. \A k \in 1..8: k \in {1, 2, 3, 4, 5, 6, 7, 8}
            OBVIOUS
        <3>2. /\ first[1] = Param("response_type", <<"code">>)
              /\ first[2] = Param("client_id", <<request.client>>)
              /\ first[3] = Param("redirect_uri", <<request.redirect>>)
              /\ first[4] = Param("scope", Scopes(request.scopes))
              /\ first[5] = Param("code_challenge", <<"sha256", request.verifier>>)
              /\ first[6] = Param("code_challenge_method", <<"S256">>)
              /\ first[7] = Param("state", <<request.state>>)
              /\ first[8] = Param("nonce", <<request.nonce>>)
            BY DEF first, PkceChallenge
        <3>3. {1, 2, 3, 4, 5, 6, 7, 8} \subseteq 1..8
            OBVIOUS
        <3> QED
            BY <3>2, <3>3, Zenon DEF OwnParameters
    <2>2. ASSUME NEW k \in 1..8, p = first[k] PROVE k \in DOMAIN ours /\ ours[k] = p
        BY <1>2, <1>5, <2>2
    <2>3. ASSUME request.hint # NoHint, p = Param("login_hint", request.hint)
          PROVE  9 \in DOMAIN ours /\ ours[9] = p
        <3>1. hint = <<p>>
            BY <2>3 DEF hint
        <3>2. Len(hint) = 1 /\ hint[1] = p
            BY <3>1
        <3> QED
            BY <1>5, <3>2
    <2> QED
        BY <2>1, <2>2, <2>3
<1> QED
    BY <1>5, <1>7, <1>8, <1>9, <1>10, <1>11 DEF DifferInName, SayTheRequest

\* Where the elements of two sequences stand in their concatenation.
LEMMA Joined ==
    ASSUME NEW S, NEW q \in Seq(S), NEW r \in Seq(S), NEW full, full = q \o r
    PROVE  /\ full \in Seq(S) /\ Len(q) \in Nat /\ Len(r) \in Nat /\ Len(full) = Len(q) + Len(r)
           /\ DOMAIN q = 1..Len(q) /\ DOMAIN r = 1..Len(r) /\ DOMAIN full = 1..(Len(q) + Len(r))
           /\ \A k \in 1..Len(q): full[k] = q[k]
           /\ \A k \in DOMAIN r: Len(q) + k \in DOMAIN full /\ full[Len(q) + k] = r[k]
           /\ \A k \in DOMAIN full: k > Len(q) =>
                  k - Len(q) \in DOMAIN r /\ full[k] = r[k - Len(q)]
<1>1. /\ full \in Seq(S) /\ Len(q) \in Nat /\ Len(r) \in Nat /\ Len(full) = Len(q) + Len(r)
      /\ DOMAIN q = 1..Len(q) /\ DOMAIN r = 1..Len(r) /\ DOMAIN full = 1..(Len(q) + Len(r))
    OBVIOUS
<1>2. \A k \in 1..Len(q): full[k] = q[k]
    OBVIOUS
<1>3. \A k \in 1..Len(r): full[Len(q) + k] = r[k]
    OBVIOUS
<1>4. \A k \in DOMAIN r: Len(q) + k \in DOMAIN full
    BY <1>1
<1>5. ASSUME NEW k \in DOMAIN full, k > Len(q)
      PROVE  k - Len(q) \in DOMAIN r /\ full[k] = r[k - Len(q)]
    <2>1. k - Len(q) \in 1..Len(r) /\ Len(q) + (k - Len(q)) = k
        BY <1>1, <1>5
    <2> QED
        BY <1>1, <1>3, <2>1
<1> QED
    BY <1>1, <1>2, <1>3, <1>4, <1>5

\* In the address a login starts at no parameter of the request is there twice, whatever query the
\* endpoint came with: Keycloak and the engine read the same one (token.rs, authorization_url).
THEOREM AsksEachOnce ==
    ASSUME NEW S, NEW query \in Seq(S), NEW request, NEW full \in AuthorizationUrl(query, request),
           NEW i \in DOMAIN full, NEW j \in DOMAIN full,
           full[i].name \in Reserved, full[i].name = full[j].name
    PROVE  i = j
<1> DEFINE ours == Asked(request)
<1>1. full = query \o ours /\ ~Collides(query)
    BY DEF AuthorizationUrl
<1>2. /\ ours \in Seq({ours[k]: k \in DOMAIN ours}) /\ Len(ours) \in Nat
      /\ DOMAIN ours = 1..Len(ours)
      /\ \A a, b \in DOMAIN ours: ours[a].name = ours[b].name => a = b
    <2>1. ours = Asked(request)
        OBVIOUS
    <2> HIDE DEF ours
    <2>2. DifferInName(ours) /\ SayTheRequest(ours, request)
        BY <2>1, AskedNamesDiffer
    <2> QED
        BY <2>2 DEF DifferInName
<1>3. /\ DOMAIN full = 1..(Len(query) + Len(ours))
      /\ \A k \in 1..Len(query): full[k] = query[k]
      /\ \A k \in DOMAIN full: k > Len(query) =>
             k - Len(query) \in DOMAIN ours /\ full[k] = ours[k - Len(query)]
    <2>1. DEFINE R == {ours[k]: k \in DOMAIN ours}
    <2>2. query \in Seq(S \cup R) /\ ours \in Seq(S \cup R)
        BY <1>2
    <2> HIDE DEF ours, R
    <2> QED
        BY <1>1, <1>2, <2>2, Joined
<1>4. ASSUME NEW k \in DOMAIN full, full[k].name \in Reserved PROVE k > Len(query)
    BY <1>1, <1>3, <1>4 DEF Collides
<1>5. i > Len(query) /\ j > Len(query)
    BY <1>4
<1>6. ours[i - Len(query)].name = ours[j - Len(query)].name
    BY <1>3, <1>5
<1>7. i - Len(query) = j - Len(query)
    BY <1>2, <1>3, <1>5, <1>6
<1> QED
    BY <1>3, <1>5, <1>7

\* An authorization request asks what the engine will check the answer by, and is only refused for
\* a collision or for a part that has no place in it (token.rs, authorization_url).
THEOREM RequestAsksForItself ==
    ASSUME NEW S, NEW query \in Seq(S), NEW request, NEW T, request.scopes \in Seq(T),
           NEW full \in AuthorizationUrl(query, request)
    PROVE  LET named(name) == {i \in DOMAIN full: full[i].name = name}
           IN  /\ \A p \in OwnParameters(request):
                      \E i \in DOMAIN full: full[i] = p /\ named(p.name) = {i}
               /\ \E i \in named("scope"):
                      /\ named("scope") = {i} /\ IsInjective(full[i].value)
                      /\ ToSet(full[i].value) = ToSet(request.scopes) \cup {"openid"}
               /\ named("request") = {} /\ named("request_uri") = {}
               /\ IsPrefix(query, full)
<1> DEFINE ours == Asked(request)
           n == Len(query)
           named(name) == {i \in DOMAIN full: full[i].name = name}
           scope == Param("scope", Scopes(request.scopes))
<1>1. full = query \o ours /\ ~Collides(query)
    BY DEF AuthorizationUrl
<1>2. /\ ours \in Seq({ours[k]: k \in DOMAIN ours}) /\ Len(ours) \in Nat
      /\ DOMAIN ours = 1..Len(ours)
      /\ \A a \in DOMAIN ours: ours[a].name \in Reserved \ {"request", "request_uri"}
      /\ \A p \in OwnParameters(request) \cup {scope}: \E a \in DOMAIN ours: ours[a] = p
    <2>1. ours = Asked(request)
        OBVIOUS
    <2> HIDE DEF ours
    <2>2. DifferInName(ours) /\ SayTheRequest(ours, request)
        BY <2>1, AskedNamesDiffer
    <2> QED
        BY <2>2 DEF DifferInName, SayTheRequest, scope
<1>3. /\ n \in Nat /\ DOMAIN query = 1..n /\ DOMAIN full = 1..(n + Len(ours))
      /\ \A k \in 1..n: full[k] = query[k]
      /\ \A k \in DOMAIN ours: n + k \in DOMAIN full /\ full[n + k] = ours[k]
      /\ \A k \in DOMAIN full: k > n => k - n \in DOMAIN ours /\ full[k] = ours[k - n]
    <2>1. DEFINE R == {ours[k]: k \in DOMAIN ours}
    <2>2. query \in Seq(S \cup R) /\ ours \in Seq(S \cup R)
        BY <1>2
    <2> DEFINE All == S \cup R
    <2>3. query \in Seq(All) /\ ours \in Seq(All) /\ full = query \o ours
        BY <1>1, <2>2
    <2> HIDE DEF ours, R, All
    <2> QED
        BY <2>3, Joined
<1> HIDE DEF ours, scope
<1>4. ASSUME NEW p \in OwnParameters(request) \cup {scope}
      PROVE  \E i \in DOMAIN full: full[i] = p /\ named(p.name) = {i}
    <2>1. PICK a \in DOMAIN ours: ours[a] = p
        BY <1>2
    <2>2. n + a \in DOMAIN full /\ full[n + a] = p /\ p.name \in Reserved
        BY <1>2, <1>3, <2>1
    <2>3. ASSUME NEW j \in DOMAIN full, full[j].name = p.name PROVE j = n + a
        BY <2>2, <2>3, AsksEachOnce
    <2>4. named(p.name) = {n + a}
        BY <2>2, <2>3
    <2> QED
        BY <2>2, <2>4
<1>5. \E i \in named("scope"):
          /\ named("scope") = {i} /\ IsInjective(full[i].value)
          /\ ToSet(full[i].value) = ToSet(request.scopes) \cup {"openid"}
    <2>1. scope.name = "scope" /\ scope.value = Scopes(request.scopes)
        BY DEF scope, Param
    <2>2. PICK i \in DOMAIN full: full[i] = scope /\ named(scope.name) = {i}
        BY <1>4
    <2> HIDE DEF named
    <2>3. named("scope") = {i} /\ full[i].value = Scopes(request.scopes)
        BY <2>1, <2>2
    <2>4. /\ IsInjective(Scopes(request.scopes))
          /\ ToSet(Scopes(request.scopes)) = ToSet(request.scopes) \cup {"openid"}
        BY ScopesOnce
    <2> QED
        BY <2>3, <2>4
<1>6. ASSUME NEW name \in {"request", "request_uri"} PROVE named(name) = {}
    <2>1. name \in Reserved
        BY DEF Reserved
    <2>2. ASSUME NEW i \in DOMAIN full, full[i].name = name PROVE FALSE
        <3>1. CASE i > n
            BY <1>2, <1>3, <2>2, <3>1
        <3>2. CASE ~(i > n)
            <4>1. i \in DOMAIN query /\ full[i] = query[i]
                BY <1>2, <1>3, <3>2
            <4> QED
                BY <1>1, <2>1, <2>2, <4>1 DEF Collides
        <3> QED
            BY <3>1, <3>2
    <2> QED
        BY <2>2
<1>7. IsPrefix(query, full)
    <2>1. n <= Len(full) /\ Len(full) = n + Len(ours)
        <3>1. full \in Seq({full[k]: k \in DOMAIN full})
            <4>1. DEFINE R == {ours[k]: k \in DOMAIN ours}
            <4>2. query \in Seq(S \cup R) /\ ours \in Seq(S \cup R)
                BY <1>2
            <4> HIDE DEF R
            <4>3. full \in Seq(S \cup R)
                BY <1>1, <4>2
            <4> QED
                BY <4>3
        <3> QED
            BY <1>2, <1>3, <3>1
    <2>2. SubSeq(query, 1, n) = [k \in 1..n |-> query[k]]
        BY <1>3
    <2>3. SubSeq(full, 1, n) = [k \in 1..n |-> full[k]]
        BY <1>3, <2>1
    <2>4. SubSeq(query, 1, n) = SubSeq(full, 1, n)
        BY <1>3, <2>2, <2>3
    <2> QED
        BY <2>1, <2>4 DEF IsPrefix
<1>8. \A p \in OwnParameters(request): \E i \in DOMAIN full: full[i] = p /\ named(p.name) = {i}
    BY <1>4
<1>9. named("request") = {} /\ named("request_uri") = {}
    BY <1>6
<1> QED
    BY <1>5, <1>7, <1>8, <1>9

-----------------------------------------------------------------------------
(* The claims of a token *)

\* No token's audience and authorized party match two clients (token.rs, audience_matches).
THEOREM TokenOfOneClient ==
    ASSUME NEW claims, NEW c, NEW d, NEW S, claims.aud.of \in Seq(S), c # None, d # None,
           AudienceMatches(claims, c), AudienceMatches(claims, d)
    PROVE  c = d
<1> DEFINE aud == claims.aud.of
<1>1. CASE claims.azp # None
    BY <1>1 DEF AudienceMatches
<1>2. CASE claims.azp = None
    <2>1. \A x \in {c, d}: aud = <<x>> \/ (Len(aud) = 1 /\ x \in ToSet(aud))
        BY <1>2 DEF AudienceMatches
    <2>2. ASSUME NEW x \in {c, d}, aud = <<x>> PROVE aud[1] = x
        BY <2>2
    <2>3. ASSUME NEW x \in {c, d}, Len(aud) = 1, x \in ToSet(aud) PROVE aud[1] = x
        <3>1. PICK i \in DOMAIN aud: aud[i] = x
            BY <2>3 DEF ToSet
        <3>2. i = 1
            BY <2>3
        <3> QED
            BY <3>1, <3>2
    <2> QED
        BY <2>1, <2>2, <2>3
<1> QED
    BY <1>1, <1>2

\* A token that is taken is taken from then on until it expires, and not after: the leeway's sum
\* cannot turn back at the end of u64 (token.rs, validate_claims).
THEOREM TakenUntilItExpires ==
    ASSUME NEW claims, NEW issuer, NEW client, NEW nonce, NEW t \in Time, NEW u \in Time,
           ValidateClaims(claims, issuer, client, nonce, t), t <= u
    PROVE  ValidateClaims(claims, issuer, client, nonce, u) <=> u < claims.exp
<1>1. Latest \in Nat /\ Leeway \in Nat /\ t \in Nat /\ u \in Nat
    BY ClaimsAssumption DEF Time
<1>2. claims.exp \in Nat
    <2>1. claims.exp \in Time
        BY DEF ValidateClaims
    <2> QED
        BY <1>1, <2>1 DEF Time
<1>3. ASSUME NEW x, Begun(x, t) PROVE Begun(x, u)
    <2>1. x \in Nat /\ x <= Latest
        BY <1>1, <1>3 DEF Begun, Time
    <2>2. x <= t + Leeway
        BY <1>1, <1>3, <2>1 DEF Begun, SaturatingAdd
    <2>3. x <= SaturatingAdd(u, Leeway)
        BY <1>1, <2>1, <2>2 DEF SaturatingAdd
    <2> QED
        BY <2>1, <2>3, <1>3 DEF Begun
<1>4. claims.exp > u <=> u < claims.exp
    BY <1>1, <1>2
<1>5. claims.nbf = NoTime \/ Begun(claims.nbf, u)
    BY <1>3 DEF ValidateClaims
<1>6. Begun(claims.iat, u)
    BY <1>3 DEF ValidateClaims
<1> QED
    BY <1>4, <1>5, <1>6 DEF ValidateClaims

-----------------------------------------------------------------------------
(* The cases judged *)

EndpointJudged ==
    rule = "endpoint" =>
        /\ case \in EndpointCases
        /\ judged => verdict = {Discover([status |-> 200, issuer |-> Issuer(c),
                                         endpoints |-> <<case.url>>], Issuer(c)):
                               c \in {d \in {case.config}: Validate(d)}}

RequestJudged ==
    rule = "request" =>
        /\ case \in RequestCases
        /\ judged => verdict = AuthorizationUrl(case.query, case.request)

ClaimsJudged ==
    rule = "claims" =>
        /\ case \in ClaimsCases
        /\ judged => verdict = {at \in Clients \X Time:
                                   ValidateClaims(case, Issuer0, at[1], Nonce0, at[2])}

AnswerJudged ==
    rule = "answer" =>
        case \in AnswerCases /\ (judged => verdict = {Check(case.challenge, case.answer)})

PlanJudged == rule = "plan" => case \in PlanCases /\ (judged => verdict = Plans(case))

PageJudged ==
    rule = "page" =>
        /\ case \in PageCases
        /\ judged => \A fields \in verdict:
               /\ fields \in PageFields(case.answers)
               /\ Len(case.answers) = Len(PageAsks(case.hinted))
               /\ \A i \in DOMAIN PageAsks(case.hinted):
                      Check([kind |-> PageAsks(case.hinted)[i]], case.answers[i])

CodeJudged ==
    rule = "code" =>
        /\ case \in CodeCases
        /\ judged => verdict =
               VerifyTotp(case.secret, case.time, case.period, case.digits, case.typed)

JsonJudged ==
    rule = "json" =>
        /\ case \in JsonCases
        /\ judged => verdict = Parse(case.text)

TextJudged ==
    rule = "text" => case \in TextCases /\ (judged => verdict = String(case.text))

\* A case keeps its rule, and its verdict is the rule's.
RuleInv ==
    /\ EndpointJudged /\ RequestJudged /\ ClaimsJudged /\ AnswerJudged /\ PlanJudged
    /\ PageJudged /\ CodeJudged /\ JsonJudged /\ TextJudged

\* Judging keeps the case, and is done once.
LEMMA JudgedByItsRule == Spec => []RuleInv
<1>1. Init => RuleInv
    BY DEF Init, RuleInv, EndpointJudged, RequestJudged, ClaimsJudged, AnswerJudged, PlanJudged,
           PageJudged, CodeJudged, JsonJudged, TextJudged
<1>2. RuleInv /\ [Next]_ruleVars => RuleInv'
    <2> SUFFICES ASSUME RuleInv, [Next]_ruleVars PROVE RuleInv'
        OBVIOUS
    <2>1. CASE UNCHANGED ruleVars
        <3>1. UNCHANGED <<rule, case, judged, verdict>>
            BY <2>1 DEF ruleVars
        <3>2. EndpointJudged' /\ RequestJudged'
            BY <3>1 DEF RuleInv, EndpointJudged, RequestJudged
        <3>3. ClaimsJudged' /\ AnswerJudged'
            BY <3>1 DEF RuleInv, ClaimsJudged, AnswerJudged
        <3>4. PlanJudged' /\ PageJudged'
            BY <3>1 DEF RuleInv, PlanJudged, PageJudged
        <3>5. CodeJudged' /\ JsonJudged' /\ TextJudged'
            BY <3>1 DEF RuleInv, CodeJudged, JsonJudged, TextJudged
        <3> QED
            BY <3>2, <3>3, <3>4, <3>5 DEF RuleInv
    <2>2. CASE Next
        <3>1. UNCHANGED <<rule, case>>
            BY <2>2 DEF Next, Judge, JudgeEndpoint, JudgeRequest, JudgeClaims, JudgeAnswer,
                   JudgePlan, JudgePage, JudgeCode, JudgeJson, JudgeText
        <3>2. EndpointJudged'
            <4>1. CASE rule = "endpoint"
                <5>1. JudgeEndpoint
                    BY <2>2, <4>1 DEF Next, Judge, JudgeRequest, JudgeClaims, JudgeAnswer,
                           JudgePlan, JudgePage, JudgeCode, JudgeJson, JudgeText
                <5> QED
                    BY <3>1, <5>1 DEF JudgeEndpoint, Judge, RuleInv, EndpointJudged
            <4>2. CASE rule # "endpoint"
                BY <3>1, <4>2 DEF EndpointJudged
            <4> QED
                BY <4>1, <4>2
        <3>3. RequestJudged'
            <4>1. CASE rule = "request"
                <5>1. JudgeRequest
                    BY <2>2, <4>1 DEF Next, Judge, JudgeEndpoint, JudgeClaims, JudgeAnswer,
                           JudgePlan, JudgePage, JudgeCode, JudgeJson, JudgeText
                <5> QED
                    BY <3>1, <5>1 DEF JudgeRequest, Judge, RuleInv, RequestJudged
            <4>2. CASE rule # "request"
                BY <3>1, <4>2 DEF RequestJudged
            <4> QED
                BY <4>1, <4>2
        <3>4. ClaimsJudged'
            <4>1. CASE rule = "claims"
                <5>1. JudgeClaims
                    BY <2>2, <4>1 DEF Next, Judge, JudgeEndpoint, JudgeRequest, JudgeAnswer,
                           JudgePlan, JudgePage, JudgeCode, JudgeJson, JudgeText
                <5> QED
                    BY <3>1, <5>1 DEF JudgeClaims, Judge, RuleInv, ClaimsJudged
            <4>2. CASE rule # "claims"
                BY <3>1, <4>2 DEF ClaimsJudged
            <4> QED
                BY <4>1, <4>2
        <3>5. AnswerJudged'
            <4>1. CASE rule = "answer"
                <5>1. JudgeAnswer
                    BY <2>2, <4>1 DEF Next, Judge, JudgeEndpoint, JudgeRequest, JudgeClaims,
                           JudgePlan, JudgePage, JudgeCode, JudgeJson, JudgeText
                <5> QED
                    BY <3>1, <5>1 DEF JudgeAnswer, Judge, RuleInv, AnswerJudged
            <4>2. CASE rule # "answer"
                BY <3>1, <4>2 DEF AnswerJudged
            <4> QED
                BY <4>1, <4>2
        <3>6. PlanJudged'
            <4>1. CASE rule = "plan"
                <5>1. JudgePlan
                    BY <2>2, <4>1 DEF Next, Judge, JudgeEndpoint, JudgeRequest, JudgeClaims,
                           JudgeAnswer, JudgePage, JudgeCode, JudgeJson, JudgeText
                <5> QED
                    BY <3>1, <5>1 DEF JudgePlan, Judge, RuleInv, PlanJudged
            <4>2. CASE rule # "plan"
                BY <3>1, <4>2 DEF PlanJudged
            <4> QED
                BY <4>1, <4>2
        <3>7. PageJudged'
            <4>1. CASE rule = "page"
                <5>1. JudgePage
                    BY <2>2, <4>1 DEF Next, Judge, JudgeEndpoint, JudgeRequest, JudgeClaims,
                           JudgeAnswer, JudgePlan, JudgeCode, JudgeJson, JudgeText
                <5> QED
                    BY <3>1, <5>1 DEF JudgePage, Judge, RuleInv, PageJudged
            <4>2. CASE rule # "page"
                BY <3>1, <4>2 DEF PageJudged
            <4> QED
                BY <4>1, <4>2
        <3>8. CodeJudged'
            <4>1. CASE rule = "code"
                <5>1. JudgeCode
                    BY <2>2, <4>1 DEF Next, Judge, JudgeEndpoint, JudgeRequest, JudgeClaims,
                           JudgeAnswer, JudgePlan, JudgePage, JudgeJson, JudgeText
                <5> QED
                    BY <3>1, <5>1 DEF JudgeCode, Judge, RuleInv, CodeJudged
            <4>2. CASE rule # "code"
                BY <3>1, <4>2 DEF CodeJudged
            <4> QED
                BY <4>1, <4>2
        <3>9. JsonJudged'
            <4>1. CASE rule = "json"
                <5>1. JudgeJson
                    BY <2>2, <4>1 DEF Next, Judge, JudgeEndpoint, JudgeRequest, JudgeClaims,
                           JudgeAnswer, JudgePlan, JudgePage, JudgeCode, JudgeText
                <5> QED
                    BY <3>1, <5>1 DEF JudgeJson, Judge, RuleInv, JsonJudged
            <4>2. CASE rule # "json"
                BY <3>1, <4>2 DEF JsonJudged
            <4> QED
                BY <4>1, <4>2
        <3>10. TextJudged'
            <4>1. CASE rule = "text"
                <5>1. JudgeText
                    BY <2>2, <4>1 DEF Next, Judge, JudgeEndpoint, JudgeRequest, JudgeClaims,
                           JudgeAnswer, JudgePlan, JudgePage, JudgeCode, JudgeJson
                <5> QED
                    BY <3>1, <5>1 DEF JudgeText, Judge, RuleInv, TextJudged
            <4>2. CASE rule # "text"
                BY <3>1, <4>2 DEF TextJudged
            <4> QED
                BY <4>1, <4>2
        <3> QED
            BY <3>2, <3>3, <3>4, <3>5, <3>6, <3>7, <3>8, <3>9, <3>10 DEF RuleInv
    <2> QED
        BY <2>1, <2>2
<1> QED
    BY <1>1, <1>2, PTL DEF Spec

\* A login goes to an endpoint of its own realm, whatever the context paths, and the address it
\* starts at asks for what the engine checks the answer by, for any configuration, endpoint and
\* request (token.rs: endpoint, issuer_realm, endpoint_in_realm, authorization_url).
THEOREM LoginsGoToTheirRealm == Spec => []LoginGoesToItsRealm
<1>1. ASSUME RuleInv PROVE EndpointInItsRealm
    <2> SUFFICES ASSUME Judged("endpoint")
                 PROVE  /\ case.realm = case.config.realm /\ ~case.hides => verdict = {TRUE}
                        /\ TRUE \in verdict =>
                               \/ case.realm = case.config.realm
                               \/ case.config.realm = Realms /\ case.underRealms
                               \/ case.realm = Realms /\ case.config.realm = Protocol
        BY DEF EndpointInItsRealm
    <2> DEFINE document == [status |-> 200, issuer |-> Issuer(case.config),
                          endpoints |-> <<case.url>>]
               issuer == Issuer(case.config)
    <2>1. /\ case \in EndpointCases
          /\ verdict = IF Validate(case.config) THEN {Discover(document, issuer)} ELSE {}
        <3>1. {d \in {case.config}: Validate(d)} =
                  IF Validate(case.config) THEN {case.config} ELSE {}
            OBVIOUS
        <3>2. EndpointJudged /\ rule = "endpoint" /\ judged
            BY <1>1 DEF RuleInv, Judged
        <3> DEFINE of(c) == Discover([status |-> 200, issuer |-> Issuer(c),
                                      endpoints |-> <<case.url>>], Issuer(c))
                   valid == {d \in {case.config}: Validate(d)}
        <3>3. case \in EndpointCases /\ verdict = {of(c): c \in valid}
            BY <3>2 DEF EndpointJudged
        <3>4. of(case.config) = Discover(document, issuer)
            OBVIOUS
        <3> HIDE DEF of, valid, document, issuer
        <3>5. valid = IF Validate(case.config) THEN {case.config} ELSE {}
            BY <3>1 DEF valid
        <3> QED
            BY <3>3, <3>4, <3>5
    <2>2. /\ IsSeq(case.config.server.path) /\ IsSeq(case.url.path)
          /\ Unfit(case) => case.hides
          /\ ~Unfit(case) => OfItsRealm(case)
          /\ Encoded \cap {Empty, Realms, Protocol} = {}
        BY <2>1, EndpointCasesAssumption
    <2>3. Discover(document, issuer) <=> Endpoint(case.url, issuer)
        <3>1. DOMAIN document.endpoints = 1..1 /\ document.endpoints[1] = case.url
            OBVIOUS
        <3>2. document.status = 200 /\ document.issuer = issuer
            OBVIOUS
        <3>3. \A k \in 1..1: k = 1
            OBVIOUS
        <3> HIDE DEF document, issuer
        <3> QED
            BY <3>1, <3>2, <3>3, 1 \in 1..1 DEF Discover
    <2>4. issuer.origin = case.config.server.origin
        BY DEF Issuer
    <2>5. ASSUME Validate(case.config)
          PROVE  Endpoint(case.url, issuer) <=>
                     /\ case.url.scheme = "https" /\ case.url.origin = case.config.server.origin
                     /\ ~case.url.credentials /\ ~case.url.fragment
                     /\ EndpointInRealm(case.url.path, case.config.realm)
        <3>1. IssuerRealm(issuer.path) = {case.config.realm}
            BY <2>2, <2>5, IssuerNamesItsRealm
        <3> HIDE DEF issuer
        <3> QED
            BY <2>4, <3>1 DEF Endpoint
    <2> HIDE DEF document, issuer
    <2>6. ASSUME case.realm = case.config.realm, ~case.hides PROVE verdict = {TRUE}
        <3>1. ~Unfit(case) /\ OfItsRealm(case)
            BY <2>2, <2>6
        <3>2. Validate(case.config)
            BY <3>1 DEF Unfit
        <3>3. EndpointInRealm(case.url.path, case.config.realm)
            BY <2>2, <2>6, <3>1, OwnEndpointTaken
        <3>4. Endpoint(case.url, issuer)
            BY <2>5, <3>1, <3>2, <3>3 DEF Unfit
        <3>5. Discover(document, issuer) = TRUE
            BY <2>3, <3>4 DEF Discover
        <3> QED
            BY <2>1, <3>2, <3>5
    <2>7. ASSUME TRUE \in verdict
          PROVE  \/ case.realm = case.config.realm
                 \/ case.config.realm = Realms /\ case.underRealms
                 \/ case.realm = Realms /\ case.config.realm = Protocol
        <3>1. Validate(case.config) /\ Discover(document, issuer)
            BY <2>1, <2>7
        <3>2. Endpoint(case.url, issuer)
            BY <2>3, <3>1
        <3>3. ~Unfit(case) /\ EndpointInRealm(case.url.path, case.config.realm)
            BY <2>5, <3>1, <3>2 DEF Unfit
        <3> QED
            BY <2>2, <3>3, TakenIsOfItsRealm
    <2> QED
        BY <2>6, <2>7
<1>2. ASSUME RuleInv PROVE AsksForItself
    <2> SUFFICES ASSUME Judged("request") PROVE AsksForItself
        BY DEF AsksForItself
    <2> DEFINE r == case.request
               named(query, name) == {i \in DOMAIN query: query[i].name = name}
    <2>1. case \in RequestCases /\ verdict = AuthorizationUrl(case.query, r)
        <3>1. RequestJudged /\ rule = "request" /\ judged
            BY <1>2 DEF RuleInv, Judged
        <3> QED
            BY <3>1 DEF RequestJudged
    <2>2. /\ IsSeq(case.query) /\ IsSeq(r.scopes)
          /\ r.verifier \in PkceVerifiers \cup {"odd"}
          /\ {r.state, r.nonce} \subseteq RequestTokens \cup {"odd"}
          /\ ToSet(r.scopes) \subseteq ScopeTokens \cup {"odd"}
        BY <2>1, RequestCasesAssumption
    <2>3. ASSUME NEW query \in verdict
          PROVE  /\ \A p \in OwnParameters(r):
                        \E i \in DOMAIN query: query[i] = p /\ named(query, p.name) = {i}
                 /\ \E i \in named(query, "scope"):
                        /\ named(query, "scope") = {i} /\ IsInjective(query[i].value)
                        /\ ToSet(query[i].value) = ToSet(r.scopes) \cup {"openid"}
                 /\ named(query, "request") = {} /\ named(query, "request_uri") = {}
                 /\ IsPrefix(case.query, query)
        <3> HIDE DEF r
        <3>1. /\ case.query \in Seq(ToSet(case.query)) /\ r.scopes \in Seq(ToSet(r.scopes))
              /\ query \in AuthorizationUrl(case.query, r)
            BY <2>1, <2>2 DEF IsSeq
        <3> QED
            BY <3>1, RequestAsksForItself
    <2>4. ASSUME verdict = {}
          PROVE  \/ \E i \in DOMAIN case.query: case.query[i].name \in Reserved
                 \/ r.verifier = "odd" \/ r.state = "odd" \/ r.nonce = "odd"
                 \/ "odd" \in ToSet(r.scopes)
        <3> HIDE DEF r
        <3>1. \/ Collides(case.query) \/ r.verifier \notin PkceVerifiers
              \/ ~({r.state, r.nonce} \subseteq RequestTokens)
              \/ ~(ToSet(r.scopes) \subseteq ScopeTokens)
            BY <2>1, <2>4 DEF AuthorizationUrl
        <3> QED
            BY <2>2, <3>1, Zenon DEF Collides
    <2> QED
        BY <2>3, <2>4 DEF AsksForItself, OwnParameters
<1> QED
    BY <1>1, <1>2, JudgedByItsRule, PTL DEF LoginGoesToItsRealm

\* No token is taken by two clients, and one that is taken stays so until it expires, for any
\* claims, clients and width of the clock (token.rs: validate_claims, audience_matches).
THEOREM TokensForOneClient == Spec => []TokenForOneClient
<1>1. ASSUME RuleInv PROVE TokenForOneClient
    <2> SUFFICES ASSUME Judged("claims"), NEW a \in verdict, NEW b \in verdict
                 PROVE  /\ a[1] = b[1] /\ a[2] < case.exp
                        /\ \A t \in a[2] .. case.exp - 1: <<a[1], t>> \in verdict
        BY DEF TokenForOneClient
    <2>1. /\ case \in ClaimsCases
          /\ verdict = {at \in Clients \X Time:
                            ValidateClaims(case, Issuer0, at[1], Nonce0, at[2])}
        BY <1>1 DEF RuleInv, ClaimsJudged, Judged
    <2>2. /\ a[1] \in Clients /\ a[2] \in Time /\ ValidateClaims(case, Issuer0, a[1], Nonce0, a[2])
          /\ b[1] \in Clients /\ ValidateClaims(case, Issuer0, b[1], Nonce0, b[2])
        BY <2>1
    <2>3. /\ None \notin Clients /\ case.aud.of \in Seq(ToSet(case.aud.of))
          /\ AudienceMatches(case, a[1]) /\ AudienceMatches(case, b[1])
        BY <2>1, <2>2, ClaimsCasesAssumption DEF IsSeq, ValidateClaims
    <2>4. a[1] = b[1]
        BY <2>2, <2>3, TokenOfOneClient
    <2>5. Latest \in Nat /\ case.exp \in Time /\ a[2] < case.exp
        BY <2>2, TakenUntilItExpires, ClaimsAssumption DEF Time, ValidateClaims
    <2>6. ASSUME NEW t \in a[2] .. case.exp - 1 PROVE <<a[1], t>> \in verdict
        <3>1. t \in Time /\ a[2] <= t /\ t < case.exp
            BY <2>2, <2>5 DEF Time
        <3>2. ValidateClaims(case, Issuer0, a[1], Nonce0, t)
            BY <2>2, <3>1, TakenUntilItExpires
        <3> QED
            BY <2>1, <2>2, <3>1, <3>2
    <2> QED
        BY <2>4, <2>5, <2>6
<1> QED
    BY <1>1, JudgedByItsRule, PTL

-----------------------------------------------------------------------------
(* The answers to a challenge *)

\* As many values as fields, and each field answered once: with different fields, each value
\* answers a field of its own (driver.rs, Expect::check).
LEMMA EachFieldOnce ==
    ASSUME NEW S, NEW fields \in Seq(S), NEW reply, NEW T, reply.given \in Seq(T),
           IsInjective(fields), FieldsAnswered(fields, reply)
    PROVE  /\ \A i, j \in DOMAIN reply.given:
                  reply.given[i].name = reply.given[j].name => i = j
           /\ {reply.given[i].name: i \in DOMAIN reply.given} = ToSet(fields)
<1> DEFINE given == reply.given
           n == Len(fields)
           at == [f \in 1..n |-> CHOOSE i \in DOMAIN given: given[i].name = fields[f]]
<1>1. n \in Nat /\ DOMAIN fields = 1..n /\ DOMAIN given = 1..n
    BY DEF FieldsAnswered
<1>2. ASSUME NEW f \in 1..n
      PROVE  \E i \in 1..n: /\ given[i].name = fields[f]
                            /\ \A j \in 1..n: given[j].name = fields[f] => j = i
    <2>1. Cardinality(Answers(reply, fields[f])) = 1
        BY <1>1 DEF FieldsAnswered, AnsweredOnce, ToSet
    <2>2. Answers(reply, fields[f]) = {i \in 1..n: given[i].name = fields[f]}
        BY <1>1 DEF Answers
    <2>3. IsFiniteSet(Answers(reply, fields[f]))
        <3>1. IsFiniteSet(1..n) /\ Answers(reply, fields[f]) \in SUBSET (1..n)
            BY <1>1, <2>2, FS_Interval
        <3> QED
            BY <3>1, FS_Subset
    <2>4. PICK i : Answers(reply, fields[f]) = {i}
        BY <2>1, <2>3, FS_Singleton
    <2>5. \A j \in 1..n: given[j].name = fields[f] <=> j = i
        BY <2>2, <2>4
    <2>6. i \in 1..n
        BY <2>2, <2>4
    <2> QED
        BY <2>5, <2>6
<1>3. \A f \in 1..n: at[f] \in 1..n /\ given[at[f]].name = fields[f]
    BY <1>1, <1>2
<1> HIDE DEF at
<1>4. at \in [1..n -> 1..n]
    BY <1>3 DEF at
<1>5. ASSUME NEW f \in 1..n, NEW g \in 1..n, at[f] = at[g] PROVE f = g
    <2>1. fields[f] = fields[g]
        BY <1>3, <1>5
    <2> QED
        BY <1>1, <2>1 DEF IsInjective
<1>6. at \in Injection(1..n, 1..n)
    BY <1>4, <1>5 DEF Injection, IsInjective
<1>7. at \in Surjection(1..n, 1..n)
    <2>1. IsFiniteSet(1..n)
        BY <1>1, FS_Interval
    <2> QED
        BY <1>6, <2>1, FS_Injection
<1>8. ASSUME NEW i \in 1..n PROVE \E f \in 1..n: at[f] = i
    BY <1>7 DEF Surjection
<1>9. ASSUME NEW i \in 1..n, NEW j \in 1..n, given[i].name = given[j].name PROVE i = j
    <2>1. PICK f \in 1..n, g \in 1..n: at[f] = i /\ at[g] = j
        BY <1>8
    <2>2. fields[f] = fields[g]
        BY <1>3, <1>9, <2>1
    <2> QED
        BY <1>1, <2>1, <2>2 DEF IsInjective
<1>10. ASSUME NEW i \in 1..n PROVE given[i].name \in ToSet(fields)
    <2>1. PICK f \in 1..n: at[f] = i
        BY <1>8
    <2> QED
        BY <1>1, <1>3, <2>1 DEF ToSet
<1>11. ASSUME NEW f \in 1..n PROVE \E i \in 1..n: given[i].name = fields[f]
    BY <1>3
<1>12. {given[i].name: i \in 1..n} = ToSet(fields)
    <2>1. ToSet(fields) = {fields[f]: f \in 1..n}
        BY <1>1 DEF ToSet
    <2>2. ASSUME NEW x \in ToSet(fields) PROVE x \in {given[i].name: i \in 1..n}
        <3>1. PICK f \in 1..n: x = fields[f]
            BY <2>1
        <3>2. PICK i \in 1..n: given[i].name = fields[f]
            BY <1>11
        <3> QED
            BY <3>1, <3>2
    <2>3. ASSUME NEW x \in {given[i].name: i \in 1..n} PROVE x \in ToSet(fields)
        BY <1>10
    <2> QED
        BY <2>2, <2>3
<1> QED
    BY <1>1, <1>9, <1>12

\* What an answer taken chooses was offered.
LEMMA ChoiceWasOffered ==
    ASSUME NEW challenge, NEW reply, ChallengeShape(challenge), Check(challenge, reply),
           challenge.offered # <<>>, challenge.kind # "RequiredAction"
    PROVE  reply.chosen \in ToSet(challenge.offered)
    BY DEF ChallengeShape, Check, Offers

\* The answers taken to the password page make its fields, in order (factor.rs: PasswordFactor).
LEMMA PageFieldsInOrder ==
    ASSUME NEW hinted \in BOOLEAN, NEW S, NEW answers \in Seq(S),
           NEW fields \in PageFields(answers),
           Len(answers) = Len(PageAsks(hinted)),
           \A i \in DOMAIN PageAsks(hinted): Check([kind |-> PageAsks(hinted)[i]], answers[i])
    PROVE  [i \in DOMAIN fields |-> fields[i].name] =
               IF hinted THEN <<"password">> ELSE <<"username", "password">>
<1>1. fields = [i \in DOMAIN answers |-> [name |-> FieldOf(answers[i]), value |-> answers[i].text]]
    BY DEF PageFields
<1>2. \A i \in DOMAIN PageAsks(hinted): answers[i].kind = PageAsks(hinted)[i]
    <2>1. ASSUME NEW k \in {"Username", "Password"}, NEW a, Check([kind |-> k], a) PROVE a.kind = k
        BY <2>1 DEF Check
    <2>2. \A i \in DOMAIN PageAsks(hinted): PageAsks(hinted)[i] \in {"Username", "Password"}
        BY DEF PageAsks
    <2> QED
        BY <2>1, <2>2
<1>3. DOMAIN answers = 1..Len(answers) /\ DOMAIN fields = DOMAIN answers
    BY <1>1
<1>4. \A i \in DOMAIN fields: fields[i].name = FieldOf(answers[i])
    BY <1>1
<1>5. CASE hinted
    <2>1. Len(answers) = 1 /\ answers[1].kind = "Password"
        BY <1>2, <1>5 DEF PageAsks
    <2>2. DOMAIN fields = 1..1 /\ fields[1].name = "password"
        BY <1>3, <1>4, <2>1 DEF FieldOf
    <2> QED
        BY <1>5, <2>2
<1>6. CASE ~hinted
    <2>1. Len(answers) = 2 /\ answers[1].kind = "Username" /\ answers[2].kind = "Password"
        BY <1>2, <1>6 DEF PageAsks
    <2>2. DOMAIN fields = 1..2 /\ fields[1].name = "username" /\ fields[2].name = "password"
        BY <1>3, <1>4, <2>1 DEF FieldOf
    <2> QED
        BY <1>6, <2>2
<1> QED
    BY <1>5, <1>6

\* An answer taken chooses what was offered and answers each field once, for challenges and pages
\* of any number of devices and fields (driver.rs: Expect::check; factor.rs: PasswordFactor).
THEOREM AnswersAlwaysFit == Spec => []AnswersFit
<1>1. ASSUME RuleInv PROVE AnswersFit
    <2>1. ASSUME Judged("answer"), TRUE \in verdict
          PROVE  LET offered == case.challenge.offered
                     names   == [i \in DOMAIN case.answer.given |-> case.answer.given[i].name]
                 IN  /\ offered # <<>> /\ case.challenge.kind # "RequiredAction" =>
                            case.answer.chosen \in ToSet(offered)
                     /\ case.challenge.kind = "RequiredAction" /\ IsInjective(offered) =>
                            IsInjective(names) /\ ToSet(names) = ToSet(offered)
        <3>1. case \in AnswerCases /\ Check(case.challenge, case.answer)
            BY <1>1, <2>1 DEF RuleInv, AnswerJudged, Judged
        <3>2. ChallengeShape(case.challenge) /\ AnswerShape(case.answer)
            BY <3>1, ChallengeCasesAssumption
        <3>3. ASSUME case.challenge.offered # <<>>, case.challenge.kind # "RequiredAction"
              PROVE  case.answer.chosen \in ToSet(case.challenge.offered)
            BY <3>1, <3>2, <3>3, ChoiceWasOffered
        <3>4. ASSUME case.challenge.kind = "RequiredAction", IsInjective(case.challenge.offered)
              PROVE  LET names == [i \in DOMAIN case.answer.given |-> case.answer.given[i].name]
                     IN  IsInjective(names) /\ ToSet(names) = ToSet(case.challenge.offered)
            <4>1. FieldsAnswered(case.challenge.offered, case.answer)
                BY <3>1, <3>4 DEF Check
            <4>2. /\ case.challenge.offered \in Seq(ToSet(case.challenge.offered))
                  /\ case.answer.given \in Seq(ToSet(case.answer.given))
                BY <3>2 DEF ChallengeShape, AnswerShape, IsSeq
            <4>3. /\ \A i, j \in DOMAIN case.answer.given:
                         case.answer.given[i].name = case.answer.given[j].name => i = j
                  /\ {case.answer.given[i].name: i \in DOMAIN case.answer.given}
                         = ToSet(case.challenge.offered)
                BY <3>4, <4>1, <4>2, EachFieldOnce
            <4> QED
                BY <4>3 DEF IsInjective, ToSet
        <3> QED
            BY <3>3, <3>4
    <2>2. ASSUME Judged("page"), NEW fields \in verdict
          PROVE  [i \in DOMAIN fields |-> fields[i].name] =
                     IF case.hinted THEN <<"password">> ELSE <<"username", "password">>
        <3>1. /\ case \in PageCases /\ fields \in PageFields(case.answers)
              /\ Len(case.answers) = Len(PageAsks(case.hinted))
              /\ \A i \in DOMAIN PageAsks(case.hinted):
                     Check([kind |-> PageAsks(case.hinted)[i]], case.answers[i])
            BY <1>1, <2>2 DEF RuleInv, PageJudged, Judged
        <3>2. case.hinted \in BOOLEAN /\ case.answers \in Seq(ToSet(case.answers))
            BY <3>1, ChallengeCasesAssumption DEF IsSeq
        <3> QED
            BY <3>1, <3>2, PageFieldsInOrder
    <2> QED
        BY <2>1, <2>2 DEF AnswersFit
<1> QED
    BY <1>1, JudgedByItsRule, PTL

-----------------------------------------------------------------------------
(* What PAM asks for *)

\* The messages of a plan that ask for something.
AskedOf(c) == {Messages(c)[i]: i \in DOMAIN Messages(c)} \ ToSet(Tell)

\* What comes before a sequence is its first element, or nothing.
LEMMA Prefixed ==
    ASSUME NEW S, NEW s \in Seq(S), NEW m \in S
    PROVE  /\ DOMAIN (<<m>> \o s) = 1..(1 + Len(s))
           /\ (<<m>> \o s)[1] = m
           /\ \A i \in 1..Len(s): (<<m>> \o s)[1 + i] = s[i]
           /\ <<>> \o s = s
<1>1. <<m>> \in Seq(S) /\ Len(<<m>>) = 1 /\ <<m>>[1] = m
    OBVIOUS
<1>2. Len(s) \in Nat
    OBVIOUS
<1>3. <<m>> \o s = [i \in 1..(1 + Len(s)) |-> IF i <= 1 THEN <<m>>[i] ELSE s[i - 1]]
    BY <1>1, <1>2
<1> QED
    BY <1>1, <1>2, <1>3

\* What is told asks for nothing.
LEMMA ToldIsNoQuestion ==
    /\ ToSet(Tell) = {Message("Information", "")}
    /\ \A style \in {"HiddenInput", "VisibleInput"}:
           \A part: Message(style, part) \notin ToSet(Tell)
<1>1. DOMAIN Tell = {1} /\ Tell[1] = Message("Information", "")
    BY DEF Tell
<1>2. ToSet(Tell) = {Message("Information", "")}
    <2>1. \A x \in ToSet(Tell): x = Message("Information", "")
        BY <1>1 DEF ToSet
    <2>2. Message("Information", "") \in ToSet(Tell)
        BY <1>1 DEF ToSet
    <2> QED
        BY <2>1, <2>2
<1>3. \A style, part: Message(style, part).style = style
    BY DEF Message
<1>4. ASSUME NEW style \in {"HiddenInput", "VisibleInput"}, NEW part
      PROVE  Message(style, part) \notin ToSet(Tell)
    <2>1. Message(style, part).style = style /\ Message("Information", "").style = "Information"
        BY <1>3
    <2>2. style # "Information"
        OBVIOUS
    <2> QED
        BY <1>2, <2>1, <2>2
<1> QED
    BY <1>2, <1>4

\* One message for each field of a required action, after what is told.
LEMMA FieldsAreAsked ==
    ASSUME NEW c, ChallengeShape(c), c.kind = "RequiredAction"
    PROVE  AskedOf(c) = {FieldMessages(c)[i]: i \in DOMAIN c.offered}
<1> DEFINE fields == FieldMessages(c)
           told == Message("Information", "")
           n == Len(c.offered)
           M == {fields[i]: i \in 1..n} \cup {told}
<1>1. n \in Nat /\ DOMAIN c.offered = 1..n
    BY DEF ChallengeShape, IsSeq
<1>2. fields \in Seq(M) /\ Len(fields) = n /\ DOMAIN fields = 1..n
    <2>1. fields = [i \in 1..n |-> fields[i]] /\ DOMAIN fields = 1..n
        BY <1>1 DEF FieldMessages
    <2> HIDE DEF fields
    <2>2. fields \in [1..n -> M]
        BY <2>1
    <2> HIDE DEF M
    <2>3. fields \in Seq(M)
        BY <1>1, <2>2
    <2>4. Len(fields) = n
        BY <1>1, <2>1, <2>3
    <2> QED
        BY <2>1, <2>3, <2>4
<1>3. \A i \in 1..n: fields[i].style \in {"HiddenInput", "VisibleInput"}
    BY <1>1 DEF FieldMessages, Message
<1>4. \A i \in 1..n: fields[i] \notin ToSet(Tell)
    <2>1. told.style = "Information"
        BY DEF Message
    <2> QED
        BY <1>3, <2>1, ToldIsNoQuestion
<1>5. Messages(c) = Tell \o fields \/ Messages(c) = <<>> \o fields
    BY DEF Messages
<1>6. told \in M
    OBVIOUS
<1> HIDE DEF fields, M, told
<1>7. CASE Messages(c) = <<>> \o fields
    <2>1. Messages(c) = fields
        BY <1>2, <1>6, <1>7, Prefixed
    <2> QED
        BY <1>1, <1>2, <1>4, <2>1 DEF AskedOf, fields
<1>8. CASE Messages(c) = Tell \o fields
    <2>1. Messages(c) = <<told>> \o fields
        BY <1>8 DEF Tell, told
    <2>2. /\ DOMAIN Messages(c) = 1..(1 + n) /\ Messages(c)[1] = told
          /\ \A i \in 1..n: Messages(c)[1 + i] = fields[i]
        <3>1. fields \in Seq(M) /\ told \in M /\ Len(fields) = n
            BY <1>2, <1>6
        <3> QED
            BY <2>1, <3>1, Prefixed
    <2>3. \A k \in 1..(1 + n): k = 1 \/ \E i \in 1..n: k = 1 + i
        <3>1. \A k \in 2..(1 + n): k - 1 \in 1..n /\ k = 1 + (k - 1)
            BY <1>1
        <3> QED
            BY <1>1, <3>1
    <2>4. ASSUME NEW m \in AskedOf(c) PROVE m \in {fields[i]: i \in 1..n}
        <3>1. PICK k \in 1..(1 + n): m = Messages(c)[k] /\ m \notin ToSet(Tell)
            BY <2>2 DEF AskedOf
        <3>2. k # 1
            BY <2>2, <3>1, ToldIsNoQuestion DEF told
        <3> QED
            BY <2>2, <2>3, <3>1, <3>2
    <2>5. ASSUME NEW i \in 1..n PROVE fields[i] \in AskedOf(c)
        <3>1. 1 + i \in DOMAIN Messages(c)
            BY <1>1, <2>2
        <3> QED
            BY <1>4, <2>2, <3>1 DEF AskedOf
    <2> QED
        BY <1>1, <2>4, <2>5 DEF fields
<1> QED
    BY <1>5, <1>7, <1>8

\* What the other challenges ask for (conversation.rs: plan).
LEMMA OthersAreAsked ==
    ASSUME NEW c, ChallengeShape(c), c.kind # "RequiredAction"
    PROVE  AskedOf(c) =
               CASE c.kind = "Username" -> {Message("VisibleInput", "text")}
                 [] c.kind \in {"Password", "RecoveryCode"} -> {Message("HiddenInput", "text")}
                 [] c.kind = "OneTimeCode" ->
                        {Message("HiddenInput", "text")}
                            \cup {m \in {Message("VisibleInput", "chosen")}: ChoosesDevice(c)}
                 [] c.kind = "ChooseMethod" -> {Message("VisibleInput", "chosen")}
                 [] c.kind \in {"Info", "WebAuthn"} -> {}
<1> DEFINE text == Message("HiddenInput", "text")
           choice == Message("VisibleInput", "chosen")
<1>1. /\ ToSet(Tell) = {Message("Information", "")}
      /\ \A style \in {"HiddenInput", "VisibleInput"}:
             \A part: Message(style, part) \notin ToSet(Tell)
    BY ToldIsNoQuestion
<1>2. ASSUME NEW m, Messages(c) = <<m>> PROVE AskedOf(c) = {m} \ ToSet(Tell)
    BY <1>2 DEF AskedOf
<1>3. c.kind \in {"Username", "Password", "RecoveryCode", "Info", "OneTimeCode", "WebAuthn",
                  "ChooseMethod"}
    BY DEF ChallengeShape, Offers
<1>4. CASE c.kind = "Username"
    <2>1. Messages(c) = <<Message("VisibleInput", "text")>>
        BY <1>4 DEF Messages
    <2> QED
        BY <1>1, <1>2, <1>4, <2>1
<1>5. CASE c.kind \in {"Password", "RecoveryCode"}
    <2>1. Messages(c) = <<text>>
        BY <1>5 DEF Messages
    <2> QED
        BY <1>1, <1>2, <1>5, <2>1
<1>6. CASE c.kind = "OneTimeCode"
    <2>1. Messages(c) = IF ChoosesDevice(c) THEN <<choice>> \o <<text>> ELSE <<>> \o <<text>>
        BY <1>6 DEF Messages
    <2> HIDE DEF text, choice
    <2>2. CASE ChoosesDevice(c)
        <3>1. DOMAIN Messages(c) = 1..2 /\ Messages(c)[1] = choice /\ Messages(c)[2] = text
            <4>1. <<text>> \in Seq({choice, text}) /\ Len(<<text>>) = 1 /\ <<text>>[1] = text
                OBVIOUS
            <4>2. /\ DOMAIN (<<choice>> \o <<text>>) = 1..(1 + 1)
                  /\ (<<choice>> \o <<text>>)[1] = choice
                  /\ (<<choice>> \o <<text>>)[1 + 1] = <<text>>[1]
                BY <4>1, Prefixed
            <4>3. Messages(c) = <<choice>> \o <<text>> /\ 1 + 1 = 2
                BY <2>1, <2>2
            <4> QED
                BY <4>1, <4>2, <4>3
        <3>2. {Messages(c)[i]: i \in DOMAIN Messages(c)} = {choice, text}
            BY <3>1
        <3> QED
            BY <1>1, <1>6, <2>2, <3>2 DEF AskedOf, text, choice
    <2>3. CASE ~ChoosesDevice(c)
        <3>1. Messages(c) = <<text>>
            BY <2>1, <2>3
        <3>2. AskedOf(c) = {text} \ ToSet(Tell)
            BY <1>2, <3>1
        <3> QED
            BY <1>1, <1>6, <2>3, <3>2 DEF text
    <2> QED
        BY <2>2, <2>3
<1>7. CASE c.kind = "ChooseMethod"
    <2>1. Messages(c) = <<choice>>
        BY <1>7 DEF Messages
    <2> QED
        BY <1>1, <1>2, <1>7, <2>1
<1>8. CASE c.kind \in {"Info", "WebAuthn"}
    <2>1. Messages(c) = <<Message("Information", "")>>
        BY <1>8 DEF Messages, Tell
    <2> QED
        BY <1>1, <1>2, <1>8, <2>1
<1> QED
    BY <1>3, <1>4, <1>5, <1>6, <1>7, <1>8

\* Two answers taken differ only in what their kind of challenge leaves open.
LEMMA TakenDifferInParts ==
    ASSUME NEW c, ChallengeShape(c), c.kind # "WebAuthn",
           NEW a, NEW b, AnswerShape(a), AnswerShape(b), Check(c, a), Check(c, b),
           NEW p \in {"text", "chosen"} \cup ToSet(c.offered), Part(a, p) # Part(b, p)
    PROVE  \/ c.kind = "RequiredAction" /\ p \in ToSet(c.offered)
           \/ c.kind \in {"Username", "Password", "RecoveryCode", "OneTimeCode"} /\ p = "text"
           \/ c.kind = "OneTimeCode" /\ ChoosesDevice(c) /\ p = "chosen"
           \/ c.kind = "ChooseMethod" /\ p = "chosen"
<1>1. /\ c.kind \in {"Username", "Password", "RecoveryCode", "Info", "OneTimeCode", "ChooseMethod",
                     "RequiredAction"}
      /\ c.offered \in Seq(ToSet(c.offered))
      /\ c.kind \in {"Username", "Password", "RecoveryCode", "Info"} => c.offered = <<>>
    BY DEF ChallengeShape, Offers, IsSeq
<1>2. a.kind = b.kind /\ a.kind = IF c.kind = "Info" THEN "Acknowledge" ELSE c.kind
    BY DEF Check
<1>3. /\ a.kind # "RequiredAction" => a.given = <<>> /\ b.given = <<>>
      /\ a.kind \notin {"Username", "Password", "OneTimeCode", "RecoveryCode"} => a.text = b.text
      /\ a.kind \notin {"OneTimeCode", "WebAuthn", "ChooseMethod"} => a.chosen = b.chosen
    BY <1>2 DEF AnswerShape
<1>4. CASE p = "text"
    <2>1. a.text # b.text
        BY <1>4 DEF Part
    <2> QED
        BY <1>1, <1>2, <1>3, <1>4, <2>1
<1>5. CASE p = "chosen"
    <2>1. a.chosen # b.chosen
        BY <1>5 DEF Part
    <2>2. c.kind \in {"OneTimeCode", "ChooseMethod"}
        BY <1>1, <1>2, <1>3, <2>1
    <2>3. ASSUME c.kind = "OneTimeCode" PROVE Len(c.offered) > 1
        <3>1. \/ c.offered = <<>> /\ a.chosen = NoChoice /\ b.chosen = NoChoice
              \/ a.chosen \in ToSet(c.offered) /\ b.chosen \in ToSet(c.offered)
            BY <2>3 DEF Check
        <3>2. PICK i \in DOMAIN c.offered, j \in DOMAIN c.offered:
                       a.chosen = c.offered[i] /\ b.chosen = c.offered[j]
            BY <2>1, <3>1 DEF ToSet
        <3>3. i \in 1..Len(c.offered) /\ j \in 1..Len(c.offered) /\ i # j
            BY <1>1, <2>1, <3>2
        <3> QED
            BY <1>1, <3>3
    <2> QED
        BY <1>5, <2>2, <2>3 DEF ChoosesDevice
<1>6. CASE p \notin {"text", "chosen"}
    <2>1. /\ Part(a, p) = {a.given[i].value: i \in Answers(a, p)}
          /\ Part(b, p) = {b.given[i].value: i \in Answers(b, p)}
        BY <1>6 DEF Part
    <2>2. CASE a.kind = "RequiredAction"
        BY <1>1, <1>2, <1>6, <2>2
    <2>3. CASE a.kind # "RequiredAction"
        <3>1. Answers(a, p) = {} /\ Answers(b, p) = {}
            BY <1>3, <2>3 DEF Answers
        <3> QED
            BY <2>1, <3>1
    <2> QED
        BY <2>2, <2>3
<1> QED
    BY <1>4, <1>5, <1>6

\* No two messages ask for one part, if no two fields have one name.
LEMMA NothingAskedTwice ==
    ASSUME NEW c, ChallengeShape(c), IsInjective(c.offered),
           NEW i \in DOMAIN Messages(c), NEW j \in DOMAIN Messages(c),
           Messages(c)[i] \notin ToSet(Tell), Messages(c)[j] \notin ToSet(Tell),
           Messages(c)[i].part = Messages(c)[j].part
    PROVE  i = j
<1>1. ASSUME NEW m, Messages(c) = <<m>> PROVE i = j
    BY <1>1
<1>2. \A style, part: Message(style, part).part = part
    BY DEF Message
<1>3. CASE c.kind = "RequiredAction"
    <2> DEFINE fields == FieldMessages(c)
               told == Message("Information", "")
               n == Len(c.offered)
               M == {fields[k]: k \in 1..n} \cup {told}
    <2>1. n \in Nat /\ DOMAIN c.offered = 1..n
        BY DEF ChallengeShape, IsSeq
    <2>2. /\ fields = [k \in 1..n |-> fields[k]] /\ DOMAIN fields = 1..n
          /\ \A k \in 1..n: fields[k].part = c.offered[k]
        BY <2>1 DEF FieldMessages, Message
    <2>3. Messages(c) = Tell \o fields \/ Messages(c) = <<>> \o fields
        BY <1>3 DEF Messages
    <2>4. told \in M
        OBVIOUS
    <2> HIDE DEF fields, told
    <2>5. fields \in [1..n -> M]
        BY <2>2
    <2> HIDE DEF M
    <2>6. fields \in Seq(M) /\ Len(fields) = n
        BY <2>1, <2>2, <2>5
    <2>7. \A k, l \in 1..n: fields[k].part = fields[l].part => k = l
        BY <2>1, <2>2 DEF IsInjective
    <2>8. CASE Messages(c) = <<>> \o fields
        <3>1. Messages(c) = fields
            BY <2>4, <2>6, <2>8, Prefixed
        <3> QED
            BY <2>2, <2>7, <3>1
    <2>9. CASE Messages(c) = Tell \o fields
        <3>1. Messages(c) = <<told>> \o fields
            BY <2>9 DEF Tell, told
        <3>2. /\ DOMAIN Messages(c) = 1..(1 + n) /\ Messages(c)[1] = told
              /\ \A k \in 1..n: Messages(c)[1 + k] = fields[k]
            BY <2>4, <2>6, <3>1, Prefixed
        <3>3. i # 1 /\ j # 1
            BY <3>2, ToldIsNoQuestion DEF told
        <3>4. i - 1 \in 1..n /\ j - 1 \in 1..n /\ i = 1 + (i - 1) /\ j = 1 + (j - 1)
            BY <2>1, <3>2, <3>3
        <3>5. fields[i - 1].part = fields[j - 1].part
            BY <3>2, <3>4
        <3>6. i - 1 = j - 1
            BY <2>7, <3>4, <3>5
        <3> QED
            BY <3>4, <3>6
    <2> QED
        BY <2>3, <2>8, <2>9
<1>4. CASE c.kind = "OneTimeCode" /\ ChoosesDevice(c)
    <2> DEFINE text == Message("HiddenInput", "text")
               choice == Message("VisibleInput", "chosen")
    <2>1. Messages(c) = <<choice>> \o <<text>> /\ choice.part # text.part
        BY <1>2, <1>4 DEF Messages
    <2> HIDE DEF text, choice
    <2>2. <<text>> \in Seq({choice, text}) /\ Len(<<text>>) = 1 /\ <<text>>[1] = text
        OBVIOUS
    <2>3. /\ DOMAIN (<<choice>> \o <<text>>) = 1..(1 + 1)
          /\ (<<choice>> \o <<text>>)[1] = choice
          /\ (<<choice>> \o <<text>>)[1 + 1] = <<text>>[1]
        BY <2>2, Prefixed
    <2>4. DOMAIN Messages(c) = {1, 2} /\ Messages(c)[1] = choice /\ Messages(c)[2] = text
        <3>1. 1 + 1 = 2 /\ 1..2 = {1, 2}
            OBVIOUS
        <3> QED
            BY <2>1, <2>2, <2>3, <3>1
    <2>5. Messages(c)[1].part # Messages(c)[2].part
        BY <2>1, <2>4
    <2>6. i \in {1, 2} /\ j \in {1, 2}
        BY <2>4
    <2>7. CASE i = 1 /\ j = 2
        BY <2>5, <2>7
    <2>8. CASE i = 2 /\ j = 1
        BY <2>5, <2>8
    <2> QED
        BY <2>6, <2>7, <2>8
<1>5. CASE c.kind = "OneTimeCode" /\ ~ChoosesDevice(c)
    <2>1. Messages(c) = <<>> \o <<Message("HiddenInput", "text")>>
        BY <1>5 DEF Messages
    <2>2. Messages(c) = <<Message("HiddenInput", "text")>>
        BY <2>1
    <2> QED
        BY <1>1, <2>2
<1>6. CASE c.kind \in {"Username", "Password", "RecoveryCode", "ChooseMethod", "Info", "WebAuthn"}
    <2>1. \E m: Messages(c) = <<m>>
        BY <1>6 DEF Messages, Tell
    <2> QED
        BY <1>1, <2>1
<1> QED
    BY <1>3, <1>4, <1>5, <1>6 DEF ChallengeShape, Offers

\* conversation.rs, plan: the messages ask for what the user is to be asked for, nothing else and
\* nothing twice; that tells the answers the engine takes apart; only what is no secret is echoed;
\* and only a NUL or the want of a method is refused; for any devices, methods and fields.
THEOREM PlansSuffice == Spec => []PlanSuffices
<1>1. ASSUME RuleInv, Judged("plan"), NEW plan \in verdict
      PROVE  LET asks  == {i \in DOMAIN plan.messages: plan.messages[i] \notin ToSet(Tell)}
                 asked == {plan.messages[i]: i \in asks}
                 parts == {m.part: m \in asked}
             IN  /\ parts = Wanted(case)
                 /\ IsInjective(case.offered) =>
                        \A i, j \in asks: plan.messages[i].part = plan.messages[j].part => i = j
                 /\ plan.next = "CollectInput" <=> parts # {}
                 /\ plan.next # "WebAuthnAdapter" =>
                        \A a, b \in Taken(case):
                            \A p \in {"text", "chosen"} \cup ToSet(case.offered):
                                Part(a, p) # Part(b, p) => p \in parts
                 /\ \A m \in asked:
                        m.style = "HiddenInput" <=>
                            \/ Input(case) = "Hidden" /\ m.part = "text"
                            \/ Input(case) = "Form" /\ m.part \in case.secret
    <2> DEFINE asked == AskedOf(case)
               parts == {m.part: m \in asked}
    <2>1. case \in PlanCases /\ plan \in Plans(case)
        BY <1>1 DEF RuleInv, PlanJudged, Judged
    <2>2. /\ plan.messages = Messages(case) /\ plan.next = NextAction(case)
          /\ ~(case.kind = "ChooseMethod" /\ case.offered = <<>>)
        BY <2>1 DEF Plans
    <2>3. ChallengeShape(case)
        BY <2>1, ChallengeCasesAssumption
    <2>4. case.kind \in {"Username", "Password", "RecoveryCode", "Info", "OneTimeCode", "WebAuthn",
                         "ChooseMethod", "RequiredAction"}
        BY <2>3 DEF ChallengeShape, Offers
    <2>5. case.kind = "RequiredAction" =>
              asked = {FieldMessages(case)[i]: i \in DOMAIN case.offered}
        BY <2>3, FieldsAreAsked
    <2>6. case.kind = "RequiredAction" =>
              /\ \A i \in DOMAIN case.offered:
                     /\ FieldMessages(case)[i].part = case.offered[i]
                     /\ FieldMessages(case)[i].style = "HiddenInput"
                            <=> case.offered[i] \in case.secret
              /\ parts = ToSet(case.offered)
        <3>1. \A i \in DOMAIN case.offered:
                     /\ FieldMessages(case)[i].part = case.offered[i]
                     /\ FieldMessages(case)[i].style = "HiddenInput"
                            <=> case.offered[i] \in case.secret
            BY DEF FieldMessages, Message
        <3>2. ASSUME case.kind = "RequiredAction" PROVE parts = ToSet(case.offered)
            <4>1. ASSUME NEW x \in parts PROVE x \in ToSet(case.offered)
                BY <2>5, <3>1, <3>2 DEF ToSet
            <4>2. ASSUME NEW x \in ToSet(case.offered) PROVE x \in parts
                <5>1. PICK i \in DOMAIN case.offered: x = case.offered[i]
                    BY DEF ToSet
                <5>2. FieldMessages(case)[i] \in asked
                    BY <2>5, <3>2
                <5> QED
                    BY <3>1, <5>1, <5>2
            <4> QED
                BY <4>1, <4>2
        <3> QED
            BY <3>1, <3>2
    <2>7. case.kind # "RequiredAction" => asked =
              CASE case.kind = "Username" -> {Message("VisibleInput", "text")}
                [] case.kind \in {"Password", "RecoveryCode"} -> {Message("HiddenInput", "text")}
                [] case.kind = "OneTimeCode" ->
                       {Message("HiddenInput", "text")}
                           \cup {m \in {Message("VisibleInput", "chosen")}: ChoosesDevice(case)}
                [] case.kind = "ChooseMethod" -> {Message("VisibleInput", "chosen")}
                [] case.kind \in {"Info", "WebAuthn"} -> {}
        BY <2>3, OthersAreAsked
    <2> HIDE DEF asked
    <2>8. \A style, part: Message(style, part).style = style /\ Message(style, part).part = part
        BY DEF Message
    <2>9. /\ case.kind \in {"Username", "Password", "RecoveryCode"} => parts = {"text"}
          /\ case.kind = "OneTimeCode" =>
                 parts = IF ChoosesDevice(case) THEN {"text", "chosen"} ELSE {"text"}
          /\ case.kind = "ChooseMethod" => parts = {"chosen"}
          /\ case.kind \in {"Info", "WebAuthn"} => parts = {}
        BY <2>7, <2>8
    <2>10. plan.next = "CollectInput" <=> parts # {}
        <3>1. CASE case.kind = "RequiredAction"
            <4>1. case.offered = <<>> <=> ToSet(case.offered) = {}
                <5>1. case.offered \in Seq(ToSet(case.offered))
                    BY <2>3 DEF ChallengeShape, IsSeq
                <5>2. ASSUME case.offered # <<>> PROVE case.offered[1] \in ToSet(case.offered)
                    <6>1. 1 \in DOMAIN case.offered
                        BY <5>1, <5>2
                    <6> QED
                        BY <6>1 DEF ToSet
                <5>3. ASSUME case.offered = <<>> PROVE ToSet(case.offered) = {}
                    BY <5>3 DEF ToSet
                <5> QED
                    BY <5>2, <5>3
            <4> QED
                BY <2>2, <2>6, <3>1, <4>1 DEF NextAction
        <3>2. CASE case.kind # "RequiredAction"
            BY <2>2, <2>4, <2>9, <3>2 DEF NextAction
        <3> QED
            BY <3>1, <3>2
    <2>11. ASSUME plan.next # "WebAuthnAdapter", NEW a \in Taken(case), NEW b \in Taken(case),
                  NEW p \in {"text", "chosen"} \cup ToSet(case.offered), Part(a, p) # Part(b, p)
           PROVE  p \in parts
        <3>1. AnswerShape(a) /\ AnswerShape(b) /\ Check(case, a) /\ Check(case, b)
            BY ChallengeCasesAssumption DEF Taken
        <3>2. case.kind # "WebAuthn"
            BY <2>2, <2>11 DEF NextAction
        <3>3. \/ case.kind = "RequiredAction" /\ p \in ToSet(case.offered)
              \/ case.kind \in {"Username", "Password", "RecoveryCode", "OneTimeCode"} /\ p = "text"
              \/ case.kind = "OneTimeCode" /\ ChoosesDevice(case) /\ p = "chosen"
              \/ case.kind = "ChooseMethod" /\ p = "chosen"
            BY <2>3, <2>11, <3>1, <3>2, TakenDifferInParts
        <3> HIDE DEF parts
        <3> QED
            BY <2>6, <2>9, <3>3
    <2>12. ASSUME NEW m \in asked
           PROVE  m.style = "HiddenInput" <=>
                      \/ Input(case) = "Hidden" /\ m.part = "text"
                      \/ Input(case) = "Form" /\ m.part \in case.secret
        <3>1. CASE case.kind = "RequiredAction"
            <4>1. PICK i \in DOMAIN case.offered: m = FieldMessages(case)[i]
                BY <2>5, <2>12, <3>1
            <4>2. Input(case) = "Form"
                BY <3>1 DEF Input
            <4> QED
                BY <2>6, <3>1, <4>1, <4>2
        <3>2. CASE case.kind \in {"Username", "ChooseMethod"}
            <4>1. Input(case) = "Visible" /\ m.style = "VisibleInput"
                BY <2>7, <2>8, <2>12, <3>2 DEF Input
            <4> QED
                BY <4>1
        <3>3. CASE case.kind \in {"Password", "RecoveryCode", "OneTimeCode"}
            <4>1. Input(case) = "Hidden"
                BY <3>3 DEF Input
            <4>2. m = Message("HiddenInput", "text") \/ m = Message("VisibleInput", "chosen")
                BY <2>7, <2>12, <3>3
            <4> QED
                BY <2>8, <4>1, <4>2
        <3>4. CASE case.kind \in {"Info", "WebAuthn"}
            BY <2>7, <2>12, <3>4
        <3> QED
            BY <2>4, <3>1, <3>2, <3>3, <3>4
    <2>13. parts = Wanted(case)
        <3> HIDE DEF parts
        <3> QED
            BY <2>4, <2>6, <2>9 DEF Wanted, ChoosesDevice
    <2>14. ASSUME IsInjective(case.offered),
                  NEW i \in DOMAIN plan.messages, NEW j \in DOMAIN plan.messages,
                  plan.messages[i] \notin ToSet(Tell), plan.messages[j] \notin ToSet(Tell),
                  plan.messages[i].part = plan.messages[j].part
           PROVE  i = j
        BY <2>2, <2>3, <2>14, NothingAskedTwice
    <2>15. asked = {plan.messages[i]: i \in {k \in DOMAIN plan.messages:
                                                 plan.messages[k] \notin ToSet(Tell)}}
        BY <2>2 DEF asked, AskedOf
    <2> QED
        BY <2>10, <2>11, <2>12, <2>13, <2>14, <2>15
<1>2. ASSUME RuleInv, Judged("plan"), verdict = {} PROVE Taken(case) = {} \/ case.nul
    <2>1. verdict = Plans(case)
        BY <1>2 DEF RuleInv, PlanJudged, Judged
    <2>2. (case.kind = "ChooseMethod" /\ case.offered = <<>>) \/ case.nul
        BY <1>2, <2>1 DEF Plans
    <2>3. ASSUME case.kind = "ChooseMethod", case.offered = <<>>, NEW a \in Taken(case) PROVE FALSE
        <3>1. a.chosen \in ToSet(case.offered)
            BY <2>3 DEF Taken, Check
        <3> QED
            BY <2>3, <3>1 DEF ToSet
    <2> QED
        BY <2>2, <2>3
<1>3. RuleInv => PlanSuffices
    BY <1>1, <1>2 DEF PlanSuffices
<1> QED
    BY <1>3, JudgedByItsRule, PTL

-----------------------------------------------------------------------------
(* One-time codes *)

\* A number, digit by digit.
NumberUpTo(f, base, digits) ==
    /\ Number(base, digits) = f[Len(digits)] /\ f[0] = 0
    /\ \A n \in 1..Len(digits): f[n] = f[n - 1] * base + digits[n]

\* The number that digits stand for, digit by digit.
LEMMA NumberUnfolds ==
    ASSUME NEW base, NEW digits, Len(digits) \in Nat
    PROVE  \E f: NumberUpTo(f, base, digits)
<1> DEFINE N == Len(digits)
           step(x, n) == x * base + digits[n]
           rounds(f, m) == [n \in 0..m |-> IF n = 0 THEN 0 ELSE step(f[n - 1], n)]
           G == {m \in 0..N: \E f: f = rounds(f, m)}
           kept == CHOOSE f: f = rounds(f, N)
<1>1. Number(base, digits) = kept[N]
    BY DEF Number
<1> HIDE DEF step
<1>2. 0 \in G
    <2> DEFINE f == [n \in 0..0 |-> 0]
    <2>1. f = rounds(f, 0) /\ 0 \in 0..N
        OBVIOUS
    <2> HIDE DEF f, rounds
    <2> QED
        BY <2>1
<1>3. ASSUME NEW m \in 1..N, m - 1 \in G PROVE m \in G
    <2>1. PICK f: f = rounds(f, m - 1)
        BY <1>3
    <2> DEFINE g == [n \in 0..m |-> IF n = m THEN step(f[m - 1], m) ELSE f[n]]
    <2>2. ASSUME NEW n \in 0..m PROVE g[n] = rounds(g, m)[n]
        BY <2>1, <2>2
    <2>3. g = rounds(g, m)
        BY <2>2
    <2> HIDE DEF g, rounds
    <2> QED
        BY <2>3
<1>4. \E f: f = rounds(f, N)
    <2> HIDE DEF rounds
    <2>1. \A n \in 0..N: n \in G
        <3> HIDE DEF G
        <3> QED
            BY <1>2, <1>3, UpTo
    <2> QED
        BY <2>1
<1>5. kept = rounds(kept, N)
    <2> HIDE DEF rounds
    <2> QED
        BY <1>4
<1>6. kept[0] = 0 /\ \A n \in 1..N: kept[n] = step(kept[n - 1], n)
    <2> HIDE DEF kept
    <2> QED
        BY <1>5
<1> QED
    BY <1>1, <1>6 DEF step, NumberUpTo

\* The tens and the ones of a number.
LEMMA TenParts ==
    ASSUME NEW n \in Nat
    PROVE  n \div 10 \in Nat /\ n = (n \div 10) * 10 + (n % 10) /\ n % 10 \in 0..9
<1>1. \E q \in Nat, x \in 0..9: n = q * 10 + x /\ x = n % 10 /\ q = n \div 10
    OBVIOUS
<1> QED
    BY <1>1

\* A number is determined by its tens and ones.
LEMMA TensAndOnes ==
    ASSUME NEW a \in Nat, NEW b \in Nat, NEW x \in 0..9, NEW y \in 0..9, a * 10 + x = b * 10 + y
    PROVE  a = b /\ x = y
OBVIOUS

\* A digit less is a tenth of the number.
LEMMA Tenth ==
    ASSUME NEW n \in Nat, NEW e \in 0..7
    PROVE  n \div 10^e \in Nat /\ n \div 10^(e + 1) = (n \div 10^e) \div 10
<1>1. e \in {0, 1, 2, 3, 4, 5, 6, 7}
    OBVIOUS
<1>2. CASE e = 0
    BY <1>2
<1>3. CASE e = 1
    BY <1>3
<1>4. CASE e = 2
    BY <1>4
<1>5. CASE e = 3
    BY <1>5
<1>6. CASE e = 4
    BY <1>6
<1>7. CASE e = 5
    BY <1>7
<1>8. CASE e = 6
    BY <1>8
<1>9. CASE e = 7
    BY <1>9
<1> QED
    BY <1>1, <1>2, <1>3, <1>4, <1>5, <1>6, <1>7, <1>8, <1>9

\* The digits of a number, and no others, stand for it (totp.rs, hotp).
LEMMA DigitsStandForIt ==
    ASSUME NEW d \in 6..8, NEW n \in Nat, n < 10^d, NEW typed \in Seq(0..9), Len(typed) = d
    PROVE  Number(10, typed) = n <=> typed = Written(n, d)
<1> DEFINE q(i) == n \div 10^(d - i)
<1>1. d \in Nat /\ DOMAIN typed = 1..d /\ \A i \in 1..d: typed[i] \in 0..9
    OBVIOUS
<1>2. ASSUME NEW i \in 1..d
      PROVE  /\ i - 1 \in 0..d /\ q(i) \in Nat /\ q(i - 1) \in Nat
             /\ q(i) = q(i - 1) * 10 + (q(i) % 10) /\ q(i) % 10 \in 0..9
    <2> DEFINE e == d - i
    <2>1. e \in 0..7 /\ d - (i - 1) = e + 1
        OBVIOUS
    <2>2. n \div 10^e \in Nat /\ n \div 10^(e + 1) = (n \div 10^e) \div 10
        BY <2>1, Tenth
    <2>3. q(i) \in Nat /\ q(i - 1) = q(i) \div 10
        BY <2>1, <2>2
    <2>4. i - 1 \in 0..d
        OBVIOUS
    <2> HIDE DEF q
    <2> QED
        BY <2>3, <2>4, TenParts
<1>3. q(d) = n
    <2>1. 10^(d - d) = 1
        OBVIOUS
    <2> QED
        BY <2>1
<1>4. q(0) = 0
    <2>1. d \in {6, 7, 8}
        OBVIOUS
    <2> QED
        BY <2>1
<1>5. Written(n, d) = [i \in 1..d |-> q(i) % 10]
    BY DEF Written
<1> HIDE DEF q
<1>6. PICK f: /\ Number(10, typed) = f[d] /\ f[0] = 0
              /\ \A i \in 1..d: f[i] = f[i - 1] * 10 + typed[i]
    <2>1. \E f: /\ Number(10, typed) = f[Len(typed)] /\ f[0] = 0
                /\ \A i \in 1..Len(typed): f[i] = f[i - 1] * 10 + typed[i]
        BY <1>1, NumberUnfolds DEF NumberUpTo
    <2> QED
        BY <2>1
<1>7. \A i \in 0..d: f[i] \in Nat
    <2> DEFINE G == {i \in 0..d: f[i] \in Nat}
    <2>1. 0 \in G
        BY <1>1, <1>6
    <2>2. ASSUME NEW i \in 1..d, i - 1 \in G PROVE i \in G
        <3>1. f[i] = f[i - 1] * 10 + typed[i] /\ typed[i] \in 0..9 /\ f[i - 1] \in Nat
            BY <1>1, <1>6, <2>2
        <3>2. f[i] \in Nat
            BY <3>1
        <3> QED
            BY <3>2
    <2>3. \A i \in 0..d: i \in G
        <3> HIDE DEF G
        <3> QED
            BY <1>1, <2>1, <2>2, UpTo
    <2> QED
        BY <2>3
<1>8. ASSUME typed = Written(n, d) PROVE f[d] = n
    <2> DEFINE G == {i \in 0..d: f[i] = q(i)}
    <2>1. 0 \in G
        BY <1>1, <1>4, <1>6
    <2>2. ASSUME NEW i \in 1..d, i - 1 \in G PROVE i \in G
        <3>1. typed[i] = q(i) % 10 /\ f[i] = f[i - 1] * 10 + typed[i]
            BY <1>5, <1>6, <1>8
        <3>2. q(i) = q(i - 1) * 10 + (q(i) % 10) /\ f[i - 1] = q(i - 1)
            BY <1>2, <2>2
        <3>3. f[i] = q(i)
            BY <3>1, <3>2
        <3> QED
            BY <1>1, <3>3
    <2>3. \A i \in 0..d: i \in G
        <3> HIDE DEF G
        <3> QED
            BY <1>1, <2>1, <2>2, UpTo
    <2> QED
        BY <1>3, <2>3
<1>9. ASSUME f[d] = n PROVE typed = Written(n, d)
    <2> DEFINE G == {k \in 0..d: f[d - k] = q(d - k)}
    <2>1. 0 \in G
        BY <1>1, <1>3, <1>9
    <2>2. ASSUME NEW i \in 1..d, f[i] = q(i) PROVE f[i - 1] = q(i - 1) /\ typed[i] = q(i) % 10
        <3>1. /\ f[i] = f[i - 1] * 10 + typed[i] /\ q(i) = q(i - 1) * 10 + (q(i) % 10)
              /\ f[i - 1] \in Nat /\ q(i - 1) \in Nat /\ typed[i] \in 0..9 /\ q(i) % 10 \in 0..9
            BY <1>1, <1>2, <1>6, <1>7
        <3>2. f[i - 1] * 10 + typed[i] = q(i - 1) * 10 + (q(i) % 10)
            BY <2>2, <3>1
        <3> QED
            <4> DEFINE a == f[i - 1]
                       b == q(i - 1)
                       y == q(i) % 10
            <4>1. a \in Nat /\ b \in Nat /\ y \in 0..9 /\ a * 10 + typed[i] = b * 10 + y
                BY <3>1, <3>2
            <4> HIDE DEF a, b, y
            <4>3. typed[i] \in 0..9
                BY <3>1
            <4>2. a = b /\ typed[i] = y
                BY <4>1, <4>3, TensAndOnes, Zenon
            <4> QED
                BY <4>2 DEF a, b, y
    <2>3. ASSUME NEW k \in 1..d, k - 1 \in G PROVE k \in G
        <3>1. d - (k - 1) \in 1..d /\ (d - (k - 1)) - 1 = d - k
            OBVIOUS
        <3> QED
            BY <2>2, <2>3, <3>1
    <2>4. \A k \in 0..d: k \in G
        <3> HIDE DEF G
        <3> QED
            BY <1>1, <2>1, <2>3, UpTo
    <2>5. ASSUME NEW i \in 1..d PROVE typed[i] = q(i) % 10
        <3>1. d - i \in 0..d /\ d - (d - i) = i
            OBVIOUS
        <3> QED
            BY <2>2, <2>4, <3>1
    <2>6. typed = [i \in 1..d |-> typed[i]]
        BY <1>1
    <2> QED
        BY <1>5, <2>5, <2>6
<1> QED
    BY <1>6, <1>8, <1>9

\* Four digits, as the number they stand for.
LEMMA NumberOfFour ==
    ASSUME NEW base \in Nat, NEW digits, Len(digits) = 4,
           digits[1] \in Nat, digits[2] \in Nat, digits[3] \in Nat, digits[4] \in Nat
    PROVE  Number(base, digits) =
               ((digits[1] * base + digits[2]) * base + digits[3]) * base + digits[4]
<1>1. PICK f: NumberUpTo(f, base, digits)
    <2>1. Len(digits) \in Nat
        OBVIOUS
    <2> QED
        BY <2>1, NumberUnfolds
<1>2. /\ Number(base, digits) = f[4] /\ f[0] = 0
      /\ \A n \in 1..4: f[n] = f[n - 1] * base + digits[n]
    BY <1>1 DEF NumberUpTo
<1>3. f[1] = digits[1]
    BY <1>2
<1>4. f[2] = digits[1] * base + digits[2]
    BY <1>2, <1>3
<1>5. f[3] = (digits[1] * base + digits[2]) * base + digits[3]
    BY <1>2, <1>4
<1>6. f[4] = ((digits[1] * base + digits[2]) * base + digits[3]) * base + digits[4]
    BY <1>2, <1>5
<1> QED
    BY <1>2, <1>6

\* new is the elements behind a place of s, but for the first, which is x.
FourAt(S, s, at, four, x, new) ==
    /\ \A i \in 1..4: four[i] = s[at + i] /\ s[at + i] \in S
    /\ Len(new) = 4 /\ new[1] = x /\ new[2] = s[at + 2] /\ new[3] = s[at + 3] /\ new[4] = s[at + 4]

\* Four elements of a sequence, the first replaced.
LEMMA FourOf ==
    ASSUME NEW S, NEW s \in Seq(S), NEW at \in Nat, at + 4 <= Len(s), NEW x
    PROVE  FourAt(S, s, at, SubSeq(s, at + 1, at + 4), x, <<x>> \o Tail(SubSeq(s, at + 1, at + 4)))
<1> DEFINE four == SubSeq(s, at + 1, at + 4)
           tail == Tail(four)
           new  == <<x>> \o tail
<1>1. \A i \in 1..4: at + i \in 1..Len(s)
    OBVIOUS
<1>2. four \in Seq(S) /\ Len(four) = 4
    BY <1>1
<1>3. \A i \in 1..4: four[i] = s[at + i] /\ s[at + i] \in S
    <2> TAKE i \in 1..4
    <2>1. (at + 1) + i - 1 = at + i
        OBVIOUS
    <2> QED
        BY <1>1, <2>1
<1> HIDE DEF four
<1>4. tail \in Seq(S) /\ Len(tail) = 3 /\ \A i \in 1..3: tail[i] = four[i + 1]
    <2>1. four # <<>>
        BY <1>2, EmptySeq
    <2>2. /\ tail \in Seq(S) /\ Len(tail) = Len(four) - 1
          /\ \A i \in 1..Len(tail): tail[i] = four[i + 1]
        BY <1>2, <2>1, HeadTailProperties
    <2> HIDE DEF tail
    <2>3. Len(tail) = 3
        BY <1>2, <2>2
    <2> QED
        BY <2>2, <2>3
<1> HIDE DEF tail
<1>5. Len(new) = 4 /\ new[1] = x /\ \A i \in 1..3: new[i + 1] = tail[i]
    <2> DEFINE T == S \cup {x}
               one == <<x>>
    <2>1. one \in Seq(T) /\ tail \in Seq(T) /\ Len(one) = 1 /\ one[1] = x
        BY <1>4
    <2> HIDE DEF T, one
    <2>2. /\ Len(one \o tail) = Len(one) + Len(tail)
          /\ \A i \in 1 .. Len(one) + Len(tail):
                 (one \o tail)[i] = IF i <= Len(one) THEN one[i] ELSE tail[i - Len(one)]
        BY <2>1, ConcatProperties
    <2>3. \A i \in 1..3: i + 1 \in 1..4 /\ ~(i + 1 <= 1) /\ (i + 1) - 1 = i
        OBVIOUS
    <2>4. \A i \in 1..4: (one \o tail)[i] = IF i <= 1 THEN one[i] ELSE tail[i - 1]
        BY <1>4, <2>1, <2>2
    <2> QED
        BY <1>4, <2>1, <2>2, <2>3, <2>4 DEF one
<1> HIDE DEF new
<1>6. new[2] = s[at + 2] /\ new[3] = s[at + 3] /\ new[4] = s[at + 4]
    <2>1. \A i \in 1..3: new[i + 1] = s[at + (i + 1)]
        BY <1>3, <1>4, <1>5
    <2> QED
        BY <2>1
<1> QED
    <2>1. FourAt(S, s, at, four, x, new)
        BY <1>3, <1>5, <1>6 DEF FourAt
    <2> QED
        BY <2>1 DEF four, tail, new

\* A code is cut from the four bytes its digest points at (totp.rs, hotp).
LEMMA TruncatedIsItsBytes ==
    ASSUME NEW digest, IsDigest(digest)
    PROVE  LET at    == digest[Len(digest)] % 16
               bytes == SubSeq(digest, at + 1, at + 4)
           IN  /\ Truncated(digest) = Number(256, <<bytes[1] % 128>> \o Tail(bytes))
               /\ Truncated(digest) \in Nat
<1> DEFINE Byte   == 0..255
           N      == Len(digest)
           at     == digest[N] % 16
           bytes  == SubSeq(digest, at + 1, at + 4)
           digits == <<bytes[1] % 128>> \o Tail(bytes)
<1>1. digest \in Seq(Byte) /\ N \in Nat /\ N >= 20
    BY DEF IsDigest
<1>2. at \in 0..15
    <2>1. digest[N] \in Byte
        <3> HIDE DEF Byte
        <3> QED
            BY <1>1
    <2>2. \A last \in 0..255: last % 16 \in 0..15
        OBVIOUS
    <2> QED
        BY <2>1, <2>2
<1>3. Truncated(digest) = (digest[at + 1] % 128) * 2^24 + digest[(at + 1) + 1] * 2^16
                              + digest[(at + 1) + 2] * 2^8 + digest[(at + 1) + 3]
    <2>1. Last(digest) = digest[N]
        BY DEF Last
    <2> QED
        BY <2>1, SMT DEF Truncated
<1> HIDE DEF at, Byte
<1>4. /\ bytes[1] = digest[at + 1]
      /\ digest[at + 1] \in Byte /\ digest[at + 2] \in Byte /\ digest[at + 3] \in Byte
      /\ digest[at + 4] \in Byte
      /\ Len(digits) = 4 /\ digits[1] = bytes[1] % 128 /\ digits[2] = digest[at + 2]
      /\ digits[3] = digest[at + 3] /\ digits[4] = digest[at + 4]
    <2>1. at \in Nat /\ at + 4 <= Len(digest)
        BY <1>1, <1>2
    <2>2. FourAt(Byte, digest, at, bytes, bytes[1] % 128, digits)
        <3> DEFINE x == bytes[1] % 128
        <3>1. digest \in Seq(Byte) /\ at \in Nat /\ at + 4 <= Len(digest)
            BY <1>1, <2>1
        <3> HIDE DEF x
        <3>2. FourAt(Byte, digest, at, SubSeq(digest, at + 1, at + 4), x,
                     <<x>> \o Tail(SubSeq(digest, at + 1, at + 4)))
            BY <3>1, FourOf
        <3> QED
            BY <3>2 DEF x
    <2> HIDE DEF bytes, digits
    <2> QED
        BY <2>2 DEF FourAt
<1> HIDE DEF digits, bytes
<1> DEFINE a == digest[at + 1] % 128
           b == digest[at + 2]
           c == digest[at + 3]
           d == digest[at + 4]
<1>5. a \in 0..127 /\ b \in 0..255 /\ c \in 0..255 /\ d \in 0..255
    <2>1. \A x \in 0..255: x % 128 \in 0..127
        OBVIOUS
    <2> QED
        BY <1>4, <2>1 DEF Byte
<1>6. digits[1] = a /\ digits[2] = b /\ digits[3] = c /\ digits[4] = d
    BY <1>4
<1>7. Truncated(digest) = a * 2^24 + b * 2^16 + c * 2^8 + d
    <2>1. (at + 1) + 1 = at + 2 /\ (at + 1) + 2 = at + 3 /\ (at + 1) + 3 = at + 4
        BY <1>2
    <2> QED
        BY <1>3, <2>1, Zenon
<1> HIDE DEF a, b, c, d
<1>8. a \in Nat /\ b \in Nat /\ c \in Nat /\ d \in Nat /\ 256 \in Nat
    BY <1>5
<1>9. \A base \in Nat: Number(base, digits) = ((a * base + b) * base + c) * base + d
    <2> TAKE base \in Nat
    <2> HIDE DEF Byte
    <2>1. /\ Len(digits) = 4 /\ digits[1] \in Nat /\ digits[2] \in Nat /\ digits[3] \in Nat
          /\ digits[4] \in Nat
        BY <1>4, <1>6, <1>8
    <2>2. Number(base, digits) = ((digits[1] * base + digits[2]) * base + digits[3]) * base
                                     + digits[4]
        BY <2>1, NumberOfFour, Zenon
    <2> QED
        BY <1>6, <2>2
<1>10. /\ a * 2^24 + b * 2^16 + c * 2^8 + d = ((a * 256 + b) * 256 + c) * 256 + d
       /\ a * 2^24 + b * 2^16 + c * 2^8 + d \in Nat
    BY <1>5, SMT
<1>11. Truncated(digest) = Number(256, digits) /\ Truncated(digest) \in Nat
    BY <1>7, <1>8, <1>9, <1>10, SMT
<1> QED
    BY <1>11 DEF at, bytes, digits, N

\* A clock is in one period.
LEMMA OnePeriod ==
    ASSUME NEW time \in Nat, NEW period \in Nat, period # 0
    PROVE  /\ time \div period \in Nat
           /\ \A k \in Nat: k * period <= time /\ time < (k + 1) * period <=> k = time \div period
<1>1. /\ time \div period \in Nat /\ (time \div period) * period <= time
      /\ time < ((time \div period) + 1) * period
    OBVIOUS
<1>2. ASSUME NEW k \in Nat, k * period <= time, time < (k + 1) * period
      PROVE  k = time \div period
    BY <1>2
<1> QED
    BY <1>1, <1>2

\* Two codes are equal exactly when no digit differs and none is missing (totp.rs,
\* constant_time_eq).
LEMMA EqualIsEqual ==
    ASSUME NEW d \in Nat, NEW n, NEW typed, IsSeq(typed)
    PROVE  ConstantTimeEq(Written(n, d), typed) <=> typed = Written(n, d)
<1> DEFINE left == Written(n, d)
<1>1. DOMAIN left = 1..d /\ left = [i \in 1..d |-> left[i]] /\ Len(left) = d
    BY DEF Written
<1>2. /\ DOMAIN typed = 1..Len(typed) /\ Len(typed) \in Nat
      /\ typed = [i \in 1..Len(typed) |-> typed[i]]
    <2>1. typed \in Seq(ToSet(typed))
        BY DEF IsSeq
    <2> QED
        BY <2>1
<1> HIDE DEF left
<1>3. ASSUME Len(left) = Len(typed), Differences(left, typed) = {} PROVE typed = left
    <2>1. \A i \in 1..d: left[i] = typed[i]
        BY <1>1, <1>2, <1>3 DEF Differences
    <2> QED
        BY <1>1, <1>2, <1>3, <2>1
<1>4. ASSUME typed = left PROVE Len(left) = Len(typed) /\ Differences(left, typed) = {}
    BY <1>1, <1>4 DEF Differences
<1> QED
    BY <1>3, <1>4 DEF ConstantTimeEq, left

\* A code taken is the last digits of its period's number, and no other (hotp, totp).
LEMMA CodeOfTheTime ==
    ASSUME CodeJudged, Judged("code") PROVE CodeIsItsDigits
<1> DEFINE k0  == case.time \div case.period
           d   == case.digits
           n   == Truncated(Hmac[k0]) % 10^d
           bad == case.period = 0 \/ case.secret.length < MinSecret \/ d \notin 6..8
<1>1. /\ case \in CodeCases
      /\ verdict = VerifyTotp(case.secret, case.time, case.period, d, case.typed)
    BY DEF CodeJudged, Judged
<1>2. /\ case.time \in Nat /\ case.period \in Nat /\ IsSeq(case.typed)
      /\ case.period # 0 => k0 \in DOMAIN Hmac /\ IsDigest(Hmac[k0])
      /\ DOMAIN Hmac \subseteq Nat
    BY <1>1, CodeCasesAssumption
<1> HIDE DEF k0
<1>3. verdict = IF bad THEN {} ELSE {ConstantTimeEq(Written(n, d), case.typed)}
    <2>1. Totp(case.secret, case.time, case.period, d) = IF bad THEN {} ELSE {Written(n, d)}
        BY DEF Totp, Hotp, k0
    <2> HIDE DEF bad, n, d
    <2> QED
        BY <1>1, <2>1 DEF VerifyTotp
<1>4. verdict = {} <=> bad
    <2> HIDE DEF bad
    <2> QED
        BY <1>3
<1> DEFINE at(k)    == Hmac[k][Len(Hmac[k])] % 16
           bytes(k) == SubSeq(Hmac[k], at(k) + 1, at(k) + 4)
           taken    == /\ verdict # {} /\ Len(case.typed) = d /\ ToSet(case.typed) \subseteq 0..9
                       /\ \E k \in DOMAIN Hmac:
                              /\ k * case.period <= case.time /\ case.time < (k + 1) * case.period
                              /\ Number(256, <<bytes(k)[1] % 128>> \o Tail(bytes(k))) % 10^d
                                     = Number(10, case.typed)
<1>5. CASE bad
    <2>1. verdict = {}
        BY <1>4, <1>5
    <2> QED
        BY <1>4, <2>1 DEF CodeIsItsDigits
<1>6. CASE ~bad
    <2>1. d \in 6..8 /\ case.period # 0
        BY <1>6
    <2>2. n \in Nat /\ n < 10^d
        <3>1. Truncated(Hmac[k0]) \in Nat
            BY <1>2, <2>1, TruncatedIsItsBytes
        <3>2. \A m \in Nat: /\ m % 10^6 \in Nat /\ m % 10^6 < 10^6
                            /\ m % 10^7 \in Nat /\ m % 10^7 < 10^7
                            /\ m % 10^8 \in Nat /\ m % 10^8 < 10^8
            BY SMT
        <3>3. d = 6 \/ d = 7 \/ d = 8
            BY <2>1
        <3> HIDE DEF d
        <3> QED
            BY <3>1, <3>2, <3>3
    <2>3. TRUE \in verdict <=> case.typed = Written(n, d)
        <3>1. d \in Nat
            BY <2>1
        <3>2. verdict = {ConstantTimeEq(Written(n, d), case.typed)}
            BY <1>3, <1>6
        <3> HIDE DEF n, d
        <3>3. ConstantTimeEq(Written(n, d), case.typed) <=> case.typed = Written(n, d)
            BY <1>2, <3>1, EqualIsEqual
        <3>4. ConstantTimeEq(Written(n, d), case.typed) \in BOOLEAN
            BY DEF ConstantTimeEq
        <3> QED
            BY <3>2, <3>3, <3>4
    <2>4. taken <=> /\ Len(case.typed) = d /\ ToSet(case.typed) \subseteq 0..9
                    /\ Number(10, case.typed) = n
        <3>1. \A k \in DOMAIN Hmac:
                  k * case.period <= case.time /\ case.time < (k + 1) * case.period
                                        <=> k = k0
            BY <1>2, <2>1, OnePeriod DEF k0
        <3>2. Number(256, <<bytes(k0)[1] % 128>> \o Tail(bytes(k0))) = Truncated(Hmac[k0])
            BY <1>2, <2>1, TruncatedIsItsBytes
        <3> DEFINE within(k) == k * case.period <= case.time /\ case.time < (k + 1) * case.period
                   number(k) == Number(256, <<bytes(k)[1] % 128>> \o Tail(bytes(k))) % 10^d
        <3>3. k0 \in DOMAIN Hmac /\ number(k0) = n /\ \A k \in DOMAIN Hmac: within(k) <=> k = k0
            BY <1>2, <2>1, <3>1, <3>2
        <3>4. verdict # {}
            BY <1>4, <1>6
        <3> HIDE DEF within, number, n, d
        <3>5. n = Number(10, case.typed) <=>
                  \E k \in DOMAIN Hmac: within(k) /\ number(k) = Number(10, case.typed)
            BY <3>3
        <3> QED
            BY <3>4, <3>5 DEF within, number
    <2>5. ASSUME case.typed = Written(n, d)
          PROVE  Len(case.typed) = d /\ ToSet(case.typed) \subseteq 0..9
        <3>1. \A i \in 1..d: Written(n, d)[i] \in 0..9
            <4> TAKE i \in 1..d
            <4>1. d - i \in 0..7
                BY <2>1
            <4>2. n \div 10^(d - i) \in Nat
                <5> HIDE DEF n
                <5> QED
                    BY <2>2, <4>1, Tenth
            <4>3. Written(n, d)[i] = (n \div 10^(d - i)) % 10
                BY DEF Written
            <4> HIDE DEF n, d
            <4> QED
                BY <4>2, <4>3
        <3>2. DOMAIN Written(n, d) = 1..d /\ Len(Written(n, d)) = d
            BY <2>1 DEF Written
        <3> HIDE DEF n, d
        <3> QED
            BY <2>5, <3>1, <3>2 DEF ToSet
    <2>6. ASSUME Len(case.typed) = d, ToSet(case.typed) \subseteq 0..9
          PROVE  Number(10, case.typed) = n <=> case.typed = Written(n, d)
        <3>1. case.typed \in Seq(0..9)
            <4>1. case.typed \in Seq(ToSet(case.typed))
                BY <1>2 DEF IsSeq
            <4> DEFINE Ten == 0..9
            <4>2. ToSet(case.typed) \subseteq Ten
                BY <2>6
            <4> HIDE DEF Ten
            <4>3. case.typed \in Seq(Ten)
                BY <4>1, <4>2, SeqMonotonic
            <4> QED
                BY <4>3 DEF Ten
        <3> HIDE DEF n, d
        <3> QED
            BY <2>1, <2>2, <2>6, <3>1, DigitsStandForIt
    <2>7. TRUE \in verdict <=> taken
        <3> HIDE DEF taken, n, d
        <3> QED
            BY <2>3, <2>4, <2>5, <2>6
    <2> HIDE DEF n
    <2> QED
        BY <1>4, <2>7 DEF CodeIsItsDigits
<1> QED
    BY <1>5, <1>6

\* A typed code is taken exactly when it is the digits of the current period's number, for any
\* digests, periods, lengths and times (totp.rs: hotp, totp, verify; constant_time_eq).
THEOREM CodesAreTheirDigits == Spec => []CodeIsItsDigits
<1>1. RuleInv => CodeIsItsDigits
    BY CodeOfTheTime DEF RuleInv, CodeIsItsDigits
<1> QED
    BY <1>1, JudgedByItsRule, PTL

-----------------------------------------------------------------------------
(* The characters of a string *)

\* Where the search for the closing quote has been (sensitive_json.rs, string).
LEMMA SearchGoesOn ==
    ASSUME NEW s \in Seq(Characters)
    PROVE  \E V \in SUBSET Nat:
               /\ 1 \in V /\ End(s) \in V
               /\ \A i \in V: /\ i >= 1
                              /\ i <= Len(s) /\ s[i] = "quote" => i = End(s)
                              /\ i <= Len(s) /\ s[i] # "quote" => i + Steps(s[i]) \in V
<1> DEFINE N == Len(s)
           step(x) == IF At(s, x) \in {"quote", "end"} THEN x ELSE x + Steps(s[x])
           rounds(f, m) ==
               [n \in 0..m |-> IF n = 0 THEN 1
                               ELSE IF At(s, f[n - 1]) \in {"quote", "end"} THEN f[n - 1]
                               ELSE f[n - 1] + Steps(s[f[n - 1]])]
           G == {m \in 0..N: \E f: f = rounds(f, m)}
           at == CHOOSE f: f = rounds(f, N)
<1>0. N \in Nat
    OBVIOUS
<1>1. End(s) = at[N]
    BY DEF End
<1>2. \A f, m: rounds(f, m) = [n \in 0..m |-> IF n = 0 THEN 1 ELSE step(f[n - 1])]
    OBVIOUS
<1> HIDE DEF step, rounds
<1>3. 0 \in G
    <2> DEFINE f == [n \in 0..0 |-> 1]
    <2>1. f = rounds(f, 0) /\ 0 \in 0..N
        BY <1>2
    <2> HIDE DEF f
    <2> QED
        BY <2>1
<1>4. ASSUME NEW m \in 1..N, m - 1 \in G PROVE m \in G
    <2>1. PICK f: f = rounds(f, m - 1)
        BY <1>4
    <2> DEFINE g == [n \in 0..m |-> IF n = m THEN step(f[m - 1]) ELSE f[n]]
    <2>2. ASSUME NEW n \in 0..m PROVE g[n] = IF n = 0 THEN 1 ELSE step(g[n - 1])
        BY <1>2, <2>1, <2>2
    <2>3. g = rounds(g, m)
        BY <1>2, <2>2
    <2> HIDE DEF g
    <2> QED
        BY <2>3
<1>5. \E f: f = rounds(f, N)
    <2>1. \A n \in 0..N: n \in G
        <3> HIDE DEF G
        <3> QED
            BY <1>0, <1>3, <1>4, UpTo
    <2> QED
        BY <2>1
<1>6. at = rounds(at, N)
    BY <1>5
<1>7. at[0] = 1 /\ \A n \in 1..N: at[n] = step(at[n - 1])
    <2> HIDE DEF at
    <2> QED
        BY <1>0, <1>2, <1>6
<1> HIDE DEF at
<1>8. /\ \A x \in Nat: x > N => step(x) = x
      /\ \A x \in 1..N: step(x) = IF s[x] = "quote" THEN x ELSE x + Steps(s[x])
    <2>1. \A x \in Nat: x > N => At(s, x) = "end"
        BY <1>0 DEF At
    <2>2. ASSUME NEW x \in 1..N PROVE At(s, x) = s[x] /\ s[x] # "end"
        BY DEF At, Characters
    <2> QED
        BY <2>1, <2>2 DEF step
<1>9. \A c: Steps(c) \in 1..2
    BY DEF Steps
<1>10. \A n \in 0..N: /\ at[n] \in Nat /\ at[n] >= 1
                      /\ at[n] > n \/ (at[n] \in 1..N /\ s[at[n]] = "quote")
    <2> DEFINE H == {n \in 0..N: /\ at[n] \in Nat /\ at[n] >= 1
                                 /\ at[n] > n \/ (at[n] \in 1..N /\ s[at[n]] = "quote")}
    <2>1. 0 \in H
        <3>1. 0 \in 0..N /\ at[0] \in Nat /\ at[0] >= 1 /\ at[0] > 0
            BY <1>0, <1>7
        <3> QED
            BY <3>1
    <2>2. ASSUME NEW n \in 1..N, n - 1 \in H PROVE n \in H
        <3>1. CASE at[n - 1] > N
            BY <1>7, <1>8, <2>2, <3>1
        <3>2. CASE at[n - 1] \in 1..N
            <4> DEFINE x == at[n - 1]
            <4>1. /\ x \in 1..N
                  /\ x > n - 1 \/ s[x] = "quote"
                  /\ at[n] = IF s[x] = "quote" THEN x ELSE x + Steps(s[x])
                BY <1>7, <1>8, <2>2, <3>2
            <4> HIDE DEF x
            <4>2. CASE s[x] = "quote"
                BY <4>1, <4>2
            <4>3. CASE s[x] # "quote"
                <5>1. at[n] \in Nat /\ at[n] >= 1 /\ at[n] > n
                    BY <1>9, <4>1, <4>3
                <5> QED
                    BY <5>1
            <4> QED
                BY <4>2, <4>3
        <3> QED
            BY <2>2, <3>1, <3>2
    <2>3. \A n \in 0..N: n \in H
        <3> HIDE DEF H
        <3> QED
            BY <1>0, <2>1, <2>2, UpTo
    <2> QED
        BY <2>3
<1> DEFINE V == {at[n]: n \in 0..N}
<1>11. V \in SUBSET Nat /\ 1 \in V /\ End(s) \in V
    BY <1>0, <1>1, <1>7, <1>10
<1>12. ASSUME NEW n \in 0..N, at[n] <= N, s[at[n]] = "quote" PROVE at[n] = End(s)
    <2> DEFINE H == {k \in 0..N: k >= n => at[k] = at[n]}
    <2>1. 0 \in H
        OBVIOUS
    <2>2. ASSUME NEW k \in 1..N, k - 1 \in H PROVE k \in H
        BY <1>7, <1>8, <1>10, <1>12, <2>2
    <2>3. \A k \in 0..N: k \in H
        <3> HIDE DEF H
        <3> QED
            BY <1>0, <2>1, <2>2, UpTo
    <2> QED
        BY <1>1, <2>3
<1>13. ASSUME NEW n \in 0..N, at[n] <= N, s[at[n]] # "quote" PROVE at[n] + Steps(s[at[n]]) \in V
    <2>1. n + 1 \in 1..N /\ (n + 1) - 1 = n /\ at[n] \in 1..N
        BY <1>10, <1>13
    <2>2. at[n + 1] = at[n] + Steps(s[at[n]])
        BY <1>7, <1>8, <1>13, <2>1
    <2> QED
        BY <2>1, <2>2
<1>14. \A i \in V: /\ i >= 1
                   /\ i <= N /\ s[i] = "quote" => i = End(s)
                   /\ i <= N /\ s[i] # "quote" => i + Steps(s[i]) \in V
    BY <1>10, <1>12, <1>13
<1> HIDE DEF V
<1> QED
    BY <1>11, <1>14

\* Decoding, round by round (sensitive_json.rs, string).
LEMMA DecodeUnfolds ==
    ASSUME NEW raw, Len(raw) \in Nat
    PROVE  \E f: /\ Decode(raw) = {r.value: r \in f[Len(raw)]} /\ f[0] = Result(<<>>, 1)
                 /\ \A n \in 1..Len(raw): f[n] = UNION {Decoded(raw, sofar): sofar \in f[n - 1]}
<1> DEFINE N == Len(raw)
           step(x) == UNION {Decoded(raw, sofar): sofar \in x}
           rounds(f, m) == [n \in 0..m |-> IF n = 0 THEN Result(<<>>, 1) ELSE step(f[n - 1])]
           G == {m \in 0..N: \E f: f = rounds(f, m)}
           kept == CHOOSE f: f = rounds(f, N)
<1>1. Decode(raw) = {r.value: r \in kept[N]}
    BY DEF Decode
<1> HIDE DEF step
<1>2. 0 \in G
    <2> DEFINE f == [n \in 0..0 |-> Result(<<>>, 1)]
    <2>1. f = rounds(f, 0) /\ 0 \in 0..N
        OBVIOUS
    <2> HIDE DEF f, rounds
    <2> QED
        BY <2>1
<1>3. ASSUME NEW m \in 1..N, m - 1 \in G PROVE m \in G
    <2>1. PICK f: f = rounds(f, m - 1)
        BY <1>3
    <2> DEFINE g == [n \in 0..m |-> IF n = m THEN step(f[m - 1]) ELSE f[n]]
    <2>2. ASSUME NEW n \in 0..m PROVE g[n] = rounds(g, m)[n]
        BY <2>1, <2>2
    <2>3. g = rounds(g, m)
        BY <2>2
    <2> HIDE DEF g, rounds
    <2> QED
        BY <2>3
<1>4. \E f: f = rounds(f, N)
    <2> HIDE DEF rounds
    <2>1. \A n \in 0..N: n \in G
        <3> HIDE DEF G
        <3> QED
            BY <1>2, <1>3, UpTo
    <2> QED
        BY <2>1
<1>5. kept = rounds(kept, N)
    <2> HIDE DEF rounds
    <2> QED
        BY <1>4
<1>6. kept[0] = Result(<<>>, 1) /\ \A n \in 1..N: kept[n] = step(kept[n - 1])
    <2> HIDE DEF kept
    <2> QED
        BY <1>5
<1> QED
    BY <1>1, <1>6 DEF step

\* The spellings of a value, character by character.
LEMMA SpelledUnfolds ==
    ASSUME NEW v, Len(v) \in Nat
    PROVE  \E f: /\ Spelled(v) = f[Len(v)] /\ f[0] = {<<>>}
                 /\ \A n \in 1..Len(v): f[n] = SpelledOn(f[n - 1], v[n])
<1> DEFINE N == Len(v)
           base == {<<>>}
           rounds(f, m) == [n \in 0..m |-> IF n = 0 THEN base ELSE SpelledOn(f[n - 1], v[n])]
           G == {m \in 0..N: \E f: f = rounds(f, m)}
           kept == CHOOSE f: f = rounds(f, N)
<1>1. Spelled(v) = kept[N]
    BY DEF Spelled
<1> HIDE DEF base
<1>2. 0 \in G
    <2> DEFINE f == [n \in 0..0 |-> base]
    <2>1. f = rounds(f, 0) /\ 0 \in 0..N
        OBVIOUS
    <2> HIDE DEF f, rounds
    <2> QED
        BY <2>1
<1>3. ASSUME NEW m \in 1..N, m - 1 \in G PROVE m \in G
    <2>1. PICK f: f = rounds(f, m - 1)
        BY <1>3
    <2> DEFINE g == [n \in 0..m |-> IF n = m THEN SpelledOn(f[m - 1], v[m]) ELSE f[n]]
    <2>2. ASSUME NEW n \in 0..m PROVE g[n] = rounds(g, m)[n]
        BY <2>1, <2>2
    <2>3. g = rounds(g, m)
        BY <2>2
    <2> HIDE DEF g, rounds
    <2> QED
        BY <2>3
<1>4. \E f: f = rounds(f, N)
    <2> HIDE DEF rounds
    <2>1. \A n \in 0..N: n \in G
        <3> HIDE DEF G
        <3> QED
            BY <1>2, <1>3, UpTo
    <2> QED
        BY <2>1
<1>5. kept = rounds(kept, N)
    <2> HIDE DEF rounds
    <2> QED
        BY <1>4
<1>6. kept[0] = base /\ \A n \in 1..N: kept[n] = SpelledOn(kept[n - 1], v[n])
    <2> HIDE DEF kept
    <2> QED
        BY <1>5
<1> QED
    BY <1>1, <1>6 DEF base

\* A spelling is of one of these four kinds.
LEMMA SpellingKinds ==
    ASSUME NEW c, NEW t \in SpellingsOf(c)
    PROVE  /\ c \notin {"bad", "control"}
           /\ \/ c \in {"n", "u", "x", "high", "low", "unit"} /\ t = <<c>>
              \/ \E e \in DOMAIN Escapes: c = Escapes[e] /\ t = <<"slash", e>>
              \/ c = "unit" /\ t = <<"slash", "u", "unit">>
              \/ c = "pair" /\ t = <<"slash", "u", "high", "slash", "u", "low">>
<1>1. CASE c = "quote"
    <2>1. t = <<"slash", "quote">> /\ "quote" \in DOMAIN Escapes /\ Escapes["quote"] = c
        BY <1>1 DEF SpellingsOf, Escapes
    <2> QED
        BY <1>1, <2>1
<1>2. CASE c = "slash"
    <2>1. t = <<"slash", "slash">> /\ "slash" \in DOMAIN Escapes /\ Escapes["slash"] = c
        BY <1>2 DEF SpellingsOf, Escapes
    <2> QED
        BY <1>2, <2>1
<1>3. CASE c = "newline"
    <2>1. t = <<"slash", "n">> /\ "n" \in DOMAIN Escapes /\ Escapes["n"] = c
        BY <1>3 DEF SpellingsOf, Escapes
    <2> QED
        BY <1>3, <2>1
<1>4. CASE c \in {"unit", "pair", "n", "u", "x", "high", "low"}
    BY <1>4 DEF SpellingsOf
<1>5. CASE c \notin {"quote", "slash", "newline", "unit", "pair", "n", "u", "x", "high", "low"}
    <2>1. SpellingsOf(c) = {}
        BY <1>5 DEF SpellingsOf
    <2> QED
        BY <2>1
<1> QED
    BY <1>1, <1>2, <1>3, <1>4, <1>5

\* A part of a sequence, element by element.
LEMMA CutOut ==
    ASSUME NEW S, NEW s \in Seq(S), NEW i \in Nat, i >= 1, NEW t, NEW n \in Nat,
           t = [j \in 1..n |-> t[j]], i + n <= Len(s) + 1, \A j \in 1..n: s[i + j - 1] = t[j]
    PROVE  SubSeq(s, i, i + n - 1) = t
<1> DEFINE m   == i + n - 1
           sub == SubSeq(s, i, m)
<1>1. m \in Int /\ (IF i <= m THEN m - i + 1 ELSE 0) = n /\ m - i + 1 = n
    OBVIOUS
<1>2. \A k \in i .. m: s[k] \in S
    OBVIOUS
<1> HIDE DEF m
<1>3. sub \in Seq(S) /\ Len(sub) = n /\ \A j \in 1..n: sub[j] = s[i + j - 1]
    <2>1. /\ sub \in Seq(S) /\ Len(sub) = IF i <= m THEN m - i + 1 ELSE 0
          /\ \A j \in 1 .. m - i + 1: sub[j] = s[i + j - 1]
        BY <1>1, <1>2, SubSeqProperties
    <2> HIDE DEF sub
    <2> QED
        BY <1>1, <2>1
<1> HIDE DEF sub
<1>4. sub = [j \in 1..n |-> sub[j]]
    BY <1>3
<1>5. sub = t
    BY <1>3, <1>4
<1> QED
    BY <1>5 DEF sub, m

\* An escape of one character.
LEMMA EscapeIsRead ==
    ASSUME NEW s, NEW i, At(s, i) = "slash", At(s, i + 1) \in DOMAIN Escapes
    PROVE  Character(s, i) = Result(Escapes[At(s, i + 1)], i + 2)
<1> DEFINE c == At(s, i)
           e == At(s, i + 1)
           u == Unicode(s, i + 2)
<1>1. Character(s, i) = CASE c = "control" -> {}
                          [] c \notin {"control", "slash"} -> Result(c, i + 1)
                          [] c = "slash" /\ e \in DOMAIN Escapes -> Result(Escapes[e], i + 2)
                          [] c = "slash" /\ e = "u" -> u
                          [] OTHER -> {}
    BY DEF Character
<1>2. c = "slash" /\ e \in DOMAIN Escapes /\ e # "u"
    BY DEF Escapes
<1> HIDE DEF c, e, u
<1> QED
    BY <1>1, <1>2 DEF e

\* A part stands somewhere in a sequence.
StandsAt(s, i, t) == i + Len(t) <= Len(s) + 1 /\ \A j \in 1..Len(t): s[i + j - 1] = t[j]

\* The search goes from each of these places to another, unless a quote ends it there.
SearchGoesOnIn(s, V) == \A k \in V: k <= Len(s) /\ s[k] # "quote" => k + Steps(s[k]) \in V

\* A character's spelling is read as that character, and is stepped over as a whole.
LEMMA SpellingIsRead ==
    ASSUME NEW s, NEW i \in Nat, i >= 1, Len(s) \in Nat, NEW c, NEW t \in SpellingsOf(c),
           StandsAt(s, i, t), NEW V, i \in V, SearchGoesOnIn(s, V)
    PROVE  /\ Character(s, i) = Result(c, i + Len(t))
           /\ Len(t) \in Nat /\ Len(t) >= 1 /\ i + Len(t) \in V
<1>1. \A k \in Nat: k <= Len(s) => At(s, k) = s[k]
    BY DEF At
<1>6. /\ i + Len(t) <= Len(s) + 1 /\ \A j \in 1..Len(t): s[i + j - 1] = t[j]
      /\ \A k \in V: k <= Len(s) /\ s[k] # "quote" => k + Steps(s[k]) \in V
    BY DEF StandsAt, SearchGoesOnIn
<1>2. CASE c \in {"n", "u", "x", "high", "low", "unit"} /\ t = <<c>>
    <2>1. Len(t) = 1 /\ t[1] = c /\ i <= Len(s)
        BY <1>2, <1>6
    <2>2. At(s, i) = c /\ s[i] = c
        BY <1>1, <1>6, <2>1
    <2>3. Steps(s[i]) = 1
        BY <1>2, <2>2, <1>6 DEF Steps
    <2>4. Character(s, i) = Result(c, i + 1)
        BY <1>2, <2>2 DEF Character
    <2>5. i + 1 \in V
        BY <1>2, <1>6, <2>1, <2>2, <2>3
    <2> QED
        BY <2>1, <2>4, <2>5
<1>3. ASSUME NEW e \in DOMAIN Escapes, c = Escapes[e], t = <<"slash", e>>
      PROVE  /\ Character(s, i) = Result(c, i + Len(t))
             /\ Len(t) \in Nat /\ Len(t) >= 1 /\ i + Len(t) \in V
    <2>1. Len(t) = 2 /\ t[1] = "slash" /\ t[2] = e
        BY <1>3
    <2>2. i <= Len(s) /\ i + 1 <= Len(s) /\ i + 1 - 1 = i /\ i + 2 - 1 = i + 1
        BY <1>6, <2>1
    <2>3. s[i] = "slash" /\ At(s, i) = "slash" /\ At(s, i + 1) = e
        BY <1>1, <1>6, <2>1, <2>2
    <2>4. Character(s, i) = Result(c, i + 2)
        BY <1>3, <2>3, EscapeIsRead
    <2>5. i + 2 \in V
        BY <2>2, <2>3, <1>6 DEF Steps
    <2> QED
        BY <2>1, <2>4, <2>5
<1>4. CASE c = "unit" /\ t = <<"slash", "u", "unit">>
    <2>1. Len(t) = 3 /\ t[1] = "slash" /\ t[2] = "u" /\ t[3] = "unit"
        BY <1>4
    <2>2. /\ i <= Len(s) /\ i + 1 <= Len(s) /\ i + 2 <= Len(s)
          /\ i + 1 - 1 = i /\ i + 2 - 1 = i + 1 /\ i + 3 - 1 = i + 2 /\ i + 2 + 1 = i + 3
        BY <1>6, <2>1
    <2>3. /\ s[i] = "slash" /\ s[i + 2] = "unit"
          /\ At(s, i) = "slash" /\ At(s, i + 1) = "u" /\ At(s, i + 2) = "unit"
        BY <1>1, <1>6, <2>1, <2>2
    <2>4. "u" \notin DOMAIN Escapes
        BY DEF Escapes
    <2>5. Unicode(s, i + 2) = Result("unit", i + 3)
        BY <2>2, <2>3 DEF Unicode
    <2>6. Character(s, i) = Result(c, i + 3)
        BY <1>4, <2>3, <2>4, <2>5 DEF Character
    <2>7. i + 2 \in V
        BY <2>2, <2>3, <1>6 DEF Steps
    <2>8. i + 3 \in V
        BY <2>2, <2>3, <2>7, <1>6 DEF Steps
    <2> QED
        BY <2>1, <2>6, <2>8
<1>5. CASE c = "pair" /\ t = <<"slash", "u", "high", "slash", "u", "low">>
    <2>1. /\ Len(t) = 6 /\ t[1] = "slash" /\ t[2] = "u" /\ t[3] = "high"
          /\ t[4] = "slash" /\ t[5] = "u" /\ t[6] = "low"
        BY <1>5
    <2>2. /\ i <= Len(s) /\ i + 1 <= Len(s) /\ i + 2 <= Len(s)
          /\ i + 3 <= Len(s) /\ i + 4 <= Len(s) /\ i + 5 <= Len(s)
          /\ i + 1 - 1 = i /\ i + 2 - 1 = i + 1 /\ i + 3 - 1 = i + 2
          /\ i + 4 - 1 = i + 3 /\ i + 5 - 1 = i + 4 /\ i + 6 - 1 = i + 5
        <3>1. i + 6 <= Len(s) + 1
            BY <1>6, <2>1
        <3> DEFINE n == Len(s)
        <3>2. n \in Nat /\ i + 6 <= n + 1
            BY <3>1
        <3> HIDE DEF n
        <3>3. /\ i <= n /\ i + 1 <= n /\ i + 2 <= n /\ i + 3 <= n /\ i + 4 <= n /\ i + 5 <= n
              /\ i + 1 - 1 = i /\ i + 2 - 1 = i + 1 /\ i + 3 - 1 = i + 2
              /\ i + 4 - 1 = i + 3 /\ i + 5 - 1 = i + 4 /\ i + 6 - 1 = i + 5
            BY <3>2
        <3> QED
            BY <3>3 DEF n
    <2>3. /\ s[i] = "slash" /\ s[i + 1] = "u" /\ s[i + 2] = "high"
          /\ s[i + 3] = "slash" /\ s[i + 4] = "u" /\ s[i + 5] = "low"
        BY <1>6, <2>1, <2>2
    <2>4. /\ At(s, i) = "slash" /\ At(s, i + 1) = "u" /\ At(s, i + 2) = "high"
          /\ At(s, i + 3) = "slash" /\ At(s, i + 4) = "u" /\ At(s, i + 5) = "low"
        BY <1>1, <2>2, <2>3
    <2>5. "u" \notin DOMAIN Escapes
        BY DEF Escapes
    <2>6. Unicode(s, i + 2) = Result("pair", i + 6)
        <3>1. i + 2 + 1 = i + 3 /\ i + 2 + 2 = i + 4 /\ i + 2 + 3 = i + 5 /\ i + 2 + 4 = i + 6
            OBVIOUS
        <3> QED
            BY <2>4, <3>1 DEF Unicode
    <2>7. Character(s, i) = Result(c, i + 6)
        BY <1>5, <2>4, <2>5, <2>6 DEF Character
    <2>8. i + 2 \in V
        BY <2>2, <2>3, <1>6 DEF Steps
    <2>9. i + 3 \in V
        BY <2>2, <2>3, <2>8, <1>6 DEF Steps
    <2>10. i + 5 \in V
        BY <2>2, <2>3, <2>9, <1>6 DEF Steps
    <2>11. i + 6 \in V
        BY <2>2, <2>3, <2>10, <1>6 DEF Steps
    <2> QED
        BY <2>1, <2>7, <2>11
<1> QED
    BY <1>2, <1>3, <1>4, <1>5, SpellingKinds, Zenon

\* What is read as a character is its spelling, unless the bytes are none.
LEMMA CharacterIsSpelled ==
    ASSUME NEW s \in Seq(Characters), NEW i \in 1..Len(s), NEW r \in Character(s, i),
           NEW V, i \in V,
           \A k \in V: k <= Len(s) => s[k] # "quote" /\ k + Steps(s[k]) \in V
    PROVE  /\ r.next \in i + 1 .. Len(s) + 1 /\ r.next \in V
           /\ r.value = "bad" \/ SubSeq(s, i, r.next - 1) \in SpellingsOf(r.value)
           /\ r = [value |-> r.value, next |-> r.next]
<1>1. \A k \in Nat: IF k <= Len(s) THEN At(s, k) = s[k] ELSE At(s, k) = "end"
    BY DEF At
<1>2. s[i] \in Characters \ {"quote"} /\ At(s, i) = s[i]
    BY <1>1
<1>3. s[i] # "control"
    BY <1>2 DEF Character
<1>4. CASE s[i] # "slash"
    <2>1. r = [value |-> s[i], next |-> i + 1]
        BY <1>2, <1>3, <1>4 DEF Character, Result
    <2>2. r.value = s[i] /\ r.next = i + 1
        BY <2>1
    <2>3. Steps(s[i]) = 1
        BY <1>4 DEF Steps
    <2>4. i + 1 \in V /\ i + 1 \in i + 1 .. Len(s) + 1
        BY <2>3
    <2>5. SubSeq(s, i, (i + 1) - 1) = <<s[i]>>
        <3> DEFINE t == <<s[i]>>
        <3>1. t = [j \in 1..1 |-> t[j]] /\ t[1] = s[i]
            OBVIOUS
        <3> HIDE DEF t
        <3>2. \A j \in 1..1: s[i + j - 1] = t[j]
            BY <3>1
        <3>3. SubSeq(s, i, (i + 1) - 1) = t
            BY <3>1, <3>2, CutOut
        <3> QED
            BY <3>3 DEF t
    <2>6. s[i] = "bad" \/ s[i] \in {"n", "u", "x", "unit", "high", "low"}
        BY <1>2, <1>3, <1>4 DEF Characters
    <2>7. s[i] = "bad" \/ <<s[i]>> \in SpellingsOf(s[i])
        BY <2>6 DEF SpellingsOf
    <2> QED
        BY <2>1, <2>2, <2>4, <2>5, <2>7
<1>5. ASSUME s[i] = "slash", At(s, i + 1) \in DOMAIN Escapes
      PROVE  /\ r.next \in i + 1 .. Len(s) + 1 /\ r.next \in V
             /\ SubSeq(s, i, r.next - 1) \in SpellingsOf(r.value)
             /\ r = [value |-> r.value, next |-> r.next]
    <2> DEFINE e == At(s, i + 1)
    <2>1. r = [value |-> Escapes[e], next |-> i + 2]
        BY <1>2, <1>5, EscapeIsRead DEF Result
    <2>2. r.value = Escapes[e] /\ r.next = i + 2
        BY <2>1
    <2>3. i + 1 <= Len(s) /\ e = s[i + 1]
        BY <1>1, <1>5 DEF Escapes
    <2>4. i + 2 \in V /\ i + 2 \in i + 1 .. Len(s) + 1
        BY <1>5, <2>3 DEF Steps
    <2>5. SubSeq(s, i, (i + 2) - 1) = <<"slash", e>>
        <3> DEFINE t == <<"slash", e>>
        <3>1. t = [j \in 1..2 |-> t[j]] /\ t[1] = "slash" /\ t[2] = e
            OBVIOUS
        <3>2. i + 1 - 1 = i /\ i + 2 - 1 = i + 1 /\ i + 2 <= Len(s) + 1
            BY <2>3
        <3> HIDE DEF t, e
        <3>3. \A j \in 1..2: s[i + j - 1] = t[j]
            BY <1>5, <2>3, <3>1, <3>2
        <3>4. SubSeq(s, i, (i + 2) - 1) = t
            BY <3>1, <3>2, <3>3, CutOut
        <3> QED
            BY <3>4 DEF t, e
    <2>6. <<"slash", e>> \in SpellingsOf(Escapes[e])
        <3>1. e = "quote" \/ e = "slash" \/ e = "n"
            BY <1>5 DEF Escapes
        <3>2. Escapes["quote"] = "quote" /\ Escapes["slash"] = "slash" /\ Escapes["n"] = "newline"
            BY DEF Escapes
        <3> HIDE DEF e
        <3> QED
            BY <3>1, <3>2 DEF SpellingsOf
    <2> QED
        BY <2>1, <2>2, <2>4, <2>5, <2>6
<1>6. ASSUME s[i] = "slash", At(s, i + 1) \notin DOMAIN Escapes
      PROVE  /\ r.next \in i + 1 .. Len(s) + 1 /\ r.next \in V
             /\ SubSeq(s, i, r.next - 1) \in SpellingsOf(r.value)
             /\ r = [value |-> r.value, next |-> r.next]
    <2>1. At(s, i + 1) = "u" /\ r \in Unicode(s, i + 2)
        BY <1>2, <1>6 DEF Character
    <2>2. i + 1 <= Len(s) /\ s[i + 1] = "u"
        BY <1>1, <2>1
    <2>3. i + 2 \in V
        BY <1>6 DEF Steps
    <2>4. CASE At(s, i + 2) = "unit"
        <3>1. r = [value |-> "unit", next |-> i + 3]
            <4>1. i + 2 + 1 = i + 3
                OBVIOUS
            <4> QED
                BY <2>1, <2>4, <4>1 DEF Unicode, Result
        <3>2. r.value = "unit" /\ r.next = i + 3
            BY <3>1
        <3>3. i + 2 <= Len(s) /\ s[i + 2] = "unit"
            BY <1>1, <2>4
        <3>4. i + 3 \in V /\ i + 3 \in i + 1 .. Len(s) + 1
            BY <2>3, <3>3 DEF Steps
        <3>5. SubSeq(s, i, (i + 3) - 1) = <<"slash", "u", "unit">>
            <4> DEFINE t == <<"slash", "u", "unit">>
            <4>1. t = [j \in 1..3 |-> t[j]] /\ t[1] = "slash" /\ t[2] = "u" /\ t[3] = "unit"
                OBVIOUS
            <4>2. /\ i + 1 - 1 = i /\ i + 2 - 1 = i + 1 /\ i + 3 - 1 = i + 2
                  /\ i + 3 <= Len(s) + 1
                BY <3>3
            <4> HIDE DEF t
            <4>3. \A j \in 1..3: s[i + j - 1] = t[j]
                BY <1>6, <2>2, <3>3, <4>1, <4>2
            <4>4. t = [j \in 1..3 |-> t[j]]
                BY <4>1
            <4> DEFINE n == 3
            <4>5. /\ i \in Nat /\ i >= 1 /\ n \in Nat /\ t = [j \in 1..n |-> t[j]]
                  /\ i + n <= Len(s) + 1 /\ \A j \in 1..n: s[i + j - 1] = t[j]
                BY <4>2, <4>3, <4>4
            <4> HIDE DEF n
            <4>6. SubSeq(s, i, i + n - 1) = t
                BY <4>5, CutOut
            <4> QED
                BY <4>6 DEF t, n
        <3>6. <<"slash", "u", "unit">> \in SpellingsOf("unit")
            BY DEF SpellingsOf
        <3> QED
            BY <3>1, <3>2, <3>4, <3>5, <3>6
    <2>5. CASE At(s, i + 2) # "unit"
        <3>1. /\ At(s, i + 2) = "high" /\ At(s, i + 3) = "slash" /\ At(s, i + 4) = "u"
              /\ At(s, i + 5) = "low" /\ r = [value |-> "pair", next |-> i + 6]
            <4>1. i + 2 + 1 = i + 3 /\ i + 2 + 2 = i + 4 /\ i + 2 + 3 = i + 5 /\ i + 2 + 4 = i + 6
                OBVIOUS
            <4> QED
                BY <2>1, <2>5, <4>1 DEF Unicode, Result
        <3>2. r.value = "pair" /\ r.next = i + 6
            BY <3>1
        <3>3. /\ i + 5 <= Len(s) /\ s[i + 2] = "high" /\ s[i + 3] = "slash" /\ s[i + 4] = "u"
              /\ s[i + 5] = "low"
            BY <1>1, <3>1
        <3>4. i + 3 \in V
            BY <2>3, <3>3 DEF Steps
        <3>5. i + 5 \in V
            BY <3>3, <3>4 DEF Steps
        <3>6. i + 6 \in V /\ i + 6 \in i + 1 .. Len(s) + 1
            BY <3>3, <3>5 DEF Steps
        <3>7. SubSeq(s, i, (i + 6) - 1) = <<"slash", "u", "high", "slash", "u", "low">>
            <4> DEFINE t == <<"slash", "u", "high", "slash", "u", "low">>
            <4>1. /\ t = [j \in 1..6 |-> t[j]] /\ t[1] = "slash" /\ t[2] = "u" /\ t[3] = "high"
                  /\ t[4] = "slash" /\ t[5] = "u" /\ t[6] = "low"
                OBVIOUS
            <4>2. /\ i + 1 - 1 = i /\ i + 2 - 1 = i + 1 /\ i + 3 - 1 = i + 2
                  /\ i + 4 - 1 = i + 3 /\ i + 5 - 1 = i + 4 /\ i + 6 - 1 = i + 5
                  /\ i + 6 <= Len(s) + 1
                BY <3>3
            <4> HIDE DEF t
            <4>3. \A j \in 1..6: s[i + j - 1] = t[j]
                BY <1>6, <2>2, <3>3, <4>1, <4>2
            <4>4. t = [j \in 1..6 |-> t[j]]
                BY <4>1
            <4> DEFINE n == 6
            <4>5. /\ i \in Nat /\ i >= 1 /\ n \in Nat /\ t = [j \in 1..n |-> t[j]]
                  /\ i + n <= Len(s) + 1 /\ \A j \in 1..n: s[i + j - 1] = t[j]
                BY <4>2, <4>3, <4>4
            <4> HIDE DEF n
            <4>6. SubSeq(s, i, i + n - 1) = t
                BY <4>5, CutOut
            <4> QED
                BY <4>6 DEF t, n
        <3>8. <<"slash", "u", "high", "slash", "u", "low">> \in SpellingsOf("pair")
            BY DEF SpellingsOf
        <3> QED
            BY <3>1, <3>2, <3>6, <3>7, <3>8
    <2> QED
        BY <2>4, <2>5
<1> QED
    BY <1>4, <1>5, <1>6

\* What a character may be read as.
Meanings == {"bad", "quote", "slash", "newline", "unit", "pair", "n", "u", "x", "high", "low"}

\* What a spelling spells is one of the characters there are.
LEMMA SpelledIsMeant ==
    ASSUME NEW c, NEW t \in SpellingsOf(c)
    PROVE  c \in Meanings /\ t \in Seq(Characters)
<1>1. /\ "slash" \in Characters /\ "u" \in Characters /\ "unit" \in Characters
      /\ "high" \in Characters /\ "low" \in Characters
      /\ \A e \in DOMAIN Escapes: e \in Characters /\ Escapes[e] \in Meanings
    BY DEF Characters, Escapes, Meanings
<1>2. CASE c \in {"n", "u", "x", "high", "low", "unit"} /\ t = <<c>>
    <2>1. c \in Characters /\ c \in Meanings
        BY <1>2 DEF Characters, Meanings
    <2> QED
        BY <1>2, <2>1
<1>3. ASSUME NEW e \in DOMAIN Escapes, c = Escapes[e], t = <<"slash", e>>
      PROVE  c \in Meanings /\ t \in Seq(Characters)
    BY <1>1, <1>3
<1>4. CASE c = "unit" /\ t = <<"slash", "u", "unit">>
    <2>1. c \in Meanings
        BY <1>4 DEF Meanings
    <2> QED
        BY <1>1, <1>4, <2>1
<1>5. CASE c = "pair" /\ t = <<"slash", "u", "high", "slash", "u", "low">>
    <2>1. c \in Meanings
        BY <1>5 DEF Meanings
    <2> QED
        BY <1>1, <1>5, <2>1
<1> QED
    BY <1>2, <1>3, <1>4, <1>5, SpellingKinds, Zenon

\* The spellings of a longer value.
LEMMA SpelledGrows ==
    ASSUME NEW S, NEW v \in Seq(S), NEW c \in S
    PROVE  Spelled(<<>>) = {<<>>} /\ Spelled(Append(v, c)) = SpelledOn(Spelled(v), c)
<1> DEFINE N == Len(v)
           w == Append(v, c)
           M == N + 1
<1>1. /\ Len(w) = M /\ N \in Nat /\ M \in Nat /\ M \in 1..M /\ M - 1 = N
      /\ \A n \in 1..N: w[n] = v[n] /\ n \in 1..M /\ n - 1 \in 0..N
    OBVIOUS
<1>2. w[M] = c
    OBVIOUS
<1> HIDE DEF w, N, M
<1>3. PICK f: f[0] = {<<>>} /\ Spelled(v) = f[N] /\ \A n \in 1..N: f[n] = SpelledOn(f[n - 1], v[n])
    BY <1>1, SpelledUnfolds DEF N
<1>4. PICK g: g[0] = {<<>>} /\ Spelled(w) = g[M] /\ \A n \in 1..M: g[n] = SpelledOn(g[n - 1], w[n])
    BY <1>1, SpelledUnfolds
<1>5. \A n \in 0..N: f[n] = g[n]
    <2> DEFINE G == {n \in 0..N: f[n] = g[n]}
    <2>1. 0 \in G
        <3>1. f[0] = g[0]
            BY <1>3, <1>4, Zenon
        <3> QED
            BY <1>1, <3>1
    <2>2. ASSUME NEW n \in 1..N, n - 1 \in G PROVE n \in G
        BY <1>1, <1>3, <1>4, <2>2
    <2>3. \A n \in 0..N: n \in G
        <3> HIDE DEF G
        <3> QED
            BY <1>1, <2>1, <2>2, UpTo
    <2> QED
        BY <2>3
<1>6. Spelled(w) = SpelledOn(Spelled(v), c)
    <2>1. g[M] = SpelledOn(g[M - 1], w[M]) /\ g[N] = f[N]
        BY <1>1, <1>4, <1>5
    <2> QED
        BY <1>1, <1>2, <1>3, <1>4, <2>1
<1>7. Spelled(<<>>) = {<<>>}
    <2>1. Len(<<>>) = 0
        OBVIOUS
    <2>2. \E h: Spelled(<<>>) = h[Len(<<>>)] /\ h[0] = {<<>>}
        BY <2>1, SpelledUnfolds
    <2> QED
        BY <2>1, <2>2
<1> QED
    BY <1>6, <1>7 DEF w

\* What is decoded is spelled by all of the text, if it holds no bare quote where one would end it.
LEMMA DecodedIsSpelled ==
    ASSUME NEW raw \in Seq(Characters), NEW V \in SUBSET Nat, 1 \in V,
           \A k \in V: k <= Len(raw) => k >= 1 /\ raw[k] # "quote" /\ k + Steps(raw[k]) \in V,
           NEW w \in Decode(raw), "bad" \notin ToSet(w)
    PROVE  raw \in Spelled(w)
<1> DEFINE N == Len(raw)
           upTo(i) == SubSeq(raw, 1, i - 1)
<1>1. N \in Nat
    OBVIOUS
<1>2. PICK f: /\ Decode(raw) = {r.value: r \in f[N]} /\ f[0] = Result(<<>>, 1)
              /\ \A n \in 1..N: f[n] = UNION {Decoded(raw, sofar): sofar \in f[n - 1]}
    BY <1>1, DecodeUnfolds
<1> DEFINE Good(r, n) == /\ r.next \in 1 .. N + 1 /\ r.next \in V /\ r.next > n
                         /\ r.value \in Seq(Meanings)
                         /\ "bad" \in ToSet(r.value) \/ upTo(r.next) \in Spelled(r.value)
           G == {n \in 0..N: \A r \in f[n]: Good(r, n)}
<1>3. 0 \in G
    <2>1. ASSUME NEW r \in f[0] PROVE Good(r, 0)
        <3>1. r = [value |-> <<>>, next |-> 1]
            BY <1>2 DEF Result
        <3>2. r.value = <<>> /\ r.next = 1
            BY <3>1
        <3>3. upTo(1) = <<>>
            <4>1. 1 - 1 = 0 /\ SubSeq(raw, 1, 0) = <<>>
                BY SubSeqEmpty
            <4> QED
                BY <4>1
        <3>4. Spelled(<<>>) = {<<>>}
            BY SpelledGrows
        <3> HIDE DEF upTo
        <3> QED
            BY <1>1, <3>2, <3>3, <3>4
    <2> HIDE DEF Good
    <2> QED
        BY <1>1, <2>1
<1>4. ASSUME NEW n \in 1..N, n - 1 \in G PROVE n \in G
    <2>1. ASSUME NEW r \in f[n] PROVE Good(r, n)
        <3>1. PICK sofar \in f[n - 1]: r \in Decoded(raw, sofar)
            BY <1>2, <2>1
        <3>2. Good(sofar, n - 1)
            BY <1>4, <3>1
        <3>3. CASE sofar.next > N
            <4>1. r = sofar
                BY <3>1, <3>3 DEF Decoded
            <4>2. sofar.next > n
                BY <3>2, <3>3
            <4> HIDE DEF upTo
            <4> QED
                BY <3>2, <4>1, <4>2
        <3>4. CASE ~(sofar.next > N)
            <4> DEFINE i == sofar.next
            <4>1. i \in 1..N /\ i \in V
                BY <1>1, <3>2, <3>4
            <4>2. PICK c \in Character(raw, i):
                       r = [value |-> Append(sofar.value, c.value), next |-> c.next]
                BY <3>1, <3>4 DEF Decoded
            <4>3. r.value = Append(sofar.value, c.value) /\ r.next = c.next
                BY <4>2
            <4> HIDE DEF i
            <4>4. /\ c.next \in i + 1 .. N + 1 /\ c.next \in V
                  /\ c.value = "bad" \/ SubSeq(raw, i, c.next - 1) \in SpellingsOf(c.value)
                BY <4>1, <4>2, CharacterIsSpelled
            <4>5. c.value \in Meanings
                BY <4>4, SpelledIsMeant DEF Meanings
            <4>6. sofar.value \in Seq(Meanings) /\ i > n - 1
                BY <3>2 DEF i
            <4> DEFINE v == sofar.value
                       m == c.value
            <4>7. v \in Seq(Meanings) /\ m \in Meanings
                BY <4>5, <4>6
            <4> HIDE DEF v, m
            <4>8. /\ Append(v, m) \in Seq(Meanings)
                  /\ ToSet(Append(v, m)) = ToSet(v) \cup {m}
                <5>1. /\ Append(v, m) \in Seq(Meanings) /\ Len(Append(v, m)) = Len(v) + 1
                      /\ \A k \in 1..Len(v): Append(v, m)[k] = v[k]
                      /\ Append(v, m)[Len(v) + 1] = m
                    BY <4>7, AppendProperties
                <5>2. /\ DOMAIN Append(v, m) = 1 .. Len(v) + 1
                      /\ DOMAIN v = 1..Len(v) /\ Len(v) \in Nat
                    BY <4>7, <5>1
                <5>3. 1 .. Len(v) + 1 = (1..Len(v)) \cup {Len(v) + 1}
                    BY <5>2
                <5> QED
                    BY <5>1, <5>2, <5>3 DEF ToSet
            <4>9. "bad" \in ToSet(Append(v, m)) \/ upTo(c.next) \in Spelled(Append(v, m))
                <5>1. ASSUME "bad" \notin ToSet(v), m # "bad"
                      PROVE  upTo(c.next) \in Spelled(Append(v, m))
                    <6>1. upTo(i) \in Spelled(v)
                        BY <3>2, <5>1 DEF i, v
                    <6>2. SubSeq(raw, i, c.next - 1) \in SpellingsOf(m)
                        BY <4>4, <5>1 DEF m
                    <6>3. upTo(c.next) = upTo(i) \o SubSeq(raw, i, c.next - 1)
                        <7>1. /\ i - 1 \in 1 - 1 .. N /\ c.next - 1 \in i - 1 .. N
                              /\ (i - 1) + 1 = i /\ 1 \in 1 .. N + 1
                            BY <1>1, <4>1, <4>4
                        <7> DEFINE a == i - 1
                                   b == c.next - 1
                        <7>2. SubSeq(raw, 1, a) \o SubSeq(raw, a + 1, b) = SubSeq(raw, 1, b)
                            <8> HIDE DEF a, b
                            <8>1. /\ 1 \in 1 .. Len(raw) + 1
                                  /\ a \in 1 - 1 .. Len(raw) /\ b \in a .. Len(raw)
                                BY <7>1 DEF a, b
                            <8> QED
                                BY <8>1, ConcatAdjacentSubSeq
                        <7> QED
                            BY <7>1, <7>2
                    <6> HIDE DEF upTo
                    <6>4. Spelled(Append(v, m)) = SpelledOn(Spelled(v), m)
                        BY <4>7, SpelledGrows
                    <6>5. upTo(c.next) \in SpelledOn(Spelled(v), m)
                        <7> DEFINE a == upTo(i)
                                   b == SubSeq(raw, i, c.next - 1)
                        <7>1. a \in Spelled(v) /\ b \in SpellingsOf(m)
                            BY <6>1, <6>2
                        <7> HIDE DEF a, b
                        <7>2. a \o b \in SpelledOn(Spelled(v), m)
                            BY <7>1 DEF SpelledOn
                        <7> QED
                            BY <6>3, <7>2 DEF a, b
                    <6> QED
                        BY <6>4, <6>5
                <5> QED
                    BY <4>8, <5>1
            <4>10. c.next \in 1 .. N + 1 /\ c.next > n
                BY <1>1, <4>1, <4>4, <4>6
            <4> HIDE DEF upTo
            <4> QED
                BY <4>3, <4>4, <4>8, <4>9, <4>10 DEF v, m
        <3> QED
            BY <3>3, <3>4
    <2> HIDE DEF Good
    <2> QED
        BY <2>1
<1>5. \A n \in 0..N: n \in G
    <2> HIDE DEF G
    <2> QED
        BY <1>1, <1>3, <1>4, UpTo
<1>6. PICK r \in f[N]: w = r.value
    BY <1>2
<1>7. Good(r, N)
    BY <1>1, <1>5, <1>6
<1>8. upTo(N + 1) = raw
    BY SubSeqFull
<1>9. r.next = N + 1
    BY <1>1, <1>7
<1> HIDE DEF upTo
<1> QED
    BY <1>6, <1>7, <1>8, <1>9

\* A sequence starts with another.
Starts(s, u) == Len(u) <= Len(s) /\ \A j \in 1..Len(u): s[j] = u[j]

\* What starts with two parts.
LEMMA StartsWithBoth ==
    ASSUME NEW S, NEW a \in Seq(S), NEW b \in Seq(S), NEW s, Len(s) \in Nat
    PROVE  /\ Len(a) \in Nat /\ Len(b) \in Nat /\ a \o b \in Seq(S)
           /\ Len(a \o b) = Len(a) + Len(b)
           /\ Starts(s, a \o b) => /\ Starts(s, a) /\ Len(a) + Len(b) <= Len(s)
                                   /\ \A j \in 1..Len(b): s[Len(a) + 1 + j - 1] = b[j]
<1> DEFINE ab == a \o b
<1>1. /\ ab \in Seq(S) /\ Len(ab) = Len(a) + Len(b)
      /\ \A i \in 1 .. Len(a) + Len(b): ab[i] = IF i <= Len(a) THEN a[i] ELSE b[i - Len(a)]
    BY ConcatProperties
<1>2. Len(a) \in Nat /\ Len(b) \in Nat
    OBVIOUS
<1> HIDE DEF ab
<1>3. ASSUME Starts(s, ab)
      PROVE  /\ Starts(s, a) /\ Len(a) + Len(b) <= Len(s)
             /\ \A j \in 1..Len(b): s[Len(a) + 1 + j - 1] = b[j]
    <2>1. Len(a) + Len(b) <= Len(s) /\ \A i \in 1 .. Len(a) + Len(b): s[i] = ab[i]
        BY <1>1, <1>3 DEF Starts
    <2>2. \A i \in 1..Len(a): i \in 1 .. Len(a) + Len(b) /\ i <= Len(a)
        BY <1>2
    <2>3. \A i \in 1..Len(a): s[i] = a[i]
        BY <1>1, <2>1, <2>2
    <2>4. ASSUME NEW j \in 1..Len(b) PROVE s[Len(a) + 1 + j - 1] = b[j]
        <3> DEFINE i == Len(a) + 1 + j - 1
        <3>1. i \in 1 .. Len(a) + Len(b) /\ ~(i <= Len(a)) /\ i - Len(a) = j
            BY <1>2
        <3> HIDE DEF i
        <3> QED
            BY <1>1, <2>1, <3>1 DEF i
    <2>5. Len(a) <= Len(s)
        BY <1>2, <2>1
    <2> QED
        BY <2>1, <2>3, <2>4, <2>5 DEF Starts
<1> QED
    BY <1>1, <1>2, <1>3 DEF ab

\* One more character at the start of a text.
LEMMA OneCharacterMore ==
    ASSUME NEW s, Len(s) \in Nat, NEW a \in Seq(Characters), NEW c, NEW b \in SpellingsOf(c),
           Starts(s, a \o b), NEW V, SearchGoesOnIn(s, V), Len(a) + 1 \in V
    PROVE  /\ Character(s, Len(a) + 1) = Result(c, Len(a \o b) + 1)
           /\ Len(a) \in Nat /\ Len(a \o b) \in Nat /\ Len(a \o b) > Len(a)
           /\ Len(a \o b) <= Len(s) /\ Len(a \o b) + 1 \in V
<1> DEFINE i == Len(a) + 1
<1>1. b \in Seq(Characters)
    BY SpelledIsMeant
<1>2. /\ Len(a) \in Nat /\ Len(b) \in Nat /\ Len(a \o b) = Len(a) + Len(b)
      /\ Starts(s, a) /\ Len(a) + Len(b) <= Len(s)
      /\ \A j \in 1..Len(b): s[Len(a) + 1 + j - 1] = b[j]
    BY <1>1, StartsWithBoth
<1>3. i \in Nat /\ i >= 1 /\ i + Len(b) <= Len(s) + 1 /\ i + Len(b) = Len(a \o b) + 1
    BY <1>2
<1> HIDE DEF i
<1>4. /\ Character(s, i) = Result(c, i + Len(b))
      /\ Len(b) >= 1 /\ i + Len(b) \in V
    <2>1. StandsAt(s, i, b) /\ i \in V
        BY <1>2, <1>3 DEF StandsAt, i
    <2> QED
        BY <1>3, <2>1, SpellingIsRead
<1> QED
    BY <1>2, <1>3, <1>4 DEF i

\* The texts of one character more.
LEMMA SpelledOnIs ==
    ASSUME NEW texts, NEW c, NEW u \in SpelledOn(texts, c)
    PROVE  \E a \in texts, b \in SpellingsOf(c): u = a \o b
BY DEF SpelledOn

\* A value's spelling is read as that value, whatever follows, and is stepped over as a whole.
LEMMA SpelledIsDecoded ==
    ASSUME NEW s \in Seq(Characters), NEW v, IsSeq(v), NEW t \in Spelled(v),
           NEW V \in SUBSET Nat, 1 \in V,
           SearchGoesOnIn(s, V)
    PROVE  /\ t \in Seq(Characters) /\ "bad" \notin ToSet(v)
           /\ Starts(s, t) => Len(t) + 1 \in V
           /\ s = t => Decode(s) = {v}
<1> DEFINE N == Len(s)
           M == Len(v)
           T == ToSet(v)
           part(k) == SubSeq(v, 1, k)
<1>1. N \in Nat /\ M \in Nat /\ v \in Seq(T)
    <2>1. v \in Seq(T)
        BY DEF IsSeq
    <2> HIDE DEF T
    <2> QED
        BY <2>1
<1> HIDE DEF T
<1>2. PICK f: f[0] = {<<>>} /\ Spelled(v) = f[M] /\ \A n \in 1..M: f[n] = SpelledOn(f[n - 1], v[n])
    BY <1>1, SpelledUnfolds
<1>3. PICK d: /\ Decode(s) = {r.value: r \in d[N]} /\ d[0] = Result(<<>>, 1)
              /\ \A n \in 1..N: d[n] = UNION {Decoded(s, sofar): sofar \in d[n - 1]}
    <2>1. Len(s) \in Nat
        BY <1>1
    <2>2. \E d: /\ Decode(s) = {r.value: r \in d[Len(s)]} /\ d[0] = Result(<<>>, 1)
                /\ \A n \in 1..Len(s): d[n] = UNION {Decoded(s, sofar): sofar \in d[n - 1]}
        BY <2>1, DecodeUnfolds
    <2> QED
        BY <2>2
<1> HIDE DEF part
<1> DEFINE Good(k, u) == /\ u \in Seq(Characters)
                         /\ Starts(s, u) =>
                                /\ Len(u) >= k /\ k <= N /\ Len(u) + 1 \in V
                                /\ d[k] = Result(part(k), Len(u) + 1)
                         /\ \A n \in 1..k: v[n] # "bad"
           G == {k \in 0..M: \A u \in f[k]: Good(k, u)}
<1>4. 0 \in G
    <2>1. ASSUME NEW u \in f[0] PROVE Good(0, u)
        <3>1. u = <<>>
            BY <1>2
        <3>2. u \in Seq(Characters) /\ Len(u) = 0 /\ part(0) = <<>>
            BY <3>1, SubSeqEmpty DEF part
        <3>3. d[0] = Result(part(0), Len(u) + 1)
            BY <1>3, <3>2
        <3>4. Len(u) + 1 \in V /\ Len(u) >= 0 /\ 0 <= N
            BY <1>1, <3>2
        <3>5. \A n \in 1..0: v[n] # "bad"
            OBVIOUS
        <3> QED
            BY <3>2, <3>3, <3>4, <3>5, Zenon
    <2> HIDE DEF Good
    <2> QED
        BY <1>1, <2>1
<1>5. ASSUME NEW k \in 1..M, k - 1 \in G PROVE k \in G
    <2>1. ASSUME NEW u \in f[k] PROVE Good(k, u)
        <3>1. f[k] = SpelledOn(f[k - 1], v[k])
            BY <1>2
        <3>2. PICK a \in f[k - 1], b \in SpellingsOf(v[k]): u = a \o b
            <4> DEFINE texts == f[k - 1]
                       c == v[k]
            <4>1. u \in SpelledOn(texts, c)
                BY <2>1, <3>1
            <4> HIDE DEF texts, c
            <4>2. \E a \in texts, b \in SpellingsOf(c): u = a \o b
                BY <4>1 DEF SpelledOn
            <4> QED
                BY <4>2, Zenon DEF texts, c
        <3>3. Good(k - 1, a)
            BY <1>5, <3>2
        <3>4. a \in Seq(Characters) /\ b \in Seq(Characters) /\ v[k] # "bad"
            BY <3>2, <3>3, SpelledIsMeant, SpellingKinds
        <3>5. u \in Seq(Characters)
            BY <3>2, <3>4, ConcatProperties
        <3>6. ASSUME Starts(s, u)
              PROVE  /\ Len(u) >= k /\ k <= N /\ Len(u) + 1 \in V
                     /\ d[k] = Result(part(k), Len(u) + 1)
            <4> DEFINE i == Len(a) + 1
            <4>1. Starts(s, a \o b)
                BY <3>2, <3>6
            <4>2. /\ Len(a) \in Nat /\ Len(a) <= N /\ Starts(s, a)
                BY <1>1, <3>4, <4>1, StartsWithBoth
            <4>3. Len(a) >= k - 1 /\ i \in V /\ d[k - 1] = Result(part(k - 1), i)
                BY <3>3, <4>2
            <4>4. /\ Character(s, i) = Result(v[k], Len(u) + 1)
                  /\ Len(u) \in Nat /\ Len(u) > Len(a) /\ Len(u) <= N /\ Len(u) + 1 \in V
                BY <1>1, <3>2, <3>4, <4>1, <4>3, OneCharacterMore
            <4>5. Len(u) >= k /\ k <= N /\ i <= N /\ i \in Nat
                BY <1>1, <4>2, <4>3, <4>4
            <4> HIDE DEF i
            <4>6. d[k] = Result(part(k), Len(u) + 1)
                <5>1. d[k] = UNION {Decoded(s, sofar): sofar \in Result(part(k - 1), i)}
                    BY <1>3, <4>3, <4>5
                <5> DEFINE r == [value |-> part(k - 1), next |-> i]
                <5>2. d[k] = Decoded(s, r)
                    BY <5>1 DEF Result
                <5>3. r.value = part(k - 1) /\ r.next = i /\ ~(i > N)
                    BY <1>1, <4>5
                <5> HIDE DEF r
                <5>4. Decoded(s, r) = {[value |-> Append(part(k - 1), c.value), next |-> c.next]:
                                       c \in Character(s, i)}
                    BY <5>3 DEF Decoded
                <5>5. Append(part(k - 1), v[k]) = part(k)
                    <6>1. part(k) = part(k - 1) \o <<v[k]>>
                        <7>1. 1 \in 1..Len(v) /\ k \in 1..Len(v)
                            BY <1>1
                        <7> QED
                            BY <1>1, <7>1, SubSeqRecursiveSecond DEF part
                    <6>2. part(k - 1) \in Seq(T) /\ v[k] \in T
                        BY <1>1 DEF part
                    <6> HIDE DEF part
                    <6> QED
                        BY <6>1, <6>2, AppendIsConcat
                <5> DEFINE c == [value |-> v[k], next |-> Len(u) + 1]
                <5>6. Character(s, i) = {c} /\ c.value = v[k] /\ c.next = Len(u) + 1
                    BY <4>4 DEF Result
                <5> HIDE DEF c
                <5>7. Decoded(s, r) = {[value |-> part(k), next |-> Len(u) + 1]}
                    BY <5>4, <5>5, <5>6
                <5> QED
                    BY <5>2, <5>7 DEF Result
            <4> QED
                BY <4>4, <4>5, <4>6
        <3>7. \A n \in 1..k: v[n] # "bad"
            BY <3>3, <3>4
        <3> QED
            BY <3>5, <3>6, <3>7
    <2> HIDE DEF Good
    <2> QED
        BY <2>1
<1>6. \A k \in 0..M: k \in G
    <2> HIDE DEF G
    <2> QED
        BY <1>1, <1>4, <1>5, UpTo
<1>7. Good(M, t)
    <2> HIDE DEF Good
    <2>1. M \in G
        BY <1>1, <1>6
    <2>2. t \in f[M]
        BY <1>2, Zenon
    <2> QED
        BY <2>1, <2>2
<1>8. part(M) = v
    BY <1>1, SubSeqFull DEF part
<1>9. ASSUME Starts(s, t)
      PROVE  Len(t) >= M /\ M <= N /\ Len(t) + 1 \in V /\ d[M] = Result(v, Len(t) + 1)
    BY <1>7, <1>8, <1>9
<1>10. "bad" \notin ToSet(v)
    <2>1. DOMAIN v = 1..M
        BY <1>1
    <2> QED
        BY <1>7, <2>1 DEF ToSet
<1>11. ASSUME s = t PROVE Decode(s) = {v}
    <2>1. Starts(s, t) /\ Len(t) = N
        BY <1>1, <1>11 DEF Starts
    <2>7. M <= N /\ d[M] = Result(v, N + 1)
        BY <1>9, <2>1
    <2> DEFINE r == [value |-> v, next |-> N + 1]
    <2>2. d[M] = {r} /\ r.value = v /\ r.next = N + 1
        BY <2>7 DEF Result
    <2> HIDE DEF r
    <2> DEFINE H == {n \in 0..N: n >= M => d[n] = {r}}
    <2>3. 0 \in H
        BY <1>1, <2>2
    <2>4. ASSUME NEW n \in 1..N, n - 1 \in H PROVE n \in H
        <3>1. CASE n - 1 >= M
            <4>1. d[n] = UNION {Decoded(s, sofar): sofar \in {r}}
                BY <1>3, <2>4, <3>1
            <4>2. Decoded(s, r) = {r}
                BY <1>1, <2>2 DEF Decoded
            <4>3. d[n] = {r}
                BY <4>1, <4>2
            <4> QED
                BY <4>3
        <3>2. CASE ~(n - 1 >= M)
            <4>1. n >= M => n = M
                BY <1>1, <3>2
            <4> QED
                BY <2>2, <4>1
        <3> QED
            BY <3>1, <3>2
    <2>5. \A n \in 0..N: n \in H
        <3> HIDE DEF H
        <3> QED
            BY <1>1, <2>3, <2>4, UpTo
    <2>6. d[N] = {r}
        BY <1>1, <2>5, <2>7
    <2> QED
        BY <1>3, <2>2, <2>6
<1> QED
    BY <1>7, <1>9, <1>10, <1>11

\* Up to its closing quote, a string spells what it is read as (sensitive_json.rs, string).
LEMMA StringIsSpelled ==
    ASSUME NEW s \in Seq(Characters), NEW r \in String(s)
    PROVE  s[r.next - 1] = "quote" /\ SubSeq(s, 1, r.next - 2) \in Spelled(r.value)
<1> DEFINE end == End(s)
           raw == SubSeq(s, 1, end - 1)
<1>1. PICK V \in SUBSET Nat:
               /\ 1 \in V /\ End(s) \in V
               /\ \A i \in V: /\ i >= 1
                              /\ i <= Len(s) /\ s[i] = "quote" => i = End(s)
                              /\ i <= Len(s) /\ s[i] # "quote" => i + Steps(s[i]) \in V
    BY SearchGoesOn
<1>2. end \in Nat /\ end >= 1
    BY <1>1
<1>3. At(s, end) = "quote"
    BY DEF String
<1>4. end <= Len(s) /\ s[end] = "quote"
    BY <1>2, <1>3 DEF At
<1>5. PICK w \in Decode(raw): "bad" \notin ToSet(w) /\ r = [value |-> w, next |-> end + 1]
    BY <1>3 DEF String, Result
<1>6. r.value = w /\ r.next = end + 1
    BY <1>5
<1> HIDE DEF end
<1>7. raw \in Seq(Characters) /\ Len(raw) = end - 1 /\ \A k \in 1 .. end - 1: raw[k] = s[k]
    <2>1. \A k \in 1 .. end - 1: s[k] \in Characters
        BY <1>2, <1>4
    <2>2. 1 \in Int /\ end - 1 \in Int
        BY <1>2
    <2> DEFINE e == end - 1
    <2>3. e \in Nat /\ (IF 1 <= e THEN e - 1 + 1 ELSE 0) = e /\ e - 1 + 1 = e
        BY <1>2
    <2> HIDE DEF e
    <2>4. /\ SubSeq(s, 1, e) \in Seq(Characters)
          /\ Len(SubSeq(s, 1, e)) = (IF 1 <= e THEN e - 1 + 1 ELSE 0)
          /\ \A k \in 1 .. e - 1 + 1: SubSeq(s, 1, e)[k] = s[1 + k - 1]
        BY <2>1, <2>3, SubSeqProperties DEF e
    <2>5. \A k \in 1..e: 1 + k - 1 = k
        BY <2>3
    <2> QED
        BY <2>3, <2>4, <2>5 DEF e
<1>8. \A k \in V: k <= Len(raw) => k >= 1 /\ raw[k] # "quote" /\ k + Steps(raw[k]) \in V
    <2> HIDE DEF raw
    <2> TAKE k \in V
    <2>1. ASSUME k <= Len(raw) PROVE k >= 1 /\ raw[k] # "quote" /\ k + Steps(raw[k]) \in V
        <3>1. k \in 1 .. end - 1 /\ k <= Len(s) /\ k # end
            BY <1>1, <1>2, <1>4, <1>7, <2>1
        <3>2. raw[k] = s[k] /\ s[k] # "quote"
            BY <1>1, <1>7, <3>1 DEF end
        <3> QED
            BY <1>1, <3>1, <3>2
    <2> QED
        BY <2>1
<1>9. raw \in Spelled(w)
    <2> HIDE DEF raw
    <2> QED
        BY <1>1, <1>5, <1>7, <1>8, DecodedIsSpelled
<1>10. r.next - 1 = end /\ r.next - 2 = end - 1
    BY <1>2, <1>6
<1> QED
    BY <1>4, <1>6, <1>9, <1>10

\* What is spelled before a closing quote is read (sensitive_json.rs, string).
LEMMA SpelledIsString ==
    ASSUME NEW s \in Seq(Characters), NEW v, IsSeq(v), NEW t \in Spelled(v), s = Append(t, "quote")
    PROVE  String(s) = {[value |-> v, next |-> Len(s) + 1]}
<1>1. PICK V \in SUBSET Nat:
               /\ 1 \in V /\ End(s) \in V
               /\ \A i \in V: /\ i >= 1
                              /\ i <= Len(s) /\ s[i] = "quote" => i = End(s)
                              /\ i <= Len(s) /\ s[i] # "quote" => i + Steps(s[i]) \in V
    BY SearchGoesOn
<1>2. SearchGoesOnIn(s, V)
    BY <1>1 DEF SearchGoesOnIn
<1>3. /\ t \in Seq(Characters) /\ "bad" \notin ToSet(v)
      /\ Starts(s, t) => Len(t) + 1 \in V
    BY <1>1, <1>2, SpelledIsDecoded
<1> DEFINE N == Len(t)
<1>4. N \in Nat /\ Len(s) = N + 1 /\ s[N + 1] = "quote" /\ \A k \in 1..N: s[k] = t[k]
    <2>1. "quote" \in Characters
        BY DEF Characters
    <2> QED
        BY <1>3, <2>1, AppendProperties
<1>5. End(s) = N + 1
    <2>1. Starts(s, t)
        BY <1>4 DEF Starts
    <2> QED
        BY <1>1, <1>3, <1>4, <2>1
<1>6. SubSeq(s, 1, (N + 1) - 1) = t
    <2>1. t = [j \in 1..N |-> t[j]] /\ 1 + N - 1 = N /\ (N + 1) - 1 = N
        BY <1>3, <1>4
    <2>2. \A j \in 1..N: s[1 + j - 1] = t[j]
        BY <1>4
    <2>3. SubSeq(s, 1, 1 + N - 1) = t
        BY <1>4, <2>1, <2>2, CutOut
    <2> QED
        BY <2>1, <2>3
<1>7. Decode(t) = {v}
    <2>1. SearchGoesOnIn(t, Nat)
        <3>1. \A c: Steps(c) \in Nat
            BY DEF Steps
        <3> QED
            BY <3>1 DEF SearchGoesOnIn
    <2> QED
        BY <1>3, <2>1, SpelledIsDecoded
<1>8. At(s, N + 1) = "quote"
    BY <1>4 DEF At
<1>9. String(s) = UNION {Result(u, (N + 1) + 1): u \in {w \in Decode(t): "bad" \notin ToSet(w)}}
    BY <1>5, <1>6, <1>8 DEF String
<1>10. {w \in Decode(t): "bad" \notin ToSet(w)} = {v}
    BY <1>3, <1>7
<1> QED
    BY <1>4, <1>9, <1>10 DEF Result

\* A judged text is read as the characters it spells, and no other is.
LEMMA TextIsItsCharacters ==
    ASSUME TextJudged, Judged("text") PROVE StringIsItsCharacters
<1> DEFINE s == case.text
<1>1. case \in TextCases /\ verdict = String(s)
    BY DEF TextJudged, Judged
<1>2. /\ s \in Seq(Characters)
      /\ \A v \in case.means: IsSeq(v) /\ \E t \in Spelled(v): s = Append(t, "quote")
    BY <1>1, TextAssumption
<1>3. ASSUME NEW r \in verdict
      PROVE  s[r.next - 1] = "quote" /\ SubSeq(s, 1, r.next - 2) \in Spelled(r.value)
    BY <1>1, <1>2, StringIsSpelled
<1>4. ASSUME NEW v \in case.means PROVE verdict = {[value |-> v, next |-> Len(s) + 1]}
    BY <1>1, <1>2, SpelledIsString
<1> QED
    BY <1>3, <1>4 DEF StringIsItsCharacters

\* A string is read exactly as the characters it spells, for a text of any length (string, hex4).
THEOREM StringsAreTheirCharacters == Spec => []StringIsItsCharacters
<1>1. RuleInv => StringIsItsCharacters
    BY TextIsItsCharacters DEF RuleInv, StringIsItsCharacters
<1> QED
    BY <1>1, JudgedByItsRule, PTL

-----------------------------------------------------------------------------
(* Documents without their blanks *)

\* Two parts stand somewhere if the second stands behind the first.
LEMMA BothStand ==
    ASSUME NEW S, NEW a \in Seq(S), NEW b \in Seq(S), NEW s, Len(s) \in Nat, NEW i \in Nat
    PROVE  /\ Len(a) \in Nat /\ Len(b) \in Nat /\ a \o b \in Seq(S)
           /\ Len(a \o b) = Len(a) + Len(b)
           /\ StandsAt(s, i, a \o b) <=> StandsAt(s, i, a) /\ StandsAt(s, i + Len(a), b)
<1> DEFINE ab == a \o b
<1>1. /\ ab \in Seq(S) /\ Len(ab) = Len(a) + Len(b)
      /\ \A k \in 1 .. Len(a) + Len(b): ab[k] = IF k <= Len(a) THEN a[k] ELSE b[k - Len(a)]
    BY ConcatProperties
<1>2. Len(a) \in Nat /\ Len(b) \in Nat
    OBVIOUS
<1> HIDE DEF ab
<1>3. ASSUME StandsAt(s, i, ab) PROVE StandsAt(s, i, a) /\ StandsAt(s, i + Len(a), b)
    <2>1. /\ i + (Len(a) + Len(b)) <= Len(s) + 1
          /\ \A k \in 1 .. Len(a) + Len(b): s[i + k - 1] = ab[k]
        BY <1>1, <1>3 DEF StandsAt
    <2>2. \A k \in 1..Len(a): k \in 1 .. Len(a) + Len(b) /\ k <= Len(a)
        BY <1>2
    <2>3. \A k \in 1..Len(a): s[i + k - 1] = a[k]
        BY <1>1, <2>1, <2>2
    <2>4. ASSUME NEW j \in 1..Len(b) PROVE s[(i + Len(a)) + j - 1] = b[j]
        <3> DEFINE k == Len(a) + j
        <3>1. /\ k \in 1 .. Len(a) + Len(b) /\ ~(k <= Len(a)) /\ k - Len(a) = j
              /\ (i + Len(a)) + j - 1 = i + k - 1
            BY <1>2
        <3> HIDE DEF k
        <3> QED
            BY <1>1, <2>1, <3>1
    <2>5. i + Len(a) <= Len(s) + 1 /\ (i + Len(a)) + Len(b) <= Len(s) + 1
        BY <1>2, <2>1
    <2> QED
        BY <2>3, <2>4, <2>5 DEF StandsAt
<1>4. ASSUME StandsAt(s, i, a), StandsAt(s, i + Len(a), b) PROVE StandsAt(s, i, ab)
    <2>1. /\ \A k \in 1..Len(a): s[i + k - 1] = a[k]
          /\ (i + Len(a)) + Len(b) <= Len(s) + 1
          /\ \A k \in 1..Len(b): s[(i + Len(a)) + k - 1] = b[k]
        BY <1>4 DEF StandsAt
    <2>2. ASSUME NEW k \in 1 .. Len(a) + Len(b) PROVE s[i + k - 1] = ab[k]
        <3>1. CASE k <= Len(a)
            <4>1. k \in 1..Len(a)
                BY <3>1
            <4> QED
                BY <1>1, <2>1, <3>1, <4>1
        <3>2. CASE ~(k <= Len(a))
            <4> DEFINE j == k - Len(a)
            <4>1. j \in 1..Len(b) /\ (i + Len(a)) + j - 1 = i + k - 1
                BY <1>2, <3>2
            <4> HIDE DEF j
            <4>2. s[i + k - 1] = b[j]
                BY <2>1, <4>1
            <4> QED
                BY <1>1, <3>2, <4>2 DEF j
        <3> QED
            BY <3>1, <3>2
    <2>3. i + Len(ab) <= Len(s) + 1
        BY <1>1, <1>2, <2>1
    <2> QED
        BY <1>1, <2>2, <2>3 DEF StandsAt
<1> QED
    BY <1>1, <1>2, <1>3, <1>4 DEF ab

\* One element stands somewhere.
LEMMA OneStands ==
    ASSUME NEW s, Len(s) \in Nat, NEW i \in Nat, NEW c
    PROVE  Len(<<c>>) = 1 /\ (StandsAt(s, i, <<c>>) <=> i <= Len(s) /\ s[i] = c)
<1> DEFINE t == <<c>>
<1>1. Len(t) = 1 /\ t[1] = c
    OBVIOUS
<1>2. i + 1 - 1 = i
    OBVIOUS
<1> HIDE DEF t
<1>3. StandsAt(s, i, t) <=> i + 1 <= Len(s) + 1 /\ s[i] = c
    BY <1>1, <1>2 DEF StandsAt
<1> QED
    BY <1>1, <1>3 DEF t

\* The same with an element at the end.
LEMMA BothStandAppended ==
    ASSUME NEW S, NEW a \in Seq(S), NEW c \in S, NEW s, Len(s) \in Nat, NEW i \in Nat
    PROVE  /\ Len(a) \in Nat /\ Append(a, c) \in Seq(S) /\ Len(Append(a, c)) = Len(a) + 1
           /\ StandsAt(s, i, Append(a, c)) <=> /\ StandsAt(s, i, a)
                                               /\ i + Len(a) <= Len(s) /\ s[i + Len(a)] = c
<1> DEFINE b == <<c>>
<1>1. b \in Seq(S)
    OBVIOUS
<1>2. Append(a, c) = a \o b
    BY AppendIsConcat
<1>3. Append(a, c) \in Seq(S) /\ Len(Append(a, c)) = Len(a) + 1 /\ Len(a) \in Nat
    BY AppendProperties
<1>4. i + Len(a) \in Nat
    BY <1>3
<1> DEFINE n == i + Len(a)
<1>5. StandsAt(s, n, b) <=> n <= Len(s) /\ s[n] = c
    <2> HIDE DEF n
    <2> QED
        BY <1>4, OneStands DEF n
<1> HIDE DEF b
<1>6. StandsAt(s, i, a \o b) <=> StandsAt(s, i, a) /\ StandsAt(s, i + Len(a), b)
    BY <1>1, BothStand
<1> QED
    BY <1>2, <1>3, <1>5, <1>6

-----------------------------------------------------------------------------
\* Where the tokens of a document stand in the dense one, blanks being where the next token is.
Placed(s, dense, place) ==
    /\ Len(s) \in Nat /\ \A i \in 1..Len(s): s[i] # "end"
    /\ Len(dense) \in Nat /\ place[1] = 1 /\ place[Len(s) + 1] = Len(dense) + 1
    /\ \A i \in 1 .. Len(s) + 1: place[i] \in 1 .. Len(dense) + 1
    /\ \A i \in 1..Len(s): IF s[i] = "sp" THEN place[i + 1] = place[i]
                           ELSE place[i + 1] = place[i] + 1 /\ dense[place[i]] = s[i]

\* A document without its blanks, token by token.
LEMMA DenseUnfolds ==
    ASSUME NEW s, Len(s) \in Nat
    PROVE  \E f: /\ Dense(s) = f[Len(s)] /\ f[0] = <<>>
                 /\ \A n \in 1..Len(s):
                        f[n] = IF s[n] = "sp" THEN f[n - 1] ELSE Append(f[n - 1], s[n])
<1> DEFINE N == Len(s)
           none == <<>>
           step(x, n) == IF s[n] = "sp" THEN x ELSE Append(x, s[n])
           rounds(f, m) == [n \in 0..m |-> IF n = 0 THEN none ELSE step(f[n - 1], n)]
           G == {m \in 0..N: \E f: f = rounds(f, m)}
           kept == CHOOSE f: f = rounds(f, N)
<1>1. Dense(s) = kept[N]
    BY DEF Dense
<1> HIDE DEF step, none
<1>2. 0 \in G
    <2> DEFINE f == [n \in 0..0 |-> none]
    <2>1. f = rounds(f, 0) /\ 0 \in 0..N
        OBVIOUS
    <2> HIDE DEF f, rounds
    <2> QED
        BY <2>1
<1>3. ASSUME NEW m \in 1..N, m - 1 \in G PROVE m \in G
    <2>1. PICK f: f = rounds(f, m - 1)
        BY <1>3
    <2> DEFINE g == [n \in 0..m |-> IF n = m THEN step(f[m - 1], m) ELSE f[n]]
    <2>2. ASSUME NEW n \in 0..m PROVE g[n] = rounds(g, m)[n]
        BY <2>1, <2>2
    <2>3. g = rounds(g, m)
        BY <2>2
    <2> HIDE DEF g, rounds
    <2> QED
        BY <2>3
<1>4. \E f: f = rounds(f, N)
    <2> HIDE DEF rounds
    <2>1. \A n \in 0..N: n \in G
        <3> HIDE DEF G
        <3> QED
            BY <1>2, <1>3, UpTo
    <2> QED
        BY <2>1
<1>5. kept = rounds(kept, N)
    <2> HIDE DEF rounds
    <2> QED
        BY <1>4
<1>6. kept[0] = none /\ \A n \in 1..N: kept[n] = step(kept[n - 1], n)
    <2> HIDE DEF kept
    <2> QED
        BY <1>5
<1> HIDE DEF kept
<1> QED
    BY <1>1, <1>6 DEF step, none

\* Every place of a document is one of it without its blanks.
LEMMA DenseIsPlaced ==
    ASSUME NEW S, NEW s \in Seq(S), "end" \notin S
    PROVE  Dense(s) \in Seq(S) /\ \E place: Placed(s, Dense(s), place)
<1> DEFINE N == Len(s)
<1>1. N \in Nat /\ \A i \in 1..N: s[i] \in S
    OBVIOUS
<1>2. PICK f: /\ Dense(s) = f[N] /\ f[0] = <<>>
              /\ \A n \in 1..N: f[n] = IF s[n] = "sp" THEN f[n - 1] ELSE Append(f[n - 1], s[n])
    <2>1. Len(s) \in Nat
        BY <1>1
    <2> QED
        BY <2>1, DenseUnfolds
<1>3. \A n \in 0..N: f[n] \in Seq(S)
    <2> DEFINE G == {n \in 0..N: f[n] \in Seq(S)}
    <2>1. 0 \in G
        <3>1. f[0] \in Seq(S)
            BY <1>2, EmptySeq, Zenon
        <3> QED
            BY <1>1, <3>1
    <2>2. ASSUME NEW n \in 1..N, n - 1 \in G PROVE n \in G
        <3>1. f[n - 1] \in Seq(S) /\ s[n] \in S
            BY <1>1, <2>2
        <3> DEFINE a == f[n - 1]
                   c == s[n]
        <3>2. f[n] = IF c = "sp" THEN a ELSE Append(a, c)
            BY <1>2
        <3>3. a \in Seq(S) /\ c \in S
            BY <3>1
        <3> HIDE DEF a, c
        <3>4. Append(a, c) \in Seq(S)
            BY <3>3, AppendProperties
        <3>5. f[n] \in Seq(S)
            BY <3>2, <3>3, <3>4
        <3> QED
            BY <1>1, <3>5
    <2>3. \A n \in 0..N: n \in G
        <3> HIDE DEF G
        <3> QED
            BY <1>1, <2>1, <2>2, UpTo
    <2> QED
        BY <2>3
<1> DEFINE len(n) == Len(f[n])
<1>4. /\ len(0) = 0 /\ \A n \in 0..N: len(n) \in Nat
      /\ \A n \in 1..N: IF s[n] = "sp" THEN f[n] = f[n - 1]
                        ELSE /\ len(n) = len(n - 1) + 1 /\ f[n][len(n)] = s[n]
                             /\ \A k \in 1 .. len(n - 1): f[n][k] = f[n - 1][k]
    <2>1. len(0) = 0
        BY <1>2
    <2>2. \A n \in 0..N: len(n) \in Nat
        BY <1>3
    <2>3. ASSUME NEW n \in 1..N, s[n] # "sp"
          PROVE  /\ len(n) = len(n - 1) + 1 /\ f[n][len(n)] = s[n]
                 /\ \A k \in 1 .. len(n - 1): f[n][k] = f[n - 1][k]
        <3> DEFINE a == f[n - 1]
        <3>1. a \in Seq(S) /\ s[n] \in S /\ f[n] = Append(a, s[n])
            <4>1. n - 1 \in 0..N
                OBVIOUS
            <4>2. f[n - 1] \in Seq(S)
                BY <1>3, <4>1
            <4>3. f[n] = Append(f[n - 1], s[n])
                BY <1>2, <2>3
            <4> QED
                BY <1>1, <4>2, <4>3
        <3> HIDE DEF a
        <3>2. /\ Len(f[n]) = Len(a) + 1 /\ f[n][Len(a) + 1] = s[n]
              /\ \A k \in 1..Len(a): f[n][k] = a[k]
            BY <3>1, AppendProperties
        <3> QED
            BY <3>2 DEF a
    <2>4. \A n \in 1..N: s[n] = "sp" => f[n] = f[n - 1]
        BY <1>2
    <2> HIDE DEF len
    <2> QED
        BY <2>1, <2>2, <2>3, <2>4
\* What a longer part adds stands behind.
<1>5. ASSUME NEW n \in 0..N
      PROVE  len(n) <= len(N) /\ \A k \in 1..len(n): f[N][k] = f[n][k]
    <2> DEFINE G == {m \in 0..N: m >= n => /\ len(n) <= len(m)
                                           /\ \A k \in 1..len(n): f[m][k] = f[n][k]}
    <2>1. 0 \in G
        <3>1. 0 >= n => n = 0
            OBVIOUS
        <3>2. len(0) <= len(0)
            BY <1>4
        <3> HIDE DEF len
        <3> QED
            BY <1>1, <3>1, <3>2
    <2>2. ASSUME NEW m \in 1..N, m - 1 \in G PROVE m \in G
        <3>1. CASE m - 1 >= n
            <4>1. len(n) <= len(m - 1) /\ \A k \in 1..len(n): f[m - 1][k] = f[n][k]
                BY <2>2, <3>1
            <4>2. len(n) \in Nat /\ len(m - 1) \in Nat
                BY <1>4
            <4> HIDE DEF len
            <4>3. CASE s[m] = "sp"
                <5>1. f[m] = f[m - 1]
                    BY <1>4, <4>3
                <5>2. len(m) = len(m - 1)
                    BY <5>1 DEF len
                <5> QED
                    BY <4>1, <5>1, <5>2
            <4>4. CASE s[m] # "sp"
                <5>1. len(m) = len(m - 1) + 1 /\ \A k \in 1 .. len(m - 1): f[m][k] = f[m - 1][k]
                    BY <1>4, <4>4
                <5>2. \A k \in 1..len(n): k \in 1 .. len(m - 1)
                    BY <4>1, <4>2
                <5>3. len(n) <= len(m)
                    BY <4>1, <4>2, <5>1
                <5> QED
                    BY <4>1, <5>1, <5>2, <5>3
            <4> QED
                BY <4>3, <4>4
        <3>2. CASE ~(m - 1 >= n)
            <4>1. m >= n => m = n
                BY <3>2
            <4>2. len(n) <= len(n)
                BY <1>4
            <4> HIDE DEF len
            <4> QED
                BY <4>1, <4>2
        <3> QED
            BY <3>1, <3>2
    <2>3. \A m \in 0..N: m \in G
        <3> HIDE DEF G
        <3> QED
            BY <1>1, <2>1, <2>2, UpTo
    <2>4. N \in G /\ N >= n
        BY <1>1, <2>3
    <2> QED
        BY <2>4
<1> DEFINE place == [i \in 1 .. N + 1 |-> len(i - 1) + 1]
<1> HIDE DEF len
<1>6. /\ place[1] = 1 /\ place[N + 1] = len(N) + 1 /\ len(N) \in Nat
      /\ \A i \in 1 .. N + 1: place[i] \in 1 .. len(N) + 1
    <2>1. \A i \in 1 .. N + 1: i - 1 \in 0..N
        BY <1>1
    <2>2. \A i \in 1 .. N + 1: len(i - 1) \in Nat /\ len(i - 1) <= len(N)
        BY <1>4, <1>5, <2>1
    <2>3. len(N) \in Nat
        BY <1>1, <1>4
    <2>4. 1 - 1 = 0 /\ (N + 1) - 1 = N /\ 1 \in 1 .. N + 1 /\ N + 1 \in 1 .. N + 1
        BY <1>1
    <2> QED
        BY <1>4, <2>2, <2>3, <2>4
<1>7. ASSUME NEW i \in 1..N
      PROVE  IF s[i] = "sp" THEN place[i + 1] = place[i]
             ELSE place[i + 1] = place[i] + 1 /\ f[N][place[i]] = s[i]
    <2>1. /\ i \in 1 .. N + 1 /\ i + 1 \in 1 .. N + 1 /\ (i + 1) - 1 = i
          /\ i - 1 \in 0..N /\ i \in 0..N
        BY <1>1
    <2>2. place[i] = len(i - 1) + 1 /\ place[i + 1] = len(i) + 1 /\ len(i - 1) \in Nat
        BY <1>4, <2>1
    <2>3. CASE s[i] = "sp"
        <3>1. len(i) = len(i - 1)
            BY <1>4, <2>3 DEF len
        <3> QED
            BY <2>2, <2>3, <3>1
    <2>4. CASE s[i] # "sp"
        <3>1. len(i) = len(i - 1) + 1 /\ f[i][len(i)] = s[i]
            BY <1>4, <2>4
        <3>2. f[N][len(i)] = f[i][len(i)]
            BY <1>5, <2>1, <2>2, <3>1
        <3> QED
            BY <2>2, <2>4, <3>1, <3>2
    <2> QED
        BY <2>3, <2>4
<1> HIDE DEF place
<1>8. Dense(s) \in Seq(S) /\ Len(Dense(s)) = len(N)
    BY <1>1, <1>2, <1>3 DEF len
<1>9. Placed(s, Dense(s), place)
    <2>1. \A i \in 1..N: s[i] # "end"
        BY <1>1
    <2> QED
        BY <1>1, <1>2, <1>6, <1>7, <1>8, <2>1 DEF Placed
<1> QED
    BY <1>8, <1>9

\* Blanks end at a token or at the end.
LEMMA SkipStops ==
    ASSUME NEW s, Len(s) \in Nat, NEW i \in 1 .. Len(s) + 1, \A k \in 1..Len(s): s[k] # "end"
    PROVE  /\ Skip(s, i) \in i .. Len(s) + 1
           /\ At(s, Skip(s, i)) # "sp" /\ \A k \in i .. Skip(s, i) - 1: s[k] = "sp"
<1> DEFINE N == Len(s)
           T == {j \in i .. N + 1: At(s, j) # "sp"}
           Stop(j) == j \in i .. N + 1 /\ At(s, j) # "sp" /\ \A k \in i .. j - 1: s[k] = "sp"
<1>1. At(s, N + 1) = "end" /\ \A k \in 1..N: At(s, k) = s[k]
    BY DEF At
<1>2. N + 1 \in T /\ T \in SUBSET Nat
    BY <1>1
<1>3. PICK j \in T: \A k \in T: j <= k
    <2> HIDE DEF T
    <2> QED
        BY <1>2, LeastOfAll
<1>4. Stop(j)
    <2>1. ASSUME NEW k \in i .. j - 1 PROVE s[k] = "sp"
        <3>1. k \in i .. N + 1 /\ ~(j <= k) /\ k \in 1..N
            OBVIOUS
        <3>2. At(s, k) = "sp"
            BY <1>3, <3>1
        <3> QED
            BY <1>1, <3>1, <3>2
    <2> QED
        BY <2>1
<1>5. Skip(s, i) = CHOOSE m: Stop(m)
    <2>1. Skip(s, i) = CHOOSE m \in i .. N + 1: At(s, m) # "sp" /\ \A k \in i .. m - 1: s[k] = "sp"
        BY DEF Skip
    <2> QED
        BY <2>1
<1>6. Stop(CHOOSE m: Stop(m))
    <2> HIDE DEF Stop
    <2> QED
        BY <1>4
<1> QED
    BY <1>5, <1>6

\* The next token of a document is the one in its place (sensitive_json.rs, whitespace).
LEMMA NextToken ==
    ASSUME NEW s, NEW dense, NEW place, Placed(s, dense, place), NEW i \in 1 .. Len(s) + 1
    PROVE  LET j == Skip(s, i)
           IN  /\ Len(s) \in Nat /\ j \in i .. Len(s) + 1 /\ place[j] = place[i]
               /\ IF place[i] <= Len(dense)
                  THEN /\ At(s, j) = dense[place[i]] /\ s[j] = dense[place[i]] /\ At(s, j) # "end"
                       /\ j \in i .. Len(s) /\ j + 1 \in 1 .. Len(s) + 1
                       /\ place[j + 1] = place[i] + 1
                  ELSE j = Len(s) + 1 /\ At(s, j) = "end"
<1> DEFINE N == Len(s)
           j == Skip(s, i)
<1>1. /\ N \in Nat /\ \A k \in 1..N: s[k] # "end"
      /\ Len(dense) \in Nat /\ place[N + 1] = Len(dense) + 1
      /\ \A k \in 1 .. N + 1: place[k] \in 1 .. Len(dense) + 1
      /\ \A k \in 1..N: IF s[k] = "sp" THEN place[k + 1] = place[k]
                        ELSE place[k + 1] = place[k] + 1 /\ dense[place[k]] = s[k]
    BY DEF Placed
<1>2. j \in i .. N + 1 /\ At(s, j) # "sp" /\ \A k \in i .. j - 1: s[k] = "sp"
    BY <1>1, SkipStops
<1> HIDE DEF j
<1>3. place[j] = place[i]
    <2> DEFINE M == j - i
               G == {n \in 0..M: place[i + n] = place[i]}
    <2>1. M \in Nat /\ i + M = j /\ 0 \in G
        BY <1>2
    <2>2. ASSUME NEW n \in 1..M, n - 1 \in G PROVE n \in G
        <3> DEFINE k == i + (n - 1)
        <3>1. k \in i .. j - 1 /\ k \in 1..N /\ i + n = k + 1
            BY <1>1, <1>2
        <3>2. place[k] = place[i]
            BY <2>2
        <3> HIDE DEF k
        <3>3. place[i + n] = place[i]
            BY <1>1, <1>2, <3>1, <3>2
        <3> QED
            BY <3>3
    <2>3. \A n \in 0..M: n \in G
        <3> HIDE DEF G, M
        <3> QED
            BY <2>1, <2>2, UpTo
    <2>4. M \in G
        BY <2>1, <2>3
    <2> QED
        BY <2>1, <2>4
<1>4. CASE j = N + 1
    <2>1. At(s, j) = "end"
        BY <1>1, <1>4 DEF At
    <2>2. ~(place[i] <= Len(dense))
        BY <1>1, <1>3, <1>4
    <2> QED
        BY <1>1, <1>2, <1>3, <1>4, <2>1, <2>2 DEF j
<1>5. CASE j \in i..N
    <2>1. j \in 1..N /\ At(s, j) = s[j] /\ s[j] # "sp" /\ s[j] # "end"
        BY <1>1, <1>2, <1>5 DEF At
    <2>2. /\ place[j + 1] = place[i] + 1 /\ dense[place[i]] = s[j] /\ j + 1 \in 1 .. N + 1
          /\ place[i] <= Len(dense)
        BY <1>1, <1>3, <2>1
    <2> QED
        BY <1>1, <1>2, <1>3, <1>5, <2>1, <2>2 DEF j
<1> QED
    BY <1>1, <1>2, <1>4, <1>5

\* A token that is read stands there in the document without blanks.
LEMMA TokenStands ==
    ASSUME NEW s, NEW dense, NEW place, Placed(s, dense, place), NEW i \in 1 .. Len(s) + 1,
           At(s, Skip(s, i)) # "end"
    PROVE  /\ place[i] <= Len(dense) /\ dense[place[i]] = At(s, Skip(s, i))
           /\ Skip(s, i) \in i .. Len(s) /\ place[Skip(s, i) + 1] = place[i] + 1
BY NextToken

\* A token that stands there is read.
LEMMA TokenIsRead ==
    ASSUME NEW s, NEW dense, NEW place, Placed(s, dense, place), NEW i \in 1 .. Len(s) + 1,
           place[i] <= Len(dense)
    PROVE  /\ At(s, Skip(s, i)) = dense[place[i]] /\ s[Skip(s, i)] = dense[place[i]]
           /\ Skip(s, i) \in i .. Len(s) /\ Skip(s, i) + 1 \in 1 .. Len(s) + 1
           /\ place[Skip(s, i) + 1] = place[i] + 1
BY NextToken

-----------------------------------------------------------------------------
(* Objects and arrays *)

\* The tokens of the documents that are values without blanks.
Tokens == Strings \cup Scalars \cup {"lbrace", "rbrace", "lbracket", "rbracket", "comma", "colon"}

\* A row, item by item.
RowUpTo(f, items, text, last) ==
    /\ f[0] = <<>>
    /\ \A n \in 1..Len(items): f[n] = Followed(f[n - 1], text[items[n]],
                                              IF n = Len(items) THEN last ELSE "comma")

\* A row has such rounds.
LEMMA RowUnfolds ==
    ASSUME NEW items, NEW text, NEW last, Len(items) \in Nat
    PROVE  \E f: Row(items, text, last) = f[Len(items)] /\ RowUpTo(f, items, text, last)
<1> DEFINE N == Len(items)
           none == <<>>
           step(x, n) == Followed(x, text[items[n]], IF n = N THEN last ELSE "comma")
           rounds(f, m) == [n \in 0..m |-> IF n = 0 THEN none ELSE step(f[n - 1], n)]
           G == {m \in 0..N: \E f: f = rounds(f, m)}
           kept == CHOOSE f: f = rounds(f, N)
<1>1. Row(items, text, last) = kept[N]
    BY DEF Row
<1> HIDE DEF step, none
<1>2. 0 \in G
    <2> DEFINE f == [n \in 0..0 |-> none]
    <2>1. f = rounds(f, 0) /\ 0 \in 0..N
        OBVIOUS
    <2> HIDE DEF f, rounds
    <2> QED
        BY <2>1
<1>3. ASSUME NEW m \in 1..N, m - 1 \in G PROVE m \in G
    <2>1. PICK f: f = rounds(f, m - 1)
        BY <1>3
    <2> DEFINE g == [n \in 0..m |-> IF n = m THEN step(f[m - 1], m) ELSE f[n]]
    <2>2. ASSUME NEW n \in 0..m PROVE g[n] = rounds(g, m)[n]
        BY <2>1, <2>2
    <2>3. g = rounds(g, m)
        BY <2>2
    <2> HIDE DEF g, rounds
    <2> QED
        BY <2>3
<1>4. \E f: f = rounds(f, N)
    <2> HIDE DEF rounds
    <2>1. \A n \in 0..N: n \in G
        <3> HIDE DEF G
        <3> QED
            BY <1>2, <1>3, UpTo
    <2> QED
        BY <2>1
<1>5. kept = rounds(kept, N)
    <2> HIDE DEF rounds
    <2> QED
        BY <1>4
<1>6. kept[0] = none /\ \A n \in 1..N: kept[n] = step(kept[n - 1], n)
    <2> HIDE DEF kept
    <2> QED
        BY <1>5
<1> HIDE DEF kept
<1> QED
    BY <1>1, <1>6 DEF step, none, RowUpTo

\* A row of no items.
LEMMA EmptyRow ==
    ASSUME NEW text, NEW last
    PROVE  Row(<<>>, text, last) = <<>>
<1>1. Len(<<>>) = 0
    OBVIOUS
<1> DEFINE none == <<>>
<1> HIDE DEF none
<1>2. PICK h: Row(none, text, last) = h[Len(none)] /\ RowUpTo(h, none, text, last)
    BY <1>1, RowUnfolds DEF none
<1>3. h[0] = <<>>
    BY <1>2 DEF RowUpTo
<1> QED
    BY <1>1, <1>2, <1>3 DEF none

\* A row with one more item.
LEMMA RowGrows ==
    ASSUME NEW S, NEW items \in Seq(S), NEW x \in S, NEW text, NEW last
    PROVE  Row(Append(items, x), text, last) = Followed(Row(items, text, "comma"), text[x], last)
<1> DEFINE N == Len(items)
           more == Append(items, x)
           M == N + 1
<1>1. /\ Len(more) = M /\ N \in Nat /\ M \in Nat /\ M \in 1..M /\ M - 1 = N
      /\ \A n \in 1..N: more[n] = items[n] /\ n \in 1..M /\ n - 1 \in 0..N /\ n # M
    OBVIOUS
<1>2. more[M] = x
    OBVIOUS
<1> HIDE DEF more, M
<1>3. PICK f: /\ Row(items, text, "comma") = f[N] /\ f[0] = <<>>
              /\ \A n \in 1..N: f[n] = Followed(f[n - 1], text[items[n]], "comma")
    <2>1. Len(items) \in Nat
        BY <1>1
    <2>2. ASSUME NEW c, c = "comma"
          PROVE  \E g: /\ Row(items, text, c) = g[N] /\ g[0] = <<>>
                      /\ \A n \in 1..N: g[n] = Followed(g[n - 1], text[items[n]], c)
        <3>1. PICK g: Row(items, text, c) = g[Len(items)] /\ RowUpTo(g, items, text, c)
            BY <2>1, RowUnfolds
        <3> QED
            BY <2>2, <3>1 DEF RowUpTo
    <2> QED
        BY <2>2, Zenon
<1> HIDE DEF N
<1>4. PICK g: /\ Row(more, text, last) = g[M] /\ g[0] = <<>>
              /\ \A n \in 1..M: g[n] = Followed(g[n - 1], text[more[n]],
                                              IF n = M THEN last ELSE "comma")
    <2>1. Len(more) \in Nat
        BY <1>1
    <2>2. PICK g: Row(more, text, last) = g[Len(more)] /\ RowUpTo(g, more, text, last)
        BY <2>1, RowUnfolds
    <2> QED
        BY <1>1, <2>2 DEF RowUpTo
<1>5. \A n \in 0..N: f[n] = g[n]
    <2> DEFINE G == {n \in 0..N: f[n] = g[n]}
    <2>1. 0 \in G
        <3>1. f[0] = g[0]
            BY <1>3, <1>4, Zenon
        <3> QED
            BY <1>1, <3>1
    <2>2. ASSUME NEW n \in 1..N, n - 1 \in G PROVE n \in G
        <3>1. f[n] = Followed(f[n - 1], text[items[n]], "comma")
            BY <1>3
        <3>2. g[n] = Followed(g[n - 1], text[items[n]], "comma")
            BY <1>1, <1>4
        <3> QED
            BY <2>2, <3>1, <3>2
    <2>3. \A n \in 0..N: n \in G
        <3> HIDE DEF G
        <3> QED
            BY <1>1, <2>1, <2>2, UpTo
    <2> QED
        BY <2>3
<1>6. Row(more, text, last) = Followed(Row(items, text, "comma"), text[x], last)
    <2>1. g[M] = Followed(g[M - 1], text[more[M]], last) /\ g[N] = f[N]
        BY <1>1, <1>4, <1>5
    <2> QED
        BY <1>1, <1>2, <1>3, <1>4, <2>1
<1> QED
    BY <1>6 DEF more

\* A row of texts is a text.
LEMMA RowIsText ==
    ASSUME NEW S, NEW items \in Seq(S), NEW text, NEW T, \A v \in S: text[v] \in Seq(T),
           NEW last \in T, "comma" \in T
    PROVE  Row(items, text, last) \in Seq(T)
<1> DEFINE N == Len(items)
<1>1. N \in Nat /\ \A n \in 1..N: items[n] \in S
    OBVIOUS
<1>2. PICK f: /\ Row(items, text, last) = f[N] /\ f[0] = <<>>
              /\ \A n \in 1..N: f[n] = Followed(f[n - 1], text[items[n]],
                                              IF n = N THEN last ELSE "comma")
    <2>1. Len(items) \in Nat
        BY <1>1
    <2>2. PICK f: Row(items, text, last) = f[Len(items)] /\ RowUpTo(f, items, text, last)
        BY <2>1, RowUnfolds
    <2> QED
        BY <2>2 DEF RowUpTo
<1> DEFINE G == {n \in 0..N: f[n] \in Seq(T)}
<1>3. 0 \in G
    <2>1. f[0] \in Seq(T)
        BY <1>2, EmptySeq, Zenon
    <2> QED
        BY <1>1, <2>1
<1>4. ASSUME NEW n \in 1..N, n - 1 \in G PROVE n \in G
    <2> DEFINE a == f[n - 1]
               b == text[items[n]]
               c == IF n = N THEN last ELSE "comma"
               d == Append(b, c)
    <2>1. a \in Seq(T) /\ b \in Seq(T) /\ c \in T
        BY <1>1, <1>4
    <2>2. f[n] = Followed(a, b, c)
        BY <1>2
    <2> HIDE DEF a, b, c
    <2>3. d \in Seq(T)
        BY <2>1, AppendProperties
    <2>5. Followed(a, b, c) = a \o d
        BY DEF Followed
    <2> HIDE DEF d
    <2>4. a \o d \in Seq(T)
        BY <2>1, <2>3, ConcatProperties
    <2>6. f[n] \in Seq(T)
        BY <2>2, <2>4, <2>5
    <2> QED
        BY <2>6
<1>5. \A n \in 0..N: n \in G
    <2> HIDE DEF G
    <2> QED
        BY <1>1, <1>3, <1>4, UpTo
<1> QED
    BY <1>1, <1>2, <1>5

\* A text stands between two places.
Spans(dense, i, t, j) == StandsAt(dense, i, t) /\ j = i + Len(t)

\* One item more, and the sign behind it.
LEMMA FollowedStands ==
    ASSUME NEW S, NEW a \in Seq(S), NEW b \in Seq(S), NEW c \in S,
           NEW dense, Len(dense) \in Nat, NEW i \in Nat
    PROVE  /\ Followed(a, b, c) \in Seq(S) /\ Len(Followed(a, b, c)) = Len(a) + Len(b) + 1
           /\ StandsAt(dense, i, Followed(a, b, c)) <=>
                  /\ StandsAt(dense, i, a) /\ StandsAt(dense, i + Len(a), b)
                  /\ i + Len(a) + Len(b) <= Len(dense) /\ dense[i + Len(a) + Len(b)] = c
<1> DEFINE d == Append(b, c)
           k == i + Len(a)
<1>1. k \in Nat /\ Len(a) \in Nat
    OBVIOUS
<1>2. /\ Len(b) \in Nat /\ d \in Seq(S) /\ Len(d) = Len(b) + 1
      /\ StandsAt(dense, k, d) <=> /\ StandsAt(dense, k, b)
                                   /\ k + Len(b) <= Len(dense) /\ dense[k + Len(b)] = c
    <2> HIDE DEF k
    <2> QED
        BY <1>1, BothStandAppended
<1> HIDE DEF d
<1>3. /\ a \o d \in Seq(S) /\ Len(a \o d) = Len(a) + Len(d)
      /\ StandsAt(dense, i, a \o d) <=> StandsAt(dense, i, a) /\ StandsAt(dense, i + Len(a), d)
    BY <1>2, BothStand
<1>4. Followed(a, b, c) = a \o d
    BY DEF Followed, d
<1>5. Len(a) + (Len(b) + 1) = Len(a) + Len(b) + 1
    BY <1>1, <1>2
<1> HIDE DEF k
<1>6. Len(a \o d) = Len(a) + Len(b) + 1
    BY <1>2, <1>3, <1>5
<1> QED
    BY <1>2, <1>3, <1>4, <1>6 DEF k

\* It stands where its parts do.
LEMMA FollowedStandsThere ==
    ASSUME NEW S, NEW a \in Seq(S), NEW b \in Seq(S), NEW c \in S,
           NEW dense, Len(dense) \in Nat, NEW i \in Nat,
           StandsAt(dense, i, a), StandsAt(dense, i + Len(a), b),
           i + Len(a) + Len(b) <= Len(dense), dense[i + Len(a) + Len(b)] = c
    PROVE  StandsAt(dense, i, Followed(a, b, c)) /\ Len(Followed(a, b, c)) = Len(a) + Len(b) + 1
BY FollowedStands

\* What is read at each place stands there, up to where the text goes on.
Correct(s, dense, place, inner, text) ==
    \A i \in 1 .. Len(s) + 1: \A x \in inner[i]:
        /\ x = [value |-> x.value, next |-> x.next] /\ x.value \in DOMAIN text
        /\ x.next \in i + 1 .. Len(s) + 1
        /\ Spans(dense, place[i], text[x.value], place[x.next])

\* What stands at each place is read there, and nothing else is.
Complete(s, dense, place, inner, text) ==
    \A i \in 1 .. Len(s) + 1: \A v \in DOMAIN text:
        StandsAt(dense, place[i], text[v]) =>
            \E e \in i + 1 .. Len(s) + 1:
                inner[i] = Result(v, e) /\ place[e] = place[i] + Len(text[v])

\* Texts are tokens, and none begins as nothing could.
Texts(text) ==
    \A v \in DOMAIN text: /\ text[v] \in Seq(Tokens) /\ Len(text[v]) >= 1
                          /\ text[v][1] \notin {"rbrace", "rbracket"}

\* What an object or an array has read so far stands behind its bracket.
ReadRight(s, dense, place, kind, text, first, sofar) ==
    /\ sofar.value \in Seq(DOMAIN text) /\ (kind = "object" => DistinctKeys(sofar.value))
    /\ sofar.next \in first .. Len(s) + 1 /\ sofar.closed \in BOOLEAN
    /\ sofar.closed => sofar.value # <<>> /\ sofar.next > first
    /\ Spans(dense, place[first],
             Row(sofar.value, text, IF sofar.closed THEN Closes[kind] ELSE "comma"),
             place[sofar.next])

\* A member with a fresh key keeps the keys different (sensitive_json.rs, object).
LEMMA FreshKeepsDistinct ==
    ASSUME NEW S, NEW m \in Seq(S), NEW x \in S, DistinctKeys(m), Fresh(x[1], m)
    PROVE  DistinctKeys(Append(m, x))
<1> DEFINE N == Len(m)
           w == Append(m, x)
<1>1. /\ N \in Nat /\ DOMAIN w = 1 .. N + 1 /\ DOMAIN m = 1..N
      /\ \A k \in 1..N: w[k] = m[k]
    OBVIOUS
<1>2. w[N + 1] = x
    OBVIOUS
<1> HIDE DEF w
<1>3. \A a, b \in 1..N: m[a][1] = m[b][1] => a = b
    <2> DEFINE keys == [i \in DOMAIN m |-> m[i][1]]
    <2>1. \A a, b \in DOMAIN keys: keys[a] = keys[b] => a = b
        BY DEF DistinctKeys, IsInjective
    <2> QED
        BY <1>1, <2>1
<1>4. \A a \in 1..N: m[a][1] # x[1]
    BY <1>1 DEF Fresh, ToSet
<1>5. \A a, b \in 1 .. N + 1: w[a][1] = w[b][1] => a = b
    <2> TAKE a, b \in 1 .. N + 1
    <2>1. (a \in 1..N \/ a = N + 1) /\ (b \in 1..N \/ b = N + 1)
        BY <1>1
    <2> QED
        BY <1>1, <1>2, <1>3, <1>4, <2>1
<1>6. DistinctKeys(w)
    BY <1>1, <1>5 DEF DistinctKeys, IsInjective
<1> QED
    BY <1>6 DEF w

\* One item more is one that stands there, with its comma or its bracket (sensitive_json.rs,
\* object, array).
LEMMA OneMoreIsRight ==
    ASSUME NEW s, NEW dense, NEW place, NEW items, NEW text,
           Placed(s, dense, place), Correct(s, dense, place, items, text), Texts(text),
           NEW kind \in {"object", "array"}, NEW first \in 1 .. Len(s) + 1,
           NEW sofar, ReadRight(s, dense, place, kind, text, first, sofar),
           NEW r \in OneMore(s, kind, items, sofar)
    PROVE  ReadRight(s, dense, place, kind, text, first, r)
<1> DEFINE N == Len(s)
           close == Closes[kind]
           p == place[first]
           after(v) == Skip(s, v.next)
<1>1. /\ N \in Nat /\ Len(dense) \in Nat
      /\ \A i \in 1 .. N + 1: place[i] \in 1 .. Len(dense) + 1
    BY DEF Placed
<1>2. close \in {"rbrace", "rbracket"} /\ close # "end"
    BY DEF Closes
<1>3. CASE sofar.closed
    <2>1. r = sofar
        BY <1>3 DEF OneMore
    <2> QED
        BY <2>1
<1>4. CASE ~sofar.closed
    <2> DEFINE m == sofar.value
               a == Row(m, text, "comma")
    <2>1. /\ m \in Seq(DOMAIN text) /\ (kind = "object" => DistinctKeys(m))
          /\ sofar.next \in first .. N + 1 /\ Spans(dense, p, a, place[sofar.next])
        BY <1>4 DEF ReadRight
    <2>2. PICK v \in items[sofar.next]:
              /\ kind = "object" => Fresh(v.value[1], m)
              /\ At(s, after(v)) \in {"comma", close}
              /\ r = [value |-> Append(m, v.value), next |-> after(v) + 1,
                      closed |-> At(s, after(v)) = close]
        BY <1>4 DEF OneMore
    <2> DEFINE x == v.value
               sign == At(s, after(v))
               b == text[x]
               w == Append(m, x)
    <2>3. r.value = w /\ r.next = after(v) + 1 /\ r.closed = (sign = close)
        BY <2>2
    <2>4. /\ x \in DOMAIN text /\ v.next \in sofar.next + 1 .. N + 1
          /\ Spans(dense, place[sofar.next], b, place[v.next])
        <3>1. sofar.next \in 1 .. N + 1
            BY <1>1, <2>1
        <3> QED
            BY <2>2, <3>1 DEF Correct
    <2>5. v.next \in 1 .. N + 1
        BY <1>1, <2>1, <2>4
    <2>6. /\ place[v.next] <= Len(dense) /\ dense[place[v.next]] = sign
          /\ after(v) \in v.next .. N /\ place[after(v) + 1] = place[v.next] + 1
        <3>1. sign # "end"
            BY <1>2, <2>2
        <3> HIDE DEF N
        <3> QED
            BY <2>5, <3>1, TokenStands DEF N
    <2>7. w \in Seq(DOMAIN text) /\ w # <<>> /\ (kind = "object" => DistinctKeys(w))
        <3> HIDE DEF m, x, w
        <3>1. w \in Seq(DOMAIN text) /\ w # <<>>
            BY <2>1, <2>4, AppendProperties DEF w
        <3>2. ASSUME kind = "object" PROVE DistinctKeys(w)
            BY <2>1, <2>2, <2>4, <3>2, FreshKeepsDistinct DEF w, x
        <3> QED
            BY <3>1, <3>2
    <2>8. r.next \in first .. N + 1 /\ r.next > first
        <3> DEFINE k == after(v)
                   i == v.next
                   j == sofar.next
        <3>1. /\ N \in Nat /\ first \in Nat /\ j \in first .. N + 1 /\ i \in j + 1 .. N + 1
              /\ k \in i .. N /\ r.next = k + 1
            BY <1>1, <2>1, <2>3, <2>4, <2>6
        <3> HIDE DEF N, k, i, j
        <3> QED
            BY <3>1
    <2>9. sign \in Tokens /\ "comma" \in Tokens
        BY <1>2, <2>2 DEF Tokens
    <2>10. a \in Seq(Tokens) /\ b \in Seq(Tokens)
        <3> HIDE DEF m
        <3>1. \A u \in DOMAIN text: text[u] \in Seq(Tokens)
            BY DEF Texts
        <3> QED
            BY <2>1, <2>4, <2>9, <3>1, RowIsText
    <2>11. Row(w, text, sign) = Followed(a, b, sign)
        <3> HIDE DEF m, x, sign
        <3> QED
            BY <2>1, <2>4, RowGrows
    <2>12. Spans(dense, p, Row(w, text, sign), place[r.next])
        <3> HIDE DEF a, b, sign, w, after
        <3>1. p \in Nat
            BY <1>1
        <3> HIDE DEF p
        <3>2. /\ StandsAt(dense, p, a) /\ place[sofar.next] = p + Len(a)
              /\ StandsAt(dense, p + Len(a), b) /\ place[v.next] = (p + Len(a)) + Len(b)
            BY <2>1, <2>4 DEF Spans
        <3>3. p + Len(a) + Len(b) <= Len(dense) /\ dense[p + Len(a) + Len(b)] = sign
            BY <2>6, <3>2
        <3>4. /\ StandsAt(dense, p, Followed(a, b, sign))
              /\ Len(Followed(a, b, sign)) = Len(a) + Len(b) + 1
            <4>1. /\ a \in Seq(Tokens) /\ b \in Seq(Tokens) /\ sign \in Tokens
                  /\ Len(dense) \in Nat /\ p \in Nat
                  /\ StandsAt(dense, p, a) /\ StandsAt(dense, p + Len(a), b)
                  /\ p + Len(a) + Len(b) <= Len(dense) /\ dense[p + Len(a) + Len(b)] = sign
                BY <1>1, <2>9, <2>10, <3>1, <3>2, <3>3
            <4> QED
                BY <4>1, FollowedStandsThere
        <3>5. place[r.next] = p + (Len(a) + Len(b) + 1)
            <4>1. Len(a) \in Nat /\ Len(b) \in Nat
                BY <2>10
            <4>2. place[r.next] = place[v.next] + 1
                BY <2>3, <2>6
            <4> QED
                BY <3>1, <3>2, <4>1, <4>2
        <3> QED
            BY <2>11, <3>4, <3>5 DEF Spans
    <2>13. sign = IF r.closed THEN close ELSE "comma"
        BY <2>2, <2>3
    <2>14. r.closed \in BOOLEAN
        BY <2>3
    <2> HIDE DEF w, sign, after
    <2> QED
        BY <2>3, <2>7, <2>8, <2>12, <2>13, <2>14 DEF ReadRight
<1> QED
    BY <1>3, <1>4

\* One more item after each of the parts read so far.
AllOneMore(s, kind, items, sofars) == UNION {OneMore(s, kind, items, sofar): sofar \in sofars}

NothingSoFar(first) == {[value |-> <<>>, next |-> first, closed |-> FALSE]}

\* The rounds of an object or array.
ListUpTo(f, s, first, kind, items) ==
    /\ f[0] = NothingSoFar(first)
    /\ \A n \in 1..Len(s): f[n] = AllOneMore(s, kind, items, f[n - 1])

Ended(kind, sofars) ==
    {[value |-> <<kind, l.value>>, next |-> l.next]: l \in {m \in sofars: m.closed}}

NoItems(kind) == <<kind, <<>>>>

\* An object or array has such rounds.
LEMMA ListUnfolds ==
    ASSUME NEW s, NEW i, NEW kind, NEW items, Len(s) \in Nat
    PROVE  \E f: /\ ListUpTo(f, s, Skip(s, i), kind, items)
                 /\ List(s, i, kind, items) =
                        IF At(s, Skip(s, i)) = Closes[kind]
                        THEN Result(NoItems(kind), Skip(s, i) + 1) ELSE Ended(kind, f[Len(s)])
<1> DEFINE N == Len(s)
           first == Skip(s, i)
           none == NothingSoFar(first)
           step(x) == AllOneMore(s, kind, items, x)
           rounds(f, m) == [n \in 0..m |-> IF n = 0 THEN none ELSE step(f[n - 1])]
           G == {m \in 0..N: \E f: f = rounds(f, m)}
           kept == CHOOSE f: f = rounds(f, N)
<1>1. List(s, i, kind, items) =
          IF At(s, first) = Closes[kind]
          THEN Result(NoItems(kind), first + 1) ELSE Ended(kind, kept[N])
    BY DEF List, AllOneMore, NothingSoFar, Ended, NoItems
<1> HIDE DEF step, none
<1>2. 0 \in G
    <2> DEFINE f == [n \in 0..0 |-> none]
    <2>1. f = rounds(f, 0) /\ 0 \in 0..N
        OBVIOUS
    <2> HIDE DEF f, rounds
    <2> QED
        BY <2>1
<1>3. ASSUME NEW m \in 1..N, m - 1 \in G PROVE m \in G
    <2>1. PICK f: f = rounds(f, m - 1)
        BY <1>3
    <2> DEFINE g == [n \in 0..m |-> IF n = m THEN step(f[m - 1]) ELSE f[n]]
    <2>2. ASSUME NEW n \in 0..m PROVE g[n] = rounds(g, m)[n]
        BY <2>1, <2>2
    <2>3. g = rounds(g, m)
        BY <2>2
    <2> HIDE DEF g, rounds
    <2> QED
        BY <2>3
<1>4. \E f: f = rounds(f, N)
    <2> HIDE DEF rounds
    <2>1. \A n \in 0..N: n \in G
        <3> HIDE DEF G
        <3> QED
            BY <1>2, <1>3, UpTo
    <2> QED
        BY <2>1
<1>5. kept = rounds(kept, N)
    <2> HIDE DEF rounds
    <2> QED
        BY <1>4
<1>6. kept[0] = none /\ \A n \in 1..N: kept[n] = step(kept[n - 1])
    <2> HIDE DEF kept
    <2> QED
        BY <1>5
<1>7. ListUpTo(kept, s, first, kind, items)
    <2> HIDE DEF kept
    <2> QED
        BY <1>6 DEF step, none, ListUpTo
<1> HIDE DEF kept, first
<1> QED
    BY <1>1, <1>7 DEF first

\* Before its first item, an object or array has read nothing.
LEMMA NothingIsRight ==
    ASSUME NEW s, NEW dense, NEW place, NEW text, Placed(s, dense, place),
           NEW kind \in {"object", "array"}, NEW first \in 1 .. Len(s) + 1,
           NEW r \in NothingSoFar(first)
    PROVE  ReadRight(s, dense, place, kind, text, first, r)
<1> DEFINE none == <<>>
           p == place[first]
<1>1. /\ none \in Seq(DOMAIN text) /\ Len(none) = 0 /\ DOMAIN none = {}
    OBVIOUS
<1>2. Row(none, text, "comma") = none
    BY EmptyRow DEF none
<1>3. r.value = none /\ r.next = first /\ r.closed = FALSE
    BY DEF NothingSoFar
<1> HIDE DEF none
<1>4. DistinctKeys(none)
    BY <1>1 DEF DistinctKeys, IsInjective
<1>5. p \in 1 .. Len(dense) + 1 /\ Len(dense) \in Nat /\ Len(s) \in Nat
    BY DEF Placed
<1>6. Spans(dense, p, none, p)
    <2> HIDE DEF p
    <2> QED
        BY <1>1, <1>5 DEF Spans, StandsAt
<1> QED
    <2> DEFINE row == Row(none, text, "comma")
    <2>1. Spans(dense, p, row, p) /\ first \in first .. Len(s) + 1
        BY <1>2, <1>5, <1>6
    <2> HIDE DEF row, p
    <2>2. /\ r.value = none /\ r.next = first /\ ~r.closed /\ r.closed \in BOOLEAN
          /\ Spans(dense, p, row, place[r.next])
        BY <1>3, <2>1 DEF p
    <2> QED
        BY <1>1, <1>4, <2>1, <2>2 DEF ReadRight, row, p

\* The whole object or array stands behind its bracket.
ListRight(s, dense, place, kind, text, i, x, m) ==
    /\ x = [value |-> <<kind, m>>, next |-> x.next]
    /\ m \in Seq(DOMAIN text) /\ (kind = "object" => DistinctKeys(m))
    /\ x.next \in i + 1 .. Len(s) + 1
    /\ Spans(dense, place[i], Listed(m, text, Closes[kind]), place[x.next])

\* Nothing is read between the brackets of an object or array of nothing.
LEMMA NoItemsAreRight ==
    ASSUME NEW s, NEW dense, NEW place, NEW text, Placed(s, dense, place),
           NEW kind \in {"object", "array"}, NEW i \in 1 .. Len(s) + 1,
           At(s, Skip(s, i)) = Closes[kind], NEW x \in Result(NoItems(kind), Skip(s, i) + 1)
    PROVE  \E m: ListRight(s, dense, place, kind, text, i, x, m)
<1> DEFINE none == <<>>
           close == Closes[kind]
           p == place[i]
           first == Skip(s, i)
           sign == <<close>>
<1>1. none \in Seq(DOMAIN text) /\ DOMAIN none = {}
    OBVIOUS
<1>2. Listed(none, text, close) = sign
    BY DEF Listed
<1>3. /\ x.value = <<kind, none>> /\ x.next = first + 1
      /\ x = [value |-> <<kind, none>>, next |-> x.next]
    BY DEF Result, NoItems
<1> HIDE DEF none
<1>4. DistinctKeys(none)
    BY <1>1 DEF DistinctKeys, IsInjective
<1>5. p \in 1 .. Len(dense) + 1 /\ Len(dense) \in Nat /\ Len(s) \in Nat
    BY DEF Placed
<1>6. close # "end"
    BY DEF Closes
<1> HIDE DEF close
<1>7. p <= Len(dense) /\ dense[p] = close /\ first \in i .. Len(s) /\ place[first + 1] = p + 1
    BY <1>6, TokenStands DEF close
<1> HIDE DEF p, first
<1>8. Len(sign) = 1 /\ StandsAt(dense, p, sign)
    BY <1>5, <1>7, OneStands
<1> HIDE DEF sign
<1>9. Spans(dense, p, Listed(none, text, close), place[x.next])
    BY <1>2, <1>3, <1>7, <1>8 DEF Spans
<1>10. x.next \in i + 1 .. Len(s) + 1
    BY <1>3, <1>5, <1>7
<1> QED
    BY <1>1, <1>3, <1>4, <1>9, <1>10 DEF ListRight, close, p

\* So does one that has something in it, from the rounds of its loop.
LEMMA RoundsAreRight ==
    ASSUME NEW s, NEW dense, NEW place, NEW items, NEW text,
           Placed(s, dense, place), Correct(s, dense, place, items, text), Texts(text),
           NEW kind \in {"object", "array"}, NEW first \in 1 .. Len(s) + 1,
           NEW f, ListUpTo(f, s, first, kind, items)
    PROVE  \A r \in f[Len(s)]: ReadRight(s, dense, place, kind, text, first, r)
<1> DEFINE N == Len(s)
           right(r) == ReadRight(s, dense, place, kind, text, first, r)
           G == {n \in 0..N: \A r \in f[n]: right(r)}
<1>1. N \in Nat
    BY DEF Placed
<1>2. 0 \in G
    <2>1. f[0] = NothingSoFar(first)
        BY DEF ListUpTo
    <2>2. \A r \in NothingSoFar(first): right(r)
        BY NothingIsRight
    <2> HIDE DEF right
    <2> QED
        BY <1>1, <2>1, <2>2
<1>3. ASSUME NEW n \in 1..N, n - 1 \in G PROVE n \in G
    <2>1. f[n] = AllOneMore(s, kind, items, f[n - 1])
        BY DEF ListUpTo
    <2>2. ASSUME NEW r \in f[n] PROVE right(r)
        <3>1. PICK sofar \in f[n - 1]: r \in OneMore(s, kind, items, sofar)
            BY <2>1, <2>2 DEF AllOneMore
        <3>2. right(sofar)
            BY <1>3, <3>1
        <3> QED
            BY <3>1, <3>2, OneMoreIsRight
    <2> HIDE DEF right
    <2> QED
        BY <2>2
<1>4. \A n \in 0..N: n \in G
    <2> HIDE DEF G
    <2> QED
        BY <1>1, <1>2, <1>3, UpTo
<1> HIDE DEF right
<1>5. \A r \in f[N]: right(r)
    BY <1>1, <1>4
<1> QED
    BY <1>5 DEF right

\* An object or array is read as what stands there (sensitive_json.rs, object, array).
LEMMA ListIsRight ==
    ASSUME NEW s, NEW dense, NEW place, NEW items, NEW text,
           Placed(s, dense, place), Correct(s, dense, place, items, text), Texts(text),
           NEW kind \in {"object", "array"}, NEW i \in 1 .. Len(s) + 1,
           NEW x \in List(s, i, kind, items)
    PROVE  \E m: ListRight(s, dense, place, kind, text, i, x, m)
<1> DEFINE first == Skip(s, i)
           N == Len(s)
<1>1. N \in Nat /\ first \in 1 .. N + 1 /\ first \in i .. N + 1 /\ place[first] = place[i]
    BY NextToken DEF Placed
<1>2. PICK f: /\ ListUpTo(f, s, first, kind, items)
              /\ x \in IF At(s, first) = Closes[kind]
                       THEN Result(NoItems(kind), first + 1) ELSE Ended(kind, f[N])
    BY <1>1, ListUnfolds
<1>3. CASE At(s, first) = Closes[kind]
    BY <1>2, <1>3, NoItemsAreRight
<1>4. CASE At(s, first) # Closes[kind]
    <2>1. PICK l \in f[N]: /\ l.closed /\ x = [value |-> <<kind, l.value>>, next |-> l.next]
        BY <1>2, <1>4 DEF Ended
    <2>2. ReadRight(s, dense, place, kind, text, first, l)
        <3>1. ListUpTo(f, s, first, kind, items) /\ first \in 1 .. Len(s) + 1
            BY <1>1, <1>2
        <3> HIDE DEF first
        <3>2. \A r \in f[Len(s)]: ReadRight(s, dense, place, kind, text, first, r)
            BY <3>1, RoundsAreRight
        <3> QED
            BY <2>1, <3>2
    <2> DEFINE m == l.value
               close == Closes[kind]
    <2>3. /\ m \in Seq(DOMAIN text) /\ (kind = "object" => DistinctKeys(m)) /\ m # <<>>
          /\ l.next \in i + 1 .. N + 1
          /\ Spans(dense, place[i], Row(m, text, close), place[l.next])
        <3> HIDE DEF first, N
        <3> QED
            BY <1>1, <2>1, <2>2 DEF ReadRight, N
    <2>4. Listed(m, text, close) = Row(m, text, close)
        BY <2>3 DEF Listed
    <2>5. x.next = l.next /\ x = [value |-> <<kind, m>>, next |-> x.next]
        BY <2>1
    <2> HIDE DEF m, close
    <2> QED
        BY <2>3, <2>4, <2>5 DEF ListRight, close
<1> QED
    BY <1>3, <1>4

\* The first few items.
Pre(m, n) == SubSeq(m, 1, n)

\* They are all in the end, and one more each time.
LEMMA PreGrows ==
    ASSUME NEW S, NEW m \in Seq(S)
    PROVE  /\ Pre(m, 0) = <<>> /\ Pre(m, Len(m)) = m
           /\ \A n \in 1..Len(m): Pre(m, n) = Append(Pre(m, n - 1), m[n])
<1>1. Pre(m, 0) = <<>>
    BY DEF Pre
<1>2. Pre(m, Len(m)) = m
    BY DEF Pre
<1>3. ASSUME NEW n \in 1..Len(m) PROVE Pre(m, n) = Append(Pre(m, n - 1), m[n])
    BY DEF Pre
<1> QED
    BY <1>1, <1>2, <1>3

\* A key that is there once is fresh when its turn comes (sensitive_json.rs, object).
LEMMA DistinctAreFresh ==
    ASSUME NEW S, NEW m \in Seq(S), DistinctKeys(m), NEW n \in 1..Len(m)
    PROVE  Fresh(m[n][1], Pre(m, n - 1))
<1> DEFINE w == Pre(m, n - 1)
           keys == [k \in DOMAIN m |-> m[k][1]]
<1>1. Len(w) = n - 1 /\ DOMAIN w = 1 .. n - 1 /\ \A k \in 1 .. n - 1: w[k] = m[k]
    BY DEF Pre
<1>2. \A a, b \in DOMAIN keys: keys[a] = keys[b] => a = b
    BY DEF DistinctKeys, IsInjective
<1>3. \A k \in 1 .. n - 1: k \in DOMAIN m /\ n \in DOMAIN m /\ k # n
    OBVIOUS
<1>4. \A k \in 1 .. n - 1: m[k][1] # m[n][1]
    BY <1>2, <1>3
<1> HIDE DEF w
<1>5. \A x \in ToSet(w): x[1] # m[n][1]
    BY <1>1, <1>4 DEF ToSet
<1> QED
    BY <1>5 DEF Fresh, w

\* One part read and no other.
Only(value, next, closed) == {[value |-> value, next |-> next, closed |-> closed]}

\* An item that stands there, with its sign, is read (sensitive_json.rs, object, array).
LEMMA OneMoreReads ==
    ASSUME NEW s, NEW dense, NEW place, NEW items, NEW text,
           Placed(s, dense, place), Complete(s, dense, place, items, text),
           NEW kind \in {"object", "array"}, NEW sofar, ~sofar.closed,
           sofar.next \in 1 .. Len(s) + 1, NEW v \in DOMAIN text, Len(text[v]) \in Nat,
           NEW sign \in {"comma", Closes[kind]}, StandsAt(dense, place[sofar.next], text[v]),
           place[sofar.next] + Len(text[v]) <= Len(dense),
           dense[place[sofar.next] + Len(text[v])] = sign,
           kind = "object" => Fresh(v[1], sofar.value)
    PROVE  \E e \in sofar.next + 1 .. Len(s) + 1:
               /\ OneMore(s, kind, items, sofar) =
                      Only(Append(sofar.value, v), e, sign = Closes[kind])
               /\ place[e] = place[sofar.next] + (Len(text[v]) + 1)
<1> DEFINE N == Len(s)
           i == sofar.next
           q == place[i]
           l == Len(text[v])
           close == Closes[kind]
<1>1. /\ N \in Nat /\ Len(dense) \in Nat /\ q \in 1 .. Len(dense) + 1
      /\ i \in 1 .. N + 1 /\ l \in Nat
    BY DEF Placed
<1>2. PICK e \in i + 1 .. N + 1: items[i] = Result(v, e) /\ place[e] = q + l
    BY DEF Complete
<1> DEFINE after == Skip(s, e)
           r == [value |-> v, next |-> e]
<1>3. e \in 1 .. N + 1 /\ place[e] <= Len(dense) /\ dense[place[e]] = sign
    BY <1>1, <1>2
<1>4. At(s, after) = sign /\ after \in e .. N /\ place[after + 1] = place[e] + 1
    <2> HIDE DEF N
    <2> QED
        BY <1>3, NextToken DEF N
<1>5. OneMore(s, kind, items, sofar) = Only(Append(sofar.value, v), after + 1, sign = close)
    <2> DEFINE taken == {x \in items[i]: /\ kind = "object" => Fresh(x.value[1], sofar.value)
                                         /\ At(s, Skip(s, x.next)) \in {"comma", close}}
               grown(x) == [value |-> Append(sofar.value, x.value), next |-> Skip(s, x.next) + 1,
                            closed |-> At(s, Skip(s, x.next)) = close]
    <2>1. OneMore(s, kind, items, sofar) = {grown(x): x \in taken}
        BY DEF OneMore
    <2>2. items[i] = {r} /\ r.value = v /\ r.next = e
        BY <1>2 DEF Result
    <2>3. taken = {r}
        <3> HIDE DEF r, close, i, after
        <3> QED
            BY <1>4, <2>2 DEF close, after
    <2>4. grown(r) = [value |-> Append(sofar.value, v), next |-> after + 1, closed |-> sign = close]
        BY <1>4, <2>2
    <2> HIDE DEF taken, grown, r
    <2>5. OneMore(s, kind, items, sofar) = {grown(r)}
        BY <2>1, <2>3
    <2> QED
        BY <2>4, <2>5 DEF Only
<1>6. after + 1 \in i + 1 .. N + 1 /\ place[after + 1] = q + (l + 1)
    <2>1. i \in Nat /\ e \in Nat /\ after \in Nat /\ q \in Nat
        BY <1>1, <1>2, <1>4
    <2> HIDE DEF after, q, l, N, i
    <2> QED
        BY <1>1, <1>2, <1>4, <2>1
<1> HIDE DEF after, N, q, l, i, close
<1>7. \E e2 \in i + 1 .. N + 1:
          /\ OneMore(s, kind, items, sofar) = Only(Append(sofar.value, v), e2, sign = close)
          /\ place[e2] = q + (l + 1)
    BY <1>5, <1>6
<1> QED
    BY <1>7 DEF N, q, l, i, close

\* One item of a row and the sign behind it.
RowPart(dense, p, before, after, item, sign) ==
    /\ Len(before) \in Nat /\ Len(item) \in Nat /\ Len(after) = Len(before) + Len(item) + 1
    /\ StandsAt(dense, p + Len(before), item)
    /\ p + Len(before) + Len(item) <= Len(dense)
    /\ dense[p + Len(before) + Len(item)] = sign

\* Where a row stands, so do its items and signs, one after another.
LEMMA RowStands ==
    ASSUME NEW S, NEW text, NEW m \in Seq(S), NEW close \in Tokens,
           \A v \in S: text[v] \in Seq(Tokens),
           NEW g, RowUpTo(g, m, text, close), NEW dense, Len(dense) \in Nat, NEW p \in Nat,
           StandsAt(dense, p, g[Len(m)])
    PROVE  \A n \in 1..Len(m): RowPart(dense, p, g[n - 1], g[n], text[m[n]],
                                       IF n = Len(m) THEN close ELSE "comma")
<1> DEFINE L == Len(m)
           sign(n) == IF n = L THEN close ELSE "comma"
           G == {n \in 0..L: g[n] \in Seq(Tokens)}
           H == {k \in 0..L: StandsAt(dense, p, g[L - k])}
<1>1. L \in Nat /\ \A n \in 1..L: m[n] \in S
    OBVIOUS
<1>2. \A n \in 1..L: text[m[n]] \in Seq(Tokens) /\ sign(n) \in Tokens
    BY <1>1 DEF Tokens
<1>3. g[0] = <<>> /\ \A n \in 1..L: g[n] = Followed(g[n - 1], text[m[n]], sign(n))
    BY DEF RowUpTo
<1> HIDE DEF sign, L
<1>4. \A n \in 0..L: n \in G
    <2>1. 0 \in G
        <3>1. g[0] \in Seq(Tokens)
            BY <1>3, EmptySeq, Zenon
        <3> QED
            BY <1>1, <3>1
    <2>2. ASSUME NEW n \in 1..L, n - 1 \in G PROVE n \in G
        <3> DEFINE a == g[n - 1]
                   b == text[m[n]]
                   c == sign(n)
        <3>1. a \in Seq(Tokens) /\ b \in Seq(Tokens) /\ c \in Tokens /\ g[n] = Followed(a, b, c)
            BY <1>2, <1>3, <2>2
        <3> HIDE DEF a, b, c
        <3>2. Followed(a, b, c) \in Seq(Tokens)
            BY <3>1, FollowedStands
        <3>3. g[n] \in Seq(Tokens)
            BY <3>1, <3>2
        <3> QED
            BY <3>3
    <2> HIDE DEF G
    <2> QED
        BY <1>1, <2>1, <2>2, UpTo
<1>5. ASSUME NEW n \in 1..L, StandsAt(dense, p, g[n])
      PROVE  StandsAt(dense, p, g[n - 1]) /\ RowPart(dense, p, g[n - 1], g[n], text[m[n]], sign(n))
    <2> DEFINE a == g[n - 1]
               b == text[m[n]]
               c == sign(n)
    <2>1. a \in Seq(Tokens)
        <3>1. n - 1 \in 0..L
            BY <1>1
        <3> HIDE DEF G
        <3>2. n - 1 \in G
            BY <1>4, <3>1
        <3> QED
            BY <3>2 DEF G
    <2>2. b \in Seq(Tokens) /\ c \in Tokens /\ g[n] = Followed(a, b, c)
        BY <1>2, <1>3
    <2>3. Len(a) \in Nat /\ Len(b) \in Nat
        BY <2>1, <2>2
    <2> HIDE DEF a, b, c, G, H
    <2>4. StandsAt(dense, p, Followed(a, b, c))
        BY <1>5, <2>2
    <2>5. /\ Len(Followed(a, b, c)) = Len(a) + Len(b) + 1
          /\ StandsAt(dense, p, a) /\ StandsAt(dense, p + Len(a), b)
          /\ p + Len(a) + Len(b) <= Len(dense) /\ dense[p + Len(a) + Len(b)] = c
        BY <2>1, <2>2, <2>4, FollowedStands
    <2>6. StandsAt(dense, p, a) /\ RowPart(dense, p, a, g[n], b, c)
        BY <2>2, <2>3, <2>5 DEF RowPart
    <2> QED
        BY <2>6 DEF a, b, c
<1>6. \A k \in 0..L: k \in H
    <2>1. 0 \in H
        <3>1. L - 0 = L /\ 0 \in 0..L
            BY <1>1
        <3> QED
            BY <3>1 DEF L
    <2>2. ASSUME NEW k \in 1..L, k - 1 \in H PROVE k \in H
        <3> DEFINE n == L - (k - 1)
        <3>1. n \in 1..L /\ n - 1 = L - k /\ k \in 0..L
            BY <1>1
        <3>2. StandsAt(dense, p, g[n])
            BY <2>2
        <3> HIDE DEF n
        <3>3. StandsAt(dense, p, g[n - 1])
            BY <1>5, <3>1, <3>2
        <3> QED
            BY <3>1, <3>3
    <2> HIDE DEF H
    <2> QED
        BY <1>1, <2>1, <2>2, UpTo
<1>7. ASSUME NEW n \in 1..L PROVE RowPart(dense, p, g[n - 1], g[n], text[m[n]], sign(n))
    <2>1. L - n \in 0..L /\ L - (L - n) = n
        BY <1>1
    <2>2. StandsAt(dense, p, g[n])
        <3> HIDE DEF H
        <3>1. L - n \in H
            BY <1>6, <2>1
        <3>2. StandsAt(dense, p, g[L - (L - n)])
            BY <3>1 DEF H
        <3> QED
            BY <2>1, <3>2
    <2> QED
        BY <1>5, <2>2
<1> QED
    BY <1>7 DEF sign, L

\* One more item after the one part read.
LEMMA AfterTheOnly ==
    ASSUME NEW s, NEW kind, NEW items, NEW w, NEW e, NEW closed
    PROVE  AllOneMore(s, kind, items, Only(w, e, closed)) =
               OneMore(s, kind, items, [value |-> w, next |-> e, closed |-> closed])
BY DEF AllOneMore, Only

\* No item after the bracket that closes them.
LEMMA NoneAfterTheEnd ==
    ASSUME NEW s, NEW kind, NEW items, NEW w, NEW e
    PROVE  AllOneMore(s, kind, items, Only(w, e, TRUE)) = Only(w, e, TRUE)
<1> DEFINE sofar == [value |-> w, next |-> e, closed |-> TRUE]
<1>1. AllOneMore(s, kind, items, Only(w, e, TRUE)) = OneMore(s, kind, items, sofar)
    BY AfterTheOnly
<1>2. sofar.closed
    OBVIOUS
<1> HIDE DEF sofar
<1>3. OneMore(s, kind, items, sofar) = {sofar}
    BY <1>2 DEF OneMore
<1> QED
    BY <1>1, <1>3 DEF sofar, Only

\* Round by round, the items of an object or array are read.
ReadUpTo(s, place, first, m, f, g, n) ==
    \E e \in first + n .. Len(s) + 1:
        f[n] = Only(Pre(m, n), e, n = Len(m)) /\ place[e] = place[first] + Len(g[n])

\* So is the next.
LEMMA NextIsRead ==
    ASSUME NEW s, NEW dense, NEW place, NEW items, NEW text, Placed(s, dense, place),
           Complete(s, dense, place, items, text), Texts(text),
           NEW kind \in {"object", "array"}, NEW first \in 1 .. Len(s) + 1,
           NEW m \in Seq(DOMAIN text), kind = "object" => DistinctKeys(m),
           NEW f, ListUpTo(f, s, first, kind, items),
           NEW g, NEW n \in 1..Len(m),
           RowPart(dense, place[first], g[n - 1], g[n], text[m[n]],
                   IF n = Len(m) THEN Closes[kind] ELSE "comma"),
           ReadUpTo(s, place, first, m, f, g, n - 1)
    PROVE  ReadUpTo(s, place, first, m, f, g, n)
<1> DEFINE N == Len(s)
           L == Len(m)
           p == place[first]
           v == m[n]
           b == text[v]
           close == Closes[kind]
           sign == IF n = L THEN close ELSE "comma"
           w == Pre(m, n - 1)
           q == p + Len(g[n - 1])
<1>1. /\ N \in Nat /\ Len(dense) \in Nat /\ p \in 1 .. Len(dense) + 1 /\ L \in Nat /\ n \in Nat
      /\ v \in DOMAIN text /\ first \in Nat /\ first >= 1 /\ n >= 1 /\ p \in Nat
    BY DEF Placed
<1>2. PICK e \in first + (n - 1) .. N + 1: f[n - 1] = Only(w, e, n - 1 = L) /\ place[e] = q
    BY DEF ReadUpTo
<1> DEFINE sofar == [value |-> w, next |-> e, closed |-> n - 1 = L]
<1>3. ~sofar.closed /\ sofar.value = w /\ sofar.next = e
    <2>1. n - 1 # L
        BY <1>1
    <2> HIDE DEF L, w
    <2> QED
        BY <2>1
<1>4. e \in 1 .. N + 1 /\ sign \in {"comma", close} /\ close # "comma"
    BY <1>1, <1>2 DEF Closes
<1>5. kind = "object" => Fresh(v[1], w)
    BY DistinctAreFresh
<1>6. /\ Len(g[n - 1]) \in Nat /\ Len(b) \in Nat /\ Len(g[n]) = Len(g[n - 1]) + Len(b) + 1
      /\ StandsAt(dense, q, b) /\ q + Len(b) <= Len(dense) /\ dense[q + Len(b)] = sign
    BY DEF RowPart
<1> HIDE DEF sofar, sign, close, q, b, w, v, N
<1>7. PICK e2 \in e + 1 .. N + 1:
          /\ OneMore(s, kind, items, sofar) = Only(Append(w, v), e2, sign = close)
          /\ place[e2] = q + (Len(b) + 1)
    <2>1. /\ sofar.next \in 1 .. Len(s) + 1 /\ ~sofar.closed /\ Len(text[v]) \in Nat
          /\ sign \in {"comma", Closes[kind]} /\ StandsAt(dense, place[sofar.next], text[v])
          /\ place[sofar.next] + Len(text[v]) <= Len(dense)
          /\ dense[place[sofar.next] + Len(text[v])] = sign
          /\ (kind = "object" => Fresh(v[1], sofar.value)) /\ v \in DOMAIN text
        BY <1>1, <1>2, <1>3, <1>4, <1>5, <1>6 DEF N, close, b
    <2>2. \E x \in sofar.next + 1 .. Len(s) + 1:
              /\ OneMore(s, kind, items, sofar)
                     = Only(Append(sofar.value, v), x, sign = Closes[kind])
              /\ place[x] = place[sofar.next] + (Len(text[v]) + 1)
        BY <2>1, OneMoreReads
    <2> QED
        BY <1>2, <1>3, <2>2 DEF N, close, b
<1>8. n \in 1..N /\ e2 \in first + n .. N + 1
    <2>1. N \in Nat /\ n \in Nat /\ n >= 1 /\ first \in Nat /\ first >= 1
        BY <1>1
    <2>2. e \in first + (n - 1) .. N + 1 /\ e2 \in e + 1 .. N + 1
        BY <1>2, <1>7
    <2> QED
        BY <2>1, <2>2
<1>9. f[n] = OneMore(s, kind, items, sofar)
    <2>1. f[n] = AllOneMore(s, kind, items, f[n - 1])
        BY <1>8 DEF ListUpTo, N
    <2>2. AllOneMore(s, kind, items, Only(w, e, n - 1 = L)) = OneMore(s, kind, items, sofar)
        BY AfterTheOnly DEF sofar
    <2> QED
        BY <1>2, <2>1, <2>2
<1>10. Append(w, v) = Pre(m, n)
    BY PreGrows DEF w, v
<1>11. (sign = close) = (n = L)
    BY <1>4 DEF sign
<1>12. f[n] = Only(Pre(m, n), e2, n = L)
    BY <1>7, <1>9, <1>10, <1>11
<1>13. e2 \in first + n .. N + 1 /\ place[e2] = p + Len(g[n])
    <2>1. e2 \in first + n .. N + 1
        BY <1>8
    <2>2. place[e2] = p + Len(g[n])
        <3>1. /\ p \in Nat /\ Len(g[n - 1]) \in Nat /\ Len(b) \in Nat
              /\ Len(g[n]) = Len(g[n - 1]) + Len(b) + 1
              /\ place[e2] = (p + Len(g[n - 1])) + (Len(b) + 1)
            <4>1. p \in Nat
                BY <1>1
            <4> HIDE DEF p
            <4>2. q = p + Len(g[n - 1])
                BY DEF q
            <4> QED
                BY <1>6, <1>7, <4>1, <4>2
        <3> DEFINE x == Len(g[n - 1])
                   y == Len(b)
        <3> HIDE DEF p, x, y
        <3>2. p \in Nat /\ x \in Nat /\ y \in Nat
            BY <3>1 DEF x, y
        <3>3. (p + x) + (y + 1) = p + (x + y + 1)
            BY <3>2
        <3> QED
            BY <3>1, <3>3 DEF x, y
    <2> QED
        BY <2>1, <2>2
<1> QED
    BY <1>12, <1>13 DEF ReadUpTo, N

\* All the items that stand there are read, and the bracket ends it.
ReadToTheEnd(s, place, first, m, row, read) ==
    \E e \in first + 1 .. Len(s) + 1:
        read = Only(m, e, TRUE) /\ place[e] = place[first] + Len(row)

LEMMA RoundsReadAll ==
    ASSUME NEW s, NEW dense, NEW place, NEW items, NEW text, Placed(s, dense, place),
           Complete(s, dense, place, items, text), Texts(text),
           NEW kind \in {"object", "array"}, NEW first \in 1 .. Len(s) + 1,
           NEW m \in Seq(DOMAIN text), kind = "object" => DistinctKeys(m), Len(m) # 0,
           NEW f, ListUpTo(f, s, first, kind, items),
           StandsAt(dense, place[first], Row(m, text, Closes[kind]))
    PROVE  ReadToTheEnd(s, place, first, m, Row(m, text, Closes[kind]), f[Len(s)])
<1> DEFINE N == Len(s)
           L == Len(m)
           p == place[first]
           close == Closes[kind]
           row == Row(m, text, close)
           S == DOMAIN text
<1>0. \A e: AllOneMore(s, kind, items, Only(m, e, TRUE)) = Only(m, e, TRUE)
    BY NoneAfterTheEnd
<1>1. /\ N \in Nat /\ Len(dense) \in Nat /\ p \in 1 .. Len(dense) + 1 /\ first \in Nat
      /\ L \in Nat /\ L # 0 /\ m \in Seq(S) /\ close \in Tokens
    <2>1. L # 0
        OBVIOUS
    <2>2. close \in Tokens
        BY DEF Closes, Tokens
    <2> QED
        BY <2>1, <2>2 DEF Placed
<1>2. \A v \in S: text[v] \in Seq(Tokens)
    BY DEF Texts
<1> HIDE DEF close, S
<1>3. PICK g: row = g[L] /\ RowUpTo(g, m, text, close)
    BY <1>1, RowUnfolds
<1>4. \A n \in 1..L: RowPart(dense, p, g[n - 1], g[n], text[m[n]],
                             IF n = L THEN close ELSE "comma")
    <2>1. StandsAt(dense, p, g[L]) /\ p \in Nat
        BY <1>1, <1>3 DEF close
    <2> HIDE DEF p, row
    <2> QED
        BY <1>1, <1>2, <1>3, <2>1, RowStands
<1> DEFINE G == {n \in 0..L: ReadUpTo(s, place, first, m, f, g, n)}
           H == {k \in 0 .. N - L: \E e \in first + L .. N + 1:
                     f[L + k] = Only(m, e, TRUE) /\ place[e] = p + Len(row)}
<1>5. 0 \in G
    <2>1. f[0] = Only(Pre(m, 0), first, 0 = L)
        <3>1. f[0] = Only(<<>>, first, FALSE)
            BY DEF ListUpTo, NothingSoFar, Only
        <3>2. Pre(m, 0) = <<>> /\ (0 = L) = FALSE
            BY <1>1, PreGrows
        <3> QED
            BY <3>1, <3>2
    <2>2. place[first] = p + Len(g[0])
        <3>1. g[0] = <<>>
            BY <1>3 DEF RowUpTo
        <3>2. Len(g[0]) = 0
            BY <3>1
        <3> QED
            BY <1>1, <3>2
    <2>3. first \in first + 0 .. N + 1
        BY <1>1
    <2>4. ReadUpTo(s, place, first, m, f, g, 0)
        BY <2>1, <2>2, <2>3 DEF ReadUpTo
    <2> QED
        BY <1>1, <2>4
<1>6. ASSUME NEW n \in 1..L, n - 1 \in G PROVE n \in G
    <2>1. ReadUpTo(s, place, first, m, f, g, n - 1)
        BY <1>6
    <2>2. RowPart(dense, place[first], g[n - 1], g[n], text[m[n]],
                  IF n = Len(m) THEN Closes[kind] ELSE "comma")
        BY <1>4 DEF close
    <2>3. ReadUpTo(s, place, first, m, f, g, n)
        BY <2>1, <2>2, NextIsRead
    <2> QED
        BY <1>1, <2>3
<1>7. PICK e \in first + L .. N + 1: f[L] = Only(m, e, TRUE) /\ place[e] = p + Len(row)
    <2>1. \A n \in 0..L: n \in G
        <3> HIDE DEF G
        <3> QED
            BY <1>1, <1>5, <1>6, UpTo
    <2>2. ReadUpTo(s, place, first, m, f, g, L)
        BY <1>1, <2>1
    <2>3. Pre(m, L) = m /\ (L = Len(m)) = TRUE
        BY PreGrows
    <2> HIDE DEF row, L, p
    <2> QED
        BY <1>3, <2>2, <2>3 DEF ReadUpTo, p
<1>8. L <= N /\ N - L \in Nat
    BY <1>1, <1>7
<1>9. 0 \in H
    <2>1. L + 0 = L /\ 0 \in 0 .. N - L
        BY <1>1, <1>8
    <2> HIDE DEF L, p, row
    <2> QED
        BY <1>7, <2>1
<1>10. ASSUME NEW k \in 1 .. N - L, k - 1 \in H PROVE k \in H
    <2>1. PICK e2 \in first + L .. N + 1:
              f[L + (k - 1)] = Only(m, e2, TRUE) /\ place[e2] = p + Len(row)
        BY <1>10
    <2>2. L + k \in 1..N /\ (L + k) - 1 = L + (k - 1) /\ k \in 0 .. N - L
        BY <1>1, <1>8
    <2>3. f[L + k] = AllOneMore(s, kind, items, f[(L + k) - 1])
        BY <2>2 DEF ListUpTo
    <2> HIDE DEF L, p, row
    <2>4. AllOneMore(s, kind, items, Only(m, e2, TRUE)) = Only(m, e2, TRUE)
        BY <1>0
    <2>5. f[L + k] = Only(m, e2, TRUE)
        BY <2>1, <2>2, <2>3, <2>4
    <2> QED
        BY <2>1, <2>2, <2>5
<1>11. \A k \in 0 .. N - L: k \in H
    <2> HIDE DEF H, L, N
    <2> QED
        BY <1>8, <1>9, <1>10, UpTo
<1>12. PICK e3 \in first + L .. N + 1:
           f[L + (N - L)] = Only(m, e3, TRUE) /\ place[e3] = p + Len(row)
    <2>1. N - L \in 0 .. N - L
        BY <1>8
    <2> HIDE DEF L, N, p, row
    <2> QED
        BY <1>11, <2>1
<1>13. e3 \in first + 1 .. N + 1 /\ L + (N - L) = N
    BY <1>1, <1>8
<1> HIDE DEF row, L, p, N
<1> QED
    BY <1>12, <1>13 DEF row, p, N, close, ReadToTheEnd

\* One object or array is the one result.
LEMMA EndedOnly ==
    ASSUME NEW kind, NEW m, NEW e
    PROVE  Ended(kind, Only(m, e, TRUE)) = Result(<<kind, m>>, e)
<1> DEFINE r == [value |-> m, next |-> e, closed |-> TRUE]
           R == {l \in {r}: l.closed}
           rest(l) == [value |-> <<kind, l.value>>, next |-> l.next]
<1>1. r.closed /\ r.value = m /\ r.next = e
    OBVIOUS
<1> HIDE DEF r
<1>2. R = {r}
    BY <1>1
<1>3. rest(r) = [value |-> <<kind, m>>, next |-> e]
    BY <1>1
<1>4. Ended(kind, {r}) = {rest(l): l \in R}
    BY DEF Ended
<1> HIDE DEF R, rest
<1>5. Ended(kind, {r}) = {rest(r)}
    BY <1>2, <1>4
<1> QED
    BY <1>3, <1>5 DEF Only, Result, r

\* The items between its brackets make an object or array (sensitive_json.rs, object, array).
LEMMA ListReadsAll ==
    ASSUME NEW s, NEW dense, NEW place, NEW items, NEW text, Placed(s, dense, place),
           Complete(s, dense, place, items, text), Texts(text),
           NEW kind \in {"object", "array"}, NEW i \in 1 .. Len(s) + 1,
           NEW m \in Seq(DOMAIN text), kind = "object" => DistinctKeys(m),
           StandsAt(dense, place[i], Listed(m, text, Closes[kind]))
    PROVE  \E e \in i + 1 .. Len(s) + 1:
               /\ List(s, i, kind, items) = Result(<<kind, m>>, e)
               /\ place[e] = place[i] + Len(Listed(m, text, Closes[kind]))
<1> DEFINE N == Len(s)
           first == Skip(s, i)
           p == place[i]
           close == Closes[kind]
           sign == <<close>>
           row == Row(m, text, close)
<1>1. /\ N \in Nat /\ Len(dense) \in Nat /\ p \in 1 .. Len(dense) + 1 /\ first \in i .. N + 1
      /\ first \in 1 .. N + 1 /\ place[first] = p
    <2>1. first \in i .. N + 1 /\ place[first] = p
        BY NextToken
    <2>2. /\ N \in Nat /\ Len(dense) \in Nat /\ p \in 1 .. Len(dense) + 1 /\ i \in 1 .. N + 1
        BY DEF Placed
    <2> HIDE DEF first, p, N
    <2> QED
        BY <2>1, <2>2
<1>2. close \in {"rbrace", "rbracket"}
    BY DEF Closes
<1>3. PICK f: /\ ListUpTo(f, s, first, kind, items)
              /\ List(s, i, kind, items) =
                     IF At(s, first) = close
                     THEN Result(NoItems(kind), first + 1) ELSE Ended(kind, f[N])
    BY <1>1, ListUnfolds
<1>4. CASE m = <<>>
    <2>1. Listed(m, text, close) = sign /\ NoItems(kind) = <<kind, m>>
        BY <1>4 DEF Listed, NoItems
    <2> HIDE DEF p, close
    <2>2. Len(sign) = 1 /\ p <= Len(dense) /\ dense[p] = close
        <3>1. p \in Nat /\ StandsAt(dense, p, sign)
            BY <1>1, <2>1 DEF p, close
        <3> QED
            BY <1>1, <3>1, OneStands
    <2> HIDE DEF sign
    <2>3. At(s, first) = close /\ first \in i .. N /\ place[first + 1] = p + 1
        BY <2>2, NextToken DEF p
    <2> HIDE DEF first
    <2>4. List(s, i, kind, items) = Result(<<kind, m>>, first + 1)
        BY <1>3, <2>1, <2>3
    <2>5. first + 1 \in i + 1 .. N + 1 /\ place[first + 1] = p + Len(sign)
        BY <1>1, <2>2, <2>3
    <2> QED
        BY <2>1, <2>4, <2>5 DEF p, close
<1>5. CASE m # <<>>
    <2>1. Listed(m, text, close) = row
        BY <1>5 DEF Listed
    <2> HIDE DEF first
    <2>2. StandsAt(dense, place[first], Row(m, text, Closes[kind]))
        BY <1>1, <2>1
    <2>3. PICK e \in first + 1 .. N + 1: /\ f[N] = Only(m, e, TRUE)
                                         /\ place[e] = p + Len(row)
        <3>1. /\ ListUpTo(f, s, first, kind, items) /\ Len(m) # 0 /\ first \in 1 .. Len(s) + 1
              /\ Placed(s, dense, place) /\ Complete(s, dense, place, items, text)
              /\ Texts(text) /\ m \in Seq(DOMAIN text) /\ (kind = "object" => DistinctKeys(m))
              /\ kind \in {"object", "array"}
              /\ StandsAt(dense, place[first], Row(m, text, Closes[kind]))
            BY <1>1, <1>3, <1>5, <2>2, EmptySeq
        <3> HIDE DEF p, row, close, N
        <3>2. ReadToTheEnd(s, place, first, m, Row(m, text, Closes[kind]), f[Len(s)])
            BY <3>1, RoundsReadAll
        <3> QED
            BY <1>1, <3>2 DEF N, row, close, ReadToTheEnd
    <2>4. At(s, first) # close
        <3> DEFINE b == text[m[1]]
                   L == Len(m)
        <3>1. /\ L \in Nat /\ 1 \in 1..L /\ b \in Seq(Tokens) /\ Len(b) >= 1 /\ b[1] # close
              /\ \A v \in DOMAIN text: text[v] \in Seq(Tokens)
            <4>1. L \in Nat /\ L # 0
                BY <1>5, EmptySeq
            <4>2. m[1] \in DOMAIN text
                BY <4>1
            <4> QED
                BY <1>2, <4>1, <4>2 DEF Texts
        <3>2. PICK g: row = g[L] /\ RowUpTo(g, m, text, close)
            BY <3>1, RowUnfolds
        <3>3. RowPart(dense, p, g[1 - 1], g[1], b, IF 1 = L THEN close ELSE "comma")
            <4>1. StandsAt(dense, p, g[L]) /\ p \in Nat /\ close \in Tokens
                BY <1>1, <1>2, <2>2, <3>2 DEF Tokens
            <4> DEFINE S == DOMAIN text
            <4> HIDE DEF p, row, close, S
            <4>2. m \in Seq(S) /\ \A v \in S: text[v] \in Seq(Tokens)
                BY <3>1 DEF S
            <4>3. \A n \in 1..L: RowPart(dense, p, g[n - 1], g[n], text[m[n]],
                                         IF n = L THEN close ELSE "comma")
                BY <1>1, <3>2, <4>1, <4>2, RowStands
            <4> QED
                BY <3>1, <4>3
        <3>4. Len(g[1 - 1]) = 0
            <4>1. g[0] = <<>>
                BY <3>2 DEF RowUpTo
            <4>2. Len(<<>>) = 0 /\ 1 - 1 = 0
                OBVIOUS
            <4> QED
                BY <4>1, <4>2, Zenon
        <3>5. p <= Len(dense) /\ dense[p] = b[1]
            <4> HIDE DEF p, b
            <4>1. StandsAt(dense, p + Len(g[1 - 1]), b) /\ Len(b) \in Nat /\ p + Len(g[1 - 1]) = p
                BY <1>1, <3>3, <3>4 DEF RowPart
            <4>2. p + Len(b) <= Len(dense) + 1 /\ \A j \in 1..Len(b): dense[p + j - 1] = b[j]
                BY <4>1 DEF StandsAt
            <4>3. 1 \in 1..Len(b) /\ p + 1 - 1 = p
                BY <1>1, <3>1, <4>1
            <4> QED
                BY <1>1, <3>1, <4>1, <4>2, <4>3
        <3>6. At(s, first) = dense[p]
            BY <3>5, NextToken DEF first
        <3> QED
            BY <3>1, <3>5, <3>6
    <2>5. Ended(kind, Only(m, e, TRUE)) = Result(<<kind, m>>, e)
        BY EndedOnly
    <2>6. e \in i + 1 .. N + 1
        BY <1>1, <2>3
    <2> HIDE DEF p, row, close, N
    <2> QED
        BY <1>3, <2>1, <2>3, <2>4, <2>5, <2>6 DEF p, N, close
<1> QED
    BY <1>4, <1>5

-----------------------------------------------------------------------------
(* Members, values and levels *)

\* A key before the text of its value.
KeyFirst(k, t) == <<k, "colon">> \o t

\* It stands where the key, the colon and the value do.
LEMMA KeyStands ==
    ASSUME NEW S, NEW k \in S, "colon" \in S, NEW t \in Seq(S),
           NEW dense, Len(dense) \in Nat, NEW p \in Nat
    PROVE  /\ KeyFirst(k, t) \in Seq(S) /\ Len(t) \in Nat /\ Len(KeyFirst(k, t)) = Len(t) + 2
           /\ KeyFirst(k, t)[1] = k
           /\ StandsAt(dense, p, KeyFirst(k, t)) <=>
                  /\ p + 1 <= Len(dense) /\ dense[p] = k /\ dense[p + 1] = "colon"
                  /\ StandsAt(dense, p + 2, t)
<1> DEFINE a == <<k, "colon">>
           c == "colon"
<1>1. a \in Seq(S) /\ Len(a) = 2 /\ a[1] = k /\ a[2] = c
    OBVIOUS
<1> HIDE DEF a, c
<1>2. StandsAt(dense, p, a) <=> p + 1 <= Len(dense) /\ dense[p] = k /\ dense[p + 1] = c
    <2>1. \A j \in 1..2: j = 1 \/ j = 2
        OBVIOUS
    <2>2. p + 1 - 1 = p /\ p + 2 - 1 = p + 1 /\ 1 \in 1..2 /\ 2 \in 1..2
        OBVIOUS
    <2>3. p + 2 <= Len(dense) + 1 <=> p + 1 <= Len(dense)
        OBVIOUS
    <2>4. (\A j \in 1..2: dense[p + j - 1] = a[j]) <=> dense[p] = k /\ dense[p + 1] = c
        BY <1>1, <2>1, <2>2
    <2> QED
        BY <1>1, <2>3, <2>4 DEF StandsAt
<1>3. /\ a \o t \in Seq(S) /\ Len(t) \in Nat /\ Len(a \o t) = 2 + Len(t)
      /\ StandsAt(dense, p, a \o t) <=> StandsAt(dense, p, a) /\ StandsAt(dense, p + 2, t)
    BY <1>1, BothStand
<1>4. (a \o t)[1] = k
    <2>1. \A j \in 1 .. Len(a) + Len(t): (a \o t)[j] = IF j <= Len(a) THEN a[j] ELSE t[j - Len(a)]
        BY <1>1, ConcatProperties
    <2>2. 1 \in 1 .. Len(a) + Len(t) /\ 1 <= Len(a)
        BY <1>1, <1>3
    <2> QED
        BY <1>1, <2>1, <2>2
<1>5. KeyFirst(k, t) = a \o t
    BY DEF KeyFirst, a, c
<1>6. 2 + Len(t) = Len(t) + 2
    BY <1>3
<1> QED
    BY <1>2, <1>3, <1>4, <1>5, <1>6 DEF c

\* A token that stands for itself is no sign.
LEMMA OwnTokens ==
    ASSUME NEW c \in Strings \cup Scalars
    PROVE  /\ c \in Tokens /\ c # "end" /\ c # "lbrace" /\ c # "lbracket"
           /\ c # "rbrace" /\ c # "rbracket"
BY JsonAssumption DEF Tokens, Signs

\* One of the results at a place.
ItemRight(s, dense, place, text, i, x) ==
    /\ x = [value |-> x.value, next |-> x.next] /\ x.value \in DOMAIN text
    /\ x.next \in i + 1 .. Len(s) + 1
    /\ Spans(dense, place[i], text[x.value], place[x.next])

\* A member is read as the key and the value that stand there (sensitive_json.rs, object).
LEMMA MemberIsRight ==
    ASSUME NEW s, NEW dense, NEW place, NEW inner, NEW text, Placed(s, dense, place),
           Correct(s, dense, place, inner, text), Texts(text),
           NEW i \in 1 .. Len(s) + 1, NEW x \in Member(s, inner, i)
    PROVE  ItemRight(s, dense, place, MemberTexts(text), i, x)
<1> DEFINE N == Len(s)
           key == Skip(s, i)
           colon == Skip(s, key + 1)
           p == place[i]
           k == s[key]
<1>1. /\ N \in Nat /\ Len(dense) \in Nat /\ p \in 1 .. Len(dense) + 1 /\ i \in 1 .. N + 1
    BY DEF Placed
<1>2. At(s, key) \in Strings /\ At(s, colon) = "colon"
    BY DEF Member
<1>3. PICK v \in inner[colon + 1]: x = [value |-> <<k, v.value>>, next |-> v.next]
    BY <1>2 DEF Member
<1> HIDE DEF N
<1>4. /\ p <= Len(dense) /\ dense[p] = k /\ k \in Strings
      /\ key \in i .. N /\ key + 1 \in 1 .. N + 1 /\ place[key + 1] = p + 1
    <2>1. At(s, key) # "end"
        BY <1>2, OwnTokens
    <2>2. /\ p <= Len(dense) /\ dense[p] = At(s, key) /\ s[key] = At(s, key)
          /\ key \in i .. N /\ key + 1 \in 1 .. N + 1 /\ place[key + 1] = p + 1
        BY <2>1, NextToken DEF N
    <2> QED
        BY <1>2, <2>2
<1>5. /\ p + 1 <= Len(dense) /\ dense[p + 1] = "colon"
      /\ colon \in key + 1 .. N /\ colon + 1 \in 1 .. N + 1 /\ place[colon + 1] = p + 1 + 1
    <2> DEFINE j == key + 1
    <2>1. At(s, colon) # "end"
        BY <1>2
    <2>2. j \in 1 .. N + 1 /\ place[j] = p + 1
        BY <1>4
    <2> HIDE DEF j, p, key
    <2>3. /\ place[j] <= Len(dense) /\ dense[place[j]] = At(s, Skip(s, j))
          /\ Skip(s, j) \in j .. N /\ Skip(s, j) + 1 \in 1 .. N + 1
          /\ place[Skip(s, j) + 1] = place[j] + 1
        BY <2>1, <2>2, NextToken DEF N, j
    <2> QED
        BY <1>2, <2>2, <2>3 DEF j
<1> DEFINE u == v.value
           t == text[u]
           m == <<k, u>>
<1>6. u \in DOMAIN text /\ v.next \in colon + 2 .. N + 1 /\ Spans(dense, p + 2, t, place[v.next])
    <2> HIDE DEF p, colon
    <2>1. /\ u \in DOMAIN text /\ v.next \in (colon + 1) + 1 .. N + 1
          /\ Spans(dense, place[colon + 1], t, place[v.next])
        BY <1>3, <1>5 DEF Correct, N
    <2>2. (colon + 1) + 1 = colon + 2 /\ p + 1 + 1 = p + 2
        BY <1>1, <1>4, <1>5
    <2> QED
        BY <1>5, <2>1, <2>2
<1>7. x.value = m /\ x.next = v.next /\ x = [value |-> x.value, next |-> x.next]
    BY <1>3
<1>8. m \in Strings \X DOMAIN text /\ MemberTexts(text)[m] = KeyFirst(k, t)
    BY <1>4, <1>6 DEF MemberTexts, KeyFirst
<1>9. DOMAIN MemberTexts(text) = Strings \X DOMAIN text
    BY DEF MemberTexts
<1>10. k \in Tokens /\ "colon" \in Tokens /\ t \in Seq(Tokens)
    BY <1>4, <1>6, OwnTokens DEF Texts, Tokens
<1> HIDE DEF p, colon, key, k, u, t, m
<1>11. Spans(dense, p, KeyFirst(k, t), place[v.next])
    <2>1. p \in Nat
        BY <1>1
    <2>2. /\ Len(t) \in Nat /\ Len(KeyFirst(k, t)) = Len(t) + 2
          /\ StandsAt(dense, p, KeyFirst(k, t)) <=>
                 /\ p + 1 <= Len(dense) /\ dense[p] = k /\ dense[p + 1] = "colon"
                 /\ StandsAt(dense, p + 2, t)
        BY <1>1, <1>10, <2>1, KeyStands
    <2>3. StandsAt(dense, p, KeyFirst(k, t))
        BY <1>4, <1>5, <1>6, <2>2 DEF Spans
    <2>4. place[v.next] = p + 2 + Len(t)
        BY <1>6 DEF Spans
    <2>5. p + 2 + Len(t) = p + (Len(t) + 2)
        BY <2>1, <2>2
    <2> QED
        BY <2>2, <2>3, <2>4, <2>5 DEF Spans
<1>12. v.next \in i + 1 .. N + 1
    BY <1>1, <1>4, <1>5, <1>6
<1> QED
    BY <1>7, <1>8, <1>9, <1>11, <1>12 DEF ItemRight, p, N

\* What is read where one thing stands.
ItemRead(s, dense, place, text, i, v, read) ==
    \E e \in i + 1 .. Len(s) + 1: read = Result(v, e) /\ place[e] = place[i] + Len(text[v])

\* The one member that a key and a value make.
LEMMA OnlyMember ==
    ASSUME NEW s, NEW inner, NEW i, NEW k, NEW v, NEW e,
           At(s, Skip(s, i)) \in Strings, s[Skip(s, i)] = k,
           At(s, Skip(s, Skip(s, i) + 1)) = "colon",
           inner[Skip(s, Skip(s, i) + 1) + 1] = Result(v, e)
    PROVE  Member(s, inner, i) = Result(<<k, v>>, e)
<1> DEFINE key == Skip(s, i)
           colon == Skip(s, key + 1)
           r == [value |-> v, next |-> e]
           grown(x) == [value |-> <<k, x.value>>, next |-> x.next]
<1>1. Member(s, inner, i) = {grown(x): x \in inner[colon + 1]}
    BY DEF Member
<1>2. inner[colon + 1] = {r}
    BY DEF Result
<1>3. grown(r) = [value |-> <<k, v>>, next |-> e]
    OBVIOUS
<1> HIDE DEF grown, r, colon
<1>4. Member(s, inner, i) = {grown(r)}
    BY <1>1, <1>2
<1> QED
    BY <1>3, <1>4 DEF Result

\* A member is read where its key and its value stand (sensitive_json.rs, object).
LEMMA MemberIsRead ==
    ASSUME NEW s, NEW dense, NEW place, NEW inner, NEW text, Placed(s, dense, place),
           Complete(s, dense, place, inner, text), Texts(text),
           NEW i \in 1 .. Len(s) + 1, NEW m \in DOMAIN MemberTexts(text),
           StandsAt(dense, place[i], MemberTexts(text)[m])
    PROVE  ItemRead(s, dense, place, MemberTexts(text), i, m, Member(s, inner, i))
<1> DEFINE N == Len(s)
           key == Skip(s, i)
           colon == Skip(s, key + 1)
           p == place[i]
           k == m[1]
           u == m[2]
           t == text[u]
<1>1. /\ N \in Nat /\ Len(dense) \in Nat /\ p \in 1 .. Len(dense) + 1 /\ i \in 1 .. N + 1
    BY DEF Placed
<1>2. /\ k \in Strings /\ u \in DOMAIN text /\ m = <<k, u>>
      /\ MemberTexts(text)[m] = KeyFirst(k, t)
    BY DEF MemberTexts, KeyFirst
<1>3. k \in Tokens /\ "colon" \in Tokens /\ t \in Seq(Tokens) /\ k # "end"
    BY <1>2, OwnTokens DEF Texts, Tokens
<1> HIDE DEF N, k, u, t
<1>4. /\ Len(t) \in Nat /\ Len(KeyFirst(k, t)) = Len(t) + 2
      /\ p + 1 <= Len(dense) /\ dense[p] = k /\ dense[p + 1] = "colon" /\ StandsAt(dense, p + 2, t)
    <2>1. p \in Nat /\ StandsAt(dense, p, KeyFirst(k, t))
        BY <1>1, <1>2
    <2> HIDE DEF p
    <2> QED
        BY <1>1, <1>3, <2>1, KeyStands
<1>5. /\ At(s, key) = k /\ s[key] = k
      /\ key \in i .. N /\ key + 1 \in 1 .. N + 1 /\ place[key + 1] = p + 1
    <2>1. p <= Len(dense)
        BY <1>1, <1>4
    <2> QED
        BY <1>4, <2>1, TokenIsRead DEF N
<1>6. /\ At(s, colon) = "colon"
      /\ colon \in key + 1 .. N /\ colon + 1 \in 1 .. N + 1 /\ place[colon + 1] = p + 2
    <2> DEFINE j == key + 1
    <2>1. j \in 1 .. N + 1 /\ place[j] = p + 1
        BY <1>5
    <2> HIDE DEF j, p, key
    <2>2. /\ At(s, Skip(s, j)) = dense[place[j]]
          /\ Skip(s, j) \in j .. N /\ Skip(s, j) + 1 \in 1 .. N + 1
          /\ place[Skip(s, j) + 1] = place[j] + 1
        <3>1. place[j] <= Len(dense) /\ j \in 1 .. Len(s) + 1
            BY <1>4, <2>1 DEF N
        <3> QED
            BY <3>1, TokenIsRead DEF N
    <2>3. p + 1 + 1 = p + 2
        BY <1>1
    <2> QED
        BY <1>4, <2>1, <2>2, <2>3 DEF j
<1> HIDE DEF colon, key, p
<1>7. PICK e \in (colon + 1) + 1 .. N + 1:
          inner[colon + 1] = Result(u, e) /\ place[e] = place[colon + 1] + Len(text[u])
    <2>1. /\ u \in DOMAIN text /\ colon + 1 \in 1 .. N + 1
          /\ StandsAt(dense, place[colon + 1], text[u])
        BY <1>2, <1>4, <1>6 DEF t
    <2> QED
        BY <2>1 DEF Complete, N
<1>8. Member(s, inner, i) = Result(<<k, u>>, e)
    BY <1>2, <1>5, <1>6, <1>7, OnlyMember DEF colon, key
<1>9. e \in i + 1 .. N + 1 /\ place[e] = p + Len(KeyFirst(k, t))
    <2>1. place[e] = p + 2 + Len(t)
        BY <1>6, <1>7 DEF t
    <2>2. p + 2 + Len(t) = p + (Len(t) + 2)
        BY <1>1, <1>4
    <2>3. e \in i + 1 .. N + 1
        BY <1>1, <1>5, <1>6, <1>7
    <2> QED
        BY <1>4, <2>1, <2>2, <2>3
<1> QED
    BY <1>2, <1>8, <1>9 DEF ItemRead, p, N

\* A member is written in tokens, its key first.
LEMMA MembersAreTexts ==
    ASSUME NEW text, Texts(text)
    PROVE  Texts(MemberTexts(text))
<1> DEFINE T == MemberTexts(text)
<1>1. ASSUME NEW v \in DOMAIN T
      PROVE  /\ T[v] \in Seq(Tokens) /\ Len(T[v]) >= 1 /\ T[v][1] \notin {"rbrace", "rbracket"}
    <2> DEFINE k == v[1]
               t == text[v[2]]
    <2>1. T[v] = KeyFirst(k, t) /\ k \in Strings /\ v[2] \in DOMAIN text
        BY DEF MemberTexts, KeyFirst
    <2>2. /\ k \in Tokens /\ "colon" \in Tokens /\ t \in Seq(Tokens)
          /\ k # "rbrace" /\ k # "rbracket"
        BY <2>1, OwnTokens DEF Texts, Tokens
    <2> HIDE DEF k, t, T
    <2>3. /\ KeyFirst(k, t) \in Seq(Tokens) /\ KeyFirst(k, t)[1] = k
          /\ Len(t) \in Nat /\ Len(KeyFirst(k, t)) = Len(t) + 2
        <3> DEFINE alone == <<k>>
        <3>1. Len(alone) \in Nat /\ 1 \in Nat
            OBVIOUS
        <3> HIDE DEF alone
        <3> QED
            BY <2>2, <3>1, KeyStands
    <2> QED
        BY <2>1, <2>2, <2>3
<1> HIDE DEF T
<1> QED
    BY <1>1 DEF Texts, T

\* Members are read as well as their values are.
LEMMA MembersAreRead ==
    ASSUME NEW s, NEW dense, NEW place, NEW inner, NEW text, Placed(s, dense, place),
           DOMAIN inner = 1 .. Len(s) + 1, Correct(s, dense, place, inner, text),
           Complete(s, dense, place, inner, text), Texts(text)
    PROVE  /\ Correct(s, dense, place, Members(s, inner), MemberTexts(text))
           /\ Complete(s, dense, place, Members(s, inner), MemberTexts(text))
           /\ Texts(MemberTexts(text))
<1> DEFINE T == MemberTexts(text)
           M == Members(s, inner)
<1>1. \A i \in 1 .. Len(s) + 1: M[i] = Member(s, inner, i)
    BY DEF Members
<1> HIDE DEF M
<1>2. Correct(s, dense, place, M, T)
    <2>1. ASSUME NEW i \in 1 .. Len(s) + 1, NEW x \in M[i] PROVE ItemRight(s, dense, place, T, i, x)
        BY <1>1, <2>1, MemberIsRight
    <2> HIDE DEF T
    <2> QED
        BY <2>1 DEF Correct, ItemRight
<1>3. Complete(s, dense, place, M, T)
    <2>1. ASSUME NEW i \in 1 .. Len(s) + 1, NEW v \in DOMAIN T, StandsAt(dense, place[i], T[v])
          PROVE  ItemRead(s, dense, place, T, i, v, M[i])
        BY <1>1, <2>1, MemberIsRead
    <2> HIDE DEF T
    <2> QED
        BY <2>1 DEF Complete, ItemRead
<1>4. Texts(T)
    BY MembersAreTexts
<1> QED
    BY <1>2, <1>3, <1>4 DEF M

Own == Strings \cup Scalars
Opens(kind) == IF kind = "object" THEN "lbrace" ELSE "lbracket"
ItemsIn(kind, s, inner) == IF kind = "object" THEN Members(s, inner) ELSE inner
ItemTexts(kind, text) == IF kind = "object" THEN MemberTexts(text) ELSE text
Bracketed(open, t) == <<open>> \o t

\* How a value is written, from how its parts are.
Over(text) == [v \in ValuesOver(text) |-> TextOf(text, v)]

\* An object or array of such items, and how it is written.
IsList(kind, m, text) ==
    /\ kind \in {"object", "array"} /\ m \in Seq(DOMAIN ItemTexts(kind, text))
    /\ kind = "object" => DistinctKeys(m)
ListText(kind, m, text) == Bracketed(Opens(kind), Listed(m, ItemTexts(kind, text), Closes[kind]))

\* What a token begins (sensitive_json.rs, value).
LEMMA ValueIs ==
    ASSUME NEW s, NEW inner, NEW i
    PROVE  LET j == Skip(s, i)
           IN  /\ At(s, j) \in Own => Value(s, inner, i) = Result(<<"scalar", s[j]>>, j + 1)
               /\ \A kind \in {"object", "array"}:
                      At(s, j) = Opens(kind) =>
                          Value(s, inner, i) = List(s, j + 1, kind, ItemsIn(kind, s, inner))
               /\ \/ At(s, j) \in Own \/ Value(s, inner, i) = {}
                  \/ \E kind \in {"object", "array"}: At(s, j) = Opens(kind)
<1> DEFINE j == Skip(s, i)
           c == At(s, j)
<1> HIDE DEF j
<1>1. c \in Own => c # "lbrace" /\ c # "lbracket"
    BY OwnTokens DEF Own
<1>2. ASSUME c \in Own PROVE Value(s, inner, i) = Result(<<"scalar", s[j]>>, j + 1)
    BY <1>1, <1>2 DEF Value, Own, j
<1>3. ASSUME c = "lbrace" PROVE Value(s, inner, i) = List(s, j + 1, "object", Members(s, inner))
    BY <1>1, <1>3 DEF Value, Own, j
<1>4. ASSUME c = "lbracket" PROVE Value(s, inner, i) = List(s, j + 1, "array", inner)
    BY <1>1, <1>4 DEF Value, Own, j
<1>5. ASSUME c \notin Own, c # "lbrace", c # "lbracket" PROVE Value(s, inner, i) = {}
    BY <1>5 DEF Value, j, Own
<1> QED
    BY <1>2, <1>3, <1>4, <1>5 DEF Opens, ItemsIn, j

\* What values there are, and how each is written.
LEMMA ScalarOver ==
    ASSUME NEW text, NEW c \in Own
    PROVE  <<"scalar", c>> \in DOMAIN Over(text) /\ Over(text)[<<"scalar", c>>] = <<c>>
<1> DEFINE v == <<"scalar", c>>
<1>1. v \in ValuesOver(text) /\ v[1] = "scalar" /\ v[2] = c
    BY DEF ValuesOver, Own
<1> HIDE DEF v
<1>2. TextOf(text, v) = <<c>>
    BY <1>1 DEF TextOf
<1> QED
    BY <1>1, <1>2 DEF Over, v

\* An object or array of values written at the level below is written there.
LEMMA ListOver ==
    ASSUME NEW text, NEW kind, NEW m, IsList(kind, m, text)
    PROVE  <<kind, m>> \in DOMAIN Over(text) /\ Over(text)[<<kind, m>>] = ListText(kind, m, text)
<1> DEFINE v == <<kind, m>>
<1>1. v \in ValuesOver(text) /\ v[1] = kind /\ v[2] = m
    <2>1. CASE kind = "object"
        <3>1. m \in Seq(Strings \X DOMAIN text) /\ DistinctKeys(m)
            BY <2>1 DEF IsList, ItemTexts, MemberTexts
        <3> QED
            BY <2>1, <3>1 DEF ValuesOver
    <2>2. CASE kind = "array"
        <3>1. m \in Seq(DOMAIN text)
            BY <2>2 DEF IsList, ItemTexts
        <3> QED
            BY <2>2, <3>1 DEF ValuesOver
    <2> QED
        BY <2>1, <2>2 DEF IsList
<1> HIDE DEF v
<1>2. TextOf(text, v) = ListText(kind, m, text)
    <2>1. CASE kind = "object"
        BY <1>1, <2>1 DEF TextOf, ListText, Bracketed, Opens, ItemTexts, Closes
    <2>2. CASE kind = "array"
        BY <1>1, <2>2 DEF TextOf, ListText, Bracketed, Opens, ItemTexts, Closes
    <2> QED
        BY <2>1, <2>2 DEF IsList
<1> QED
    BY <1>1, <1>2 DEF Over, v

\* No other value is.
LEMMA AllOver ==
    ASSUME NEW text, NEW v \in DOMAIN Over(text)
    PROVE  \/ \E c \in Own: v = <<"scalar", c>>
           \/ \E kind, m: v = <<kind, m>> /\ IsList(kind, m, text)
<1>1. v \in ValuesOver(text)
    BY DEF Over
<1>2. CASE v \in {"scalar"} \X (Strings \cup Scalars)
    BY <1>2 DEF Own
<1>3. CASE v \in {"array"} \X Seq(DOMAIN text)
    <2>1. v = <<"array", v[2]>> /\ v[2] \in Seq(DOMAIN text)
        BY <1>3
    <2>2. IsList("array", v[2], text)
        BY <2>1 DEF IsList, ItemTexts
    <2> QED
        BY <2>1, <2>2
<1>4. CASE v \in {"object"} \X {m \in Seq(Strings \X DOMAIN text): DistinctKeys(m)}
    <2>1. v = <<"object", v[2]>> /\ v[2] \in Seq(Strings \X DOMAIN text) /\ DistinctKeys(v[2])
        BY <1>4
    <2>2. DOMAIN MemberTexts(text) = Strings \X DOMAIN text
        BY DEF MemberTexts
    <2>3. IsList("object", v[2], text)
        BY <2>1, <2>2 DEF IsList, ItemTexts
    <2> QED
        BY <2>1, <2>3
<1> QED
    BY <1>1, <1>2, <1>3, <1>4 DEF ValuesOver

\* What is read at each place is what stands there.
ReadWell(s, dense, place, inner, text) ==
    /\ DOMAIN inner = 1 .. Len(s) + 1 /\ Texts(text)
    /\ Correct(s, dense, place, inner, text) /\ Complete(s, dense, place, inner, text)

\* Members and items are, if values are.
LEMMA ItemsAreRead ==
    ASSUME NEW s, NEW dense, NEW place, NEW inner, NEW text, Placed(s, dense, place),
           ReadWell(s, dense, place, inner, text), NEW kind \in {"object", "array"}
    PROVE  /\ Correct(s, dense, place, ItemsIn(kind, s, inner), ItemTexts(kind, text))
           /\ Complete(s, dense, place, ItemsIn(kind, s, inner), ItemTexts(kind, text))
           /\ Texts(ItemTexts(kind, text))
<1>1. /\ Correct(s, dense, place, Members(s, inner), MemberTexts(text))
      /\ Complete(s, dense, place, Members(s, inner), MemberTexts(text))
      /\ Texts(MemberTexts(text))
    BY MembersAreRead DEF ReadWell
<1> QED
    BY <1>1 DEF ItemsIn, ItemTexts, ReadWell

\* An object or array is written in tokens.
LEMMA ListedIsText ==
    ASSUME NEW text, Texts(text), NEW m \in Seq(DOMAIN text), NEW close \in Tokens
    PROVE  Listed(m, text, close) \in Seq(Tokens)
<1> DEFINE S == DOMAIN text
           sign == <<close>>
<1>1. \A v \in S: text[v] \in Seq(Tokens)
    BY DEF Texts
<1>2. "comma" \in Tokens
    BY DEF Tokens
<1>3. sign \in Seq(Tokens)
    OBVIOUS
<1> HIDE DEF S, sign
<1>4. Row(m, text, close) \in Seq(Tokens)
    BY <1>1, <1>2, RowIsText DEF S
<1>5. Listed(m, text, close) = sign \/ Listed(m, text, close) = Row(m, text, close)
    BY DEF Listed, sign
<1> QED
    BY <1>3, <1>4, <1>5

\* A text behind its bracket stands where the two do.
LEMMA BracketStands ==
    ASSUME NEW S, NEW b \in S, NEW t \in Seq(S), NEW dense, Len(dense) \in Nat, NEW p \in Nat
    PROVE  /\ Bracketed(b, t) \in Seq(S) /\ Len(t) \in Nat /\ Len(Bracketed(b, t)) = Len(t) + 1
           /\ Bracketed(b, t)[1] = b
           /\ StandsAt(dense, p, Bracketed(b, t)) <=>
                  p <= Len(dense) /\ dense[p] = b /\ StandsAt(dense, p + 1, t)
<1> DEFINE a == <<b>>
<1>1. a \in Seq(S) /\ Len(a) = 1 /\ a[1] = b
    OBVIOUS
<1>2. StandsAt(dense, p, a) <=> p <= Len(dense) /\ dense[p] = b
    BY OneStands
<1> HIDE DEF a
<1>3. /\ a \o t \in Seq(S) /\ Len(t) \in Nat /\ Len(a \o t) = 1 + Len(t)
      /\ StandsAt(dense, p, a \o t) <=> StandsAt(dense, p, a) /\ StandsAt(dense, p + 1, t)
    BY <1>1, BothStand
<1>4. (a \o t)[1] = b
    <2>1. \A j \in 1 .. Len(a) + Len(t): (a \o t)[j] = IF j <= Len(a) THEN a[j] ELSE t[j - Len(a)]
        BY <1>1, ConcatProperties
    <2>2. 1 \in 1 .. Len(a) + Len(t) /\ 1 <= Len(a)
        BY <1>1, <1>3
    <2> QED
        BY <1>1, <2>1, <2>2
<1>5. Bracketed(b, t) = a \o t
    BY DEF Bracketed, a
<1>6. 1 + Len(t) = Len(t) + 1
    BY <1>3
<1> QED
    BY <1>2, <1>3, <1>4, <1>5, <1>6

\* A value is read as what stands there (sensitive_json.rs, value).
LEMMA ValueIsRight ==
    ASSUME NEW s, NEW dense, NEW place, NEW inner, NEW text, Placed(s, dense, place),
           ReadWell(s, dense, place, inner, text),
           NEW i \in 1 .. Len(s) + 1, NEW x \in Value(s, inner, i)
    PROVE  ItemRight(s, dense, place, Over(text), i, x)
<1> DEFINE N == Len(s)
           j == Skip(s, i)
           p == place[i]
           T == Over(text)
<1>1. /\ N \in Nat /\ Len(dense) \in Nat /\ p \in 1 .. Len(dense) + 1 /\ i \in 1 .. N + 1
    BY DEF Placed
<1>2. At(s, j) # "end"
    <2>1. At(s, j) \in Own \/ \E kind \in {"object", "array"}: At(s, j) = Opens(kind)
        BY ValueIs
    <2> HIDE DEF j
    <2> QED
        BY <2>1, OwnTokens DEF Own, Opens
<1>3. /\ p <= Len(dense) /\ dense[p] = At(s, j) /\ s[j] = At(s, j)
      /\ j \in i .. N /\ j + 1 \in 1 .. N + 1 /\ place[j + 1] = p + 1
    <2> HIDE DEF N
    <2> QED
        BY <1>2, NextToken DEF N
<1>4. CASE At(s, j) \in Own
    <2> DEFINE c == s[j]
               v == <<"scalar", c>>
               t == <<c>>
    <2>1. c \in Own /\ v \in DOMAIN T /\ T[v] = t
        BY <1>3, <1>4, ScalarOver
    <2>2. x.value = v /\ x.next = j + 1 /\ x = [value |-> x.value, next |-> x.next]
        BY <1>4, ValueIs DEF Result
    <2> HIDE DEF T, v, j, p, N
    <2>3. Len(t) = 1 /\ StandsAt(dense, p, t)
        <3>1. p \in Nat /\ p <= Len(dense) /\ dense[p] = c
            BY <1>1, <1>3
        <3> HIDE DEF c
        <3> QED
            BY <1>1, <3>1, OneStands
    <2> HIDE DEF t
    <2>4. Spans(dense, p, T[v], place[x.next])
        BY <1>3, <2>1, <2>2, <2>3 DEF Spans
    <2>5. x.next \in i + 1 .. N + 1
        BY <1>1, <1>3, <2>2
    <2> QED
        BY <2>1, <2>2, <2>4, <2>5 DEF ItemRight, T, p, N
<1>5. ASSUME NEW kind \in {"object", "array"}, At(s, j) = Opens(kind)
      PROVE  ItemRight(s, dense, place, T, i, x)
    <2> DEFINE items == ItemsIn(kind, s, inner)
               texts == ItemTexts(kind, text)
               close == Closes[kind]
               k == j + 1
    <2>1. x \in List(s, k, kind, items)
        BY <1>5, ValueIs
    <2>2. Correct(s, dense, place, items, texts) /\ Texts(texts)
        BY ItemsAreRead
    <2>3. k \in 1 .. Len(s) + 1 /\ place[k] = p + 1
        BY <1>3
    <2> HIDE DEF k, items, texts, j, N, p
    <2>4. PICK m: ListRight(s, dense, place, kind, texts, k, x, m)
        BY <2>1, <2>2, <2>3, ListIsRight
    <2> DEFINE t == Listed(m, texts, close)
               b == Opens(kind)
               v == <<kind, m>>
    <2>5. /\ x = [value |-> v, next |-> x.next] /\ x.value = v
          /\ m \in Seq(DOMAIN texts) /\ (kind = "object" => DistinctKeys(m))
          /\ x.next \in k + 1 .. N + 1 /\ Spans(dense, p + 1, t, place[x.next])
        BY <2>3, <2>4 DEF ListRight, N
    <2>6. v \in DOMAIN T /\ T[v] = Bracketed(b, t)
        <3>1. IsList(kind, m, text)
            BY <2>5 DEF IsList, texts
        <3> QED
            BY <3>1, ListOver DEF ListText, texts
    <2>7. b \in Tokens /\ close \in Tokens
        BY DEF Opens, Closes, Tokens
    <2>8. t \in Seq(Tokens)
        BY <2>2, <2>5, <2>7, ListedIsText
    <2> HIDE DEF b, t, v, T, close
    <2>9. Spans(dense, p, Bracketed(b, t), place[x.next])
        <3>1. p \in Nat /\ p <= Len(dense) /\ dense[p] = b
            BY <1>1, <1>3, <1>5 DEF b
        <3>2. StandsAt(dense, p + 1, t) /\ place[x.next] = p + 1 + Len(t)
            BY <2>5 DEF Spans
        <3>3. /\ Len(t) \in Nat /\ Len(Bracketed(b, t)) = Len(t) + 1
              /\ StandsAt(dense, p, Bracketed(b, t))
            BY <1>1, <2>7, <2>8, <3>1, <3>2, BracketStands
        <3>4. p + 1 + Len(t) = p + (Len(t) + 1)
            BY <3>1, <3>3
        <3> QED
            BY <3>2, <3>3, <3>4 DEF Spans
    <2>10. x.next \in i + 1 .. N + 1
        BY <1>1, <1>3, <2>5 DEF k
    <2> QED
        BY <2>5, <2>6, <2>9, <2>10 DEF ItemRight, p, N
<1>6. At(s, j) \in Own \/ \E kind \in {"object", "array"}: At(s, j) = Opens(kind)
    BY ValueIs
<1> QED
    BY <1>4, <1>5, <1>6

\* A value is read where it stands (sensitive_json.rs, value).
LEMMA ValueIsRead ==
    ASSUME NEW s, NEW dense, NEW place, NEW inner, NEW text, Placed(s, dense, place),
           ReadWell(s, dense, place, inner, text),
           NEW i \in 1 .. Len(s) + 1, NEW v \in DOMAIN Over(text),
           StandsAt(dense, place[i], Over(text)[v])
    PROVE  ItemRead(s, dense, place, Over(text), i, v, Value(s, inner, i))
<1> DEFINE N == Len(s)
           j == Skip(s, i)
           p == place[i]
           T == Over(text)
<1>1. /\ N \in Nat /\ Len(dense) \in Nat /\ p \in 1 .. Len(dense) + 1 /\ i \in 1 .. N + 1
      /\ p \in Nat
    BY DEF Placed
<1>2. ASSUME p <= Len(dense)
      PROVE  /\ At(s, j) = dense[p] /\ s[j] = dense[p]
             /\ j \in i .. N /\ j + 1 \in 1 .. N + 1 /\ place[j + 1] = p + 1
    <2> HIDE DEF N
    <2> QED
        BY <1>2, NextToken DEF N
<1>3. ASSUME NEW c \in Own, v = <<"scalar", c>>
      PROVE  ItemRead(s, dense, place, T, i, v, Value(s, inner, i))
    <2> DEFINE t == <<c>>
    <2>1. T[v] = t
        BY <1>3, ScalarOver
    <2> HIDE DEF T, p
    <2>2. Len(t) = 1 /\ p <= Len(dense) /\ dense[p] = c
        <3>1. StandsAt(dense, p, t)
            BY <2>1 DEF T, p
        <3> QED
            BY <1>1, <3>1, OneStands
    <2> HIDE DEF t
    <2>3. At(s, j) = c /\ s[j] = c /\ j \in i .. N /\ j + 1 \in 1 .. N + 1 /\ place[j + 1] = p + 1
        BY <1>2, <2>2
    <2>4. Value(s, inner, i) = Result(v, j + 1)
        BY <1>3, <2>3, ValueIs
    <2>5. j + 1 \in i + 1 .. N + 1
        BY <1>1, <2>3
    <2> HIDE DEF j
    <2> QED
        BY <2>1, <2>2, <2>3, <2>4, <2>5 DEF ItemRead, p, N
<1>4. ASSUME NEW kind, NEW m, v = <<kind, m>>, IsList(kind, m, text)
      PROVE  ItemRead(s, dense, place, T, i, v, Value(s, inner, i))
    <2> DEFINE items == ItemsIn(kind, s, inner)
               texts == ItemTexts(kind, text)
               close == Closes[kind]
               k == j + 1
               t == Listed(m, texts, close)
               b == Opens(kind)
    <2>1. /\ kind \in {"object", "array"} /\ m \in Seq(DOMAIN texts)
          /\ (kind = "object" => DistinctKeys(m))
        BY <1>4 DEF IsList
    <2>2. T[v] = Bracketed(b, t)
        BY <1>4, ListOver DEF ListText
    <2>3. /\ Correct(s, dense, place, items, texts) /\ Complete(s, dense, place, items, texts)
          /\ Texts(texts)
        BY <2>1, ItemsAreRead
    <2>4. b \in Tokens /\ close \in Tokens
        BY <2>1 DEF Opens, Closes, Tokens
    <2>5. t \in Seq(Tokens)
        <3> HIDE DEF close, texts
        <3> QED
            BY <2>1, <2>3, <2>4, ListedIsText
    <2> HIDE DEF T, p, t, b, texts, items, close
    <2>6. /\ Len(t) \in Nat /\ Len(Bracketed(b, t)) = Len(t) + 1
          /\ p <= Len(dense) /\ dense[p] = b /\ StandsAt(dense, p + 1, t)
        <3>1. StandsAt(dense, p, Bracketed(b, t))
            BY <2>2 DEF T, p
        <3> QED
            BY <1>1, <2>4, <2>5, <3>1, BracketStands
    <2>7. At(s, j) = b /\ j \in i .. N /\ k \in 1 .. N + 1 /\ place[k] = p + 1
        BY <1>2, <2>6
    <2>8. Value(s, inner, i) = List(s, k, kind, items)
        BY <2>1, <2>7, ValueIs DEF b, items
    <2> HIDE DEF j, k
    <2>9. PICK e \in k + 1 .. Len(s) + 1:
              List(s, k, kind, items) = Result(<<kind, m>>, e) /\ place[e] = place[k] + Len(t)
        <3>1. StandsAt(dense, place[k], Listed(m, texts, Closes[kind]))
            BY <2>6, <2>7 DEF t, close
        <3> QED
            BY <2>1, <2>3, <2>7, <3>1, ListReadsAll DEF t, close
    <2>10. e \in i + 1 .. N + 1
        BY <1>1, <2>7, <2>9 DEF k
    <2>11. place[e] = p + (Len(t) + 1)
        <3>1. place[e] = p + 1 + Len(t)
            BY <2>7, <2>9
        <3> QED
            BY <1>1, <2>6, <3>1
    <2> QED
        BY <1>4, <2>2, <2>6, <2>8, <2>9, <2>10, <2>11 DEF ItemRead, p, N
<1> QED
    BY <1>3, <1>4, AllOver

\* Values are written in tokens, and none begins as nothing could.
LEMMA OverAreTexts ==
    ASSUME NEW text, Texts(text)
    PROVE  Texts(Over(text))
<1> DEFINE T == Over(text)
<1>1. ASSUME NEW v \in DOMAIN T
      PROVE  T[v] \in Seq(Tokens) /\ Len(T[v]) >= 1 /\ T[v][1] \notin {"rbrace", "rbracket"}
    <2>1. ASSUME NEW c \in Own, v = <<"scalar", c>>
          PROVE  T[v] \in Seq(Tokens) /\ Len(T[v]) >= 1 /\ T[v][1] \notin {"rbrace", "rbracket"}
        <3> DEFINE t == <<c>>
        <3>1. T[v] = t
            BY <2>1, ScalarOver
        <3>2. c \in Tokens /\ c # "rbrace" /\ c # "rbracket"
            BY OwnTokens DEF Own
        <3>3. t \in Seq(Tokens) /\ Len(t) >= 1 /\ t[1] = c
            BY <3>2
        <3> HIDE DEF t, T
        <3> QED
            BY <3>1, <3>2, <3>3
    <2>2. ASSUME NEW kind, NEW m, v = <<kind, m>>, IsList(kind, m, text)
          PROVE  T[v] \in Seq(Tokens) /\ Len(T[v]) >= 1 /\ T[v][1] \notin {"rbrace", "rbracket"}
        <3> DEFINE texts == ItemTexts(kind, text)
                   close == Closes[kind]
                   t == Listed(m, texts, close)
                   b == Opens(kind)
        <3>1. kind \in {"object", "array"} /\ m \in Seq(DOMAIN texts)
            BY <2>2 DEF IsList
        <3>2. T[v] = Bracketed(b, t)
            BY <2>2, ListOver DEF ListText
        <3>3. b \in Tokens /\ close \in Tokens /\ b \notin {"rbrace", "rbracket"}
            BY <3>1 DEF Opens, Closes, Tokens
        <3>4. Texts(texts)
            BY <3>1, MembersAreTexts DEF ItemTexts
        <3> HIDE DEF close, texts, b
        <3>5. t \in Seq(Tokens)
            BY <3>1, <3>3, <3>4, ListedIsText
        <3> HIDE DEF t, T
        <3>6. /\ Bracketed(b, t) \in Seq(Tokens) /\ Len(t) \in Nat
              /\ Len(Bracketed(b, t)) = Len(t) + 1 /\ Bracketed(b, t)[1] = b
            <4> DEFINE alone == <<b>>
            <4>1. Len(alone) \in Nat /\ 1 \in Nat
                OBVIOUS
            <4> HIDE DEF alone
            <4> QED
                BY <3>3, <3>5, <4>1, BracketStands
        <3> QED
            BY <3>2, <3>3, <3>6
    <2> QED
        BY <2>1, <2>2, AllOver
<1> HIDE DEF T
<1> QED
    BY <1>1 DEF Texts, T

\* What each level reads well, the next does.
LEMMA LevelIsRead ==
    ASSUME NEW s, NEW dense, NEW place, NEW inner, NEW text, Placed(s, dense, place),
           ReadWell(s, dense, place, inner, text)
    PROVE  ReadWell(s, dense, place, [i \in 1 .. Len(s) + 1 |-> Value(s, inner, i)], Over(text))
<1> DEFINE V == [i \in 1 .. Len(s) + 1 |-> Value(s, inner, i)]
           T == Over(text)
<1>1. DOMAIN V = 1 .. Len(s) + 1 /\ \A i \in 1 .. Len(s) + 1: V[i] = Value(s, inner, i)
    OBVIOUS
<1> HIDE DEF V, T
<1>2. Correct(s, dense, place, V, T)
    <2>1. ASSUME NEW i \in 1 .. Len(s) + 1, NEW x \in V[i] PROVE ItemRight(s, dense, place, T, i, x)
        BY <1>1, <2>1, ValueIsRight DEF T
    <2> QED
        BY <2>1 DEF Correct, ItemRight
<1>3. Complete(s, dense, place, V, T)
    <2>1. ASSUME NEW i \in 1 .. Len(s) + 1, NEW v \in DOMAIN T, StandsAt(dense, place[i], T[v])
          PROVE  ItemRead(s, dense, place, T, i, v, V[i])
        BY <1>1, <2>1, ValueIsRead DEF T
    <2> QED
        BY <2>1 DEF Complete, ItemRead
<1>4. Texts(T)
    BY OverAreTexts DEF ReadWell, T
<1> QED
    BY <1>1, <1>2, <1>3, <1>4 DEF ReadWell, V, T

NoLevel(s) == [i \in 1 .. Len(s) + 1 |-> {}]
NextLevel(s, inner) == [i \in 1 .. Len(s) + 1 |-> Value(s, inner, i)]
LevelsUpTo(f, s, levels) ==
    f[0] = NoLevel(s) /\ \A n \in 1..levels: f[n] = NextLevel(s, f[n - 1])

\* Levels, one by one.
LEMMA LevelsUnfold ==
    ASSUME NEW s, NEW levels \in Nat
    PROVE  \E f: Levels(s, levels) = f[levels] /\ LevelsUpTo(f, s, levels)
<1> DEFINE N == levels
           step(x, n) == [i \in 1 .. Len(s) + 1 |-> IF n = 0 THEN {} ELSE Value(s, x, i)]
           none == NoLevel(s)
           grown(x) == NextLevel(s, x)
           rounds(f, m) == [n \in 0..m |-> step(f[n - 1], n)]
           G == {m \in 0..N: \E f: f = rounds(f, m)}
           kept == CHOOSE f: f = rounds(f, N)
<1>1. Levels(s, levels) = kept[N]
    BY DEF Levels
<1>2. ASSUME NEW x PROVE step(x, 0) = none
    BY DEF NoLevel
<1>3. ASSUME NEW x, NEW n, n # 0 PROVE step(x, n) = grown(x)
    BY <1>3 DEF NextLevel
<1> HIDE DEF step, none, grown
<1>4. 0 \in G
    <2> DEFINE f == [n \in 0..0 |-> none]
    <2>1. \A n \in 0..0: n = 0
        OBVIOUS
    <2>2. \A n \in 0..0: step(f[n - 1], n) = none
        <3> HIDE DEF f
        <3> QED
            BY <1>2, <2>1
    <2>3. rounds(f, 0) = [n \in 0..0 |-> none]
        <3> HIDE DEF f
        <3> QED
            BY <2>2
    <2>4. f = rounds(f, 0) /\ 0 \in 0..N
        BY <2>3
    <2> HIDE DEF f, rounds
    <2> QED
        BY <2>4
<1>5. ASSUME NEW m \in 1..N, m - 1 \in G PROVE m \in G
    <2>1. PICK f: f = rounds(f, m - 1)
        BY <1>5
    <2> DEFINE g == [n \in 0..m |-> IF n = m THEN step(f[m - 1], m) ELSE f[n]]
    <2>2. ASSUME NEW n \in 0..m PROVE g[n] = rounds(g, m)[n]
        <3>1. CASE n = 0
            <4>1. step(f[n - 1], n) = none /\ step(g[n - 1], n) = none
                BY <1>2, <3>1
            <4> HIDE DEF none
            <4>2. g[n] = f[n] /\ f[n] = step(f[n - 1], n)
                BY <2>1, <3>1
            <4> QED
                BY <4>1, <4>2
        <3>2. CASE n # 0
            <4>1. n - 1 \in 0 .. m - 1 /\ g[n - 1] = f[n - 1] /\ n \in 1..m
                BY <3>2
            <4>2. g[n] = step(f[n - 1], n)
                BY <2>1, <3>2
            <4> QED
                BY <4>1, <4>2
        <3> QED
            BY <3>1, <3>2
    <2>3. g = rounds(g, m)
        BY <2>2
    <2> HIDE DEF g, rounds
    <2> QED
        BY <2>3
<1>6. \E f: f = rounds(f, N)
    <2> HIDE DEF rounds
    <2>1. \A n \in 0..N: n \in G
        <3> HIDE DEF G
        <3> QED
            BY <1>4, <1>5, UpTo
    <2> QED
        BY <2>1
<1>7. kept = rounds(kept, N)
    <2> HIDE DEF rounds
    <2> QED
        BY <1>6
<1>8. kept[0] = none /\ \A n \in 1..N: kept[n] = grown(kept[n - 1])
    <2> HIDE DEF kept
    <2>1. \A n \in 0..N: kept[n] = step(kept[n - 1], n)
        BY <1>7
    <2>2. kept[0] = none
        <3>1. 0 \in 0..N
            OBVIOUS
        <3> QED
            BY <1>2, <2>1, <3>1
    <2>3. ASSUME NEW n \in 1..N PROVE kept[n] = grown(kept[n - 1])
        <3>1. n \in 0..N /\ n # 0
            OBVIOUS
        <3> QED
            BY <1>3, <2>1, <3>1
    <2> QED
        BY <2>2, <2>3
<1> HIDE DEF kept
<1> QED
    BY <1>1, <1>8 DEF none, grown, LevelsUpTo

NothingWritten == [v \in {} |-> <<>>]
WritingUpTo(f, levels) ==
    f[0] = NothingWritten /\ \A n \in 1..levels: f[n] = Over(f[n - 1])

\* What is written, level by level.
LEMMA WritingUnfolds ==
    ASSUME NEW levels \in Nat
    PROVE  \E f: Writing(levels) = f[levels] /\ WritingUpTo(f, levels)
<1> DEFINE N == levels
           none == NothingWritten
           step(x) == Over(x)
           rounds(f, m) == [n \in 0..m |-> IF n = 0 THEN none ELSE step(f[n - 1])]
           G == {m \in 0..N: \E f: f = rounds(f, m)}
           kept == CHOOSE f: f = rounds(f, N)
<1>1. Writing(levels) = kept[N]
    BY DEF Writing, Over, NothingWritten
<1> HIDE DEF step, none
<1>2. 0 \in G
    <2> DEFINE f == [n \in 0..0 |-> none]
    <2>1. f = rounds(f, 0) /\ 0 \in 0..N
        OBVIOUS
    <2> HIDE DEF f, rounds
    <2> QED
        BY <2>1
<1>3. ASSUME NEW m \in 1..N, m - 1 \in G PROVE m \in G
    <2>1. PICK f: f = rounds(f, m - 1)
        BY <1>3
    <2> DEFINE g == [n \in 0..m |-> IF n = m THEN step(f[m - 1]) ELSE f[n]]
    <2>2. ASSUME NEW n \in 0..m PROVE g[n] = rounds(g, m)[n]
        BY <2>1, <2>2
    <2>3. g = rounds(g, m)
        BY <2>2
    <2> HIDE DEF g, rounds
    <2> QED
        BY <2>3
<1>4. \E f: f = rounds(f, N)
    <2> HIDE DEF rounds
    <2>1. \A n \in 0..N: n \in G
        <3> HIDE DEF G
        <3> QED
            BY <1>2, <1>3, UpTo
    <2> QED
        BY <2>1
<1>5. kept = rounds(kept, N)
    <2> HIDE DEF rounds
    <2> QED
        BY <1>4
<1>6. kept[0] = none /\ \A n \in 1..N: kept[n] = step(kept[n - 1])
    <2> HIDE DEF kept
    <2> QED
        BY <1>5
<1> HIDE DEF kept
<1> QED
    BY <1>1, <1>6 DEF step, none, WritingUpTo

\* With no level left nothing is read, and nothing is written.
LEMMA NothingIsRead ==
    ASSUME NEW s, NEW dense, NEW place
    PROVE  ReadWell(s, dense, place, NoLevel(s), NothingWritten)
<1>1. DOMAIN NothingWritten = {}
    BY DEF NothingWritten
<1>2. DOMAIN NoLevel(s) = 1 .. Len(s) + 1 /\ \A i \in 1 .. Len(s) + 1: NoLevel(s)[i] = {}
    BY DEF NoLevel
<1> QED
    BY <1>1, <1>2 DEF ReadWell, Correct, Complete, Texts

\* Every number of levels reads the values of so many levels (sensitive_json.rs, value).
LEMMA LevelsReadWell ==
    ASSUME NEW s, NEW dense, NEW place, Placed(s, dense, place), NEW levels \in Nat
    PROVE  ReadWell(s, dense, place, Levels(s, levels), Writing(levels))
<1>1. PICK f: Levels(s, levels) = f[levels] /\ LevelsUpTo(f, s, levels)
    BY LevelsUnfold
<1>2. PICK g: Writing(levels) = g[levels] /\ WritingUpTo(g, levels)
    BY WritingUnfolds
<1> DEFINE G == {n \in 0..levels: ReadWell(s, dense, place, f[n], g[n])}
<1>3. 0 \in G
    <2>1. f[0] = NoLevel(s) /\ g[0] = NothingWritten
        BY <1>1, <1>2 DEF LevelsUpTo, WritingUpTo
    <2>2. ReadWell(s, dense, place, f[0], g[0])
        BY <2>1, NothingIsRead
    <2> QED
        BY <2>2
<1>4. ASSUME NEW n \in 1..levels, n - 1 \in G PROVE n \in G
    <2>1. f[n] = NextLevel(s, f[n - 1]) /\ g[n] = Over(g[n - 1])
        BY <1>1, <1>2 DEF LevelsUpTo, WritingUpTo
    <2>2. ReadWell(s, dense, place, NextLevel(s, f[n - 1]), Over(g[n - 1]))
        BY <1>4, LevelIsRead DEF NextLevel
    <2>3. ReadWell(s, dense, place, f[n], g[n])
        BY <2>1, <2>2
    <2> QED
        BY <2>3
<1>5. \A n \in 0..levels: n \in G
    <2> HIDE DEF G
    <2> QED
        BY <1>3, <1>4, UpTo
<1> QED
    BY <1>1, <1>2, <1>5

\* Two sequences of one length, one of which stands at the start of the other.
LEMMA StandsWhole ==
    ASSUME NEW S, NEW T, NEW a \in Seq(S), NEW b \in Seq(T)
    PROVE  StandsAt(a, 1, b) /\ Len(a) = Len(b) <=> a = b
<1>1. ASSUME StandsAt(a, 1, b), Len(a) = Len(b) PROVE a = b
    <2>1. \A j \in 1..Len(b): a[1 + j - 1] = b[j] /\ 1 + j - 1 = j
        BY <1>1 DEF StandsAt
    <2>2. \A j \in 1..Len(b): a[j] = b[j]
        BY <2>1
    <2>3. \A j \in 1..Len(b): b[j] \in S
        BY <1>1, <2>2
    <2>4. b \in Seq(S)
        BY <2>3, IsASeq
    <2> QED
        BY <1>1, <2>2, <2>4, SeqEqual
<1>2. ASSUME a = b PROVE StandsAt(a, 1, b) /\ Len(a) = Len(b)
    BY <1>2 DEF StandsAt
<1> QED
    BY <1>1, <1>2

\* A document is read exactly as the value it writes (sensitive_json.rs, parse).
LEMMA ParsedIsWritten ==
    ASSUME NEW S, NEW s \in Seq(S), "end" \notin S
    PROVE  LET writing == Writing(MaxDepth + 1)
           IN  /\ \A v \in Parse(s): v \in DOMAIN writing /\ writing[v] = Dense(s)
               /\ \A v \in DOMAIN writing: writing[v] = Dense(s) => Parse(s) = {v}
<1> DEFINE N == Len(s)
           dense == Dense(s)
           L == MaxDepth + 1
           text == Writing(L)
           read == Levels(s, L)
<1>1. dense \in Seq(S) /\ Len(dense) \in Nat
    BY DenseIsPlaced
<1>2. PICK place: Placed(s, dense, place)
    BY DenseIsPlaced
<1>3. L \in Nat
    BY JsonAssumption
<1> HIDE DEF dense, L, text, read
<1>4. Texts(text) /\ Correct(s, dense, place, read, text) /\ Complete(s, dense, place, read, text)
    BY <1>2, <1>3, LevelsReadWell DEF text, read, ReadWell
<1>5. /\ N \in Nat /\ place[1] = 1 /\ 1 \in 1 .. N + 1
      /\ \A k \in 1 .. N + 1: place[k] \in 1 .. Len(dense) + 1
    BY <1>2 DEF Placed
<1>6. Parse(s) = {v.value: v \in {w \in read[1]: Skip(s, w.next) = N + 1}}
    BY DEF Parse, read, L
<1>7. ASSUME NEW e \in 1 .. N + 1
      PROVE  Skip(s, e) = N + 1 <=> place[e] = Len(dense) + 1
    <2>1. place[e] \in 1 .. Len(dense) + 1
        BY <1>5
    <2>2. CASE place[e] <= Len(dense)
        <3>1. Skip(s, e) \in e .. N
            BY <1>2, <2>2, NextToken
        <3> QED
            BY <1>1, <1>5, <2>2, <3>1
    <2>3. CASE place[e] = Len(dense) + 1
        <3>1. ~(place[e] <= Len(dense))
            BY <1>1, <2>3
        <3>2. Skip(s, e) = N + 1
            BY <1>2, <3>1, NextToken
        <3> QED
            BY <2>3, <3>2
    <2> QED
        BY <1>1, <2>1, <2>2, <2>3
<1>8. ASSUME NEW v \in Parse(s) PROVE v \in DOMAIN text /\ text[v] = dense
    <2>1. PICK w \in read[1]: Skip(s, w.next) = N + 1 /\ v = w.value
        BY <1>6, <1>8
    <2> HIDE DEF N
    <2>2. /\ v \in DOMAIN text /\ w.next \in 1 + 1 .. N + 1
          /\ Spans(dense, 1, text[v], place[w.next])
        BY <1>4, <1>5, <2>1 DEF Correct, N
    <2>3. text[v] \in Seq(Tokens)
        BY <1>4, <2>2 DEF Texts
    <2>4. place[w.next] = Len(dense) + 1
        BY <1>5, <1>7, <2>1, <2>2
    <2>5. StandsAt(dense, 1, text[v]) /\ Len(dense) = Len(text[v])
        <3>1. Len(text[v]) \in Nat
            BY <2>3
        <3> QED
            BY <1>1, <2>2, <2>4, <3>1 DEF Spans
    <2> QED
        BY <1>1, <2>2, <2>3, <2>5, StandsWhole
<1>9. ASSUME NEW v \in DOMAIN text, text[v] = dense PROVE Parse(s) = {v}
    <2>1. text[v] \in Seq(Tokens)
        BY <1>4 DEF Texts
    <2>2. StandsAt(dense, place[1], text[v])
        BY <1>1, <1>5, <1>9, <2>1, StandsWhole
    <2> HIDE DEF N
    <2>3. PICK e \in 1 + 1 .. N + 1: read[1] = Result(v, e) /\ place[e] = place[1] + Len(text[v])
        BY <1>4, <1>5, <2>2 DEF Complete, N
    <2>4. Skip(s, e) = N + 1
        <3>1. e \in 1 .. N + 1 /\ place[e] = Len(dense) + 1
            BY <1>1, <1>5, <1>9, <2>3
        <3> QED
            BY <1>7, <3>1
    <2> DEFINE r == [value |-> v, next |-> e]
               R == {w \in read[1]: Skip(s, w.next) = N + 1}
    <2>5. read[1] = {r} /\ r.value = v /\ r.next = e
        BY <2>3 DEF Result
    <2> HIDE DEF r
    <2>6. R = {r}
        BY <2>4, <2>5
    <2>7. Parse(s) = {w.value: w \in R}
        BY <1>6
    <2> HIDE DEF R
    <2> QED
        BY <2>5, <2>6, <2>7
<1> QED
    BY <1>8, <1>9 DEF text, L, dense

\* A judged document is read as the value it writes, and no other is.
LEMMA DocumentIsItsText ==
    ASSUME JsonJudged, Judged("json")
    PROVE  DocumentIsItsValue
<1> DEFINE s == case.text
           S == ToSet(s)
           writing == Writing(MaxDepth + 1)
<1>1. case \in JsonCases /\ verdict = Parse(s)
    BY DEF JsonJudged, Judged
<1>2. /\ s \in Seq(S) /\ "end" \notin S
      /\ \A v \in case.means \cap DOMAIN writing: writing[v] = Dense(s)
    BY <1>1, JsonAssumption DEF IsSeq
<1> HIDE DEF s, S, writing
<1>3. /\ \A v \in Parse(s): v \in DOMAIN writing /\ writing[v] = Dense(s)
      /\ \A v \in DOMAIN writing: writing[v] = Dense(s) => Parse(s) = {v}
    BY <1>2, ParsedIsWritten DEF writing
<1> QED
    BY <1>1, <1>2, <1>3 DEF DocumentIsItsValue, s, writing

\* A document is read exactly as the value it writes, for a document of any length and any depth
\* allowed (parse, value, object, array).
THEOREM DocumentsAreTheirValues == Spec => []DocumentIsItsValue
<1>1. RuleInv => DocumentIsItsValue
    BY DocumentIsItsText DEF RuleInv, DocumentIsItsValue
<1> QED
    BY <1>1, JudgedByItsRule, PTL

\* A code, a document and a string are each read as they were written, and nothing else is taken
\* for one (hotp, constant_time_eq, parse, string).
THEOREM AllReadAsWritten == Spec => []ReadsAsWritten
<1>1. CodeIsItsDigits /\ DocumentIsItsValue /\ StringIsItsCharacters => ReadsAsWritten
    BY DEF ReadsAsWritten
<1> QED
    BY <1>1, CodesAreTheirDigits, DocumentsAreTheirValues, StringsAreTheirCharacters, PTL

-----------------------------------------------------------------------------
(* The counters of the second factors *)

\* What an assertion carries.
Data == [party: {OwnParty}, flags: {{"UP"}}, count: Nat]

SignInv ==
    /\ issued \in Seq(Data) /\ signCount \in Nat /\ seen \in Nat
    /\ signCount = Len(issued) /\ seen <= signCount
    /\ \A i \in DOMAIN issued: issued[i].count = i

MovingInv == moving \in Nat /\ accepted \in Seq(Nat) /\ EachValueOnce

\* An assertion leaves with the next count, and nothing else moves the counter.
LEMMA SignStep ==
    ASSUME SignInv, [FactorNext]_factorVars
    PROVE  SignInv'
<1>1. CASE UNCHANGED keyVars
  BY <1>1 DEF SignInv, keyVars
<1>2. ASSUME NEW r \in Requests, RefuseAssertion(r) \/ SigningFails(r) PROVE SignInv'
  BY <1>2 DEF SignInv, RefuseAssertion, SigningFails
<1>3. ASSUME NEW r \in Requests, ReturnAssertion(r) PROVE SignInv'
  <2> DEFINE data == AuthenticatorData(OwnParty, FALSE, signCount + 1)
  <2>1. signCount' = signCount + 1 /\ issued' = Append(issued, data) /\ seen' = seen
    BY <1>3 DEF ReturnAssertion
  <2>4. data \in Data /\ data.count = signCount + 1
    BY DEF SignInv, Data, AuthenticatorData
  <2> HIDE DEF data
  <2>2. /\ issued' \in Seq(Data) /\ Len(issued') = Len(issued) + 1
        /\ DOMAIN issued' = 1..(Len(issued) + 1)
    BY <2>1, <2>4 DEF SignInv
  <2>3. ASSUME NEW i \in DOMAIN issued' PROVE issued'[i].count = i
    <3>1. CASE i = Len(issued) + 1
      BY <2>1, <2>4, <3>1 DEF SignInv
    <3>2. CASE i # Len(issued) + 1
      <4>1. i \in 1..Len(issued) /\ issued'[i] = issued[i]
        BY <2>1, <2>2, <3>2 DEF SignInv
      <4> QED
        BY <4>1 DEF SignInv
    <3> QED
      BY <3>1, <3>2
  <2> QED
    BY <2>1, <2>2, <2>3 DEF SignInv
<1>4. ASSUME NEW i \in DOMAIN issued, Arrive(i) PROVE SignInv'
  <2>1. issued[i].count = i /\ i \in Nat /\ i <= signCount
    BY DEF SignInv
  <2>2. seen' \in Nat /\ seen' <= signCount
    BY <1>4, <2>1 DEF SignInv, Arrive
  <2> QED
    BY <1>4, <2>2 DEF SignInv, Arrive
<1>5. ASSUME NEW code \in Codes, VerifyAndAdvance(code) PROVE SignInv'
  BY <1>1, <1>5 DEF VerifyAndAdvance
<1> QED
  BY <1>1, <1>2, <1>3, <1>4, <1>5 DEF FactorNext, factorVars

\* The authenticator never hands out a count twice, at any width of the counter.
LEMMA CountsAssertionsAlways == FactorSpec => []CountsAssertions
<1>1. FactorInit => SignInv
  BY DEF FactorInit, SignInv
<1>2. SignInv /\ [FactorNext]_factorVars => SignInv'
  BY SignStep
<1>3. SignInv => CountsAssertions
  <2> SUFFICES ASSUME SignInv PROVE CountsAssertions
    OBVIOUS
  <2>1. ASSUME NEW i \in DOMAIN issued
        PROVE  issued[i].party = OwnParty /\ "UV" \notin issued[i].flags
    <3>1. issued[i] \in Data
      BY DEF SignInv
    <3> QED
      BY <3>1 DEF Data
  <2>2. ASSUME NEW i \in DOMAIN issued, NEW j \in DOMAIN issued, i < j
        PROVE  issued[i].count < issued[j].count
    BY <2>2 DEF SignInv
  <2> QED
    BY <2>1, <2>2 DEF SignInv, CountsAssertions
<1> QED
  BY <1>1, <1>2, <1>3, PTL DEF FactorSpec

\* A code moves the counter by one exactly when it is accepted.
LEMMA MovingStep ==
    ASSUME MovingInv, [FactorNext]_factorVars
    PROVE  MovingInv'
<1>1. CASE UNCHANGED codeVars
  BY <1>1 DEF MovingInv, EachValueOnce, codeVars
<1>2. ASSUME NEW r \in Requests, RefuseAssertion(r) \/ SigningFails(r) \/ ReturnAssertion(r)
      PROVE  MovingInv'
  BY <1>1, <1>2 DEF RefuseAssertion, SigningFails, ReturnAssertion
<1>3. ASSUME NEW i \in DOMAIN issued, Arrive(i) PROVE MovingInv'
  BY <1>1, <1>3 DEF Arrive
<1>4. ASSUME NEW code \in Codes, VerifyAndAdvance(code) PROVE MovingInv'
  <2>1. CASE UNCHANGED <<moving, accepted>>
    BY <2>1 DEF MovingInv, EachValueOnce
  <2>2. CASE moving < MaxMoving /\ moving' = moving + 1 /\ accepted' = Append(accepted, moving)
    <3>1. /\ accepted' \in Seq(Nat) /\ Len(accepted') = Len(accepted) + 1
          /\ DOMAIN accepted' = 1..(Len(accepted) + 1)
      BY <2>2 DEF MovingInv
    <3>2. ASSUME NEW i \in DOMAIN accepted'
          PROVE  accepted'[i] = Start + i - 1 /\ accepted'[i] < MaxMoving
      <4>1. CASE i = Len(accepted) + 1
        BY <2>2, <4>1, FactorAssumption DEF MovingInv, EachValueOnce
      <4>2. CASE i # Len(accepted) + 1
        <5>1. i \in 1..Len(accepted) /\ accepted'[i] = accepted[i]
          BY <2>2, <3>1, <4>2 DEF MovingInv
        <5> QED
          BY <5>1 DEF MovingInv, EachValueOnce
      <4> QED
        BY <4>1, <4>2
    <3>3. moving' = Start + Len(accepted') /\ moving' \in Nat
      BY <2>2, <3>1, FactorAssumption DEF MovingInv, EachValueOnce
    <3> QED
      BY <3>1, <3>2, <3>3 DEF MovingInv, EachValueOnce
  <2> QED
    BY <1>4, <2>1, <2>2 DEF VerifyAndAdvance
<1> QED
  BY <1>1, <1>2, <1>3, <1>4 DEF FactorNext, factorVars

\* No value of the HOTP counter is accepted twice, and the last one never.
LEMMA EachValueOnceAlways == FactorSpec => []EachValueOnce
<1>1. FactorInit => MovingInv
  BY FactorAssumption DEF FactorInit, MovingInv, EachValueOnce
<1>2. MovingInv /\ [FactorNext]_factorVars => MovingInv'
  BY MovingStep
<1>3. MovingInv => EachValueOnce
  BY DEF MovingInv
<1> QED
  BY <1>1, <1>2, <1>3, PTL DEF FactorSpec

\* Neither counter serves twice, for counters of any width, any requests and any codes, and
\* whatever fails, is lost or is overtaken.
THEOREM EachCountOnceAlways == FactorSpec => []EachCountOnce
<1>1. CountsAssertions /\ EachValueOnce => EachCountOnce
  BY DEF EachCountOnce
<1> QED
  BY <1>1, CountsAssertionsAlways, EachValueOnceAlways, PTL
=============================================================================
