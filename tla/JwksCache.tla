------------------------------ MODULE JwksCache ------------------------------
(***************************************************************************)
(* PublicClientApplication::verify_tokens (client.rs) over the key set that *)
(* every verification of one client shares.  A verification looks its key   *)
(* up, fetches the realm's key set when the key is not there, stores what   *)
(* it fetched for everyone, and checks its token against whatever set is    *)
(* stored by then: the lock is let go between those steps.  Meanwhile the   *)
(* realm rotates its keys.                                                  *)
(***************************************************************************)
EXTENDS Naturals, Sequences

CONSTANTS
    Calls,        \* verifications under way
    Keys,         \* the realm's keys, as JWKs; a field that is not there is Absent
    KeySets,      \* the key sets the realm publishes at one time or another
    Tokens,       \* the ID tokens presented; one that is not there has no parts
    MaxVersions   \* bound: the key sets published while the client lives

ASSUME JwksCacheAssumption ==
    /\ KeySets \subseteq SUBSET Keys
    /\ \A k \in Keys: DOMAIN k = {"kid", "type", "size", "use", "alg", "ops"}
    /\ \A t \in Tokens: DOMAIN t = {"parts", "kid", "alg", "signer", "claims"}
    /\ MaxVersions \in Nat \ {0}

VARIABLES
    published,  \* the key sets the realm has published, the last one current
    cached,     \* PublicClientApplication::jwks, as the version of the set it holds
    call,       \* where each verification stands
    token,      \* the token each verifies
    answer,     \* the version of the set that answers its fetch, 0 before that
    result,     \* how it ended
    during,     \* ghost: the versions that were current while it ran
    raced       \* ghost: another verification stored a key set while it ran

vars == <<published, cached, call, token, answer, result, during, raced>>

Versions == 1..MaxVersions

Results == {"none", "accepted", "claims", "signature", "unfit", "unknown", "malformed",
            "refused", "fetch", "crypto", "dropped"}

TypeOK ==
    /\ published \in Seq(KeySets) /\ Len(published) \in Versions
    /\ cached \in 1..Len(published)
    /\ call \in [Calls -> {"idle", "fetching", "served", "checking", "done"}]
    /\ token \in [Calls -> Tokens]
    /\ answer \in [Calls -> 0..Len(published)]
    /\ result \in [Calls -> Results]
    /\ during \in [Calls -> SUBSET (1..Len(published))]
    /\ raced \in [Calls -> BOOLEAN]

\* with_transport: the client exists only once it has fetched a key set.
Init ==
    /\ published \in {<<keys>>: keys \in KeySets \ {{}}}
    /\ cached = 1
    /\ call = [c \in Calls |-> "idle"]
    /\ token \in [Calls -> Tokens]
    /\ answer = [c \in Calls |-> 0]
    /\ result = [c \in Calls |-> "none"]
    /\ during = [c \in Calls |-> {}]
    /\ raced = [c \in Calls |-> FALSE]

-----------------------------------------------------------------------------
(* The checks of token.rs *)

Absent == "absent"

\* split_token: three parts and none of them empty.
Split(t) == Len(t.parts) = 3 /\ \A i \in 1..3: t.parts[i] # "empty"

\* decode_json of the header or the claims, and the signature's base64.
Decodes(t, part) == t.parts[part] # "junk"

\* token_key_info: a header that names a key, and an algorithm the client knows.
Named(t) == Split(t) /\ Decodes(t, 1) /\ t.kid # Absent /\ t.alg \in {"RS256", "ES256"}

\* The claims and the signature can be read too.
Legible(t) == Decodes(t, 2) /\ Decodes(t, 3)

KeyType(alg) == IF alg = "ES256" THEN "P-256" ELSE "RSA"

\* key_eligible: the key ID, and a key type, use and operations that fit the algorithm.
Eligible(k, t) ==
    /\ k.kid = t.kid /\ k.type = KeyType(t.alg)
    /\ k.use \in {Absent, "sig"} /\ k.alg \in {Absent, t.alg}
    /\ k.ops \cap {Absent, "verify"} # {}

\* crypto::verify has a key of the sizes it knows, in bytes: an RSA modulus, or both coordinates.
Importable(k) == k.size \in IF k.type = "RSA" THEN {256, 384, 512} ELSE {64}

SignatureHolds(k, t) == Importable(k) /\ k = t.signer

Knows(keys, t) == \E k \in keys: Eligible(k, t)

\* Mutant: a key of the right ID and algorithm is enough.
CheckedUnsigned(keys, t) ==
    IF Knows(keys, t) THEN (IF t.claims = "hold" THEN "accepted" ELSE "claims")
    ELSE IF \E k \in keys: k.kid = t.kid THEN "unfit"
    ELSE "unknown"

\* verify_id_token: some eligible key made the signature, and then the claims hold.  A key that
\* cannot be imported does not keep the next one from being tried.
Checked(keys, t) ==
    IF ~Legible(t) THEN "malformed"
    ELSE IF \E k \in keys: Eligible(k, t) /\ SignatureHolds(k, t)
    THEN (IF t.claims = "hold" THEN "accepted" ELSE "claims")
    ELSE IF Knows(keys, t) THEN "signature"
    ELSE IF \E k \in keys: k.kid = t.kid THEN "unfit"
    ELSE "unknown"

-----------------------------------------------------------------------------
(* A verification *)

Set(f, c, v) == [f EXCEPT ![c] = v]

End(c, r) == call' = Set(call, c, "done") /\ result' = Set(result, c, r)

Running(c) == call[c] \notin {"idle", "done"}

\* No ID token, or one that names no key: no key set is asked for.
Refuse(c) ==
    /\ call[c] = "idle" /\ ~Named(token[c]) /\ End(c, "refused")
    /\ UNCHANGED <<published, cached, token, answer, during, raced>>

\* Mutant: an unknown key is not fetched again.
LookUpOnly(c) ==
    /\ call[c] = "idle" /\ Named(token[c])
    /\ call' = Set(call, c, "checking")
    /\ during' = Set(during, c, {Len(published)})
    /\ UNCHANGED <<published, cached, token, answer, result, raced>>

\* Mutant: the key set is fetched for every verification.
FetchAlways(c) ==
    /\ call[c] = "idle" /\ Named(token[c])
    /\ call' = Set(call, c, "fetching")
    /\ during' = Set(during, c, {Len(published)})
    /\ UNCHANGED <<published, cached, token, answer, result, raced>>

\* The look-up, under the read lock; the lock is let go with it.
LookUp(c) ==
    /\ call[c] = "idle" /\ Named(token[c])
    /\ call' = Set(call, c, IF Knows(published[cached], token[c])
                            THEN "checking" ELSE "fetching")
    /\ during' = Set(during, c, {Len(published)})
    /\ UNCHANGED <<published, cached, token, answer, result, raced>>

\* Mutant: an answer without keys is taken too.
ServedEmpty(c) ==
    /\ call[c] = "fetching"
    /\ call' = Set(call, c, "served") /\ answer' = Set(answer, c, Len(published))
    /\ UNCHANGED <<published, cached, token, result, during, raced>>

\* fetch_jwks takes the set the realm publishes when it answers, if it has keys.
Served(c) ==
    /\ call[c] = "fetching" /\ published[Len(published)] # {}
    /\ call' = Set(call, c, "served") /\ answer' = Set(answer, c, Len(published))
    /\ UNCHANGED <<published, cached, token, result, during, raced>>

\* The request fails, or the answer is no 200, no JSON or holds no key.
FetchFails(c) ==
    /\ call[c] = "fetching" /\ End(c, "fetch")
    /\ UNCHANGED <<published, cached, token, answer, during, raced>>

\* The caller drops the verification while it waits for the key set.
DropCall(c) ==
    /\ call[c] \in {"fetching", "served"} /\ End(c, "dropped")
    /\ UNCHANGED <<published, cached, token, answer, during, raced>>

\* The fetched set replaces the shared one, whichever was stored meanwhile.
Store(c) ==
    /\ call[c] = "served"
    /\ call' = Set(call, c, "checking") /\ cached' = answer[c]
    /\ raced' = [d \in Calls |-> raced[d] \/ (d # c /\ Running(d))]
    /\ UNCHANGED <<published, token, answer, result, during>>

\* The token is checked against the shared set, under a read lock of its own.
Check(c) ==
    /\ call[c] = "checking"
    /\ End(c, Checked(published[cached], token[c]))
    /\ UNCHANGED <<published, cached, token, answer, during, raced>>

\* The crypto library cannot be initialised.
CryptoFails(c) ==
    /\ call[c] = "checking" /\ Legible(token[c]) /\ Knows(published[cached], token[c])
    /\ End(c, "crypto")
    /\ UNCHANGED <<published, cached, token, answer, during, raced>>

-----------------------------------------------------------------------------
(* The realm *)

\* The realm publishes another key set: a key is added, retired or disabled.
Rotate ==
    /\ Len(published) < MaxVersions
    /\ \E keys \in KeySets \ {published[Len(published)]}:
           published' = Append(published, keys)
    /\ during' = [c \in Calls |-> IF Running(c) THEN during[c] \cup {Len(published) + 1}
                                  ELSE during[c]]
    /\ UNCHANGED <<cached, call, token, answer, result, raced>>

Fetched(c) == Served(c) \/ FetchFails(c)

Step(c) ==
    \/ Refuse(c) \/ LookUp(c) \/ Fetched(c) \/ DropCall(c)
    \/ Store(c) \/ Check(c) \/ CryptoFails(c)

\* Calls that have all ended: nothing is left to do.
Done == (\A c \in Calls: call[c] = "done") /\ UNCHANGED vars

Next == (\E c \in Calls: Step(c)) \/ Rotate \/ Done

Spec == Init /\ [][Next]_vars

-----------------------------------------------------------------------------
(* Properties *)

\* verify_id_token: an accepted token carries claims that hold and was signed by the key its
\* header names, one the realm published since the client started.
AcceptedWasSigned ==
    \A c \in Calls: result[c] = "accepted" =>
        /\ token[c].claims = "hold"
        /\ \E v \in 1..Len(published): \E k \in published[v]:
               k = token[c].signer /\ Eligible(k, token[c])

\* fetch_jwks refuses a set without keys, so an answer of a realm that is being set up anew
\* never empties the set every other verification uses.
KeysStayUsable == published[cached] # {}

\* A key in every key set the realm has published, but for sets without any key, verifies every
\* token it signed: rotation, failed fetches, the empty answer of a realm that is being set up anew
\* and other verifications that race with this one cannot take it out of the shared set.
LastingKeyVerifies ==
    \A c \in Calls:
        (/\ call[c] = "done"
         /\ Named(token[c]) /\ Legible(token[c]) /\ token[c].claims = "hold"
         /\ \A v \in 1..Len(published): published[v] # {} =>
                \E k \in published[v]: SignatureHolds(k, token[c]) /\ Eligible(k, token[c]))
        => result[c] \in {"accepted", "crypto"}

\* The refetch on an unknown key: a token of a key published all the time its verification ran
\* is not refused for want of the key, unless another verification stored a set meanwhile.
LoneCallFindsKey ==
    \A c \in Calls: (result[c] \in {"unfit", "unknown"} /\ ~raced[c]) =>
        \E v \in during[c]: ~Knows(published[v], token[c])
=============================================================================
