------------------------------ MODULE IdClaims ------------------------------
(***************************************************************************)
(* What verify_id_token asks of a token's claims once its signature holds   *)
(* (token.rs, validate_claims): whom it is from, whom it is for and when it *)
(* counts.  Times are u64 seconds, whose sums stay at the largest.          *)
(***************************************************************************)
EXTENDS Naturals, FiniteSets, SequencesExt

CONSTANTS Latest,  \* the largest time, u64::MAX
          Leeway   \* how far ahead nbf and iat may lie

ASSUME ClaimsAssumption == Latest \in Nat /\ Leeway \in Nat

Time == 0 .. Latest

\* Not there, and there but not a u64.
NoTime  == Latest + 1
BadTime == Latest + 2

None == "absent"
NotText == "not a string"

\* Mutant: the sum wraps as u64 does.
WrappingAdd(a, b) == (a + b) % (Latest + 1)

SaturatingAdd(a, b) == IF a + b > Latest THEN Latest ELSE a + b

\* audience_matches: aud is a string or an array, and an array of several needs azp.
AudienceMatches(claims, client) ==
    /\ claims.azp \in {None, client}
    /\ \/ claims.aud.kind = "one" /\ claims.aud.of = <<client>>
       \/ /\ claims.aud.kind = "many"
          /\ NotText \notin ToSet(claims.aud.of) /\ client \in ToSet(claims.aud.of)
          /\ Len(claims.aud.of) = 1 \/ claims.azp = client

Begun(time, now) == time \in Time /\ time <= SaturatingAdd(now, Leeway)

ValidateClaims(claims, issuer, client, nonce, now) ==
    /\ claims.iss = issuer
    /\ AudienceMatches(claims, client)
    /\ claims.exp \in Time /\ claims.exp > now
    /\ claims.nbf = NoTime \/ Begun(claims.nbf, now)
    /\ Begun(claims.iat, now)
    /\ nonce # None => claims.nonce = nonce
    /\ claims.sub \notin {None, NotText, ""}
=============================================================================
