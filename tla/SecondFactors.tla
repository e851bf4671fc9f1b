---------------------------- MODULE SecondFactors ----------------------------
(***************************************************************************)
(* The two counters of the second factors: the signature counter of the     *)
(* virtual WebAuthn authenticator (authenticator/software.rs) with the      *)
(* relying party that compares it, and the moving counter of an HOTP        *)
(* credential (authn/totp.rs).                                              *)
(*                                                                          *)
(* Assertions are lost, delayed, overtaken or delivered again on their way  *)
(* to the relying party: a login can end at any step and be started anew.   *)
(* Both counters are machine integers, with their last value a constant.    *)
(***************************************************************************)
EXTENDS Naturals, Sequences, FiniteSets

CONSTANTS
    Requests,       \* WebAuthnGetRequest: [rpId, allow, uv]; allow is a Seq([id, length])
    OwnParty,       \* InMemoryCredential::rp_id
    OwnCredential,  \* InMemoryCredential::credential_id
    MaxAllowed,     \* MAX_ALLOW_CREDENTIALS
    MaxIdLength,    \* MAX_CREDENTIAL_ID_LEN
    MaxSign,        \* u32::MAX
    MaxMoving,      \* u64::MAX
    Start,          \* the HOTP counter the credential begins with
    Codes,          \* the codes a user may type
    CodeAt          \* hotp(): the code of each value of the counter (OneTimeCodes)

ASSUME FactorAssumption ==
    /\ MaxSign \in Nat /\ MaxMoving \in Nat /\ Start \in 0..MaxMoving
    /\ CodeAt \in [0..MaxMoving -> Codes]

ASSUME PartyAssumption == OwnParty # ""

VARIABLES
    signCount,  \* InMemoryCredential::sign_count
    issued,     \* the authenticator data of the assertions returned, in order
    seen,       \* the relying party's stored count
    answer,     \* what get_assertion returned last
    moving,     \* the HOTP counter
    accepted,   \* the values of the counter a code was accepted at, in order
    checked     \* what verify_and_advance_hotp returned last

keyVars  == <<signCount, issued, seen, answer>>
codeVars == <<moving, accepted, checked>>
factorVars == <<keyVars, codeVars>>

\* A credential is made for one relying party, with its count at zero.
FactorInit ==
    /\ signCount = 0 /\ issued = <<>> /\ seen = 0 /\ answer = "none"
    /\ moving = Start /\ accepted = <<>> /\ checked = "none"

-----------------------------------------------------------------------------
(* The virtual authenticator *)

WellFormed(request) ==
    /\ request.rpId # "" /\ Len(request.allow) <= MaxAllowed
    /\ \A i \in DOMAIN request.allow: request.allow[i].length \in 1..MaxIdLength

ForThis(request) ==
    /\ request.rpId = OwnParty
    /\ \E i \in DOMAIN request.allow: request.allow[i].id = OwnCredential

\* validate_request, which looks at the list before it looks for itself in it.
Validated(request) ==
    IF ~WellFormed(request) \/ ~ForThis(request) THEN "rejected"
    ELSE IF request.uv = "required" THEN "unsupported"
    ELSE "valid"

\* What an assertion signs: for whom, what of the user was checked, and the count.
AuthenticatorData(party, verified, count) ==
    [party |-> party, flags |-> IF verified THEN {"UP", "UV"} ELSE {"UP"}, count |-> count]

\* get_assertion refuses the request, or has no count left to sign with.
RefuseAssertion(request) ==
    /\ answer' = IF Validated(request) = "valid" THEN "rejected" ELSE Validated(request)
    /\ Validated(request) = "valid" => signCount = MaxSign
    /\ UNCHANGED <<signCount, issued, seen, codeVars>>

\* Mutant: the count is kept although the signature failed.
SigningFailsLate(request) ==
    /\ Validated(request) = "valid" /\ signCount < MaxSign
    /\ signCount' = signCount + 1 /\ answer' = "crypto"
    /\ UNCHANGED <<issued, seen, codeVars>>

\* Hashing, signing or encoding fails: the next count was not stored yet.
SigningFails(request) ==
    /\ Validated(request) = "valid" /\ signCount < MaxSign
    /\ answer' = "crypto"
    /\ UNCHANGED <<signCount, issued, seen, codeVars>>

\* get_assertion returns an assertion, and stores its count as its last step.
ReturnAssertion(request) ==
    /\ Validated(request) = "valid" /\ signCount < MaxSign
    /\ signCount' = signCount + 1
    /\ issued' = Append(issued, AuthenticatorData(OwnParty, FALSE, signCount + 1))
    /\ answer' = "assertion"
    /\ UNCHANGED <<seen, codeVars>>

\* An assertion issued some time ago reaches the relying party, which takes it if it is the
\* party's, a user was there, and its count is beyond the last one it took.
Arrive(i) ==
    /\ issued[i].party = OwnParty /\ "UP" \in issued[i].flags
    /\ seen' = IF issued[i].count > seen THEN issued[i].count ELSE seen
    /\ UNCHANGED <<signCount, issued, answer, codeVars>>

-----------------------------------------------------------------------------
(* The HOTP counter *)

\* Mutant: a code moves the counter whether it matches or not.
VerifyMovesAlways(code) ==
    /\ moving < MaxMoving /\ moving' = moving + 1
    /\ \/ code = CodeAt[moving] /\ checked' = "accepted" /\ accepted' = Append(accepted, moving)
       \/ code # CodeAt[moving] /\ checked' = "wrong" /\ UNCHANGED accepted
    /\ UNCHANGED keyVars

\* verify_and_advance_hotp
VerifyAndAdvance(code) ==
    /\ \/ /\ code # CodeAt[moving]
          /\ checked' = "wrong" /\ UNCHANGED <<moving, accepted>>
       \/ /\ code = CodeAt[moving] /\ moving < MaxMoving
          /\ moving' = moving + 1 /\ accepted' = Append(accepted, moving) /\ checked' = "accepted"
       \/ /\ code = CodeAt[moving] /\ moving = MaxMoving
          /\ checked' = "exhausted" /\ UNCHANGED <<moving, accepted>>
    /\ UNCHANGED keyVars

FactorNext ==
    \/ \E request \in Requests: RefuseAssertion(request) \/ SigningFails(request) \/ ReturnAssertion(request)
    \/ \E i \in DOMAIN issued: Arrive(i)
    \/ \E code \in Codes: VerifyAndAdvance(code)

FactorSpec == FactorInit /\ [][FactorNext]_factorVars

-----------------------------------------------------------------------------
\* The counter counts the assertions that left the authenticator, no more and no less, and each
\* left with a count of its own that is beyond every earlier one: a failed signature does not
\* use a count up, and the last count is not used again.  So whatever was lost or overtaken, the
\* relying party has seen no count beyond the last one, and takes the next assertion.  None
\* claims that its user was verified, or is for another party (software.rs: get_assertion).
CountsAssertions ==
    /\ signCount = Len(issued) /\ seen <= signCount
    /\ \A i, j \in DOMAIN issued: i < j => issued[i].count < issued[j].count
    /\ \A i \in DOMAIN issued: issued[i].party = OwnParty /\ "UV" \notin issued[i].flags

\* The HOTP counter has moved once for each code it accepted, and accepted no value of it twice;
\* the last value is never accepted, so it is not accepted for ever either (totp.rs:
\* verify_and_advance_hotp).
EachValueOnce ==
    /\ moving = Start + Len(accepted)
    /\ \A i \in DOMAIN accepted: accepted[i] = Start + i - 1 /\ accepted[i] < MaxMoving

\* Neither counter serves twice: no two assertions carry one count, and no value of the HOTP
\* counter lets two codes in, at the counters' last values too and whatever fails.
EachCountOnce == CountsAssertions /\ EachValueOnce
=============================================================================
