---------------------------- MODULE OneTimeCodes ----------------------------
(***************************************************************************)
(* HOTP and TOTP codes (authn/totp.rs): how a code is cut from an HMAC, and *)
(* how a typed one is compared with it.  A code is its sequence of digits,  *)
(* and a check is a set: of its one verdict, or of none when it cannot be   *)
(* made.                                                                    *)
(***************************************************************************)
EXTENDS Naturals, SequencesExt

CONSTANTS
    Hmac,       \* hmac(): the digest of each counter under the secret, as bytes
    MinSecret   \* 16

\* The four bytes at the offset that the digest's last half-byte names, without the top bit.
Truncated(digest) ==
    LET at == (Last(digest) % 16) + 1
    IN  (digest[at] % 128) * 2^24 + digest[at + 1] * 2^16 + digest[at + 2] * 2^8 + digest[at + 3]

\* Written with all its digits, leading zeros too.
Written(number, digits) == [i \in 1 .. digits |-> (number \div 10^(digits - i)) % 10]

Hotp(secret, counter, digits) ==
    IF secret.length < MinSecret \/ digits \notin 6 .. 8 THEN {}
    ELSE {Written(Truncated(Hmac[counter]) % 10^digits, digits)}

Totp(secret, time, period, digits) ==
    IF period = 0 THEN {} ELSE Hotp(secret, time \div period, digits)

Differences(left, right) == {i \in DOMAIN left \cap DOMAIN right: left[i] # right[i]}

\* Mutant: the bytes are compared as far as both go.
EqualSoFar(left, right) == Differences(left, right) = {}

ConstantTimeEq(left, right) == Len(left) = Len(right) /\ Differences(left, right) = {}

VerifyHotp(secret, counter, digits, code) ==
    {ConstantTimeEq(expected, code): expected \in Hotp(secret, counter, digits)}

VerifyTotp(secret, time, period, digits, code) ==
    {ConstantTimeEq(expected, code): expected \in Totp(secret, time, period, digits)}
=============================================================================
