---------------------------- MODULE MCJwksCache ----------------------------
(***************************************************************************)
(* Two verifications, so that one can store its set between any two steps   *)
(* of the other, over key sets of a realm that rotates from one key to      *)
(* another, reuses a key ID for another algorithm, has a key that encrypts  *)
(* and one of an unknown size, and may publish no key.                      *)
(***************************************************************************)
EXTENDS JwksCache

CONSTANTS v1, v2

MCCalls == {v1, v2}

Old == [kid |-> "old", type |-> "RSA", size |-> 256, use |-> "sig", alg |-> "RS256", ops |-> {Absent}]
New == [Old EXCEPT !.kid = "new", !.alg = Absent, !.ops = {"sign", "verify"}]
Cut == [Old EXCEPT !.size = 128]
OldAgain == [Old EXCEPT !.type = "P-256", !.size = 64, !.alg = "ES256"]
Sealing == [New EXCEPT !.use = "enc"]

MCKeys == {Old, New, Cut, OldAgain, Sealing}
MCKeySets == {{Old, Cut}, {Old, New, Sealing}, {New, OldAgain}, {Cut}, {}}

Signed(k) == [parts |-> <<"json", "json", "bytes">>, kid |-> k.kid, alg |-> "RS256", signer |-> k, claims |-> "hold"]

MCTokens == {
    Signed(Old), Signed(New),
    [Signed(New) EXCEPT !.signer = Old],       \* names another key than the one that signed
    [Signed(Old) EXCEPT !.claims = "fail"],    \* expired, or of another client or issuer
    [Signed(New) EXCEPT !.parts[3] = "junk"],  \* its signature is no base64
    [Signed(Old) EXCEPT !.alg = "none"],
    [Signed(Old) EXCEPT !.parts = <<>>]}       \* no ID token
=============================================================================
