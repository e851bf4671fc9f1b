---------------------------- MODULE MCLoginFlow ----------------------------
(***************************************************************************)
(* Two clients, and a realm with a username-and-password page, a one-time-  *)
(* code page, a page that asks nothing and a page no factor handles.        *)
(***************************************************************************)
EXTENDS LoginFlow

CONSTANTS c1, c2

MCClients    == {c1, c2}
MCKinds      == {"login", "otp", "blank", "alien"}
MCSupported  == {"login", "otp", "blank"}
MCChallenges == {"Username", "Password", "OneTimeCode"}
MCAnswers    == {"name", "secret", "code", "wrong-device-code"}

MCAccepts == [Username |-> {"name"}, Password |-> {"secret"}, OneTimeCode |-> {"code"}]

MCAsks ==
    [login |-> [h \in BOOLEAN |-> IF h THEN <<"Password">> ELSE <<"Username", "Password">>],
     otp   |-> [h \in BOOLEAN |-> <<"OneTimeCode">>],
     blank |-> [h \in BOOLEAN |-> <<>>],
     alien |-> [h \in BOOLEAN |-> <<>>]]
=============================================================================
