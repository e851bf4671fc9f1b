----------------------------- MODULE MCSession -----------------------------
(***************************************************************************)
(* Two sessions of two users at one client, and a second client to pass     *)
(* them to; two calls, of one slot or of each, one after the other or at    *)
(* once.                                                                    *)
(***************************************************************************)
EXTENDS Session, TLC

CONSTANTS w1, w2, c1, c2, s1, s2, alice, bob, app, other

MCSlots == {w1, w2}
MCCalls == {c1, c2}
MCSessions == {s1, s2}
MCClients == {app, other}
MCSubject == s1 :> alice @@ s2 :> bob
MCClient == s1 :> app @@ s2 :> app
=============================================================================
