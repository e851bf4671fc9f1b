---------------------------- MODULE MCTransport ----------------------------
(***************************************************************************)
(* Three calls over two slots: one call waits while two hold slots, and the *)
(* order of the three stays free.                                           *)
(***************************************************************************)
EXTENDS Transport

CONSTANTS r1, r2, r3

MCCalls == {r1, r2, r3}
=============================================================================
