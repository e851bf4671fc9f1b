----------------------------- MODULE MCCliLogin -----------------------------
(***************************************************************************)
(* One command, its two threads and its login; nothing is bounded.          *)
(***************************************************************************)
EXTENDS CliLogin
=============================================================================
