---------------------------- MODULE MCSyncUsers ----------------------------
(***************************************************************************)
(* Files that are empty, at their limit or one past it, and four users, one *)
(* of them listed without a name, in pages of at most two and a limit of    *)
(* three members: a group of three valid users fits, one of four does not,  *)
(* and changes fall before, on and behind the page read.                    *)
(***************************************************************************)
EXTENDS SyncUsers

CONSTANTS ann, bob, eve, nameless

MCUsers == {ann, bob, eve, nameless}

MCBlank == {nameless}
=============================================================================
