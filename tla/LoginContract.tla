--------------------------- MODULE LoginContract ---------------------------
(***************************************************************************)
(* What an AuthFlow promises its caller, without pages, redirects, requests *)
(* or secrets: a login works, waits on the caller, and ends exactly once;   *)
(* the one-time authorization code is spent at most once, a login that      *)
(* spent it never waits again, and a login that works always stops working. *)
(***************************************************************************)
EXTENDS Naturals

VARIABLES
    phase,  \* where the login stands, as its caller can tell
    spent   \* the authorization code has been sent to the token endpoint

contractVars == <<phase, spent>>

Outcomes == {"Cancelled", "Expired", "Failed", "Finished"}
Phases   == {"unstarted", "working", "waiting", "abandoned"} \cup Outcomes

ContractTypeOK == phase \in Phases /\ spent \in BOOLEAN

ContractInit == phase = "unstarted" /\ spent = FALSE

Start == phase = "unstarted" /\ phase' = "working" /\ UNCHANGED spent

\* Keycloak's page is shown to the caller: only before the code is spent.
Ask == phase = "working" /\ ~spent /\ phase' = "waiting" /\ UNCHANGED spent

\* The last answer of a page sets the login to work again.
Work == phase = "waiting" /\ phase' = "working" /\ UNCHANGED spent

Spend == phase = "working" /\ ~spent /\ spent' = TRUE /\ UNCHANGED phase

Complete == phase = "working" /\ spent /\ phase' = "Finished" /\ UNCHANGED spent

\* Any refusal, error, time limit or abandoned step.
Break ==
    /\ phase = "working"
    /\ phase' \in {"Failed", "Expired"}
    /\ UNCHANGED spent

\* The caller cancels, or finds the time limit passed.
Stop ==
    /\ phase = "waiting"
    /\ phase' \in {"Cancelled", "Expired", "abandoned"}
    /\ UNCHANGED spent

ContractNext == Start \/ Ask \/ Work \/ Spend \/ Complete \/ Break \/ Stop

ContractSafety == ContractInit /\ [][ContractNext]_contractVars

ContractSpec == ContractSafety /\ WF_contractVars(Ask \/ Complete \/ Break)
=============================================================================
