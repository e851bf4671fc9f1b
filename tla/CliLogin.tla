------------------------------ MODULE CliLogin ------------------------------
(***************************************************************************)
(* himmelcloak-cli test-login (test_login.rs): the loop that asks the user  *)
(* for what the login waits on.  The terminal and its interrupt handler are *)
(* TerminalEcho's; the login is what LoginContract promises its caller,     *)
(* which LoginFlow is shown to keep.                                        *)
(***************************************************************************)
EXTENDS TerminalEcho

VARIABLES
    phase,      \* LoginContract: where the login stands
    spent,      \* LoginContract: its code was sent
    challenge,  \* what the waiting login asks for
    submitted,  \* password_submitted
    typed,      \* read_input holds a line it will return
    status      \* what the command told its caller: "none", "Ok" or "Err"

loginVars == <<phase, spent, challenge, submitted, typed, status>>
cliVars == <<vars, loginVars>>

Engine == INSTANCE LoginContract

Challenges == {"Username", "Password", "Other"}

CliTypeOK ==
    /\ TypeOK /\ Engine!ContractTypeOK
    /\ challenge \in Challenges \cup {None}
    /\ submitted \in BOOLEAN /\ typed \in BOOLEAN
    /\ status \in {"none", "Ok", "Err"}

CliInit ==
    /\ Init /\ Engine!ContractInit
    /\ challenge = None /\ submitted = FALSE /\ typed = FALSE /\ status = "none"

-----------------------------------------------------------------------------
(* Returning *)

\* run returns and drops the flow: a login that waits is abandoned.
Return(told, left) ==
    /\ ended = "no" /\ ended' = "main" /\ status' = told /\ phase' = left
    /\ UNCHANGED <<found, echo, saved, lock, main, handler, failed, spent, challenge, submitted, typed>>

Dropped == IF phase = "waiting" THEN "abandoned" ELSE phase

-----------------------------------------------------------------------------
(* The engine, between the command's calls *)

InLogin == ended = "no" /\ main = "login"

EngineStep == InLogin /\ UNCHANGED <<vars, submitted, typed, status>>

EngineAsks == EngineStep /\ Engine!Ask /\ challenge' \in Challenges

EngineGoesOn == EngineStep /\ (Engine!Spend \/ Engine!Complete \/ Engine!Break) /\ UNCHANGED challenge

-----------------------------------------------------------------------------
(* The command *)

\* load_config, install_interrupt_handler and the runtime.
SetUp == Main("config", "login") /\ UNCHANGED <<found, echo, saved, lock, handler, failed, ended, loginVars>>

SetUpFails == main = "config" /\ Return("Err", phase)

\* with_config and initiate_auth_flow.
Initiate == EngineStep /\ Engine!Start /\ UNCHANGED challenge

ConnectFails == InLogin /\ phase = "unstarted" /\ Return("Err", phase)

\* AuthStep::Complete is the only way to success.
TakeOutcome ==
    /\ InLogin /\ phase \in Engine!Outcomes
    /\ Return(IF phase = "Finished" THEN "Ok" ELSE "Err", phase)

Asked(c) == InLogin /\ phase = "waiting" /\ challenge = c

\* Mutant: a refused password is asked for again.
RepeatedAnyhow == FALSE

\* A page for the user's name or password after the password was submitted is a rejection.
Repeated == submitted /\ challenge \in {"Username", "Password"}

\* Mutant: the login is cancelled, and the loop ended as if it were complete.
RefuseChallengeQuietly ==
    /\ InLogin /\ phase = "waiting" /\ (Repeated \/ challenge = "Other")
    /\ Return("Ok", "Cancelled")

RefuseChallenge ==
    /\ InLogin /\ phase = "waiting" /\ (Repeated \/ challenge = "Other")
    /\ Return("Err", "Cancelled")

\* continue_auth_flow takes the answer, or finds the login's time over.
Continue == phase' \in {"working", "Expired"} /\ challenge' = None /\ UNCHANGED <<spent, status>>

AnswerUsername ==
    /\ Asked("Username") /\ ~Repeated
    /\ Continue /\ UNCHANGED <<vars, submitted, typed>>

\* read_input: no output, no input, or an empty line.
UsernameFails == Asked("Username") /\ ~Repeated /\ Return("Err", Dropped)

PromptPassword == Asked("Password") /\ ~Repeated /\ HideLocks /\ UNCHANGED loginVars

Prompting == PromptRuns /\ UNCHANGED loginVars

PromptUnwritten == PromptFails /\ UNCHANGED loginVars

\* A line that is not empty, or anything else stdin answers.
ReadLine == LineRead /\ typed' \in BOOLEAN /\ UNCHANGED <<phase, spent, challenge, submitted, status>>

\* restore_terminal(TCSANOW): its error ends read_input, whatever was read.
RestoreAfterRead ==
    /\ Restores("restoring", "guard")
    /\ typed' = (typed /\ saved' = None)
    /\ UNCHANGED <<phase, spent, challenge, submitted, status>>

\* read_input returns the line, and it is the login's next answer.
AnswerPassword ==
    /\ Main("after", "login") /\ typed
    /\ submitted' = TRUE /\ typed' = FALSE
    /\ Continue
    /\ UNCHANGED <<found, echo, saved, lock, handler, failed, ended>>

\* read_input fails: already, or writing the line break.
PasswordFails == main = "after" /\ Return("Err", Dropped)

Interrupted == Interrupt /\ UNCHANGED loginVars

HandlerGoesOn == HandlerRuns /\ UNCHANGED loginVars

-----------------------------------------------------------------------------
(* main *)

\* The status the process leaves, once it has ended.
ExitStatus ==
    CASE ended = "handler" -> 130
      [] ended = "main" /\ status = "Ok" -> 0
      [] ended = "main" /\ status = "Err" -> 1

-----------------------------------------------------------------------------
CommandRuns ==
    \/ SetUp \/ SetUpFails \/ Initiate \/ ConnectFails \/ TakeOutcome \/ RefuseChallenge
    \/ Prompting \/ RestoreAfterRead \/ AnswerPassword \/ PasswordFails

UserActs == AnswerUsername \/ UsernameFails \/ PromptPassword \/ PromptUnwritten \/ ReadLine

EngineRuns == EngineAsks \/ EngineGoesOn

Ended == ended # "no" /\ UNCHANGED cliVars

Next == CommandRuns \/ UserActs \/ EngineRuns \/ Interrupted \/ HandlerGoesOn \/ Ended

CliSafety == CliInit /\ [][Next]_cliVars

\* Both threads are scheduled, the mutex is given up by whoever holds it, and the engine returns
\* from every call (LoginContract).  Nothing makes the user type or a signal come.
Spec == CliSafety /\ WF_cliVars(CommandRuns) /\ WF_cliVars(HandlerGoesOn) /\ WF_cliVars(EngineRuns)

-----------------------------------------------------------------------------
(* Properties *)

\* Once a password is submitted the command needs nobody any more: whatever pages Keycloak goes
\* on to show, it ends, and never asks for a second password (password_submitted).
SubmittedEnds == submitted ~> ended # "no"

\* The exit status is 0 for a login that finished and for no other, and no login is left for
\* anyone to answer: it finished, was cancelled for its pages, or was dropped with the prompt that
\* failed.  An interrupt is never told as a success.
LeavesNoLogin ==
    /\ ended = "main" => phase \notin {"working", "waiting"}
    /\ ended # "no" => (ExitStatus = 0 <=> ended = "main" /\ phase = "Finished")
    /\ phase = "abandoned" => ~submitted
=============================================================================
