--------------------------- MODULE CliLoginProofs ---------------------------
(***************************************************************************)
(* The test-login command and its interrupt handler, at every interleaving: *)
(* the terminal is put back as it was found, the password prompt hides what *)
(* is typed, no login is left for anyone to answer, and the command is a    *)
(* caller the login's contract allows.                                      *)
(***************************************************************************)
EXTENDS CliLogin, TLAPS

-----------------------------------------------------------------------------
(* The inductive invariant *)

\* SAVED_TERMINAL's mutex is held by the thread that stands inside it, and by no other.
LockHeld ==
    /\ lock = "main" <=> main \in {"hiding", "saving", "restoring", "guarding"}
    /\ lock = "handler" <=> handler = "restoring"

\* Only what was found is ever saved, and a terminal changed or about to be has it saved.
FoundIsSaved == saved \in {None, found} /\ (echo # found => saved = found)

SavedBeforeSet == main = "saving" => saved = found

\* Unless putting back was refused, nothing is saved outside a prompt.
SavedInPrompt == (main \in {"config", "login", "hiding", "after"} /\ ~failed) => saved = None

\* The login is as far as the command is: not started before it is set up, waiting for a first
\* password for as long as the prompt runs.
InStep ==
    /\ main = "config" => phase = "unstarted"
    /\ main \notin {"config", "login"} =>
           ended = "main" \/ (phase = "waiting" /\ challenge = "Password" /\ ~submitted)
    /\ phase = "abandoned" => ended = "main" /\ ~submitted

\* How the command returned is what its login came to.
ReturnTells ==
    ended = "main" =>
        /\ main \in {"config", "login", "after"}
        /\ phase \notin {"working", "waiting"}
        /\ status = IF phase = "Finished" THEN "Ok" ELSE "Err"

CliInv ==
    /\ CliTypeOK /\ LockHeld /\ FoundIsSaved /\ SavedBeforeSet /\ SavedInPrompt
    /\ HiddenWhileReading /\ InStep /\ ReturnTells

-----------------------------------------------------------------------------
(* Every step keeps it *)

\* What a step of restore_terminal leaves of what was found and what is saved.
LEMMA RestoreKeepsFound ==
    ASSUME TypeOK, FoundIsSaved, RestoreTerminal, found' = found
    PROVE  /\ echo' \in Settings /\ saved' \in Settings \cup {None} /\ failed' \in BOOLEAN
           /\ FoundIsSaved'
           /\ ~failed' => ~failed /\ saved' = None
    BY DEF TypeOK, FoundIsSaved, RestoreTerminal, Settings, None

\* A return leaves the terminal to whoever holds it, and tells what the login came to.
LEMMA ReturnKeeps ==
    ASSUME CliInv, NEW told, NEW left, Return(told, left),
           main \in {"config", "login", "after"},
           told \in {"Ok", "Err"}, left \in Engine!Phases \ {"working", "waiting"},
           told = "Ok" <=> left = "Finished",
           main = "config" => left = "unstarted",
           left = "abandoned" => ~submitted
    PROVE  CliInv'
    BY DEF CliInv, CliTypeOK, TypeOK, Engine!ContractTypeOK, Return, LockHeld, FoundIsSaved,
           SavedBeforeSet, SavedInPrompt, HiddenWhileReading, InStep, ReturnTells, Settings, None,
           Engine!Phases, Engine!Outcomes

\* The engine, and the caller's steps that only touch the login, leave the terminal alone.
LEMMA LoginStepKeeps ==
    ASSUME CliInv, UNCHANGED <<vars, submitted, typed, status>>, InLogin,
           phase' \in Engine!Phases, spent' \in BOOLEAN, challenge' \in Challenges \cup {None},
           phase' # "abandoned"
    PROVE  CliInv'
    BY DEF CliInv, CliTypeOK, TypeOK, Engine!ContractTypeOK, vars, InLogin, LockHeld,
           FoundIsSaved, SavedBeforeSet, SavedInPrompt, HiddenWhileReading, InStep, ReturnTells

\* The engine's steps keep the login's type and abandon nothing.
LEMMA EngineKeeps ==
    ASSUME CliInv, EngineAsks \/ EngineGoesOn \/ Initiate
    PROVE  CliInv'
<1>1. /\ UNCHANGED <<vars, submitted, typed, status>> /\ InLogin
      /\ phase' \in Engine!Phases /\ phase' # "abandoned" /\ spent' \in BOOLEAN
      /\ challenge' \in Challenges \cup {None}
    BY DEF EngineAsks, EngineGoesOn, Initiate, EngineStep, Engine!Ask, Engine!Spend,
           Engine!Complete, Engine!Break, Engine!Start, Engine!Phases, Engine!Outcomes,
           CliInv, CliTypeOK, Engine!ContractTypeOK
<1> QED
    BY <1>1, LoginStepKeeps

\* A step of the password prompt, the login waiting all along.
LEMMA PromptKeeps ==
    ASSUME CliInv, Prompting \/ PromptPassword \/ PromptUnwritten \/ ReadLine \/ RestoreAfterRead
    PROVE  CliInv'
<1> USE DEF CliInv, CliTypeOK, TypeOK, Engine!ContractTypeOK, LockHeld, FoundIsSaved,
        SavedBeforeSet, SavedInPrompt, HiddenWhileReading, InStep, ReturnTells,
        Main, loginVars, Lock
<1>1. CASE PromptPassword
    BY <1>1 DEF PromptPassword, Asked, InLogin, Repeated, HideLocks
<1>2. CASE PromptUnwritten
    BY <1>2 DEF PromptUnwritten, PromptFails
<1>3. CASE ReadLine
    BY <1>3 DEF ReadLine, LineRead
<1>4. CASE HideRefuses /\ UNCHANGED loginVars
    BY <1>4 DEF HideRefuses
<1>5. CASE HideSaves /\ UNCHANGED loginVars
    BY <1>5 DEF HideSaves, Settings, None
<1>6. CASE HideSets /\ UNCHANGED loginVars
    BY <1>6 DEF HideSets, Settings
<1>7. CASE HideCannotSet /\ UNCHANGED loginVars
    BY <1>7 DEF HideCannotSet
<1>8. CASE (RestoreLocks("restore", "restoring") \/ RestoreLocks("guard", "guarding"))
            /\ UNCHANGED loginVars
    BY <1>8 DEF RestoreLocks
<1>9. CASE Restores("guarding", "after") /\ UNCHANGED loginVars
  <2>1. RestoreTerminal /\ found' = found /\ TypeOK /\ FoundIsSaved
    BY <1>9 DEF Restores
  <2>2. /\ echo' \in Settings /\ saved' \in Settings \cup {None} /\ failed' \in BOOLEAN
        /\ FoundIsSaved' /\ (~failed' => ~failed /\ saved' = None)
    BY <2>1, RestoreKeepsFound
  <2> QED
    BY <1>9, <2>2 DEF Restores
<1>10. CASE RestoreAfterRead
  <2>1. RestoreTerminal /\ found' = found /\ TypeOK /\ FoundIsSaved
    BY <1>10 DEF RestoreAfterRead, Restores
  <2>2. /\ echo' \in Settings /\ saved' \in Settings \cup {None} /\ failed' \in BOOLEAN
        /\ FoundIsSaved' /\ (~failed' => ~failed /\ saved' = None)
    BY <2>1, RestoreKeepsFound
  <2>3. typed' \in BOOLEAN
    BY <1>10 DEF RestoreAfterRead
  <2> QED
    BY <1>10, <2>2, <2>3 DEF RestoreAfterRead, Restores
<1> QED
    BY <1>1, <1>2, <1>3, <1>4, <1>5, <1>6, <1>7, <1>8, <1>9, <1>10 DEF Prompting, PromptRuns

\* A step of the interrupt handler, whatever the main thread is doing.
LEMMA HandlerKeeps ==
    ASSUME CliInv, Interrupted \/ HandlerGoesOn
    PROVE  CliInv'
<1> USE DEF CliInv, CliTypeOK, TypeOK, Engine!ContractTypeOK, LockHeld, FoundIsSaved,
        SavedBeforeSet, SavedInPrompt, HiddenWhileReading, InStep, ReturnTells,
        Handler, loginVars, Lock
<1>1. CASE Interrupted
    BY <1>1 DEF Interrupted, Interrupt
<1>2. CASE HandlerLocks /\ UNCHANGED loginVars
    BY <1>2 DEF HandlerLocks
<1>3. CASE HandlerRestores /\ UNCHANGED loginVars
  <2>1. RestoreTerminal /\ found' = found /\ TypeOK /\ FoundIsSaved
    BY <1>3 DEF HandlerRestores
  <2>2. /\ echo' \in Settings /\ saved' \in Settings \cup {None} /\ failed' \in BOOLEAN
        /\ FoundIsSaved' /\ (~failed' => ~failed /\ saved' = None)
    BY <2>1, RestoreKeepsFound
  <2> QED
    BY <1>3, <2>2 DEF HandlerRestores
<1>4. CASE HandlerExits /\ UNCHANGED loginVars
    BY <1>4 DEF HandlerExits
<1> QED
    BY <1>1, <1>2, <1>3, <1>4 DEF HandlerGoesOn, HandlerRuns

\* Each way the command returns tells what its login came to.
LEMMA ReturnsKeep ==
    ASSUME CliInv, \/ SetUpFails \/ ConnectFails \/ TakeOutcome \/ RefuseChallenge
                   \/ UsernameFails \/ PasswordFails
    PROVE  CliInv'
<1> USE DEF Engine!Phases, Engine!Outcomes
<1>1. CASE SetUpFails
  <2>1. main = "config" /\ phase = "unstarted" /\ Return("Err", phase)
    BY <1>1 DEF SetUpFails, CliInv, InStep
  <2> QED
    BY <2>1, ReturnKeeps
<1>2. CASE ConnectFails
  <2>1. main = "login" /\ phase = "unstarted" /\ Return("Err", phase)
    BY <1>2 DEF ConnectFails, InLogin
  <2> QED
    BY <2>1, ReturnKeeps
<1>3. CASE TakeOutcome
  <2>1. /\ main = "login" /\ phase \in Engine!Outcomes
        /\ Return(IF phase = "Finished" THEN "Ok" ELSE "Err", phase)
    BY <1>3 DEF TakeOutcome, InLogin
  <2> QED
    BY <2>1, ReturnKeeps
<1>4. CASE RefuseChallenge
  <2>1. main = "login" /\ Return("Err", "Cancelled")
    BY <1>4 DEF RefuseChallenge, InLogin
  <2> QED
    BY <2>1, ReturnKeeps
<1>5. CASE UsernameFails
  <2>1. main = "login" /\ Dropped = "abandoned" /\ ~submitted /\ Return("Err", Dropped)
    BY <1>5 DEF UsernameFails, Asked, InLogin, Repeated, Dropped
  <2> QED
    BY <2>1, ReturnKeeps
<1>6. CASE PasswordFails
  <2>1. main = "after" /\ Dropped = "abandoned" /\ ~submitted /\ Return("Err", Dropped)
    BY <1>6 DEF PasswordFails, Return, Dropped, CliInv, InStep
  <2> QED
    BY <2>1, ReturnKeeps
<1> QED
    BY <1>1, <1>2, <1>3, <1>4, <1>5, <1>6

\* An answer sets the login to work, or finds its time over.
LEMMA AnswersKeep ==
    ASSUME CliInv, SetUp \/ AnswerUsername \/ AnswerPassword
    PROVE  CliInv'
<1>1. CASE SetUp
    BY <1>1 DEF SetUp, Main, loginVars, CliInv, CliTypeOK, TypeOK, Engine!ContractTypeOK, LockHeld,
           FoundIsSaved, SavedBeforeSet, SavedInPrompt, HiddenWhileReading, InStep, ReturnTells
<1>2. CASE AnswerUsername
  <2>1. /\ UNCHANGED <<vars, submitted, typed, status>> /\ InLogin
        /\ phase' \in Engine!Phases /\ phase' # "abandoned" /\ spent' \in BOOLEAN
        /\ challenge' \in Challenges \cup {None}
    BY <1>2 DEF AnswerUsername, Asked, Continue, Engine!Phases, Engine!Outcomes,
           CliInv, CliTypeOK, Engine!ContractTypeOK
  <2> QED
    BY <2>1, LoginStepKeeps
<1>3. CASE AnswerPassword
  <2>1. /\ ended = "no" /\ main = "after" /\ main' = "login"
        /\ typed /\ submitted' = TRUE /\ typed' = FALSE
        /\ phase' \in Engine!Phases /\ phase' # "abandoned" /\ spent' \in BOOLEAN
        /\ challenge' \in Challenges \cup {None}
        /\ UNCHANGED <<found, echo, saved, lock, handler, failed, ended, status>>
    BY <1>3 DEF AnswerPassword, Continue, Main, CliInv, CliTypeOK, Engine!ContractTypeOK,
           Engine!Phases, Engine!Outcomes
  <2>2. CliTypeOK'
    BY <2>1 DEF CliInv, CliTypeOK, TypeOK, Engine!ContractTypeOK
  <2>3. LockHeld' /\ FoundIsSaved' /\ SavedBeforeSet' /\ SavedInPrompt' /\ HiddenWhileReading'
    BY <2>1 DEF CliInv, LockHeld, FoundIsSaved, SavedBeforeSet, SavedInPrompt,
           HiddenWhileReading, None
  <2>4. InStep'
    BY <2>1 DEF InStep
  <2>5. ReturnTells'
    BY <2>1 DEF ReturnTells
  <2> QED
    BY <2>2, <2>3, <2>4, <2>5 DEF CliInv
<1> QED
    BY <1>1, <1>2, <1>3

\* Nothing is changed, hidden or saved before the command is set up.
LEMMA CliInvInit == CliInit => CliInv
    BY DEF CliInit, Init, CliInv, CliTypeOK, TypeOK, Engine!ContractInit, Engine!ContractTypeOK,
           Engine!Phases, Engine!Outcomes, LockHeld, FoundIsSaved, SavedBeforeSet, SavedInPrompt,
           HiddenWhileReading, InStep, ReturnTells, Settings, None

\* One step of either thread, of the engine or of the user.
LEMMA CliInvStep == CliInv /\ [Next]_cliVars => CliInv'
<1> SUFFICES ASSUME CliInv, [Next]_cliVars PROVE CliInv'
    OBVIOUS
<1>1. CASE EngineAsks \/ EngineGoesOn \/ Initiate
    BY <1>1, EngineKeeps
<1>2. CASE Prompting \/ PromptPassword \/ PromptUnwritten \/ ReadLine \/ RestoreAfterRead
    BY <1>2, PromptKeeps
<1>3. CASE Interrupted \/ HandlerGoesOn
    BY <1>3, HandlerKeeps
<1>4. CASE \/ SetUpFails \/ ConnectFails \/ TakeOutcome \/ RefuseChallenge
           \/ UsernameFails \/ PasswordFails
    BY <1>4, ReturnsKeep
<1>5. CASE SetUp \/ AnswerUsername \/ AnswerPassword
    BY <1>5, AnswersKeep
<1>6. CASE Ended \/ UNCHANGED cliVars
    BY <1>6 DEF Ended, cliVars, loginVars, vars, CliInv, CliTypeOK, TypeOK, Engine!ContractTypeOK,
           LockHeld, FoundIsSaved, SavedBeforeSet, SavedInPrompt, HiddenWhileReading, InStep,
           ReturnTells
<1> QED
    BY <1>1, <1>2, <1>3, <1>4, <1>5, <1>6 DEF Next, CommandRuns, UserActs, EngineRuns

\* The invariant holds of every behaviour of the command, fair or not.
THEOREM CliInvHolds == CliSafety => []CliInv
    BY CliInvInit, CliInvStep, PTL DEF CliSafety

-----------------------------------------------------------------------------
(* The properties *)

\* The command's state keeps its type (test_login.rs).
THEOREM CliTypes == CliSafety => []CliTypeOK
<1>1. CliInv => CliTypeOK
    BY DEF CliInv
<1> QED
    BY <1>1, CliInvHolds, PTL

\* SAVED_TERMINAL: outside the mutex a terminal changed is a terminal whose settings are saved, so
\* that whichever thread restores next puts back what the command found.
THEOREM TerminalSaved == CliSafety => []ChangedIsSaved
<1>1. CliInv => ChangedIsSaved
    BY DEF CliInv, FoundIsSaved, ChangedIsSaved
<1> QED
    BY <1>1, CliInvHolds, PTL

\* hide_echo and RestoreEcho: what is typed to the password prompt is hidden, and the terminal is
\* as it was found between prompts and however the command returns.
THEOREM TerminalRestored == CliSafety => []EchoFollowsPrompt
<1>1. ASSUME CliInv PROVE EchoFollowsPrompt
  <2>1. ASSUME main \in {"login", "after"} \/ ended = "main", ~failed PROVE echo = found
    <3>1. main \in {"config", "login", "hiding", "after"}
      BY <1>1, <2>1 DEF CliInv, ReturnTells
    <3>2. saved = None
      BY <1>1, <2>1, <3>1 DEF CliInv, SavedInPrompt
    <3> QED
      BY <1>1, <3>2 DEF CliInv, CliTypeOK, TypeOK, FoundIsSaved, Settings, None
  <2>2. HiddenWhileReading
    BY <1>1 DEF CliInv
  <2> QED
    BY <2>1, <2>2 DEF EchoFollowsPrompt, ReturnsAsFound
<1> QED
    BY <1>1, CliInvHolds, PTL

\* run and main: exit status 0 is a login that finished, and none is left for anyone to answer.
THEOREM NoLoginLeft == CliSafety => []LeavesNoLogin
<1>1. ASSUME CliInv PROVE LeavesNoLogin
  <2>1. ended \in {"no", "main", "handler"}
    BY <1>1 DEF CliInv, CliTypeOK, TypeOK
  <2>2. CASE ended = "main"
    BY <1>1, <2>2 DEF CliInv, ReturnTells, InStep, LeavesNoLogin, ExitStatus
  <2>3. CASE ended = "handler"
    BY <1>1, <2>3 DEF CliInv, InStep, LeavesNoLogin, ExitStatus
  <2>4. CASE ended = "no"
    BY <1>1, <2>4 DEF CliInv, InStep, LeavesNoLogin
  <2> QED
    BY <2>1, <2>2, <2>3, <2>4
<1> QED
    BY <1>1, CliInvHolds, PTL

-----------------------------------------------------------------------------
(* The command as the login's caller *)

\* A return drops a login that waits, or leaves one that does not.
LEMMA ReturnIsStop ==
    ASSUME NEW told, NEW left, Return(told, left),
           left = phase \/ (phase = "waiting" /\ left \in {"Cancelled", "abandoned"})
    PROVE  [Engine!ContractNext]_Engine!contractVars
    BY DEF Return, Engine!ContractNext, Engine!contractVars, Engine!Stop

\* test_login.rs: the command starts the login once, answers only when it waits, and stops it only
\* when it waits; what the engine does in between is what LoginContract promises.
THEOREM CallerKeepsContract == CliSafety => Engine!ContractSafety
<1>1. CliInit => Engine!ContractInit
    BY DEF CliInit
<1>2. ASSUME CliInv, [Next]_cliVars PROVE [Engine!ContractNext]_Engine!contractVars
  <2>1. CASE EngineAsks \/ EngineGoesOn \/ Initiate
    BY <2>1 DEF EngineAsks, EngineGoesOn, Initiate, Engine!ContractNext
  <2>2. CASE AnswerUsername \/ AnswerPassword
    <3>1. phase = "waiting" /\ Continue
      BY <1>2, <2>2 DEF AnswerUsername, AnswerPassword, Asked, Main, CliInv, InStep
    <3> QED
      BY <3>1 DEF Continue, Engine!ContractNext, Engine!contractVars, Engine!Work, Engine!Stop
  <2>3. CASE SetUpFails \/ ConnectFails \/ TakeOutcome
    <3>1. PICK told : Return(told, phase)
      BY <2>3 DEF SetUpFails, ConnectFails, TakeOutcome
    <3> QED
      BY <3>1, ReturnIsStop
  <2>4. CASE RefuseChallenge
    BY <2>4, ReturnIsStop DEF RefuseChallenge
  <2>5. CASE UsernameFails \/ PasswordFails
    <3>1. /\ Return("Err", Dropped)
          /\ (Dropped = phase \/ (phase = "waiting" /\ Dropped = "abandoned"))
      BY <2>5 DEF UsernameFails, PasswordFails, Dropped
    <3> QED
      BY <3>1, ReturnIsStop
  <2>6. CASE \/ SetUp \/ Prompting \/ PromptPassword \/ PromptUnwritten \/ ReadLine
             \/ RestoreAfterRead \/ Interrupted \/ HandlerGoesOn \/ Ended \/ UNCHANGED cliVars
    BY <2>6 DEF SetUp, Prompting, PromptPassword, PromptUnwritten, ReadLine, RestoreAfterRead,
           Interrupted, HandlerGoesOn, Ended, cliVars, loginVars, Engine!contractVars
  <2> QED
    BY <1>2, <2>1, <2>2, <2>3, <2>4, <2>5, <2>6 DEF Next, CommandRuns, UserActs, EngineRuns
<1> QED
    BY <1>1, <1>2, CliInvHolds, PTL DEF CliSafety, Engine!ContractSafety
=============================================================================
