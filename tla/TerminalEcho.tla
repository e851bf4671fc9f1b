---------------------------- MODULE TerminalEcho ----------------------------
(***************************************************************************)
(* The password prompt of himmelcloak-cli test-login (test_login.rs): the   *)
(* main thread turns echo off, reads and restores; ctrlc's handler thread   *)
(* restores and exits the process.  They share SAVED_TERMINAL and its       *)
(* mutex.  Each tcsetattr may fail, and exit may come between any two steps *)
(* of the main thread.  CliLogin says when the main thread prompts and when *)
(* it returns.                                                              *)
(***************************************************************************)
EXTENDS Naturals

VARIABLES
    found,    \* the terminal's echo setting before the command ran
    echo,     \* what it is now
    saved,    \* SAVED_TERMINAL: the echo setting to put back, or None
    lock,     \* who holds its mutex
    main,     \* where the main thread stands
    handler,  \* where the handler thread stands
    failed,   \* a tcsetattr of restore_terminal failed
    ended     \* how the process ended

vars == <<found, echo, saved, lock, main, handler, failed, ended>>

None == "none"
Settings == {"on", "off"}

TypeOK ==
    /\ found \in Settings /\ echo \in Settings /\ saved \in Settings \cup {None}
    /\ failed \in BOOLEAN
    /\ lock \in {"free", "main", "handler"}
    /\ main \in {"config", "login", "hiding", "saving", "reading", "restore", "restoring", "guard",
                 "guarding", "after"}
    /\ handler \in {"idle", "interrupted", "restoring", "exiting"}
    /\ ended \in {"no", "main", "handler"}

Init ==
    /\ found \in Settings /\ echo = found /\ failed = FALSE
    /\ saved = None /\ lock = "free"
    /\ main = "config" /\ handler = "idle" /\ ended = "no"

Lock(t) == lock = "free" /\ lock' = t

-----------------------------------------------------------------------------
(* restore_terminal, and the mutex it works under *)

\* The saved settings, if any, are put back and forgotten; if tcsetattr fails they stay saved.
RestoreTerminal ==
    \/ saved # None /\ echo' = saved /\ saved' = None /\ UNCHANGED failed
    \/ saved # None /\ failed' = TRUE /\ UNCHANGED <<echo, saved>>
    \/ saved = None /\ UNCHANGED <<echo, saved, failed>>

-----------------------------------------------------------------------------
(* The main thread *)

Main(from, to) == ended = "no" /\ main = from /\ main' = to

\* hide_echo takes the mutex.
HideLocks ==
    /\ Main("login", "hiding") /\ Lock("main")
    /\ UNCHANGED <<found, echo, saved, handler, failed, ended>>

\* Settings already saved, or no terminal to ask for them.
HideRefuses ==
    /\ Main("hiding", "after") /\ lock' = "free"
    /\ UNCHANGED <<found, echo, saved, handler, failed, ended>>

HideSaves ==
    /\ Main("hiding", "saving") /\ saved = None /\ saved' = echo
    /\ UNCHANGED <<found, echo, lock, handler, failed, ended>>

HideSets ==
    /\ Main("saving", "reading") /\ echo' = "off" /\ lock' = "free"
    /\ UNCHANGED <<found, saved, handler, failed, ended>>

\* Mutant: the guard is dropped with the mutex still held.
HideCannotSetLocked ==
    /\ Main("saving", "guard")
    /\ UNCHANGED <<found, echo, saved, lock, handler, failed, ended>>

\* tcsetattr failed: the mutex is released first, for the guard's drop takes it again.
HideCannotSet ==
    /\ Main("saving", "guard") /\ lock' = "free"
    /\ UNCHANGED <<found, echo, saved, handler, failed, ended>>

\* The prompt could not be written: the guard alone restores.
PromptFails ==
    /\ Main("reading", "guard")
    /\ UNCHANGED <<found, echo, saved, lock, handler, failed, ended>>

\* Mutant: a line read returns without restoring.
LineReadLeaves ==
    /\ Main("reading", "after")
    /\ UNCHANGED <<found, echo, saved, lock, handler, failed, ended>>

\* A line, an end of input or an error: restore either way.
LineRead ==
    /\ Main("reading", "restore")
    /\ UNCHANGED <<found, echo, saved, lock, handler, failed, ended>>

RestoreLocks(from, to) ==
    /\ Main(from, to) /\ Lock("main")
    /\ UNCHANGED <<found, echo, saved, handler, failed, ended>>

\* restore_terminal(TCSANOW), whose error skips to the guard, and RestoreEcho's drop.
Restores(from, to) ==
    /\ Main(from, to) /\ RestoreTerminal /\ lock' = "free"
    /\ UNCHANGED <<found, handler, ended>>

-----------------------------------------------------------------------------
(* The handler thread *)

Handler(from, to) == ended = "no" /\ handler = from /\ handler' = to

\* Installed with the configuration read; before it a signal ends the process by itself.
Interrupt ==
    /\ Handler("idle", "interrupted") /\ main # "config"
    /\ UNCHANGED <<found, echo, saved, lock, main, failed, ended>>

\* Mutant: the handler does not wait for the mutex.
HandlerLocksNothing ==
    /\ Handler("interrupted", "restoring")
    /\ UNCHANGED <<found, echo, saved, lock, main, failed, ended>>

HandlerLocks ==
    /\ Handler("interrupted", "restoring") /\ Lock("handler")
    /\ UNCHANGED <<found, echo, saved, main, failed, ended>>

HandlerRestores ==
    /\ Handler("restoring", "exiting") /\ RestoreTerminal
    /\ lock' = IF lock = "handler" THEN "free" ELSE lock
    /\ UNCHANGED <<found, main, ended>>

\* process::exit(130).
HandlerExits ==
    /\ ended = "no" /\ handler = "exiting" /\ ended' = "handler"
    /\ UNCHANGED <<found, echo, saved, lock, main, handler, failed>>

-----------------------------------------------------------------------------
\* The main thread's steps of a prompt that wait on nobody but the mutex.
PromptRuns ==
    \/ HideRefuses \/ HideSaves \/ HideSets \/ HideCannotSet
    \/ RestoreLocks("restore", "restoring")
    \/ RestoreLocks("guard", "guarding") \/ Restores("guarding", "after")

HandlerRuns == HandlerLocks \/ HandlerRestores \/ HandlerExits

-----------------------------------------------------------------------------
(* Properties *)

\* Outside the mutex, a terminal changed is a terminal whose settings are saved: whichever
\* thread restores next, and whatever failed before, puts back what the command found.
ChangedIsSaved == lock = "free" /\ echo # found => saved = found

\* Between prompts, and however the command returns, the terminal is as it was found, on every
\* error path, unless putting it back was refused (RestoreEcho).
ReturnsAsFound == (main \in {"login", "after"} \/ ended = "main") /\ ~failed => echo = found

\* While the password is typed it does not echo, unless an interrupt is about to end the process.
HiddenWhileReading == main = "reading" => echo = "off" \/ handler = "exiting"

\* The terminal hides what is typed to the password prompt, and nothing else.
EchoFollowsPrompt == ReturnsAsFound /\ HiddenWhileReading

\* Neither thread waits on the other, or on itself, for ever: an interrupted command exits.
InterruptEnds == handler = "interrupted" ~> ended # "no"

\* test_login.rs: "The mutex coordinates with the interrupt handler."  Read of the terminal a
\* command interrupted at any point leaves behind.
InterruptedAsFound == ended = "handler" /\ ~failed => echo = found
=============================================================================
