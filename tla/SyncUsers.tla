------------------------------ MODULE SyncUsers ------------------------------
(***************************************************************************)
(* The sync-users command (sync_users.rs): it opens, inspects and reads its *)
(* configuration and then its secret, two files others may be writing to,   *)
(* has the group read (GroupSync), and prints the members once all of them  *)
(* are there.                                                               *)
(***************************************************************************)
EXTENDS GroupSync

CONSTANTS
    ConfigLimit,  \* size_limit of the configuration
    SecretLimit,  \* size_limit of the secret
    MaxSize       \* bound: how large a file grows

ASSUME SyncUsersAssumption ==
    /\ ConfigLimit \in Nat /\ SecretLimit \in Nat
    /\ MaxSize \in Nat

VARIABLES
    stage,    \* where run stands
    which,    \* the file it has in hand
    file,     \* the files themselves
    used,     \* how much of each was taken over
    printed   \* the members on the standard output, in a set of at most one list

runVars == <<stage, which, file, used, printed>>

vars == <<groupVars, runVars>>

Files == {"config", "secret"}

Limit(f) == IF f = "secret" THEN SecretLimit ELSE ConfigLimit

\* Permissions: the owner's alone, readable by others, or writable by others.
FileStates == [kind: {"regular", "link", "other"}, owner: {"root", "user"},
               mode: {"private", "readable", "writable"}, size: 0..MaxSize]

RunTypeOK ==
    /\ TypeOK
    /\ stage \in {"start", "open", "inspect", "read", "group", "done"}
    /\ which \in Files
    /\ file \in [Files -> FileStates]
    /\ used \in [Files -> 0..MaxSize]
    /\ printed \in SUBSET Seq(Users)

RunInit ==
    /\ Init
    /\ stage = "start"
    /\ which = "config"
    /\ file \in [Files -> FileStates]
    /\ used = [f \in Files |-> 0]
    /\ printed = {}

-----------------------------------------------------------------------------
(* The command *)

\* The effective user is root, and the configuration is opened first.
RequireRoot ==
    /\ stage = "start" /\ stage' = "open"
    /\ UNCHANGED <<groupVars, which, file, used, printed>>

\* O_NOFOLLOW: a link is not opened.
Open ==
    /\ stage = "open" /\ file[which].kind # "link"
    /\ stage' = "inspect"
    /\ UNCHANGED <<groupVars, which, file, used, printed>>

Permitted(f) ==
    IF f = "secret" THEN file[f].mode = "private" ELSE file[f].mode # "writable"

\* Mutant: the secret's permissions are held to the configuration's rule.
InspectAlike ==
    /\ stage = "inspect"
    /\ file[which].kind = "regular" /\ file[which].owner = "root"
    /\ file[which].mode # "writable"
    /\ file[which].size <= Limit(which)
    /\ stage' = "read"
    /\ UNCHANGED <<groupVars, which, file, used, printed>>

\* The metadata of the opened descriptor pass.
Inspect ==
    /\ stage = "inspect"
    /\ file[which].kind = "regular" /\ file[which].owner = "root" /\ Permitted(which)
    /\ file[which].size <= Limit(which)
    /\ stage' = "read"
    /\ UNCHANGED <<groupVars, which, file, used, printed>>

\* read_bounded, the settings parsed, or a secret that is not empty.
ReadFile ==
    /\ stage = "read"
    /\ file[which].size <= Limit(which)
    /\ which = "secret" => file[which].size > 0
    /\ used' = [used EXCEPT ![which] = file[which].size]
    /\ IF which = "config" THEN stage' = "open" /\ which' = "secret"
                           ELSE stage' = "group" /\ UNCHANGED which
    /\ UNCHANGED <<groupVars, file, printed>>

\* Another user than root, a file refused, unreadable, malformed or grown past its limit.
Fails ==
    /\ stage \in {"start", "open", "inspect", "read"} /\ stage' = "done"
    /\ UNCHANGED <<groupVars, which, file, used, printed>>

ReadGroup == stage = "group" /\ (Begin \/ Refuse \/ Answered) /\ UNCHANGED runVars

\* Mutant: what was read is printed whether the reading succeeded or not.
PrintAnyway ==
    /\ stage = "group" /\ read = "done"
    /\ stage' = "done" /\ printed' = {members}
    /\ UNCHANGED <<groupVars, which, file, used>>

\* The complete list is printed; an error of the reading is the command's.
PrintMembers ==
    /\ stage = "group" /\ read = "done"
    /\ stage' = "done"
    /\ printed' = IF result = "members" THEN {members} ELSE printed
    /\ UNCHANGED <<groupVars, which, file, used>>

-----------------------------------------------------------------------------
(* Everyone else *)

\* Whoever may write a file makes it larger, before, between and after the checks.
Grows ==
    /\ stage \in {"open", "inspect", "read"} /\ file[which].size < MaxSize
    /\ file' = [file EXCEPT ![which].size = @ + 1]
    /\ UNCHANGED <<groupVars, stage, which, used, printed>>

GroupChanges == stage = "group" /\ Changes /\ UNCHANGED runVars

\* The command has ended.
Ended == stage = "done" /\ UNCHANGED vars

Run == RequireRoot \/ Open \/ Inspect \/ ReadFile \/ Fails \/ ReadGroup \/ PrintMembers

RunNext == Run \/ Grows \/ GroupChanges \/ Ended

\* Fairness is GroupSync's: its requests are answered or fail.
RunSpec == RunInit /\ [][RunNext]_vars /\ Fairness

-----------------------------------------------------------------------------
(* Properties *)

\* "Serialize only after the complete group fetch succeeds": what is printed is a complete,
\* well-formed list of the group, and a failed run prints nothing.
PrintedIsComplete ==
    \A list \in printed:
        /\ result = "members" /\ list = members
        /\ WellFormed /\ ResultIsTheGroup

\* read_owned_file: the group is asked for only with a secret of root's own that no one else
\* can read and a configuration no one else can write, neither larger than its limit although
\* a file may grow after its size was checked.
AskedWithOwnFiles ==
    read # "idle" =>
        /\ \A f \in Files:
            /\ file[f].kind = "regular" /\ file[f].owner = "root"
            /\ file[f].mode # "writable"
            /\ used[f] <= Limit(f)
        /\ file["secret"].mode = "private" /\ used["secret"] > 0
=============================================================================
