------------------------------ MODULE Transport ------------------------------
(***************************************************************************)
(* CurlTransport::send (transport.rs): calls share MAX_BLOCKING_REQUESTS    *)
(* slots.  A call waits for a slot, hands its slot and its request to a     *)
(* blocking worker through a shared PendingJob, and gives up when its one   *)
(* deadline passes or its caller drops it.  A worker waits in the runtime's *)
(* blocking queue, which may be stalled for ever, and a libcurl transfer it *)
(* has started cannot be stopped.                                           *)
(***************************************************************************)
EXTENDS Naturals, Sequences, FiniteSets

CONSTANTS
    Calls,      \* the calls of send
    MaxSlots    \* MAX_BLOCKING_REQUESTS

ASSUME TransportAssumption ==
    /\ IsFiniteSet(Calls)
    /\ MaxSlots \in Nat \ {0}

VARIABLES
    call,     \* the caller's future: where send stands
    waiting,  \* the semaphore's queue: tokio grants permits first come first served
    free,     \* permits the semaphore has left
    permit,   \* who holds the call's permit: no one, its PendingJob or its worker
    request,  \* who holds the call's Request, and its secrets
    worker,   \* the closure given to spawn_blocking
    due,      \* Instant::now() >= deadline, for each call under way
    outcome,  \* what the worker returned
    result    \* what send returned

vars == <<call, waiting, free, permit, request, worker, due, outcome, result>>

Outcomes == {"none", "response", "error", "timeout"}

TypeOK ==
    /\ call \in [Calls -> {"idle", "acquiring", "awaiting", "done"}]
    /\ waiting \in Seq(Calls)
    /\ free \in 0..MaxSlots
    /\ permit \in [Calls -> {"none", "job", "worker"}]
    /\ request \in [Calls -> {"caller", "job", "worker", "gone"}]
    /\ worker \in [Calls -> {"none", "queued", "started", "holding", "transferring",
                             "exited", "aborted"}]
    /\ due \in [Calls -> BOOLEAN]
    /\ outcome \in [Calls -> Outcomes]
    /\ result \in [Calls -> Outcomes \cup {"dropped"}]

Init ==
    /\ call = [c \in Calls |-> "idle"]
    /\ waiting = <<>>
    /\ free = MaxSlots
    /\ permit = [c \in Calls |-> "none"]
    /\ request = [c \in Calls |-> "caller"]
    /\ worker = [c \in Calls |-> "none"]
    /\ due = [c \in Calls |-> FALSE]
    /\ outcome = [c \in Calls |-> "none"]
    /\ result = [c \in Calls |-> "none"]

-----------------------------------------------------------------------------
(* The caller's future *)

Set(f, c, v) == [f EXCEPT ![c] = v]

Return(c, r) == call' = Set(call, c, "done") /\ result' = Set(result, c, r)

\* No runtime, no time driver, or a timeout too large: refused before anything is queued.
Refuse(c) ==
    /\ call[c] = "idle"
    /\ Return(c, "error") /\ request' = Set(request, c, "gone")
    /\ UNCHANGED <<waiting, free, permit, worker, due, outcome>>

\* The deadline is set, and the call joins the semaphore's queue.
Send(c) ==
    /\ call[c] = "idle" /\ call' = Set(call, c, "acquiring")
    /\ waiting' = Append(waiting, c)
    /\ UNCHANGED <<free, permit, request, worker, due, outcome, result>>

\* The calls queued first have the permits there are.
CanAcquire(c) == \E i \in 1..Len(waiting): waiting[i] = c /\ i <= free

LeavesWaiting(c) ==
    \E i \in 1..Len(waiting):
        /\ waiting[i] = c
        /\ waiting' = SubSeq(waiting, 1, i - 1) \o SubSeq(waiting, i + 1, Len(waiting))

\* acquire_owned is polled before the timer, so a permit is taken even past the deadline.
Acquire(c) ==
    /\ call[c] = "acquiring" /\ CanAcquire(c)
    /\ call' = Set(call, c, "awaiting")
    /\ LeavesWaiting(c) /\ free' = free - 1
    /\ permit' = Set(permit, c, "job") /\ request' = Set(request, c, "job")
    /\ worker' = Set(worker, c, "queued")
    /\ UNCHANGED <<due, outcome, result>>

\* A call still queued gives up its place.
LeaveQueue(c, r) ==
    /\ call[c] = "acquiring"
    /\ Return(c, r)
    /\ LeavesWaiting(c)
    /\ request' = Set(request, c, "gone")
    /\ UNCHANGED <<free, permit, worker, due, outcome>>

AcquireTimeout(c) == due[c] /\ ~CanAcquire(c) /\ LeaveQueue(c, "timeout")

\* PendingTransfer::drop: abort a worker not yet started, take back what it has not taken.
LetGo(c) ==
    /\ worker' = IF worker[c] = "queued" THEN Set(worker, c, "aborted") ELSE worker
    /\ IF permit[c] = "job"
         THEN permit' = Set(permit, c, "none") /\ free' = free + 1
         ELSE UNCHANGED <<permit, free>>
    /\ request' = IF request[c] = "job" THEN Set(request, c, "gone") ELSE request

\* The worker is polled before the timer: an answer in hand is returned even past the deadline.
Deliver(c) ==
    /\ call[c] = "awaiting" /\ worker[c] = "exited"
    /\ Return(c, outcome[c]) /\ LetGo(c)
    /\ UNCHANGED <<waiting, due, outcome>>

\* Mutant: the caller stops waiting only for a worker that started.
TimeoutOnceStarted(c) ==
    /\ call[c] = "awaiting" /\ due[c] /\ worker[c] \notin {"queued", "exited"}
    /\ Return(c, "timeout") /\ LetGo(c)
    /\ UNCHANGED <<waiting, due, outcome>>

Timeout(c) ==
    /\ call[c] = "awaiting" /\ due[c] /\ worker[c] # "exited"
    /\ Return(c, "timeout") /\ LetGo(c)
    /\ UNCHANGED <<waiting, due, outcome>>

\* The caller drops the future at either await.
Drop(c) ==
    \/ LeaveQueue(c, "dropped")
    \/ /\ call[c] = "awaiting"
       /\ Return(c, "dropped") /\ LetGo(c)
       /\ UNCHANGED <<waiting, due, outcome>>

DeadlinePasses(c) ==
    /\ call[c] # "idle" /\ ~due[c] /\ due' = Set(due, c, TRUE)
    /\ UNCHANGED <<call, waiting, free, permit, request, worker, outcome, result>>

-----------------------------------------------------------------------------
(* The blocking worker *)

\* The runtime gives the closure a thread; from here abort has no effect on it.
WorkerStarts(c) ==
    /\ worker[c] = "queued" /\ worker' = Set(worker, c, "started")
    /\ UNCHANGED <<call, waiting, free, permit, request, due, outcome, result>>

\* Mutant: a worker that ends forgets its permit.
ExitKeepsPermit(c, o) ==
    /\ worker' = Set(worker, c, "exited") /\ outcome' = Set(outcome, c, o)
    /\ request' = IF request[c] = "worker" THEN Set(request, c, "gone") ELSE request
    /\ UNCHANGED <<call, waiting, free, permit, due, result>>

\* Mutant: the permit is dropped twice.
ExitReleasesTwice(c, o) ==
    /\ worker' = Set(worker, c, "exited") /\ outcome' = Set(outcome, c, o)
    /\ request' = IF request[c] = "worker" THEN Set(request, c, "gone") ELSE request
    /\ permit' = Set(permit, c, "none")
    /\ free' = IF free < MaxSlots THEN free + 1 ELSE free
    /\ UNCHANGED <<call, waiting, due, result>>

\* The closure ends: its request is wiped, and its permit, if it had one, goes back.
Exit(c, o) ==
    /\ worker' = Set(worker, c, "exited") /\ outcome' = Set(outcome, c, o)
    /\ request' = IF request[c] = "worker" THEN Set(request, c, "gone") ELSE request
    /\ IF permit[c] = "worker"
         THEN permit' = Set(permit, c, "none") /\ free' = free + 1
         ELSE UNCHANGED <<permit, free>>
    /\ UNCHANGED <<call, waiting, due, result>>

\* Mutant: the worker does not look whether the job was taken back.
WorkerTakesAnyway(c) ==
    /\ worker[c] = "started"
    /\ permit' = Set(permit, c, "worker") /\ request' = Set(request, c, "worker")
    /\ worker' = Set(worker, c, "holding")
    /\ UNCHANGED <<call, waiting, free, due, outcome, result>>

\* Under the job's lock: permit and request, or nothing if the caller took them back.
WorkerTakes(c) ==
    /\ worker[c] = "started" /\ permit[c] = "job"
    /\ permit' = Set(permit, c, "worker") /\ request' = Set(request, c, "worker")
    /\ worker' = Set(worker, c, "holding")
    /\ UNCHANGED <<call, waiting, free, due, outcome, result>>

WorkerFindsNothing(c) == worker[c] = "started" /\ permit[c] # "job" /\ Exit(c, "timeout")

\* curl_timeout: nothing left of the deadline, no transfer.
WorkerLate(c) == worker[c] = "holding" /\ due[c] /\ Exit(c, "timeout")

TransferBegins(c) ==
    /\ worker[c] = "holding" /\ ~due[c] /\ worker' = Set(worker, c, "transferring")
    /\ UNCHANGED <<call, waiting, free, permit, request, due, outcome, result>>

\* send_blocking ends by itself: libcurl has the rest of the deadline as its own timeout.
TransferEnds(c) ==
    worker[c] = "transferring" /\ \E o \in {"response", "error"}: Exit(c, o)

-----------------------------------------------------------------------------
Poll(c)  == Acquire(c) \/ AcquireTimeout(c) \/ Deliver(c) \/ Timeout(c)
Work(c)  == WorkerTakes(c) \/ WorkerFindsNothing(c) \/ WorkerLate(c) \/ TransferBegins(c)
            \/ TransferEnds(c)
Other(c) == Refuse(c) \/ Send(c) \/ Drop(c) \/ DeadlinePasses(c) \/ WorkerStarts(c)

AllDone == (\A c \in Calls: call[c] = "done" /\ worker[c] \notin {"queued", "started", "holding",
                                                                  "transferring"} /\ due[c])
           /\ UNCHANGED vars

Next == (\E c \in Calls: Poll(c) \/ Work(c) \/ Other(c)) \/ AllDone

Safety == Init /\ [][Next]_vars

\* The executor polls a woken future, time passes, and a worker that has a thread runs on.
\* Nothing makes the blocking queue start a worker.
Fairness ==
    \A c \in Calls: WF_vars(Poll(c)) /\ WF_vars(Work(c)) /\ WF_vars(DeadlinePasses(c))

Spec == Safety /\ Fairness

-----------------------------------------------------------------------------
(* Properties *)

Holders == {c \in Calls: permit[c] # "none"}

\* No permit is lost or made up, whoever drops, times out or aborts when: the slots in hand
\* and the slots left are always MAX_BLOCKING_REQUESTS.
PermitsConserved == free + Cardinality(Holders) = MaxSlots

Transferring == {c \in Calls: worker[c] = "transferring"}

\* Architecture.md: at most 32 concurrent transfers per process, each in its own slot until it
\* exits, even when its caller is long gone.
TransfersHoldSlots ==
    /\ Cardinality(Transferring) <= MaxSlots
    /\ \A c \in Transferring: permit[c] = "worker" /\ request[c] = "worker"

\* A call that ended before its worker took the request leaves neither a slot nor a secret
\* behind, though the aborted closure may sit in a stalled queue.
NothingLeftQueued ==
    \A c \in Calls: call[c] = "done" /\ worker[c] \in {"none", "queued", "started", "aborted"} =>
        permit[c] = "none" /\ request[c] = "gone"

\* A request is given up or sent, not both: once its caller was gone with the request untaken,
\* no transfer of it begins.
GivenUpIsNeverSent ==
    [][\A c \in Calls:
        call[c] = "done" /\ worker[c] \notin {"holding", "transferring"}
            => worker'[c] \notin {"holding", "transferring"}]_vars

\* Every call returns, even with every slot taken and the blocking queue stalled for ever.
SendEnds == \A c \in Calls: call[c] \in {"acquiring", "awaiting"} ~> call[c] = "done"

\* Once every call is over, every slot comes back.
SlotsComeBack == (\A c \in Calls: call[c] = "done") ~> free = MaxSlots
=============================================================================
