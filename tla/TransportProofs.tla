--------------------------- MODULE TransportProofs ---------------------------
(***************************************************************************)
(* Of calls: the accounting of transfer slots for every set of calls and    *)
(* every number of slots.  No permit is lost, whatever call is dropped,     *)
(* times out or is aborted at whatever point, and a transfer under way      *)
(* always has its own.                                                      *)
(*                                                                          *)
(* Of cookies: the jar and the sites' own account of their cookies agree on *)
(* every cookie that may still be sent.  They differ on the others: the jar *)
(* lets go of what has expired and never takes what has no name.            *)
(*                                                                          *)
(* Of memory: every buffer that holds bytes has an owner in scope that will *)
(* wipe it or is a caller's, the nodes of the header lines are as long as   *)
(* recorded, and the handle goes before them.                               *)
(***************************************************************************)
EXTENDS Transport, Exchange, FiniteSetTheorems, TLAPS

-----------------------------------------------------------------------------
(* Who holds permits *)

HoldersOf(p) == {c \in Calls: p[c] # "none"}

\* One call gaining or giving up its permit moves the count of holders by one, and a permit
\* that changes hands within a call does not.
LEMMA HoldersMove ==
    ASSUME NEW p, p \in [Calls -> {"none", "job", "worker"}], NEW c \in Calls,
           NEW v \in {"none", "job", "worker"}
    PROVE  LET n == Cardinality(HoldersOf(p))
               m == Cardinality(HoldersOf(Set(p, c, v))) IN
           /\ n \in Nat /\ m \in Nat
           /\ p[c] # "none" => n >= 1
           /\ p[c] = "none" /\ v # "none" => m = n + 1
           /\ p[c] # "none" /\ v = "none" => m = n - 1
           /\ p[c] # "none" /\ v # "none" => m = n
<1> DEFINE H == HoldersOf(p)
           G == HoldersOf(Set(p, c, v))
<1>1. IsFiniteSet(H) /\ IsFiniteSet(G)
  <2>1. H \in SUBSET Calls /\ G \in SUBSET Calls
    BY DEF HoldersOf
  <2> QED
    BY <2>1, FS_Subset, TransportAssumption
<1>2. Cardinality(H) \in Nat /\ Cardinality(G) \in Nat
    BY <1>1, FS_CardinalityType
<1>3. c \in H <=> p[c] # "none"
    BY DEF HoldersOf
<1>4. v # "none" => G = H \cup {c}
    BY DEF HoldersOf, Set
<1>5. v = "none" => G = H \ {c}
    BY DEF HoldersOf, Set
<1>6. Cardinality(H \cup {c}) = IF c \in H THEN Cardinality(H) ELSE Cardinality(H) + 1
    BY <1>1, FS_AddElement
<1>7. /\ Cardinality(H \ {c}) = IF c \in H THEN Cardinality(H) - 1 ELSE Cardinality(H)
      /\ IsFiniteSet(H \ {c})
    BY <1>1, FS_RemoveElement
<1>8. Cardinality(H \ {c}) \in Nat
    BY <1>7, FS_CardinalityType
<1> HIDE DEF H, G
<1>9. CASE p[c] = "none"
  <2>1. v # "none" => Cardinality(G) = Cardinality(H) + 1
    BY <1>3, <1>4, <1>6, <1>9
  <2> QED
    BY <1>2, <1>9, <2>1 DEF H, G
<1>10. CASE p[c] # "none"
  <2>1. Cardinality(H \ {c}) = Cardinality(H) - 1
    BY <1>3, <1>7, <1>10
  <2>2. Cardinality(H) >= 1
    BY <1>2, <1>8, <2>1
  <2>3. v = "none" => Cardinality(G) = Cardinality(H) - 1
    BY <1>5, <2>1
  <2>4. v # "none" => Cardinality(G) = Cardinality(H)
    BY <1>3, <1>4, <1>6, <1>10
  <2> QED
    BY <1>2, <1>10, <2>2, <2>3, <2>4 DEF H, G
<1> QED
    BY <1>9, <1>10

\* The same of a step that moves one call's permit.
LEMMA PermitMoves ==
    ASSUME permit \in [Calls -> {"none", "job", "worker"}], NEW c \in Calls,
           NEW v \in {"none", "job", "worker"}, permit' = Set(permit, c, v)
    PROVE  LET n == Cardinality(Holders) m == Cardinality(Holders') IN
           /\ n \in Nat /\ m \in Nat
           /\ permit[c] # "none" => n >= 1
           /\ permit[c] = "none" /\ v # "none" => m = n + 1
           /\ permit[c] # "none" /\ v = "none" => m = n - 1
           /\ permit[c] # "none" /\ v # "none" => m = n
<1>1. Holders = HoldersOf(permit) /\ Holders' = HoldersOf(Set(permit, c, v))
    BY DEF Holders, HoldersOf
<1> QED
    BY <1>1, HoldersMove

-----------------------------------------------------------------------------
(* The inductive invariant *)

\* Where a call's permit and request are, by where its future and its closure stand.
Placed(c) ==
    /\ permit[c] = "worker" <=> worker[c] \in {"holding", "transferring"}
    /\ request[c] = permit[c] \/ (permit[c] = "none" /\ request[c] \in {"caller", "gone"})
    /\ permit[c] = "job" => call[c] = "awaiting" /\ worker[c] \in {"queued", "started"}
    /\ call[c] \in {"idle", "acquiring"} =>
        permit[c] = "none" /\ worker[c] = "none" /\ request[c] = "caller"
    /\ request[c] = "caller" => call[c] \in {"idle", "acquiring"}

SlotInv ==
    /\ TypeOK
    /\ PermitsConserved
    /\ \A c \in Calls: Placed(c)

\* A permit that stays where it is, or changes hands within its call, leaves the count alone.
LEMMA CountStays ==
    ASSUME TypeOK, PermitsConserved, UNCHANGED free,
           UNCHANGED permit \/ \E c \in Calls, v \in {"job", "worker"}:
               permit[c] # "none" /\ permit' = Set(permit, c, v)
    PROVE  PermitsConserved'
<1>1. CASE UNCHANGED permit
    BY <1>1 DEF PermitsConserved, Holders
<1>2. ASSUME NEW c \in Calls, NEW v \in {"job", "worker"},
             permit[c] # "none", permit' = Set(permit, c, v)
      PROVE  PermitsConserved'
  <2>1. Cardinality(Holders') = Cardinality(Holders)
    BY <1>2, PermitMoves DEF TypeOK
  <2> QED
    BY <2>1 DEF PermitsConserved
<1> QED
    BY <1>1, <1>2

\* A permit taken from the semaphore is held by a call that had none.
LEMMA CountTaken ==
    ASSUME TypeOK, PermitsConserved, NEW c \in Calls, permit[c] = "none",
           permit' = Set(permit, c, "job"), free' = free - 1
    PROVE  PermitsConserved'
<1>1. Cardinality(Holders') = Cardinality(Holders) + 1 /\ Cardinality(Holders) \in Nat
    BY PermitMoves DEF TypeOK
<1> QED
    BY <1>1, TransportAssumption DEF PermitsConserved, TypeOK

\* A permit given back is one more the semaphore has, and never one too many.
LEMMA CountGivenBack ==
    ASSUME TypeOK, PermitsConserved, NEW c \in Calls, permit[c] # "none",
           permit' = Set(permit, c, "none"), free' = free + 1
    PROVE  PermitsConserved' /\ free' \in 0..MaxSlots
<1>1. /\ Cardinality(Holders') = Cardinality(Holders) - 1
      /\ Cardinality(Holders) \in Nat /\ Cardinality(Holders) >= 1
    BY PermitMoves DEF TypeOK
<1> QED
    BY <1>1, TransportAssumption DEF PermitsConserved, TypeOK

\* Leaving the semaphore's queue keeps it a queue of calls.
LEMMA LeavingKeepsQueue ==
    ASSUME waiting \in Seq(Calls), NEW c \in Calls, LeavesWaiting(c)
    PROVE  waiting' \in Seq(Calls)
    BY DEF LeavesWaiting

\* Init satisfies the inductive invariant: no call holds a permit.
LEMMA SlotInit == Init => SlotInv
<1> SUFFICES ASSUME Init PROVE SlotInv
    OBVIOUS
<1>1. TypeOK
    BY TransportAssumption DEF Init, TypeOK, Outcomes
<1>2. Holders = {}
    BY DEF Init, Holders
<1>3. PermitsConserved
    BY <1>2, FS_EmptySet, TransportAssumption DEF Init, PermitsConserved
<1>4. \A c \in Calls: Placed(c)
    BY DEF Init, Placed
<1> QED
    BY <1>1, <1>3, <1>4 DEF SlotInv

\* The caller's steps that touch no permit: refusing, queueing, giving up the queue.
LEMMA QueueSteps ==
    ASSUME SlotInv, NEW c \in Calls, Refuse(c) \/ Send(c) \/ \E r \in {"timeout", "dropped"}: LeaveQueue(c, r)
    PROVE  SlotInv'
<1>1. TypeOK'
  <2>1. CASE Refuse(c)
    BY <2>1 DEF SlotInv, TypeOK, Refuse, Return, Set, Outcomes
  <2>2. CASE Send(c)
    BY <2>2 DEF SlotInv, TypeOK, Send, Set, Outcomes
  <2>3. ASSUME NEW r \in {"timeout", "dropped"}, LeaveQueue(c, r) PROVE TypeOK'
    BY <2>3, LeavingKeepsQueue DEF SlotInv, TypeOK, LeaveQueue, Return, Set, Outcomes
  <2> QED
    BY <2>1, <2>2, <2>3
<1>2. PermitsConserved'
    BY CountStays DEF SlotInv, Refuse, Send, LeaveQueue
<1>3. ASSUME NEW d \in Calls PROVE Placed(d)'
    BY DEF SlotInv, TypeOK, Placed, Refuse, Send, LeaveQueue, Return, Set
<1> QED
    BY <1>1, <1>2, <1>3 DEF SlotInv

\* A permit granted goes into the call's job (send).
LEMMA AcquireStep ==
    ASSUME SlotInv, NEW c \in Calls, Acquire(c)
    PROVE  SlotInv'
<1>1. free >= 1
    BY DEF SlotInv, TypeOK, Acquire, CanAcquire
<1>2. permit[c] = "none"
    BY DEF SlotInv, Placed, Acquire
<1>3. TypeOK'
    BY <1>1, LeavingKeepsQueue, TransportAssumption DEF SlotInv, TypeOK, Acquire, Set, Outcomes
<1>4. PermitsConserved'
    BY <1>2, CountTaken DEF SlotInv, Acquire
<1>5. ASSUME NEW d \in Calls PROVE Placed(d)'
    BY DEF SlotInv, TypeOK, Placed, Acquire, Set
<1> QED
    BY <1>3, <1>4, <1>5 DEF SlotInv

\* However a waiting call ends, PendingTransfer gives back what its worker has not taken.
LEMMA LetGoStep ==
    ASSUME SlotInv, NEW c \in Calls, NEW r \in Outcomes \cup {"dropped"},
           call[c] = "awaiting", Return(c, r), LetGo(c), UNCHANGED <<waiting, due, outcome>>
    PROVE  SlotInv'
<1>1. PermitsConserved' /\ free' \in 0..MaxSlots /\ permit' \in [Calls -> {"none", "job", "worker"}]
  <2>1. CASE permit[c] = "job"
    <3>1. permit' = Set(permit, c, "none") /\ free' = free + 1
      BY <2>1 DEF LetGo
    <3> QED
      BY <2>1, <3>1, CountGivenBack DEF SlotInv, TypeOK, Set
  <2>2. CASE permit[c] # "job"
    <3>1. UNCHANGED <<permit, free>>
      BY <2>2 DEF LetGo
    <3> QED
      BY <3>1, CountStays DEF SlotInv, TypeOK
  <2> QED
    BY <2>1, <2>2
<1>2. TypeOK'
    BY <1>1 DEF SlotInv, TypeOK, Return, LetGo, Set, Outcomes
<1>3. ASSUME NEW d \in Calls PROVE Placed(d)'
    BY DEF SlotInv, TypeOK, Placed, Return, LetGo, Set
<1> QED
    BY <1>1, <1>2, <1>3 DEF SlotInv

\* A worker that ends gives back its permit, if it had taken one.
LEMMA ExitStep ==
    ASSUME SlotInv, NEW c \in Calls, NEW o \in Outcomes, Exit(c, o),
           worker[c] \in {"holding", "transferring"} \/ (worker[c] = "started" /\ permit[c] # "job")
    PROVE  SlotInv'
<1>1. PermitsConserved' /\ free' \in 0..MaxSlots /\ permit' \in [Calls -> {"none", "job", "worker"}]
  <2>1. CASE permit[c] = "worker"
    <3>1. permit' = Set(permit, c, "none") /\ free' = free + 1
      BY <2>1 DEF Exit
    <3> QED
      BY <2>1, <3>1, CountGivenBack DEF SlotInv, TypeOK, Set
  <2>2. CASE permit[c] # "worker"
    <3>1. UNCHANGED <<permit, free>>
      BY <2>2 DEF Exit
    <3> QED
      BY <3>1, CountStays DEF SlotInv, TypeOK
  <2> QED
    BY <2>1, <2>2
<1>2. TypeOK'
    BY <1>1 DEF SlotInv, TypeOK, Exit, Set, Outcomes
<1>3. ASSUME NEW d \in Calls PROVE Placed(d)'
    BY DEF SlotInv, TypeOK, Placed, Exit, Set
<1> QED
    BY <1>1, <1>2, <1>3 DEF SlotInv

\* The steps that move a worker or the clock, but no permit to or from the semaphore.
LEMMA WorkerSteps ==
    ASSUME SlotInv, NEW c \in Calls,
           DeadlinePasses(c) \/ WorkerStarts(c) \/ WorkerTakes(c) \/ TransferBegins(c)
    PROVE  SlotInv'
<1>1. TypeOK'
  <2>1. CASE DeadlinePasses(c)
    BY <2>1 DEF SlotInv, TypeOK, DeadlinePasses, Set, Outcomes
  <2>2. CASE WorkerStarts(c)
    BY <2>2 DEF SlotInv, TypeOK, WorkerStarts, Set, Outcomes
  <2>3. CASE WorkerTakes(c)
    BY <2>3 DEF SlotInv, TypeOK, WorkerTakes, Set, Outcomes
  <2>4. CASE TransferBegins(c)
    BY <2>4 DEF SlotInv, TypeOK, TransferBegins, Set, Outcomes
  <2> QED
    BY <2>1, <2>2, <2>3, <2>4
<1>2. PermitsConserved'
  <2>1. CASE WorkerTakes(c)
    BY <2>1, CountStays DEF SlotInv, WorkerTakes
  <2>2. CASE DeadlinePasses(c) \/ WorkerStarts(c) \/ TransferBegins(c)
    BY <2>2, CountStays DEF SlotInv, DeadlinePasses, WorkerStarts, TransferBegins
  <2> QED
    BY <2>1, <2>2
<1>3. ASSUME NEW d \in Calls PROVE Placed(d)'
    BY DEF SlotInv, TypeOK, Placed, DeadlinePasses, WorkerStarts, WorkerTakes, TransferBegins, Set
<1> QED
    BY <1>1, <1>2, <1>3 DEF SlotInv

\* Every step preserves the inductive invariant.
LEMMA SlotNext == SlotInv /\ [Next]_vars => SlotInv'
<1> SUFFICES ASSUME SlotInv, [Next]_vars PROVE SlotInv'
    OBVIOUS
<1>1. CASE UNCHANGED vars
    BY <1>1 DEF vars, SlotInv, TypeOK, PermitsConserved, Holders, Placed
<1>2. ASSUME NEW c \in Calls, Poll(c) PROVE SlotInv'
  <2>1. CASE Acquire(c)
    BY <2>1, AcquireStep
  <2>2. CASE AcquireTimeout(c)
    BY <2>2, QueueSteps DEF AcquireTimeout
  <2>3. CASE Deliver(c)
    <3>1. outcome[c] \in Outcomes
      BY DEF SlotInv, TypeOK
    <3> QED
      BY <2>3, <3>1, LetGoStep DEF Deliver
  <2>4. CASE Timeout(c)
    BY <2>4, LetGoStep DEF Timeout, Outcomes
  <2> QED
    BY <1>2, <2>1, <2>2, <2>3, <2>4 DEF Poll
<1>3. ASSUME NEW c \in Calls, Work(c) PROVE SlotInv'
  <2>1. CASE WorkerTakes(c) \/ TransferBegins(c)
    BY <2>1, WorkerSteps
  <2>2. CASE WorkerFindsNothing(c)
    BY <2>2, ExitStep DEF WorkerFindsNothing, Outcomes
  <2>3. CASE WorkerLate(c)
    BY <2>3, ExitStep DEF WorkerLate, Outcomes
  <2>4. CASE TransferEnds(c)
    BY <2>4, ExitStep DEF TransferEnds, Outcomes
  <2> QED
    BY <1>3, <2>1, <2>2, <2>3, <2>4 DEF Work
<1>4. ASSUME NEW c \in Calls, Other(c) PROVE SlotInv'
  <2>1. CASE Refuse(c) \/ Send(c)
    BY <2>1, QueueSteps
  <2>2. CASE Drop(c)
    BY <2>2, QueueSteps, LetGoStep DEF Drop
  <2>3. CASE DeadlinePasses(c) \/ WorkerStarts(c)
    BY <2>3, WorkerSteps
  <2> QED
    BY <1>4, <2>1, <2>2, <2>3 DEF Other
<1> QED
    BY <1>1, <1>2, <1>3, <1>4 DEF Next, AllDone

-----------------------------------------------------------------------------
(* Theorems *)

\* Permits, requests, futures and closures always agree on who holds what.
THEOREM SlotsAccounted == Spec => []SlotInv
    BY SlotInit, SlotNext, PTL DEF Spec, Safety

\* Every variable keeps its type, whatever the calls do; in particular the semaphore never has
\* more permits than MAX_BLOCKING_REQUESTS and never fewer than none (send).
THEOREM TransportTypes == Spec => []TypeOK
<1>1. SlotInv => TypeOK
    BY DEF SlotInv
<1> QED
    BY <1>1, SlotsAccounted, PTL

\* No permit is lost or made up, for any number of calls and slots (PendingTransfer, send).
THEOREM SlotsConserved == Spec => []PermitsConserved
<1>1. SlotInv => PermitsConserved
    BY DEF SlotInv
<1> QED
    BY <1>1, SlotsAccounted, PTL

\* There are never more transfers under way than slots, and each holds its own slot and request
\* until it exits (send's closure).
THEOREM TransfersBounded == Spec => []TransfersHoldSlots
<1>1. SlotInv => TransfersHoldSlots
  <2> SUFFICES ASSUME SlotInv PROVE TransfersHoldSlots
    OBVIOUS
  <2>1. \A c \in Transferring: permit[c] = "worker" /\ request[c] = "worker"
    BY DEF SlotInv, Placed, Transferring
  <2>2. Transferring \in SUBSET Holders
    BY <2>1 DEF Transferring, Holders
  <2>3. IsFiniteSet(Holders)
    BY FS_Subset, TransportAssumption DEF Holders
  <2>4. Cardinality(Transferring) <= Cardinality(Holders)
    BY <2>2, <2>3, FS_Subset
  <2>5. Cardinality(Transferring) \in Nat /\ Cardinality(Holders) \in Nat
    BY <2>2, <2>3, FS_Subset, FS_CardinalityType
  <2>6. Cardinality(Transferring) <= MaxSlots
    BY <2>4, <2>5, TransportAssumption DEF SlotInv, TypeOK, PermitsConserved
  <2> QED
    BY <2>1, <2>6 DEF TransfersHoldSlots
<1> QED
    BY <1>1, SlotsAccounted, PTL

\* A call that ended with its request untaken leaves neither its slot nor its request in the
\* blocking queue, started or not (PendingTransfer::drop).
THEOREM NothingLeft == Spec => []NothingLeftQueued
<1>1. SlotInv => NothingLeftQueued
    BY DEF SlotInv, TypeOK, Placed, NothingLeftQueued
<1> QED
    BY <1>1, SlotsAccounted, PTL

\* A call given up with its request untaken is never sent afterwards (send's closure takes the
\* request under the job's lock).
THEOREM GivenUpStaysUnsent == Spec => GivenUpIsNeverSent
<1>1. ASSUME SlotInv, [Next]_vars, NEW c \in Calls, call[c] = "done",
             worker[c] \notin {"holding", "transferring"}
      PROVE  worker'[c] \notin {"holding", "transferring"}
  <2>1. permit[c] # "job"
    BY <1>1 DEF SlotInv, Placed
  <2>2. CASE UNCHANGED vars
    BY <1>1, <2>2 DEF vars
  <2>3. ASSUME NEW d \in Calls, Poll(d) PROVE worker'[c] \notin {"holding", "transferring"}
    BY <1>1, <2>3 DEF SlotInv, TypeOK, Poll, Acquire, AcquireTimeout, LeaveQueue, Deliver, Timeout,
                      LetGo, Set
  <2>4. ASSUME NEW d \in Calls, Work(d) PROVE worker'[c] \notin {"holding", "transferring"}
    BY <1>1, <2>1, <2>4 DEF SlotInv, TypeOK, Work, WorkerTakes, WorkerFindsNothing, WorkerLate,
                            TransferBegins, TransferEnds, Exit, Set
  <2>5. ASSUME NEW d \in Calls, Other(d) PROVE worker'[c] \notin {"holding", "transferring"}
    BY <1>1, <2>5 DEF SlotInv, TypeOK, Other, Refuse, Send, Drop, LeaveQueue, DeadlinePasses,
                      WorkerStarts, LetGo, Set
  <2> QED
    BY <1>1, <2>2, <2>3, <2>4, <2>5 DEF Next, AllDone
<1>2. SlotInv /\ [Next]_vars =>
        [\A c \in Calls: call[c] = "done" /\ worker[c] \notin {"holding", "transferring"}
            => worker'[c] \notin {"holding", "transferring"}]_vars
    BY <1>1
<1> QED
    BY <1>2, SlotsAccounted, PTL DEF Spec, Safety, GivenUpIsNeverSent

-----------------------------------------------------------------------------
(* The cookie jar *)

Sendable(c, now) == c.name # "" /\ Unexpired(c, now)

\* Two lists are the same to a request sent now or later.
Agree(S, T, now) == \A c \in Cookies: Sendable(c, now) => (c \in S <=> c \in T)

TypesOK ==
    /\ clock \in Nat /\ to \in Origins \cup {NoOrigin}
    /\ jar \in [Origins -> SUBSET Cookies] /\ given \in [Origins -> SUBSET Cookies]
    /\ store \subseteq Cookies /\ giving \subseteq Cookies

KeptAgrees ==
    \A o \in Origins:
        /\ Agree(jar[o], given[o], clock)
        /\ \A c \in jar[o]: c.name # ""
        /\ \A c \in given[o]: DomainMatches(o.host, c.domain)

UnderWayAgrees ==
    to # NoOrigin =>
        /\ Agree(store, giving, clock)
        /\ \A c \in giving: DomainMatches(to.host, c.domain)

BodyWithin == to # NoOrigin => body \in Nat /\ body <= MaxResponse

FetchInv ==
    /\ TypesOK /\ KeptAgrees /\ UnderWayAgrees /\ BodyWithin
    /\ SendsWhatWasGiven /\ PageIsWhole

\* A cookie that may be sent later may be sent now.
LEMMA SendableEarlier ==
    ASSUME NEW c \in Cookies, NEW now \in Nat, Sendable(c, now + 1)
    PROVE  Sendable(c, now)
<1>1. c.expiry \in Nat
  BY FetchAssumption
<1>2. c.name # "" /\ (c.expiry = 0 \/ c.expiry > now + 1)
  BY DEF Sendable, Unexpired
<1>3. \A e \in Nat: e > now + 1 => e > now
  OBVIOUS
<1>4. c.expiry = 0 \/ c.expiry > now
  BY <1>1, <1>2, <1>3
<1> QED
  BY <1>2, <1>4 DEF Sendable, Unexpired

\* What agrees now agrees after a tick.
LEMMA AgreeLater ==
    ASSUME NEW S, NEW T, NEW now \in Nat, Agree(S, T, now)
    PROVE  Agree(S, T, now + 1)
<1> SUFFICES ASSUME NEW c \in Cookies, Sendable(c, now + 1) PROVE c \in S <=> c \in T
  BY DEF Agree
<1>1. Sendable(c, now)
  BY SendableEarlier
<1> QED
  BY <1>1 DEF Agree

\* A cookie put into two lists that agree leaves two that agree.
LEMMA PutAgrees ==
    ASSUME NEW S, NEW T, NEW c \in Cookies, Agree(S, T, clock)
    PROVE  Agree(Put(S, c), Put(T, c), clock)
BY DEF Agree, Put

\* The jar's lines for an origin are the sites' own, cut to what may be sent.
LEMMA LinesAreGiven ==
    ASSUME TypesOK, KeptAgrees, NEW o \in Origins
    PROVE  LinesAt(o, clock) = {c \in given[o]: c.name # "" /\ Unexpired(c, clock)}
<1>1. jar[o] \subseteq Cookies /\ given[o] \subseteq Cookies
  BY DEF TypesOK
<1>2. ASSUME NEW c \in Cookies, Unexpired(c, clock)
      PROVE  c \in jar[o] <=> c \in given[o] /\ c.name # ""
  BY <1>2 DEF KeptAgrees, Agree, Sendable
<1> QED
  BY <1>1, <1>2 DEF LinesAt

\* Initially there are no cookies.
LEMMA FetchInvInit == FetchInit => FetchInv
<1> SUFFICES ASSUME FetchInit PROVE FetchInv
  OBVIOUS
<1> QED
  BY DEF FetchInit, FetchInv, TypesOK, KeptAgrees, UnderWayAgrees, BodyWithin, Agree,
         SendsWhatWasGiven, PageIsWhole, NoResult

\* A request takes the lines that may be sent now.
LEMMA SendStep ==
    ASSUME FetchInv, NEW o \in Origins, SendTo(o)
    PROVE  FetchInv'
<1>1. CASE ~AllowedScheme(o)
  <2>1. UNCHANGED <<clock, jar, to, sent, sentAt, store, reply, body, given, giving>>
    BY <1>1 DEF SendTo
  <2>2. fetched'.kind # "page"
    BY <1>1 DEF SendTo
  <2> QED
    BY <2>1, <2>2 DEF FetchInv, TypesOK, KeptAgrees, UnderWayAgrees, BodyWithin, Agree,
                      SendsWhatWasGiven, PageIsWhole
<1>2. CASE AllowedScheme(o)
  <2>1. /\ to' = o /\ sent' = LinesAt(o, clock) /\ sentAt' = clock /\ store' = sent'
        /\ giving' = given[o] /\ body' = 0 /\ fetched' = NoResult
        /\ UNCHANGED <<clock, jar, given>>
    BY <1>2 DEF SendTo
  <2>2. sent' = {c \in given[o]: c.name # "" /\ Unexpired(c, clock)}
    BY <2>1, LinesAreGiven DEF FetchInv
  <2>3. TypesOK'
    BY <2>1, <2>2 DEF FetchInv, TypesOK
  <2>4. KeptAgrees'
    BY <2>1 DEF FetchInv, KeptAgrees, Agree
  <2>5. UnderWayAgrees'
    <3>1. Agree(store', giving', clock')
      BY <2>1, <2>2 DEF Agree, Sendable
    <3>2. \A c \in giving': DomainMatches(o.host, c.domain)
      BY <2>1 DEF FetchInv, KeptAgrees
    <3> QED
      BY <2>1, <3>1, <3>2 DEF UnderWayAgrees
  <2>6. BodyWithin'
    BY <2>1, FetchAssumption DEF BodyWithin
  <2>7. SendsWhatWasGiven'
    BY <2>1, <2>2 DEF SendsWhatWasGiven
  <2>8. PageIsWhole'
    BY <2>1 DEF PageIsWhole, NoResult
  <2> QED
    BY <2>3, <2>4, <2>5, <2>6, <2>7, <2>8 DEF FetchInv
<1> QED
  BY <1>1, <1>2

\* A request that ends without a response leaves the jar as it was.
LEMMA FailStep ==
    ASSUME FetchInv, Fail
    PROVE  FetchInv'
BY DEF FetchInv, Fail, TypesOK, KeptAgrees, UnderWayAgrees, BodyWithin, Agree,
       SendsWhatWasGiven, PageIsWhole

\* A header line puts the same cookie into libcurl's store and into the site's account.
LEMMA HeaderStep ==
    ASSUME FetchInv, HeaderLine
    PROVE  FetchInv'
<1>1. CASE Fail
  BY <1>1, FailStep
<1>2. CASE UNCHANGED <<store, giving, clock, jar, to, sent, sentAt, reply, body, fetched, given>>
  BY <1>2 DEF FetchInv, TypesOK, KeptAgrees, UnderWayAgrees, BodyWithin, Agree,
              SendsWhatWasGiven, PageIsWhole
<1>3. ASSUME NEW c \in Cookies, DomainMatches(to.host, c.domain),
             store' = Put(store, c), giving' = Put(giving, c),
             UNCHANGED <<clock, jar, to, sent, sentAt, reply, body, fetched, given>>
      PROVE  FetchInv'
  <2>1. TypesOK'
    BY <1>3 DEF FetchInv, TypesOK, Put
  <2>2. KeptAgrees'
    BY <1>3 DEF FetchInv, KeptAgrees, Agree
  <2>3. UnderWayAgrees'
    <3> SUFFICES ASSUME to # NoOrigin
                 PROVE  /\ Agree(store', giving', clock)
                        /\ \A d \in giving': DomainMatches(to.host, d.domain)
      BY <1>3 DEF UnderWayAgrees
    <3>1. Agree(store', giving', clock)
      BY <1>3, PutAgrees DEF FetchInv, UnderWayAgrees
    <3>2. \A d \in Put(giving, c): DomainMatches(to.host, d.domain)
      BY <1>3 DEF FetchInv, UnderWayAgrees, Put
    <3> QED
      BY <1>3, <3>1, <3>2
  <2>4. BodyWithin' /\ SendsWhatWasGiven' /\ PageIsWhole'
    BY <1>3 DEF FetchInv, BodyWithin, SendsWhatWasGiven, PageIsWhole
  <2> QED
    BY <2>1, <2>2, <2>3, <2>4 DEF FetchInv
<1> QED
  BY <1>1, <1>2, <1>3 DEF HeaderLine

\* The body grows up to the limit.
LEMMA BodyStep ==
    ASSUME FetchInv, Body
    PROVE  FetchInv'
<1>1. CASE Fail
  BY <1>1, FailStep
<1>2. ASSUME NEW n \in 1..(reply.body - body), to # NoOrigin,
             body + n <= MaxResponse, body' = body + n,
             UNCHANGED <<clock, jar, to, sent, sentAt, store, giving, reply, fetched, given>>
      PROVE  FetchInv'
  <2>1. n \in Int /\ n >= 1
    OBVIOUS
  <2>2. BodyWithin'
    BY <1>2, <2>1, FetchAssumption DEF FetchInv, BodyWithin
  <2>3. TypesOK' /\ KeptAgrees' /\ UnderWayAgrees' /\ SendsWhatWasGiven' /\ PageIsWhole'
    BY <1>2 DEF FetchInv, TypesOK, KeptAgrees, UnderWayAgrees, Agree, SendsWhatWasGiven, PageIsWhole
  <2> QED
    BY <2>2, <2>3 DEF FetchInv
<1> QED
  BY <1>1, <1>2 DEF Body

\* The jar takes libcurl's list, the record takes the site's account of the same response.
LEMMA LandStep ==
    ASSUME FetchInv, Land
    PROVE  FetchInv'
<1>1. /\ to # NoOrigin /\ to \in Origins /\ to' = NoOrigin /\ body = reply.body
      /\ jar' = [jar EXCEPT ![to] = {c \in store: Usable(c, to.host, clock)}]
      /\ given' = [given EXCEPT ![to] = giving]
      /\ UNCHANGED <<clock, sent, sentAt, store, giving, reply, headers, body>>
  BY DEF Land, Whole, Replace, FetchInv, TypesOK
<1>2. fetched'.kind = "page" => fetched'.body = body
  BY DEF Land
<1>3. TypesOK'
  BY <1>1 DEF FetchInv, TypesOK
<1>4. KeptAgrees'
  <2> SUFFICES ASSUME NEW o \in Origins
               PROVE  /\ Agree(jar'[o], given'[o], clock)
                      /\ \A c \in jar'[o]: c.name # ""
                      /\ \A c \in given'[o]: DomainMatches(o.host, c.domain)
    BY <1>1 DEF KeptAgrees
  <2>1. CASE o # to
    <3>1. jar'[o] = jar[o] /\ given'[o] = given[o]
      BY <1>1, <2>1 DEF FetchInv, TypesOK
    <3> QED
      BY <3>1 DEF FetchInv, KeptAgrees
  <2>2. CASE o = to
    <3>1. jar'[o] = {c \in store: Usable(c, to.host, clock)} /\ given'[o] = giving
      BY <1>1, <2>2 DEF FetchInv, TypesOK
    <3>2. \A c \in giving: DomainMatches(to.host, c.domain)
      BY <1>1 DEF FetchInv, UnderWayAgrees
    <3>3. ASSUME NEW c \in Cookies, Sendable(c, clock)
          PROVE  c \in store /\ Usable(c, to.host, clock) <=> c \in giving
      <4>1. c \in store <=> c \in giving
        BY <1>1, <3>3 DEF FetchInv, UnderWayAgrees, Agree
      <4> QED
        BY <3>2, <3>3, <4>1 DEF Usable, Sendable
    <3>4. Agree(jar'[o], given'[o], clock)
      BY <3>1, <3>3 DEF Agree
    <3>5. \A c \in jar'[o]: c.name # ""
      BY <3>1 DEF Usable
    <3> QED
      BY <2>2, <3>1, <3>2, <3>4, <3>5
  <2> QED
    BY <2>1, <2>2
<1>5. UnderWayAgrees' /\ BodyWithin' /\ SendsWhatWasGiven'
  BY <1>1 DEF UnderWayAgrees, BodyWithin, SendsWhatWasGiven
<1>6. PageIsWhole'
  BY <1>1, <1>2 DEF FetchInv, BodyWithin, PageIsWhole
<1> QED
  BY <1>3, <1>4, <1>5, <1>6 DEF FetchInv

\* Time only takes cookies away.
LEMMA TickStep ==
    ASSUME FetchInv, Tick
    PROVE  FetchInv'
<1>1. /\ clock' = clock + 1 /\ clock \in Nat
      /\ UNCHANGED <<jar, to, sent, sentAt, store, reply, headers, body, fetched, given, giving>>
  BY DEF Tick, FetchInv, TypesOK
<1>2. TypesOK'
  BY <1>1 DEF FetchInv, TypesOK
<1>3. KeptAgrees'
  <2>1. ASSUME NEW o \in Origins PROVE Agree(jar[o], given[o], clock + 1)
    BY <1>1, AgreeLater DEF FetchInv, KeptAgrees
  <2> QED
    BY <1>1, <2>1 DEF FetchInv, KeptAgrees
<1>4. UnderWayAgrees'
  <2>1. to # NoOrigin => Agree(store, giving, clock + 1)
    BY <1>1, AgreeLater DEF FetchInv, UnderWayAgrees
  <2> QED
    BY <1>1, <2>1 DEF FetchInv, UnderWayAgrees
<1>5. BodyWithin' /\ SendsWhatWasGiven' /\ PageIsWhole'
  BY <1>1 DEF FetchInv, BodyWithin, SendsWhatWasGiven, PageIsWhole
<1> QED
  BY <1>2, <1>3, <1>4, <1>5 DEF FetchInv

\* Every step preserves the inductive invariant.
LEMMA FetchStep == FetchInv /\ [FetchNext]_fetchVars => FetchInv'
<1> SUFFICES ASSUME FetchInv, [FetchNext]_fetchVars PROVE FetchInv'
  OBVIOUS
<1>1. ASSUME NEW o \in Origins, SendTo(o) PROVE FetchInv'
  BY <1>1, SendStep
<1>2. CASE HeaderLine
  BY <1>2, HeaderStep
<1>3. CASE Body
  BY <1>3, BodyStep
<1>4. CASE Break
  BY <1>4, FailStep DEF Break
<1>5. CASE Land
  BY <1>5, LandStep
<1>6. CASE Tick
  BY <1>6, TickStep
<1>7. CASE UNCHANGED fetchVars
  BY <1>7 DEF fetchVars, FetchInv, TypesOK, KeptAgrees, UnderWayAgrees, BodyWithin, Agree,
              SendsWhatWasGiven, PageIsWhole
<1> QED
  BY <1>1, <1>2, <1>3, <1>4, <1>5, <1>6, <1>7 DEF FetchNext

\* Every request carries what its origin gave and nothing else, for any sites, cookies, responses
\* and limits: replacing the origin's whole list loses no cookie and revives none.
THEOREM SendsWhatWasGivenAlways == FetchSpec => []SendsWhatWasGiven
<1>1. FetchInv => SendsWhatWasGiven
  BY DEF FetchInv
<1> QED
  BY <1>1, FetchInvInit, FetchStep, PTL DEF FetchSpec

\* No page is ever a part of a response.
THEOREM PageIsWholeAlways == FetchSpec => []PageIsWhole
<1>1. FetchInv => PageIsWhole
  BY DEF FetchInv
<1> QED
  BY <1>1, FetchInvInit, FetchStep, PTL DEF FetchSpec

-----------------------------------------------------------------------------
(* The memory of an exchange *)

\* Every buffer has its owner in scope or is with the caller; the nodes and the handle live as
\* long as their owners, and what is under way has its owners.
MemoryInv ==
    /\ stage \in {"idle", "headers", "reading", "returning", "leaving"}
    /\ asking \in PageRequests \cup ApiRequests \cup {NoRequest}
    /\ live \subseteq Owners
    /\ \A b \in held: b \in Kept \/ \E owner \in live: b \in Buffers(owner)
    /\ nodes \in Seq(Nat) /\ lengths = nodes
    /\ handle \in {"none", "open", "points"}
    /\ nodes # <<>> => "list" \in live
    /\ handle # "none" => "handle" \in live
    /\ stage = "idle" => live = {}
    /\ stage \in {"headers", "reading"} => {"request", "list", "handle"} \subseteq live
    /\ stage \in {"reading", "returning"} => "response" \in live
    /\ lost \subseteq {"refused url"}
    /\ handle = "points" => nodes # <<>>

\* An element of a sequence has the sequence's type.
LEMMA ElementType ==
    ASSUME NEW S, NEW s \in Seq(S)
    PROVE  \A i \in DOMAIN s: s[i] \in S
OBVIOUS

\* transport.rs, Request::form: what is written fits into what was reserved, however many fields
\* there are and however many of their bytes are escaped.
LEMMA WrittenFits ==
    ASSUME NEW r, RequestShape(r)
    PROVE  Outgrown("form", Cardinality(Written(r.fields)), Cardinality(Room(r.fields))) = {}
<1> DEFINE fields == r.fields
           room(i) == {i} \X (1..(3 * fields[i].bytes + 2))
           rooms == {room(i): i \in DOMAIN fields}
<1>1. /\ Len(fields) \in Nat /\ DOMAIN fields = 1..Len(fields)
      /\ \A i \in DOMAIN fields: fields[i].bytes \in Nat /\ fields[i].escaped \in Nat
      /\ \A i \in DOMAIN fields: fields[i].escaped <= fields[i].bytes
  <2>1. fields \in Seq([bytes: Nat, escaped: Nat])
    BY DEF RequestShape
  <2>2. \A i \in DOMAIN fields: fields[i].escaped <= fields[i].bytes
    BY DEF RequestShape
  <2> HIDE DEF fields
  <2>3. Len(fields) \in Nat /\ DOMAIN fields = 1..Len(fields)
    BY <2>1
  <2>4. \A i \in DOMAIN fields: fields[i] \in [bytes: Nat, escaped: Nat]
    BY <2>1, ElementType
  <2> QED
    BY <2>2, <2>3, <2>4
<1>2. IsFiniteSet(rooms)
  <2>1. IsFiniteSet(DOMAIN fields)
    BY <1>1, FS_Interval
  <2> DEFINE f == [i \in DOMAIN fields |-> room(i)]
  <2>2. f \in Surjection(DOMAIN fields, rooms)
    BY DEF Surjection
  <2> QED
    BY <2>1, <2>2, FS_Surjection
<1>3. ASSUME NEW i \in DOMAIN fields PROVE IsFiniteSet(room(i))
  <2>1. IsFiniteSet({i}) /\ IsFiniteSet(1..(3 * fields[i].bytes + 2))
    <3>1. 3 * fields[i].bytes + 2 \in Int
      BY <1>1
    <3>2. IsFiniteSet(1..(3 * fields[i].bytes + 2))
      BY <3>1, FS_Interval
    <3> QED
      BY <3>2, FS_Singleton
  <2> QED
    BY <2>1, FS_Product
<1>4. IsFiniteSet(Room(fields))
  <2>1. Room(fields) = UNION rooms
    BY DEF Room
  <2>2. \A S \in rooms: IsFiniteSet(S)
    BY <1>3
  <2> HIDE DEF rooms
  <2>3. IsFiniteSet(UNION rooms)
    BY <1>2, <2>2, FS_UNION
  <2> QED
    BY <2>1, <2>3
<1>5. Written(fields) \subseteq Room(fields)
  <2> SUFFICES ASSUME NEW i \in DOMAIN fields,
                      NEW k \in 1..(fields[i].bytes + 2 * fields[i].escaped
                                    + IF i = 1 THEN 1 ELSE 2)
               PROVE  k \in 1..(3 * fields[i].bytes + 2)
    BY DEF Written, Room
  <2> QED
    BY <1>1
<1>6. Cardinality(Written(fields)) <= Cardinality(Room(fields))
  BY <1>4, <1>5, FS_Subset
<1>7. Cardinality(Written(fields)) \in Nat /\ Cardinality(Room(fields)) \in Nat
  BY <1>4, <1>5, FS_Subset, FS_CardinalityType
<1> QED
  BY <1>6, <1>7 DEF Outgrown

\* Initially nothing is held.
LEMMA MemoryInit == ExchangeInit => MemoryInv
BY DEF ExchangeInit, MemoryInv

\* A request takes its buffers along with their owners.
LEMMA AskStep ==
    ASSUME MemoryInv, NEW r \in PageRequests \cup ApiRequests,
           AskApi(r) \/ \E origin \in Origins: AskPage(origin, r)
    PROVE  MemoryInv'
<1>1. /\ stage = "idle" /\ asking' = r /\ nodes' = nodes /\ lengths' = lengths
      /\ nodes = <<>> /\ handle = "none"
  <2>1. stage = "idle" /\ asking' = r /\ nodes' = nodes /\ lengths' = lengths
    BY DEF AskApi, AskPage, Ask
  <2> QED
    BY <2>1 DEF MemoryInv
<1>2. lost' = lost
  BY WrittenFits, RequestAssumption DEF AskApi, AskPage, Ask
<1>3. \A b \in held: b \in Kept
  BY <1>1 DEF MemoryInv
<1>4. Carried(r) \subseteq Buffers("request") /\ "cookies" \in Buffers("request")
  BY DEF Carried, Buffers
<1>5. /\ stage' \in {"headers", "leaving"} /\ live' \subseteq Owners /\ "request" \in live'
      /\ \/ stage' = "headers" /\ handle' = "open" /\ {"list", "handle"} \subseteq live'
         \/ stage' = "leaving" /\ handle' = "none"
      /\ \/ held' \subseteq held \cup Carried(r)
         \/ /\ "requested" \in live'
            /\ held' \subseteq held \cup Carried(r) \cup {"requested", "cookies"}
  BY <1>1 DEF AskApi, AskPage, Owners
<1>6. \A b \in held': b \in Kept \/ \E owner \in live': b \in Buffers(owner)
  <2>1. "requested" \in Buffers("requested")
    BY DEF Buffers
  <2> QED
    BY <1>3, <1>4, <1>5, <2>1
<1> QED
  BY <1>1, <1>2, <1>5, <1>6 DEF MemoryInv

\* The nodes are recorded one by one, for all that libcurl copied of each.
LEMMA AppendStep ==
    ASSUME MemoryInv, AppendHeader
    PROVE  MemoryInv'
<1> DEFINE line == asking.lines[Len(nodes) + 1]
<1>1. /\ stage = "headers" /\ Len(nodes) < Len(asking.lines) /\ ~line.control
      /\ nodes' = Append(nodes, line.copied) /\ lengths' = Append(lengths, line.length)
      /\ UNCHANGED <<stage, asking, live, held, handle, lost>>
  BY DEF AppendHeader
<1>2. nodes \in Seq(Nat) /\ Len(nodes) \in Nat /\ lengths = nodes
  <2>1. nodes \in Seq(Nat) /\ lengths = nodes
    BY DEF MemoryInv
  <2> QED
    BY <2>1
<1>3. asking # NoRequest
  BY <1>1, <1>2 DEF NoRequest
<1>4. RequestShape(asking)
  BY <1>3, RequestAssumption DEF MemoryInv
<1>5. line \in [length: Nat, copied: Nat, control: BOOLEAN] /\ line.copied = line.length
  <2>1. asking.lines \in Seq([length: Nat, copied: Nat, control: BOOLEAN])
    BY <1>4 DEF RequestShape
  <2>2. Len(nodes) + 1 \in DOMAIN asking.lines
    BY <1>1, <1>2, <2>1
  <2>3. line \in [length: Nat, copied: Nat, control: BOOLEAN]
    BY <2>1, <2>2, ElementType
  <2>4. line.control \/ line.copied = line.length
    BY <1>4, <2>2 DEF RequestShape
  <2> QED
    BY <1>1, <2>3, <2>4
<1>6. nodes' \in Seq(Nat) /\ lengths' = nodes' /\ nodes' # <<>>
  BY <1>1, <1>2, <1>5
<1> QED
  BY <1>1, <1>6 DEF MemoryInv

\* The handle points at the nodes once they are all there.
LEMMA InstallStep ==
    ASSUME MemoryInv, Install
    PROVE  MemoryInv'
<1>1. /\ stage = "headers" /\ Len(nodes) = Len(asking.lines)
      /\ stage' = "reading" /\ live' = live \cup {"response"}
      /\ handle' = IF asking.lines = <<>> THEN "open" ELSE "points"
      /\ UNCHANGED <<asking, held, nodes, lengths, lost>>
  BY DEF Install
<1>2. handle' = "points" => nodes # <<>>
  <2>1. ASSUME asking.lines # <<>> PROVE nodes # <<>>
    <3>1. asking \in PageRequests \cup ApiRequests
      <4>1. asking # NoRequest
        BY <2>1 DEF NoRequest
      <4> QED
        BY <4>1 DEF MemoryInv
    <3>2. asking.lines \in Seq([length: Nat, copied: Nat, control: BOOLEAN])
      BY <3>1, RequestAssumption DEF RequestShape
    <3> QED
      BY <1>1, <2>1, <3>2
  <2> QED
    BY <1>1, <2>1
<1> QED
  BY <1>1, <1>2 DEF MemoryInv, Owners

\* What arrives goes into the Response, within its room.
LEMMA ReceiveStep ==
    ASSUME MemoryInv, ReceivePage \/ ReceiveApi
    PROVE  MemoryInv'
<1>1. "response" \in live /\ Buffers("response") = {"body", "answer"}
  BY DEF MemoryInv, ReceivePage, ReceiveApi, Buffers
<1>2. /\ \E b \in {"answer", "body"}: held' = held \cup {b}
      /\ UNCHANGED <<stage, asking, live, nodes, lengths, handle>>
  BY DEF ReceivePage, ReceiveApi
<1>3. lost' = lost
  <2>1. ASSUME ReceivePage, Body PROVE Outgrown("body", body', MaxResponse) = {}
    <3>1. to' = to /\ to # NoOrigin
      BY <2>1 DEF ReceivePage, Body
    <3>2. PICK n \in 1..(reply.body - body): body + n <= MaxResponse /\ body' = body + n
      BY <2>1, <3>1 DEF Body, Fail
    <3> QED
      BY <3>2, FetchAssumption DEF Outgrown
  <2> QED
    BY <2>1 DEF ReceivePage, ReceiveApi
<1> QED
  BY <1>1, <1>2, <1>3 DEF MemoryInv

\* A step that changes only the stage, to one with as many owners, and what the caller keeps.
LEMMA StageStep ==
    ASSUME MemoryInv, Perform \/ Abandon \/ ResponseLands \/ Over \/ DropKept
    PROVE  MemoryInv'
<1>1. CASE Perform \/ Abandon
  BY <1>1 DEF Perform, Abandon, MemoryInv
<1>2. CASE ResponseLands
  <2>1. /\ stage = "returning" /\ stage' = "leaving" /\ held' \subseteq held \cup Kept
        /\ UNCHANGED <<asking, live, nodes, lengths, handle, lost>>
    BY <1>2 DEF ResponseLands, Kept
  <2> QED
    BY <2>1 DEF MemoryInv
<1>3. CASE Over
  BY <1>3 DEF Over, MemoryInv
<1>4. CASE DropKept
  BY <1>4 DEF DropKept, MemoryInv
<1> QED
  BY <1>1, <1>2, <1>3, <1>4

\* An owner wipes what it owns; the list goes after the handle.
LEMMA DropStep ==
    ASSUME MemoryInv, NEW owner \in Owners, DropOwner(owner)
    PROVE  MemoryInv'
<1>1. /\ stage \in {"returning", "leaving"} /\ owner \in Leaving
      /\ owner = "requested" \/ \A other \in Leaving: Declared(other) <= Declared(owner)
      /\ live' = live \ {owner} /\ held' = held \ Buffers(owner)
      /\ lost' = lost \cup ((held \cap Buffers(owner)) \ Wipes(owner))
                      \cup {b \in {"nodes"}: owner = "list" /\ ~ScrubsAll}
      /\ handle' = IF owner = "handle" THEN "none" ELSE handle
      /\ nodes' = IF owner = "list" THEN <<>> ELSE nodes
      /\ lengths' = IF owner = "list" THEN <<>> ELSE lengths
      /\ UNCHANGED <<stage, asking>>
  BY DEF DropOwner
<1>2. lost' = lost
  <2>1. Buffers(owner) = Wipes(owner)
    BY DEF Buffers, Wipes
  <2>2. ScrubsAll
    <3>1. nodes \in Seq(Nat) /\ lengths = nodes
      BY DEF MemoryInv
    <3> QED
      BY <3>1 DEF ScrubsAll
  <2> QED
    BY <1>1, <2>1, <2>2
<1>3. \A b \in held': b \in Kept \/ \E other \in live': b \in Buffers(other)
  BY <1>1 DEF MemoryInv
<1>4. owner = "list" => handle = "none"
  <2>1. ASSUME owner = "list", "handle" \in live PROVE FALSE
    <3>1. "handle" \in Leaving
      BY <2>1 DEF Leaving
    <3>2. Declared("handle") = 4 /\ Declared("list") = 3
      BY DEF Declared
    <3> QED
      BY <1>1, <2>1, <3>1, <3>2
  <2> QED
    BY <2>1 DEF MemoryInv
<1>5. stage = "returning" => owner \notin {"requested", "response"}
  BY <1>1 DEF Leaving
<1>6. /\ nodes' \in Seq(Nat) /\ lengths' = nodes'
      /\ nodes' # <<>> => "list" \in live'
      /\ handle' \in {"none", "open", "points"} /\ (handle' # "none" => "handle" \in live')
      /\ handle' = "points" => nodes' # <<>>
  <2>1. /\ nodes \in Seq(Nat) /\ lengths = nodes /\ (nodes # <<>> => "list" \in live)
        /\ handle \in {"none", "open", "points"} /\ (handle # "none" => "handle" \in live)
        /\ handle = "points" => nodes # <<>>
    BY DEF MemoryInv
  <2>2. CASE owner = "list"
    BY <1>1, <1>4, <2>1, <2>2
  <2>3. CASE owner # "list"
    BY <1>1, <2>1, <2>3
  <2> QED
    BY <2>2, <2>3
<1>7. /\ stage' \in {"returning", "leaving"} /\ live' \subseteq Owners
      /\ stage' = "returning" => "response" \in live'
  BY <1>1, <1>5 DEF MemoryInv
<1> QED
  BY <1>1, <1>2, <1>3, <1>6, <1>7 DEF MemoryInv

\* Every step preserves the inductive invariant.
LEMMA MemoryStep == MemoryInv /\ [ExchangeNext]_<<fetchVars, memoryVars>> => MemoryInv'
<1> SUFFICES ASSUME MemoryInv, [ExchangeNext]_<<fetchVars, memoryVars>> PROVE MemoryInv'
  OBVIOUS
<1>1. ASSUME NEW r \in PageRequests \cup ApiRequests, RefuseForm(r) PROVE MemoryInv'
  BY <1>1 DEF RefuseForm, MemoryInv
<1>2. ASSUME NEW origin \in Origins, NEW r \in PageRequests, AskPage(origin, r) PROVE MemoryInv'
  BY <1>2, AskStep
<1>3. ASSUME NEW r \in ApiRequests, AskApi(r) PROVE MemoryInv'
  BY <1>3, AskStep
<1>4. CASE AppendHeader
  BY <1>4, AppendStep
<1>5. CASE Install
  BY <1>5, InstallStep
<1>6. CASE ReceivePage \/ ReceiveApi
  BY <1>6, ReceiveStep
<1>7. CASE Perform \/ Abandon \/ ResponseLands \/ Over \/ DropKept
  BY <1>7, StageStep
<1>8. ASSUME NEW owner \in Owners, DropOwner(owner) PROVE MemoryInv'
  BY <1>8, DropStep
<1>9. CASE Later \/ UNCHANGED memoryVars
  BY <1>9 DEF Later, memoryVars, MemoryInv
<1> QED
  BY <1>1, <1>2, <1>3, <1>4, <1>5, <1>6, <1>7, <1>8, <1>9 DEF ExchangeNext

\* transport.rs: however an exchange ends, its buffers are overwritten before they are freed, for
\* any forms and header lines, and the nodes outlive the handle.
THEOREM BuffersAlwaysWiped == ExchangeSpec => []BuffersAreWiped
<1>1. MemoryInv => BuffersAreWiped
  BY DEF MemoryInv, BuffersAreWiped
<1> QED
  BY <1>1, MemoryInit, MemoryStep, PTL DEF ExchangeSpec

\* The exchanges with Keycloak's pages are fetches: all that holds of these holds of those.
THEOREM ExchangeIsFetch == ExchangeSpec => FetchSpec
<1>1. ExchangeInit => FetchInit
  BY DEF ExchangeInit
<1>2. [ExchangeNext]_<<fetchVars, memoryVars>> => [FetchNext]_fetchVars
  <2> SUFFICES ASSUME ExchangeNext PROVE FetchNext \/ UNCHANGED fetchVars
    OBVIOUS
  <2>1. ASSUME NEW origin \in Origins, NEW r \in PageRequests, AskPage(origin, r) PROVE FetchNext
    BY <2>1 DEF AskPage, FetchNext
  <2>2. CASE ReceivePage
    BY <2>2 DEF ReceivePage, FetchNext
  <2>3. CASE Abandon
    BY <2>3 DEF Abandon, FetchNext
  <2>4. CASE ResponseLands
    BY <2>4 DEF ResponseLands, FetchNext
  <2>5. CASE Later
    BY <2>5 DEF Later, FetchNext
  <2>6. CASE AppendHeader \/ Install \/ ReceiveApi \/ Perform \/ Over \/ DropKept
    BY <2>6 DEF AppendHeader, Install, ReceiveApi, Perform, Over, DropKept
  <2>7. ASSUME NEW r \in PageRequests \cup ApiRequests, RefuseForm(r) \/ AskApi(r)
        PROVE  UNCHANGED fetchVars
    BY <2>7 DEF RefuseForm, AskApi
  <2>8. ASSUME NEW owner \in Owners, DropOwner(owner) PROVE UNCHANGED fetchVars
    BY <2>8 DEF DropOwner
  <2> QED
    BY <2>1, <2>2, <2>3, <2>4, <2>5, <2>6, <2>7, <2>8 DEF ExchangeNext
<1> QED
  BY <1>1, <1>2, PTL DEF ExchangeSpec, FetchSpec
=============================================================================
