--------------------------- MODULE DownloadQueue ---------------------------
(***************************************************************************)
(* The slot queue of lib/services/download/download_queue.dart: at most    *)
(* maxConcurrent tasks hold a slot, later callers of acquire wait in FIFO  *)
(* order, and a callback of the owner says which tasks are eligible.       *)
(*                                                                         *)
(* The owner (DownloadManager) changes task statuses and then calls the    *)
(* queue in the same synchronous block, so every operation below evaluates *)
(* the callback in the owner's NEW state, eligible'.  A waiter is a call   *)
(* of acquire, <<task, n>>; one task may have several calls in flight.     *)
(***************************************************************************)
EXTENDS Integers, Sequences, FiniteSets

CONSTANTS Task,       \* task ids
          Call,       \* calls of acquire, <<task, number>>
          MaxSlots    \* upper end of the user's setting (clamped to 1..10)

ASSUME TaskAssumption == IsFiniteSet(Task)
ASSUME CallAssumption == \A c \in Call : c[1] \in Task
ASSUME MaxSlotsAssumption == MaxSlots \in Nat \ {0}

VARIABLES
  eligible,       \* tasks for which the owner's isTaskEligible returns true
  maxConcurrent,  \* _maxConcurrent
  holders,        \* _holders
  queue,          \* _queue, a sequence of calls
  call            \* what each call of acquire has been told

vars == <<eligible, maxConcurrent, holders, queue, call>>

CallState == {"idle", "waiting", "granted", "refused"}

Init ==
  /\ eligible \in SUBSET Task
  /\ maxConcurrent \in 1..MaxSlots
  /\ holders = {}
  /\ queue = <<>>
  /\ call = [c \in Call |-> "idle"]

-----------------------------------------------------------------------------
(* _reconcile: drop the holders the owner no longer considers eligible.    *)
Reconciled(hs) == hs \cap eligible'

(* The holders once the first k waiters of q have been taken off it.       *)
HoldersAfter(hs, q, k) == hs \cup ({q[i][1] : i \in 1..k} \cap eligible')

\* Mutant: the loop of _drain tests <= and hands out one slot too many.
StopsLate(hs, q, k) ==
  /\ k = Len(q) \/ Cardinality(HoldersAfter(hs, q, k)) > maxConcurrent'
  /\ \A j \in 0..(k - 1) : Cardinality(HoldersAfter(hs, q, j)) <= maxConcurrent'

(* The loop of _drain stops after k waiters: the queue is empty or the     *)
(* slots are full, and it was neither before.                              *)
StopsAfter(hs, q, k) ==
  /\ k = Len(q) \/ Cardinality(HoldersAfter(hs, q, k)) >= maxConcurrent'
  /\ \A j \in 0..(k - 1) : Cardinality(HoldersAfter(hs, q, j)) < maxConcurrent'

\* Mutant: _drain does not ask for eligibility again.
AnswerGranted(c) == "granted"

\* Mutant: _drain drops the waiter of an ineligible task uncompleted.
AnswerSkipped(c) == IF c[1] \in eligible' THEN "granted" ELSE "waiting"

(* A waiter of an ineligible task is refused; any other is granted, also   *)
(* when its task holds a slot already.                                     *)
Answer(c) == IF c[1] \in eligible' THEN "granted" ELSE "refused"

(* _drain, started on holders hs, queue q and calls cs.                    *)
DrainFrom(hs, q, cs) ==
  \E k \in 0..Len(q) :
    /\ StopsAfter(Reconciled(hs), q, k)
    /\ holders' = HoldersAfter(Reconciled(hs), q, k)
    /\ queue' = SubSeq(q, k + 1, Len(q))
    /\ call' = [c \in Call |->
                  IF \E i \in 1..k : q[i] = c THEN Answer(c) ELSE cs[c]]

-----------------------------------------------------------------------------
(* acquire, up to its return or to the await on the waiter's completer.    *)
AcquireIneligible(c) ==
  /\ c[1] \notin eligible'
  /\ holders' = Reconciled(holders)
  /\ call' = [call EXCEPT ![c] = "refused"]
  /\ UNCHANGED queue

AcquireHeld(c) ==
  /\ c[1] \in Reconciled(holders)
  /\ holders' = Reconciled(holders)
  /\ call' = [call EXCEPT ![c] = "granted"]
  /\ UNCHANGED queue

SlotFree == queue = <<>> /\ Cardinality(Reconciled(holders)) < maxConcurrent

AcquireFree(c) ==
  /\ c[1] \in eligible' \ holders
  /\ SlotFree
  /\ holders' = Reconciled(holders) \cup {c[1]}
  /\ call' = [call EXCEPT ![c] = "granted"]
  /\ UNCHANGED queue

\* Mutant: the newest waiter is put in front.
AcquireWaitInFront(c) ==
  /\ c[1] \in eligible' \ holders
  /\ ~SlotFree
  /\ DrainFrom(holders, <<c>> \o queue, [call EXCEPT ![c] = "waiting"])

AcquireWait(c) ==
  /\ c[1] \in eligible' \ holders
  /\ ~SlotFree
  /\ DrainFrom(holders, Append(queue, c), [call EXCEPT ![c] = "waiting"])

Acquire(c) ==
  /\ call[c] = "idle"
  /\ eligible' \in SUBSET Task
  /\ UNCHANGED maxConcurrent
  /\ \/ AcquireIneligible(c)
     \/ AcquireHeld(c)
     \/ AcquireFree(c)
     \/ AcquireWait(c)

\* Mutant: release frees the slot without draining.
ReleaseQuietly(S) ==
  /\ eligible' \in SUBSET Task
  /\ holders' = holders \ S
  /\ UNCHANGED <<maxConcurrent, queue, call>>

(* release of every task of S in one synchronous block: only a release     *)
(* that removes a holder drains.                                           *)
Release(S) ==
  /\ eligible' \in SUBSET Task
  /\ UNCHANGED maxConcurrent
  /\ IF S \cap holders = {}
       THEN UNCHANGED <<holders, queue, call>>
       ELSE DrainFrom(holders \ S, queue, call)

(* transfer: the owner has already moved the task from id old to id new.   *)
(* Reconciles, and does not drain.                                         *)
Renamed(old, new) ==
  IF old \in holders THEN (holders \ {old}) \cup {new} ELSE holders

Transfer(old, new) ==
  /\ old # new
  /\ eligible' \in SUBSET (Task \ {old})
  /\ holders' = Reconciled(Renamed(old, new))
  /\ UNCHANGED <<maxConcurrent, queue, call>>

(* The maxConcurrent setter; m is already clamped by the settings.         *)
SetMaxConcurrent(m) ==
  /\ m \in 1..MaxSlots
  /\ eligible' \in SUBSET Task
  /\ maxConcurrent' = m
  /\ DrainFrom(holders, queue, call)

(* The public drain().                                                     *)
Drain ==
  /\ eligible' \in SUBSET Task
  /\ UNCHANGED maxConcurrent
  /\ DrainFrom(holders, queue, call)

(* The awaiting caller of acquire resumes with its answer.                 *)
Return(c) ==
  /\ call[c] \in {"granted", "refused"}
  /\ eligible' \in SUBSET Task
  /\ call' = [call EXCEPT ![c] = "idle"]
  /\ UNCHANGED <<maxConcurrent, holders, queue>>

(* The owner changes task statuses without calling the queue.              *)
OwnerStep ==
  /\ eligible' \in SUBSET Task
  /\ UNCHANGED <<maxConcurrent, holders, queue, call>>

Next ==
  \/ \E c \in Call : Acquire(c)
  \/ \E S \in SUBSET Task : Release(S)
  \/ \E old, new \in Task : Transfer(old, new)
  \/ \E m \in 1..MaxSlots : SetMaxConcurrent(m)
  \/ Drain
  \/ \E c \in Call : Return(c)
  \/ OwnerStep

Spec == Init /\ [][Next]_vars

-----------------------------------------------------------------------------
TypeOK ==
  /\ eligible \in SUBSET Task
  /\ maxConcurrent \in 1..MaxSlots
  /\ holders \in SUBSET Task
  /\ queue \in Seq(Call)
  /\ call \in [Call -> CallState]

(* "At most maxConcurrent tasks hold a slot at once" (line 27), stated so  *)
(* that lowering the limit may leave older holders in place: no step takes *)
(* the number of holders above both the limit and its former value.        *)
SlotCap ==
  [][\/ Cardinality(holders') <= maxConcurrent'
     \/ Cardinality(holders') <= Cardinality(holders)]_vars

(* A call is told "granted" only while its task is eligible and holds a    *)
(* slot, whichever of the four grant paths of lines 82-96 and 124-140 ran. *)
GrantHoldsSlot ==
  [][\A c \in Call :
       call'[c] = "granted" /\ call[c] # "granted"
         => c[1] \in holders' \cap eligible']_vars

(* Waiters are answered in the order they asked (line 28): each step takes *)
(* a prefix off the queue and may add one call behind the rest.            *)
ServedInOrder ==
  [][\E k \in 0..Len(queue) :
       /\ Len(queue') >= Len(queue) - k
       /\ \A i \in (k + 1)..Len(queue) : queue'[i - k] = queue[i]
       /\ \A i \in 1..k : call'[queue[i]] # "waiting"]_vars

(* A slot is free while someone waits.                                     *)
IdleSlot == queue # <<>> /\ Cardinality(holders) < maxConcurrent

(* The only way to a free slot with somebody waiting is a holder dropped   *)
(* because it stopped being eligible; release, the setter and drain serve  *)
(* the queue before they return (lines 101-105, 124-140).                  *)
IdleSlotOnlyByEviction ==
  [][IdleSlot' /\ ~IdleSlot
       => \E t \in holders \ holders' : t \notin eligible']_vars

(* "Additional tasks wait in FIFO order and are granted a slot the moment  *)
(* one is released" (lines 28-30): when slots are released again and       *)
(* again, every call is answered.  The second condition excludes the one   *)
(* way to starve, an eviction that leaves no holder behind to release.     *)
EveryCallAnswered ==
  /\ WF_vars(\E t \in holders : Release({t}))
  /\ []<>(queue = <<>> \/ holders # {})
  => \A c \in Call : call[c] = "waiting" ~> call[c] # "waiting"
=============================================================================
