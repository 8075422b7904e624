------------------------ MODULE DownloadQueueProofs ------------------------
(***************************************************************************)
(* Proofs about DownloadQueue: its types, the cap on the slots, what a     *)
(* granted call may rely on, the order of service and when a slot may be   *)
(* idle, for every set of tasks and every limit.                           *)
(***************************************************************************)
EXTENDS DownloadQueue, FiniteSetTheorems, SequenceTheorems, TLAPS

(* The tasks of a sequence of calls are tasks.                             *)
LEMMA WaiterTasks ==
  ASSUME NEW q \in Seq(Call), NEW k \in 0..Len(q)
  PROVE  {q[i][1] : i \in 1..k} \subseteq Task
<1>1. \A i \in 1..k : q[i] \in Call
  OBVIOUS
<1>2. QED
  BY <1>1, CallAssumption

(* A drain keeps the types, whatever holders, queue and answers it starts  *)
(* from.                                                                   *)
LEMMA DrainTypes ==
  ASSUME eligible' \in SUBSET Task,
         NEW hs \in SUBSET Task, NEW q \in Seq(Call),
         NEW cs \in [Call -> CallState],
         DrainFrom(hs, q, cs)
  PROVE  /\ holders' \in SUBSET Task
         /\ queue' \in Seq(Call)
         /\ call' \in [Call -> CallState]
<1>1. PICK k \in 0..Len(q) :
        /\ holders' = HoldersAfter(Reconciled(hs), q, k)
        /\ queue' = SubSeq(q, k + 1, Len(q))
        /\ call' = [c \in Call |->
                      IF \E i \in 1..k : q[i] = c THEN Answer(c) ELSE cs[c]]
  BY DEF DrainFrom
<1>2. holders' \in SUBSET Task
  BY <1>1 DEF HoldersAfter, Reconciled
<1>3. queue' \in Seq(Call)
  <2>1. /\ k + 1 \in Nat /\ k + 1 >= 1
        /\ Len(q) \in Nat
    OBVIOUS
  <2>2. QED
    BY <1>1, <2>1, SubSeqProperties
<1>4. call' \in [Call -> CallState]
  BY <1>1 DEF Answer, CallState
<1>5. QED
  BY <1>2, <1>3, <1>4

(* The types are an invariant.                                             *)
THEOREM TypeCorrect == Spec => []TypeOK
<1>1. Init => TypeOK
  <2> SUFFICES ASSUME Init PROVE TypeOK
    OBVIOUS
  <2>1. queue \in Seq(Call)
    BY DEF Init
  <2>2. QED
    BY <2>1 DEF Init, TypeOK, CallState
<1>2. TypeOK /\ [Next]_vars => TypeOK'
  <2> SUFFICES ASSUME TypeOK, [Next]_vars PROVE TypeOK'
    OBVIOUS
  <2> USE DEF TypeOK
  <2>1. ASSUME NEW c \in Call, Acquire(c) PROVE TypeOK'
    <3>1. eligible' \in SUBSET Task /\ maxConcurrent' \in 1..MaxSlots
      BY <2>1 DEF Acquire
    <3>2. c[1] \in Task
      BY CallAssumption
    <3>3. CASE AcquireIneligible(c)
      BY <3>1, <3>3 DEF AcquireIneligible, Reconciled, CallState
    <3>4. CASE AcquireHeld(c)
      BY <3>1, <3>4 DEF AcquireHeld, Reconciled, CallState
    <3>5. CASE AcquireFree(c)
      BY <3>1, <3>2, <3>5 DEF AcquireFree, Reconciled, CallState
    <3>6. CASE AcquireWait(c)
      <4>1. Append(queue, c) \in Seq(Call)
        OBVIOUS
      <4>2. [call EXCEPT ![c] = "waiting"] \in [Call -> CallState]
        BY DEF CallState
      <4>3. DrainFrom(holders, Append(queue, c), [call EXCEPT ![c] = "waiting"])
        BY <3>6 DEF AcquireWait
      <4>4. QED
        BY <3>1, <4>1, <4>2, <4>3, DrainTypes
    <3>7. QED
      BY <2>1, <3>3, <3>4, <3>5, <3>6 DEF Acquire
  <2>2. ASSUME NEW S \in SUBSET Task, Release(S) PROVE TypeOK'
    <3>1. eligible' \in SUBSET Task /\ maxConcurrent' \in 1..MaxSlots
      BY <2>2 DEF Release
    <3>2. CASE S \cap holders = {}
      BY <2>2, <3>1, <3>2 DEF Release
    <3>3. CASE S \cap holders # {}
      <4>1. DrainFrom(holders \ S, queue, call)
        BY <2>2, <3>3 DEF Release
      <4>2. QED
        BY <3>1, <4>1, DrainTypes
    <3>4. QED
      BY <3>2, <3>3
  <2>3. ASSUME NEW old \in Task, NEW new \in Task, Transfer(old, new)
        PROVE  TypeOK'
    BY <2>3 DEF Transfer, Renamed, Reconciled
  <2>4. ASSUME NEW m \in 1..MaxSlots, SetMaxConcurrent(m) PROVE TypeOK'
    BY <2>4, DrainTypes DEF SetMaxConcurrent
  <2>5. CASE Drain
    BY <2>5, DrainTypes DEF Drain
  <2>6. ASSUME NEW c \in Call, Return(c) PROVE TypeOK'
    BY <2>6 DEF Return, CallState
  <2>7. CASE OwnerStep
    BY <2>7 DEF OwnerStep
  <2>8. CASE UNCHANGED vars
    BY <2>8 DEF vars
  <2>9. QED
    BY <2>1, <2>2, <2>3, <2>4, <2>5, <2>6, <2>7, <2>8 DEF Next
<1>3. QED
  BY <1>1, <1>2, PTL DEF Spec

-----------------------------------------------------------------------------
(* Adding an element makes a finite set larger by one at most.             *)
LEMMA AddOne ==
  ASSUME NEW S, NEW x, IsFiniteSet(S)
  PROVE  /\ IsFiniteSet(S \cup {x})
         /\ Cardinality(S) \in Nat
         /\ Cardinality(S \cup {x}) \in Nat
         /\ Cardinality(S \cup {x}) <= Cardinality(S) + 1
<1> DEFINE n == Cardinality(S)
           m == Cardinality(S \cup {x})
<1>1. IsFiniteSet(S \cup {x}) /\ m = IF x \in S THEN n ELSE n + 1
  BY FS_AddElement, Zenon
<1>2. n \in Nat /\ m \in Nat
  BY <1>1, FS_CardinalityType, Zenon
<1>3. m = n \/ m = n + 1
  BY <1>1
<1> HIDE DEF n, m
<1>4. m <= n + 1
  BY <1>2, <1>3
<1>5. QED
  BY <1>1, <1>2, <1>4 DEF n, m

(* The loop of a drain stops at the limit: the waiter it served last found *)
(* fewer holders than the limit.                                           *)
LEMMA DrainCap ==
  ASSUME TypeOK, TypeOK',
         NEW hs \in SUBSET Task, NEW q \in Seq(Call), NEW cs,
         DrainFrom(hs, q, cs)
  PROVE  \/ Cardinality(holders') <= maxConcurrent'
         \/ Cardinality(holders') <= Cardinality(hs)
<1>1. PICK k \in 0..Len(q) :
        /\ StopsAfter(Reconciled(hs), q, k)
        /\ holders' = HoldersAfter(Reconciled(hs), q, k)
  BY DEF DrainFrom
<1>2. IsFiniteSet(hs)
  BY TaskAssumption, FS_Subset
<1>3. CASE k = 0
  <2>1. holders' \subseteq hs
    BY <1>1, <1>3 DEF HoldersAfter, Reconciled
  <2>2. QED
    BY <1>2, <2>1, FS_Subset
<1>4. CASE k # 0
  <2> DEFINE before == HoldersAfter(Reconciled(hs), q, k - 1)
  <2>1. before \subseteq Task /\ IsFiniteSet(before)
    <3>1. before \subseteq hs \cup eligible'
      BY DEF HoldersAfter, Reconciled
    <3>2. before \subseteq Task
      BY <3>1 DEF TypeOK
    <3>3. QED
      BY <3>2, TaskAssumption, FS_Subset
  <2>2. Cardinality(before) < maxConcurrent'
    BY <1>1, <1>4 DEF StopsAfter
  <2>3. holders' \subseteq before \cup {q[k][1]}
    <3>1. \A i \in 1..k : i \in 1..(k - 1) \/ i = k
      OBVIOUS
    <3>2. QED
      BY <1>1, <3>1 DEF HoldersAfter
  <2>4. /\ IsFiniteSet(before \cup {q[k][1]})
        /\ Cardinality(before \cup {q[k][1]}) <= Cardinality(before) + 1
    BY <2>1, AddOne, Zenon
  <2>5. Cardinality(holders') <= Cardinality(before \cup {q[k][1]})
    BY <2>3, <2>4, FS_Subset
  <2>6. /\ Cardinality(holders') \in Nat
        /\ Cardinality(before) \in Nat
        /\ Cardinality(before \cup {q[k][1]}) \in Nat
        /\ maxConcurrent' \in Nat
    <3>1. IsFiniteSet(holders')
      BY <2>3, <2>4, FS_Subset
    <3>2. maxConcurrent' \in Nat
      BY MaxSlotsAssumption DEF TypeOK
    <3>3. QED
      BY <2>1, <2>4, <3>1, <3>2, FS_CardinalityType
  <2>7. QED
    BY <2>2, <2>4, <2>5, <2>6
<1>5. QED
  BY <1>3, <1>4

-----------------------------------------------------------------------------
(* SlotCap for every number of tasks, calls and slots: a step that grants  *)
(* (AcquireFree, a drain) stops at the limit, every other step only drops  *)
(* holders.                                                                *)
THEOREM HoldersBounded == Spec => SlotCap
<1> DEFINE Cap == \/ Cardinality(holders') <= maxConcurrent'
                  \/ Cardinality(holders') <= Cardinality(holders)
<1>1. ASSUME TypeOK, TypeOK', [Next]_vars
      PROVE  Cap
  <2>0. IsFiniteSet(holders)
    BY <1>1, TaskAssumption, FS_Subset DEF TypeOK
  <2>1. ASSUME holders' \subseteq holders
        PROVE  Cap
    BY <2>0, <2>1, FS_Subset
  <2>2. ASSUME NEW hs \in SUBSET holders, NEW q \in Seq(Call), NEW cs,
               DrainFrom(hs, q, cs)
        PROVE  Cap
    <3>1. hs \in SUBSET Task
      BY <1>1 DEF TypeOK
    <3>2. Cardinality(hs) <= Cardinality(holders) /\ IsFiniteSet(hs)
      BY <2>0, FS_Subset
    <3>3. \/ Cardinality(holders') <= maxConcurrent'
          \/ Cardinality(holders') <= Cardinality(hs)
      BY <1>1, <2>2, <3>1, DrainCap
    <3>4. /\ Cardinality(hs) \in Nat
          /\ Cardinality(holders) \in Nat
          /\ Cardinality(holders') \in Nat
      <4>1. IsFiniteSet(holders')
        BY <1>1, TaskAssumption, FS_Subset DEF TypeOK
      <4>2. QED
        BY <2>0, <3>2, <4>1, FS_CardinalityType
    <3>5. QED
      BY <3>2, <3>3, <3>4
  <2>3. ASSUME NEW c \in Call, Acquire(c) PROVE Cap
    <3>1. CASE AcquireIneligible(c)
      BY <2>1, <3>1 DEF AcquireIneligible, Reconciled
    <3>2. CASE AcquireHeld(c)
      BY <2>1, <3>2 DEF AcquireHeld, Reconciled
    <3>3. CASE AcquireFree(c)
      <4>1. /\ IsFiniteSet(Reconciled(holders))
            /\ Cardinality(Reconciled(holders)) \in Nat
        BY <2>0, FS_Subset, FS_CardinalityType DEF Reconciled
      <4>2. Cardinality(Reconciled(holders)) < maxConcurrent'
        BY <2>3, <3>3 DEF AcquireFree, SlotFree, Acquire
      <4>3. Cardinality(holders') = Cardinality(Reconciled(holders)) + 1
        <5>1. c[1] \notin Reconciled(holders)
          BY <3>3 DEF AcquireFree, Reconciled
        <5>2. QED
          BY <3>3, <4>1, <5>1, FS_AddElement DEF AcquireFree
      <4>4. maxConcurrent' \in Nat
        BY <1>1, MaxSlotsAssumption DEF TypeOK
      <4>5. QED
        BY <4>1, <4>2, <4>3, <4>4
    <3>4. CASE AcquireWait(c)
      <4>1. Append(queue, c) \in Seq(Call)
        BY <1>1 DEF TypeOK
      <4>2. DrainFrom(holders, Append(queue, c),
                      [call EXCEPT ![c] = "waiting"])
        BY <3>4 DEF AcquireWait
      <4>3. QED
        BY <2>2, <4>1, <4>2
    <3>5. QED
      BY <2>3, <3>1, <3>2, <3>3, <3>4 DEF Acquire
  <2>4. ASSUME NEW S \in SUBSET Task, Release(S) PROVE Cap
    <3>1. CASE S \cap holders = {}
      BY <2>1, <2>4, <3>1 DEF Release
    <3>2. CASE S \cap holders # {}
      <4>1. DrainFrom(holders \ S, queue, call)
        BY <2>4, <3>2 DEF Release
      <4>2. queue \in Seq(Call)
        BY <1>1 DEF TypeOK
      <4>3. QED
        BY <2>2, <4>1, <4>2
    <3>3. QED
      BY <3>1, <3>2
  <2>5. ASSUME NEW old \in Task, NEW new \in Task, Transfer(old, new)
        PROVE  Cap
    <3>1. CASE old \notin holders
      BY <2>1, <2>5, <3>1 DEF Transfer, Reconciled, Renamed
    <3>2. CASE old \in holders
      <4> DEFINE kept == holders \ {old}
      <4>1. IsFiniteSet(kept) /\ Cardinality(kept) = Cardinality(holders) - 1
        BY <2>0, <3>2, FS_RemoveElement
      <4>2. /\ IsFiniteSet(kept \cup {new})
            /\ Cardinality(kept \cup {new}) <= Cardinality(kept) + 1
        BY <4>1, AddOne, Zenon
      <4>3. holders' \subseteq kept \cup {new}
        BY <2>5, <3>2 DEF Transfer, Reconciled, Renamed
      <4>4. Cardinality(holders') <= Cardinality(kept \cup {new})
        BY <4>2, <4>3, FS_Subset
      <4>5. /\ Cardinality(holders) \in Nat
            /\ Cardinality(holders') \in Nat
            /\ Cardinality(kept) \in Nat
            /\ Cardinality(kept \cup {new}) \in Nat
        <5>1. IsFiniteSet(holders')
          BY <4>2, <4>3, FS_Subset
        <5>2. QED
          BY <2>0, <4>1, <4>2, <5>1, FS_CardinalityType
      <4>6. QED
        BY <4>1, <4>2, <4>4, <4>5
    <3>3. QED
      BY <3>1, <3>2
  <2>6. ASSUME NEW m \in 1..MaxSlots, SetMaxConcurrent(m) PROVE Cap
    BY <1>1, <2>2, <2>6 DEF SetMaxConcurrent, TypeOK
  <2>7. CASE Drain
    BY <1>1, <2>2, <2>7 DEF Drain, TypeOK
  <2>8. ASSUME NEW c \in Call, Return(c) PROVE Cap
    BY <2>1, <2>8 DEF Return
  <2>9. CASE OwnerStep
    BY <2>1, <2>9 DEF OwnerStep
  <2>10. CASE UNCHANGED vars
    BY <2>1, <2>10 DEF vars
  <2>11. QED
    BY <1>1, <2>3, <2>4, <2>5, <2>6, <2>7, <2>8, <2>9, <2>10 DEF Next
<1>2. QED
  BY <1>1, TypeCorrect, PTL DEF Spec, SlotCap

-----------------------------------------------------------------------------
(* GrantHoldsSlot for every number of tasks, calls and slots: each of the  *)
(* four paths that grant puts or finds the task among the new holders.     *)
THEOREM GrantsAreBacked == Spec => GrantHoldsSlot
<1> DEFINE Backed(c) == call'[c] = "granted" /\ call[c] # "granted"
                          => c[1] \in holders' \cap eligible'
<1>1. ASSUME TypeOK, [Next]_vars, NEW c \in Call
      PROVE  Backed(c)
  <2>1. ASSUME NEW hs, NEW q \in Seq(Call), NEW cs,
               cs[c] = "granted" => call[c] = "granted",
               DrainFrom(hs, q, cs)
        PROVE  Backed(c)
    <3>1. PICK k \in 0..Len(q) :
            /\ holders' = HoldersAfter(Reconciled(hs), q, k)
            /\ call'[c] = IF \E i \in 1..k : q[i] = c
                             THEN Answer(c) ELSE cs[c]
      BY <2>1 DEF DrainFrom
    <3>2. CASE \E i \in 1..k : q[i] = c
      BY <3>1, <3>2 DEF Answer, HoldersAfter
    <3>3. CASE ~ \E i \in 1..k : q[i] = c
      BY <2>1, <3>1, <3>3
    <3>4. QED
      BY <3>2, <3>3
  <2>2. queue \in Seq(Call) /\ call \in [Call -> CallState]
    BY <1>1 DEF TypeOK
  <2>3. ASSUME NEW d \in Call, Acquire(d) PROVE Backed(c)
    <3>1. CASE AcquireIneligible(d)
      BY <2>2, <3>1 DEF AcquireIneligible
    <3>2. CASE AcquireHeld(d)
      BY <2>2, <3>2 DEF AcquireHeld, Reconciled
    <3>3. CASE AcquireFree(d)
      BY <2>2, <3>3 DEF AcquireFree, Reconciled
    <3>4. CASE AcquireWait(d)
      <4>1. Append(queue, d) \in Seq(Call)
        BY <2>2
      <4>2. [call EXCEPT ![d] = "waiting"][c] = "granted"
              => call[c] = "granted"
        BY <2>2
      <4>3. QED
        BY <2>1, <3>4, <4>1, <4>2 DEF AcquireWait
    <3>5. QED
      BY <2>3, <3>1, <3>2, <3>3, <3>4 DEF Acquire
  <2>4. ASSUME NEW S \in SUBSET Task, Release(S) PROVE Backed(c)
    BY <2>1, <2>2, <2>4 DEF Release
  <2>5. ASSUME NEW m \in 1..MaxSlots, SetMaxConcurrent(m) PROVE Backed(c)
    BY <2>1, <2>2, <2>5 DEF SetMaxConcurrent
  <2>6. CASE Drain
    BY <2>1, <2>2, <2>6 DEF Drain
  <2>7. ASSUME NEW d \in Call, Return(d) PROVE Backed(c)
    BY <2>2, <2>7 DEF Return
  <2>8. CASE UNCHANGED call
    BY <2>8
  <2>9. QED
    BY <1>1, <2>3, <2>4, <2>5, <2>6, <2>7, <2>8
       DEF Next, Transfer, OwnerStep, vars
<1>2. TypeOK /\ [Next]_vars => \A c \in Call : Backed(c)
  BY <1>1
<1>3. QED
  BY <1>2, TypeCorrect, PTL DEF Spec, GrantHoldsSlot

-----------------------------------------------------------------------------
(* A step keeps the order if the queue loses a prefix that is answered and *)
(* gains nothing but at its end.                                           *)
Served(k) ==
  /\ Len(queue') >= Len(queue) - k
  /\ \A i \in (k + 1)..Len(queue) : queue'[i - k] = queue[i]
  /\ \A i \in 1..k : call'[queue[i]] # "waiting"

(* A drain serves a prefix of the queue it starts from, which is the queue *)
(* itself or the queue with a newcomer behind it.                          *)
LEMMA DrainServes ==
  ASSUME NEW hs, NEW q \in Seq(Call), NEW cs, DrainFrom(hs, q, cs),
         queue \in Seq(Call), Len(q) \in Len(queue)..(Len(queue) + 1),
         \A i \in 1..Len(queue) : q[i] = queue[i]
  PROVE  \E k \in 0..Len(queue) : Served(k)
<1>1. PICK k \in 0..Len(q) :
        /\ queue' = SubSeq(q, k + 1, Len(q))
        /\ call' = [c \in Call |->
                      IF \E i \in 1..k : q[i] = c THEN Answer(c) ELSE cs[c]]
  BY DEF DrainFrom
<1>2. PICK n \in Nat : n = Len(queue)
  OBVIOUS
<1>3. /\ Len(queue') = Len(q) - k
      /\ \A j \in 1..(Len(q) - k) : queue'[j] = q[j + k]
  <2>1. /\ k + 1 \in Nat \ {0} /\ Len(q) \in Nat /\ k + 1 <= Len(q) + 1
        /\ \A i \in (k + 1)..Len(q) : q[i] \in Call
    OBVIOUS
  <2>2. /\ Len(SubSeq(q, k + 1, Len(q)))
             = IF k + 1 <= Len(q) THEN Len(q) - (k + 1) + 1 ELSE 0
        /\ \A j \in 1..(Len(q) - (k + 1) + 1) :
             SubSeq(q, k + 1, Len(q))[j] = q[(k + 1) + j - 1]
    BY <2>1, SubSeqProperties
  <2>3. QED
    BY <1>1, <2>2
<1>4. \A i \in 1..k : call'[q[i]] # "waiting"
  BY <1>1 DEF Answer
<1>5. CASE k <= n
  <2>1. PICK l \in Nat : l = Len(q) /\ l >= n /\ k \in Nat
    BY <1>2
  <2>2. ASSUME NEW i \in (k + 1)..n
        PROVE  queue'[i - k] = queue[i]
    <3>1. /\ i - k \in 1..(l - k) /\ (i - k) + k = i /\ i \in 1..n
      BY <2>1, <2>2
    <3>2. QED
      BY <1>2, <1>3, <2>1, <3>1
  <2>3. \A i \in 1..k : call'[queue[i]] # "waiting"
    BY <1>2, <1>4, <1>5, <2>1
  <2>4. Len(queue') >= n - k
    BY <1>3, <2>1
  <2>5. Served(k)
    BY <1>2, <2>2, <2>3, <2>4 DEF Served
  <2>6. QED
    BY <1>2, <1>5, <2>1, <2>5
<1>6. CASE k = n + 1
  <2>1. Served(n)
    BY <1>2, <1>3, <1>4, <1>6 DEF Served
  <2>2. QED
    BY <1>2, <2>1
<1>7. QED
  BY <1>2, <1>5, <1>6

(* ServedInOrder for every number of tasks, calls and slots: no step takes *)
(* a waiter off the queue unanswered or before another one in front of it. *)
THEOREM WaitersServedInOrder == Spec => ServedInOrder
<1>1. ASSUME TypeOK, [Next]_vars
      PROVE  \E k \in 0..Len(queue) : Served(k)
  <2>1. queue \in Seq(Call) /\ Len(queue) \in Nat
    BY <1>1 DEF TypeOK
  <2>2. ASSUME NEW hs, NEW cs, DrainFrom(hs, queue, cs)
        PROVE  \E k \in 0..Len(queue) : Served(k)
    <3>1. Len(queue) \in Len(queue)..(Len(queue) + 1)
      BY <2>1
    <3>2. QED
      BY <2>1, <2>2, <3>1, DrainServes
  <2>3. ASSUME UNCHANGED queue
        PROVE  \E k \in 0..Len(queue) : Served(k)
    <3>1. Served(0)
      BY <2>1, <2>3 DEF Served
    <3>2. QED
      BY <2>1, <3>1
  <2>4. ASSUME NEW c \in Call, Acquire(c)
        PROVE  \E k \in 0..Len(queue) : Served(k)
    <3>1. CASE AcquireWait(c)
      <4>1. /\ Append(queue, c) \in Seq(Call)
            /\ Len(Append(queue, c)) \in Len(queue)..(Len(queue) + 1)
            /\ \A i \in 1..Len(queue) : Append(queue, c)[i] = queue[i]
        BY <2>1
      <4>2. QED
        BY <2>1, <3>1, <4>1, DrainServes DEF AcquireWait
    <3>2. CASE UNCHANGED queue
      BY <2>3, <3>2
    <3>3. QED
      BY <2>4, <3>1, <3>2
         DEF Acquire, AcquireIneligible, AcquireHeld, AcquireFree
  <2>5. QED
    BY <1>1, <2>2, <2>3, <2>4
       DEF Next, Release, Transfer, SetMaxConcurrent, Drain, Return,
           OwnerStep, vars
<1>2. TypeOK /\ [Next]_vars => \E k \in 0..Len(queue) : Served(k)
  BY <1>1
<1>3. QED
  BY <1>2, TypeCorrect, PTL DEF Spec, ServedInOrder, Served

-----------------------------------------------------------------------------
(* A drain leaves nobody waiting while a slot is free.                     *)
LEMMA DrainFillsSlots ==
  ASSUME TypeOK, TypeOK', NEW hs, NEW q \in Seq(Call), NEW cs,
         DrainFrom(hs, q, cs)
  PROVE  ~IdleSlot'
<1>1. PICK k \in 0..Len(q) :
        /\ StopsAfter(Reconciled(hs), q, k)
        /\ holders' = HoldersAfter(Reconciled(hs), q, k)
        /\ queue' = SubSeq(q, k + 1, Len(q))
  BY DEF DrainFrom
<1>2. CASE k = Len(q)
  <2>1. queue' = <<>>
    BY <1>1, <1>2
  <2>2. QED
    BY <2>1 DEF IdleSlot
<1>3. CASE Cardinality(holders') >= maxConcurrent'
  <2>1. IsFiniteSet(holders')
    BY TaskAssumption, FS_Subset DEF TypeOK
  <2>2. Cardinality(holders') \in Nat /\ maxConcurrent' \in Nat
    BY <2>1, FS_CardinalityType, MaxSlotsAssumption DEF TypeOK
  <2>3. QED
    BY <1>3, <2>2 DEF IdleSlot
<1>4. QED
  BY <1>1, <1>2, <1>3 DEF StopsAfter

(* IdleSlotOnlyByEviction for every number of tasks, calls and slots: what *)
(* drains leaves no slot idle; what does not drain leaves queue and limit  *)
(* as they are, so a slot that becomes idle had a holder, who is gone only *)
(* because the owner no longer considers it eligible.                      *)
THEOREM SlotsIdleOnlyByEviction == Spec => IdleSlotOnlyByEviction
<1> DEFINE Evicted == \E t \in holders \ holders' : t \notin eligible'
           Busy == IdleSlot' /\ ~IdleSlot => Evicted
<1>1. ASSUME TypeOK, TypeOK', [Next]_vars
      PROVE  Busy
  <2>1. queue \in Seq(Call)
    BY <1>1 DEF TypeOK
  <2>2. ASSUME NEW hs, NEW q \in Seq(Call), NEW cs, DrainFrom(hs, q, cs)
        PROVE  Busy
    BY <1>1, <2>2, DrainFillsSlots
  <2>3. ASSUME UNCHANGED <<queue, maxConcurrent>>,
               holders \cap eligible' \subseteq holders',
               holders' \subseteq holders
        PROVE  Busy
    <3>1. CASE holders' = holders
      BY <2>3, <3>1 DEF IdleSlot
    <3>2. CASE holders' # holders
      BY <2>3, <3>2
    <3>3. QED
      BY <3>1, <3>2
  <2>4. ASSUME NEW c \in Call, Acquire(c)
        PROVE  Busy
    <3>1. CASE AcquireIneligible(c) \/ AcquireHeld(c)
      BY <2>3, <2>4, <3>1
         DEF Acquire, AcquireIneligible, AcquireHeld, Reconciled
    <3>2. CASE AcquireFree(c)
      BY <3>2 DEF AcquireFree, SlotFree, IdleSlot
    <3>3. CASE AcquireWait(c)
      <4>1. Append(queue, c) \in Seq(Call)
        BY <2>1
      <4>2. QED
        BY <2>2, <3>3, <4>1 DEF AcquireWait
    <3>4. QED
      BY <2>4, <3>1, <3>2, <3>3 DEF Acquire
  <2>5. ASSUME NEW S \in SUBSET Task, Release(S)
        PROVE  Busy
    <3>1. CASE S \cap holders = {}
      BY <2>3, <2>5, <3>1 DEF Release
    <3>2. CASE S \cap holders # {}
      BY <2>1, <2>2, <2>5, <3>2 DEF Release
    <3>3. QED
      BY <3>1, <3>2
  <2>6. ASSUME NEW old \in Task, NEW new \in Task, Transfer(old, new)
        PROVE  Busy
    <3>1. CASE old \in holders
      BY <2>6, <3>1 DEF Transfer, Reconciled
    <3>2. CASE old \notin holders
      BY <2>3, <2>6, <3>2 DEF Transfer, Reconciled, Renamed
    <3>3. QED
      BY <3>1, <3>2
  <2>7. ASSUME NEW m \in 1..MaxSlots, SetMaxConcurrent(m)
        PROVE  Busy
    BY <2>1, <2>2, <2>7 DEF SetMaxConcurrent
  <2>8. CASE Drain
    BY <2>1, <2>2, <2>8 DEF Drain
  <2>9. CASE UNCHANGED <<holders, queue, maxConcurrent>>
    BY <2>3, <2>9
  <2>10. QED
    BY <1>1, <2>4, <2>5, <2>6, <2>7, <2>8, <2>9
       DEF Next, Return, OwnerStep, vars
<1>2. TypeOK /\ TypeOK' /\ [Next]_vars => Busy
  BY <1>1
<1>3. QED
  BY <1>2, TypeCorrect, PTL DEF Spec, IdleSlotOnlyByEviction
=============================================================================
