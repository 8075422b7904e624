------------------------- MODULE HttpDownloadProofs -------------------------
(***************************************************************************)
(* Proofs about HttpDownload, for any number of tasks, runs, retries and   *)
(* slots and for resources of any length: one body per task, chunks that   *)
(* stay in place, the promise of HttpTask, the rules of the slot queue,    *)
(* and the slot of a first attempt.                                        *)
(***************************************************************************)
EXTENDS HttpDownload, FiniteSetTheorems, TLAPS

Statuses == {"none", "downloading", "queued", "paused", "error", "completed"}
Places == {"none", "launching", "chained", "marking", "acquiring",
           "starting", "opening", "streaming", "closing", "failing",
           "unwinding", "backoff", "ending", "done"}
Outcomes == {"none", "stopped", "removed", "paused", "completed",
             "transient", "permanent"}
Locals == [pc : Places, obj : 0..MaxObj, gen : Nat, prev : 0..MaxRun,
           tries : Nat, existing : Nat, next : 0..(Size + 1),
           known : BOOLEAN, out : Outcomes]

HttpTypes ==
  /\ tracked \in [Task -> 0..MaxObj]
  /\ status \in [Object -> Statuses]
  /\ pausedIds \in SUBSET Task /\ removedIds \in SUBSET Task
  /\ gen \in [Task -> Nat]
  /\ chain \in [Task -> 0..MaxRun]
  /\ file \in [Task -> Seq(Nat)]
  /\ run \in [Run -> Locals]
  /\ adding \in [Task -> Nat]
  /\ removing \in SUBSET (Task \X BOOLEAN)

Runs(t) == {n \in RunNo : run[<<t, n>>].pc # "none"}
Objects(t) == {k \in 1..MaxObj : status[<<t, k>>] # "none"}

(* Runs and objects are numbered in the order they are made, and there are *)
(* numbers left for the calls that are under way.                          *)
MadeInOrder ==
  \A t \in Task :
    /\ Runs(t) = 1..RunsMade(t) /\ Objects(t) = 1..ObjectsMade(t)
    /\ RunsMade(t) \in Nat /\ RunsMade(t) + adding[t] <= MaxRun
    /\ ObjectsMade(t) \in Nat /\ ObjectsMade(t) + adding[t] <= MaxObj

(* A run under way and the manager refer to objects that were made.        *)
ObjectsExist ==
  /\ \A r \in Run : run[r].pc \notin {"none", "done"}
       => run[r].obj # 0 /\ status[Obj(r)] # "none"
  /\ \A t \in Task : tracked[t] # 0 => CurrentStatus(t) # "none"

-----------------------------------------------------------------------------
(* The chain of bodies.  A run is live from its launch to its end; it      *)
(* waits behind another one when its predecessor in the chain is live and  *)
(* was launched no earlier than the other.                                 *)
Live(r) == run[r].pc \notin {"none", "launching", "done"}
Before(r) == <<r[1], run[r].prev>>

Behind(r, q) ==
  /\ run[r].pc = "chained" /\ run[r].prev # 0 /\ Live(Before(r))
  /\ run[q].gen <= run[Before(r)].gen /\ run[Before(r)].gen < run[r].gen

(* Of two live runs of a task one waits behind the other, and the stored   *)
(* gate is that of the run launched last.                                  *)
InLine(t) ==
  \A m \in RunNo :
    Live(<<t, m>>) =>
      /\ chain[t] # 0 /\ Live(<<t, chain[t]>>)
      /\ run[<<t, m>>].gen <= run[<<t, chain[t]>>].gen
      /\ run[<<t, chain[t]>>].gen <= gen[t]
      /\ \A n \in RunNo : Live(<<t, n>>) /\ m # n
           => Behind(<<t, m>>, <<t, n>>) \/ Behind(<<t, n>>, <<t, m>>)

LinedUp == \A t \in Task : InLine(t)

-----------------------------------------------------------------------------
Working(r) == run[r].pc \in {"opening", "streaming", "closing"}
Retrying(r) ==
  \/ run[r].pc = "backoff"
  \/ run[r].pc \in {"failing", "unwinding"} /\ run[r].out = "transient"

(* What the body of a run may have left in the file: c is the next chunk   *)
(* it sends, and k says whether its chunks are known to be the ones asked  *)
(* for, or those that its Content-Range names.                             *)
Fits(s, c, k) ==
  /\ Promise!Follows(s, IF k THEN c ELSE 0)
  /\ c <= Size \/ (IF k THEN Len(s) > 0 ELSE \E i \in 1..Len(s) : s[i] = 0)

(* The task of a working run that was not superseded is not removed, is    *)
(* shown as active, or as paused with its id among the paused ones; the    *)
(* run knows the length of the file, or its body goes on where it ends.    *)
Current(r) ==
  Working(r) /\ Newest(r) =>
    /\ tracked[r[1]] # 0 /\ r[1] \notin removedIds
    /\ \/ CurrentStatus(r[1]) \in Active
       \/ CurrentStatus(r[1]) = "paused" /\ r[1] \in pausedIds
    /\ IF run[r].pc = "opening"
         THEN run[r].existing = Len(file[r[1]])
         ELSE Fits(file[r[1]], run[r].next, run[r].known)

(* A run on its way to a retry has not completed.                          *)
NotOver(r) ==
  Retrying(r) /\ Tracks(r) /\ Newest(r) => CurrentStatus(r[1]) # "completed"

(* A run that reads has no result, or has stopped before the body ended.   *)
Undecided(r) ==
  /\ run[r].pc \in {"opening", "streaming"} =>
       run[r].out = "none" /\ (run[r].pc = "streaming" => run[r].next > 0)
  /\ run[r].pc = "closing" => run[r].out \in {"stopped", "none"}

RunInv(r) == Current(r) /\ NotOver(r) /\ Undecided(r)

RemovalsKnown == \A t \in Leaving : t \in removedIds

HttpInv ==
  /\ HttpTypes /\ MadeInOrder /\ ObjectsExist /\ LinedUp
  /\ \A r \in Run : RunInv(r)
  /\ ChunksInPlace /\ RemovalsKnown

-----------------------------------------------------------------------------
(* What the single steps of a run have in common.  A run leaves, or goes   *)
(* on in its body; from the chain it does either only when its predecessor *)
(* has left.                                                               *)
OwnTurn(r) == run[r].pc = "chained" => PreviousLeft(r)

OthersStay(r) ==
  /\ \A q \in Run : q # r => run'[q] = run[q]
  /\ \A t \in Task : t # r[1] =>
       /\ gen'[t] = gen[t] /\ chain'[t] = chain[t] /\ file'[t] = file[t]
       /\ t \in pausedIds' <=> t \in pausedIds
  /\ \A o \in Object : o # Obj(r) => status'[o] = status[o]
  /\ UNCHANGED <<tracked, removedIds, adding, removing>>

GoesOn(r) ==
  /\ Live(r) /\ OwnTurn(r)
  /\ run'[r].pc \notin {"none", "launching", "chained", "done"}
  /\ run'[r].gen = run[r].gen /\ run'[r].obj = run[r].obj
  /\ UNCHANGED <<gen, chain>>

Leaves(r) ==
  /\ Live(r) /\ OwnTurn(r) /\ Leave(r)
  /\ UNCHANGED <<gen, status, file>>

(* Runs and objects are pairs.                                             *)
LEMMA Pairs ==
  /\ \A r \in Run : r[1] \in Task /\ r[2] \in RunNo /\ r = <<r[1], r[2]>>
  /\ \A t \in Task : \A n \in RunNo : <<t, n>> \in Run
  /\ \A t \in Task : \A k \in 1..MaxObj : <<t, k>> \in Object
BY DEF Run, Object

(* A run changes its own locals and what belongs to its task.              *)
LEMMA RunFrame ==
  ASSUME HttpTypes, NEW r \in Run, RunStep(r)
  PROVE  OthersStay(r)
<1> USE DEF HttpTypes, OthersStay
<1>0. r[1] \in Task
  BY Pairs
<1>1. CASE Launch(r)
  BY <1>0, <1>1 DEF Launch, taskVars, userVars
<1>2. CASE TakesTurn(r)
  BY <1>0, <1>2 DEF TakesTurn, Leave, taskVars, userVars
<1>3. CASE Marked(r) \/ StreamEnds(r)
  BY <1>0, <1>3 DEF Marked, StreamEnds, taskVars, userVars
<1>4. CASE Refused(r)
  BY <1>0, <1>4 DEF Refused, Leave, taskVars, userVars
<1>5. CASE Proceed(r)
  BY <1>0, <1>5 DEF Proceed, Attempt, LeaveWithSlot, Leave, taskVars, userVars
<1>6. ASSUME NEW v, NEW p, Concludes(r, v, p) PROVE OthersStay(r)
  BY <1>0, <1>6 DEF Concludes, taskVars, userVars
<1>7. CASE Opens(r)
  BY <1>0, <1>6, <1>7 DEF Opens, OpensWith, taskVars, userVars
<1>8. CASE Chunk(r)
  BY <1>0, <1>8 DEF Chunk, taskVars, userVars
<1>9. CASE FailClosed(r)
  BY <1>0, <1>9 DEF FailClosed, taskVars, userVars
<1>10. CASE Retries(r)
  BY <1>0, <1>10 DEF Retries, taskVars, userVars
<1>11. CASE GivesUp(r)
  BY <1>0, <1>11 DEF GivesUp, Leave, userVars
<1>12. CASE BackoffEnds(r)
  BY <1>0, <1>12 DEF BackoffEnds, Attempt, LeaveWithSlot, Leave, taskVars, userVars
<1>13. CASE Ends(r)
  BY <1>0, <1>13 DEF Ends, LeaveWithSlot, Leave, taskVars, userVars
<1>14. QED
  BY <1>1, <1>2, <1>3, <1>4, <1>5, <1>6, <1>7, <1>8, <1>9, <1>10, <1>11,
     <1>12, <1>13 DEF RunStep, OpenFails, StreamFails, Closed

(* Every step of a run but its launch goes on or leaves.                   *)
LEMMA RunKinds ==
  ASSUME HttpTypes, NEW r \in Run, RunStep(r)
  PROVE  Launch(r) \/ GoesOn(r) \/ Leaves(r)
<1> USE DEF Live, OwnTurn, taskVars, userVars
<1>0. r[1] \in Task /\ run \in [Run -> Locals]
  BY Pairs DEF HttpTypes
<1>1. run[r] \in Locals
  BY <1>0
<1> USE DEF Locals
<1>2. CASE TakesTurn(r)
  BY <1>0, <1>1, <1>2 DEF TakesTurn, GoesOn, Leaves
<1>3. CASE Marked(r) \/ StreamEnds(r)
  <2>1. CASE Marked(r)
    BY <1>0, <1>1, <2>1 DEF Marked, GoesOn
  <2>2. CASE StreamEnds(r)
    BY <1>0, <1>1, <2>2 DEF StreamEnds, GoesOn
  <2>3. QED
    BY <1>3, <2>1, <2>2
<1>4. CASE Refused(r)
  BY <1>4 DEF Refused, Leaves
<1>5. CASE Proceed(r)
  BY <1>0, <1>1, <1>5 DEF Proceed, Attempt, LeaveWithSlot, GoesOn, Leaves
<1>6. ASSUME NEW v, NEW p \in {"failing", "unwinding"}, Concludes(r, v, p),
             run[r].pc \in {"opening", "streaming", "closing"}
      PROVE  GoesOn(r)
  BY <1>0, <1>1, <1>6 DEF Concludes, GoesOn
<1>7. CASE Opens(r)
  <2>1. CASE ~StillTracked(r) \/ Cancelled(r)
    BY <1>6, <1>7, <2>1 DEF Opens
  <2>2. CASE ~(~StillTracked(r) \/ Cancelled(r))
    <3>1. PICK n, b : /\ run' = [run EXCEPT ![r].pc = "streaming",
                                 ![r].existing = 0, ![r].next = n, ![r].known = b]
                      /\ run[r].pc = "opening" /\ UNCHANGED <<gen, chain>>
      BY <1>7, <2>2 DEF Opens, OpensWith
    <3>2. QED
      BY <1>0, <1>1, <3>1 DEF GoesOn
  <2>3. QED
    BY <2>1, <2>2
<1>8. CASE Chunk(r)
  <2>1. CASE ~StillTracked(r) \/ Cancelled(r)
    BY <1>0, <1>1, <1>8, <2>1 DEF Chunk, GoesOn
  <2>2. CASE ~(~StillTracked(r) \/ Cancelled(r))
    <3>1. /\ run' = [run EXCEPT ![r].next = @ + 1]
          /\ run[r].pc = "streaming" /\ UNCHANGED <<gen, chain>>
      BY <1>8, <2>2 DEF Chunk
    <3>2. QED
      BY <1>0, <1>1, <3>1 DEF GoesOn
  <2>3. QED
    BY <2>1, <2>2
<1>9. CASE FailClosed(r)
  BY <1>0, <1>1, <1>9 DEF FailClosed, GoesOn
<1>10. CASE Retries(r)
  BY <1>0, <1>1, <1>10 DEF Retries, GoesOn
<1>11. CASE GivesUp(r)
  BY <1>0, <1>1, <1>11 DEF GivesUp, GoesOn, Leaves
<1>12. CASE BackoffEnds(r)
  BY <1>0, <1>1, <1>12 DEF BackoffEnds, Attempt, LeaveWithSlot, GoesOn, Leaves
<1>13. CASE Ends(r)
  BY <1>0, <1>1, <1>13 DEF Ends, LeaveWithSlot, Leaves
<1>14. QED
  BY <1>2, <1>3, <1>4, <1>5, <1>6, <1>7, <1>8, <1>9, <1>10, <1>11,
     <1>12, <1>13 DEF RunStep, OpenFails, StreamFails, Closed

(* Writing typed values into the locals of a run keeps them typed.         *)
LEMMA Writes ==
  ASSUME NEW r \in Run, run \in [Run -> Locals],
         NEW p \in Places, NEW v \in Outcomes, NEW e \in Nat,
         NEW n \in 0..(Size + 1), NEW b \in BOOLEAN,
         NEW g \in Nat, NEW k \in 0..MaxRun,
         \/ run' = [run EXCEPT ![r].pc = p]
         \/ run' = [run EXCEPT ![r].next = n]
         \/ run' = [run EXCEPT ![r].pc = p, ![r].prev = k]
         \/ run' = [run EXCEPT ![r].pc = p, ![r].gen = g, ![r].prev = k]
         \/ run' = [run EXCEPT ![r].pc = p, ![r].out = v]
         \/ run' = [run EXCEPT ![r].pc = p, ![r].out = v, ![r].existing = e]
         \/ run' = [run EXCEPT ![r].pc = p, ![r].existing = e,
                               ![r].next = n, ![r].known = b]
         \/ run' = [run EXCEPT ![r].pc = p, ![r].out = v, ![r].existing = e,
                               ![r].next = n, ![r].known = b]
         \/ run' = [run EXCEPT ![r].pc = p, ![r].tries = @ + 1, ![r].out = v]
  PROVE  run' \in [Run -> Locals]
<1> run[r] \in Locals
  OBVIOUS
<1>1. CASE run' = [run EXCEPT ![r].pc = p]
  BY <1>1 DEF Locals
<1>2. CASE run' = [run EXCEPT ![r].next = n]
  BY <1>2 DEF Locals
<1>3. CASE run' = [run EXCEPT ![r].pc = p, ![r].prev = k]
  BY <1>3 DEF Locals
<1>4. CASE run' = [run EXCEPT ![r].pc = p, ![r].gen = g, ![r].prev = k]
  BY <1>4 DEF Locals
<1>5. CASE run' = [run EXCEPT ![r].pc = p, ![r].out = v]
  BY <1>5 DEF Locals
<1>6. CASE run' = [run EXCEPT ![r].pc = p, ![r].out = v, ![r].existing = e]
  BY <1>6 DEF Locals
<1>7. CASE run' = [run EXCEPT ![r].pc = p, ![r].existing = e, ![r].next = n,
                              ![r].known = b]
  BY <1>7 DEF Locals
<1>8. CASE run' = [run EXCEPT ![r].pc = p, ![r].out = v, ![r].existing = e,
                              ![r].next = n, ![r].known = b]
  BY <1>8 DEF Locals
<1>9. CASE run' = [run EXCEPT ![r].pc = p, ![r].tries = @ + 1, ![r].out = v]
  BY <1>9 DEF Locals
<1>10. QED
  BY <1>1, <1>2, <1>3, <1>4, <1>5, <1>6, <1>7, <1>8, <1>9

(* The locals stay typed: what the actions of a run write into them.       *)
LEMMA LocalsTyped ==
  ASSUME HttpTypes, NEW r \in Run, RunStep(r)
  PROVE  run' \in [Run -> Locals]
<1>0. /\ r[1] \in Task /\ r[2] \in RunNo
      /\ run \in [Run -> Locals] /\ run[r] \in Locals
      /\ gen[r[1]] \in Nat /\ chain[r[1]] \in 0..MaxRun
      /\ Len(file[r[1]]) \in Nat
  <2>1. r[1] \in Task /\ r[2] \in RunNo /\ file[r[1]] \in Seq(Nat)
    BY Pairs DEF HttpTypes
  <2>2. Len(file[r[1]]) \in Nat
    BY <2>1
  <2>3. QED
    BY <2>1, <2>2 DEF HttpTypes
<1>p. /\ "chained" \in Places /\ "marking" \in Places
      /\ "acquiring" \in Places /\ "starting" \in Places
      /\ "opening" \in Places /\ "streaming" \in Places
      /\ "closing" \in Places /\ "failing" \in Places
      /\ "unwinding" \in Places /\ "backoff" \in Places
      /\ "ending" \in Places /\ "done" \in Places
      /\ "none" \in Outcomes /\ "stopped" \in Outcomes
      /\ "removed" \in Outcomes
      /\ 0 \in Nat /\ 0 \in 0..MaxObj /\ 0 \in 0..MaxRun
      /\ 0 \in 0..(Size + 1) /\ TRUE \in BOOLEAN
  BY BoundsAssumption DEF Places, Outcomes
<1>w. \A p \in Places : \A v \in Outcomes : \A e \in Nat :
      \A n \in 0..(Size + 1) : \A b \in BOOLEAN :
      \A g \in Nat : \A k \in 0..MaxRun :
        \/ run' = [run EXCEPT ![r].pc = p]
        \/ run' = [run EXCEPT ![r].next = n]
        \/ run' = [run EXCEPT ![r].pc = p, ![r].prev = k]
        \/ run' = [run EXCEPT ![r].pc = p, ![r].gen = g, ![r].prev = k]
        \/ run' = [run EXCEPT ![r].pc = p, ![r].out = v]
        \/ run' = [run EXCEPT ![r].pc = p, ![r].out = v, ![r].existing = e]
        \/ run' = [run EXCEPT ![r].pc = p, ![r].existing = e,
                              ![r].next = n, ![r].known = b]
        \/ run' = [run EXCEPT ![r].pc = p, ![r].out = v, ![r].existing = e,
                              ![r].next = n, ![r].known = b]
        \/ run' = [run EXCEPT ![r].pc = p, ![r].tries = @ + 1, ![r].out = v]
        => run' \in [Run -> Locals]
  BY <1>0, Writes
<1>o. OverRun \in Locals
  BY <1>p DEF OverRun, NewRun, Locals
<1>a. ASSUME Leave(r) PROVE run' \in [Run -> Locals]
  BY <1>0, <1>a, <1>o DEF Leave
<1>b. ASSUME Attempt(r) PROVE run' \in [Run -> Locals]
  <2>1. \/ run' = [run EXCEPT ![r].pc = "unwinding", ![r].out = "removed"]
        \/ run' = [run EXCEPT ![r].pc = "opening", ![r].out = "none",
                              ![r].existing = Len(file[r[1]])]
    BY <1>b DEF Attempt
  <2>2. CASE run' = [run EXCEPT ![r].pc = "unwinding", ![r].out = "removed"]
    BY <1>p, <1>w, <2>2
  <2>3. CASE run' = [run EXCEPT ![r].pc = "opening", ![r].out = "none",
                                ![r].existing = Len(file[r[1]])]
    <3> DEFINE n == Len(file[r[1]])
    <3>1. n \in Nat
      BY <1>0
    <3>2. run' = [run EXCEPT ![r].pc = "opening", ![r].out = "none",
                             ![r].existing = n]
      BY <2>3
    <3> HIDE DEF n
    <3>3. QED
      BY <1>p, <1>w, <3>1, <3>2
  <2>4. QED
    BY <2>1, <2>2, <2>3
<1>1. CASE Launch(r)
  <2>1. CASE status[Obj(r)] \notin Active
    BY <1>0, <1>1, <1>o, <2>1 DEF Launch
  <2>2. CASE status[Obj(r)] \in Active
    <3>1. gen'[r[1]] = gen[r[1]] + 1
      BY <1>0, <1>1, <2>2 DEF Launch, HttpTypes
    <3>2. /\ gen'[r[1]] \in Nat
          /\ run' = [run EXCEPT ![r].pc = "chained", ![r].gen = gen'[r[1]],
                                ![r].prev = chain[r[1]]]
      BY <1>0, <1>1, <2>2, <3>1 DEF Launch
    <3>3. QED
      BY <1>0, <1>p, <1>w, <3>2
  <2>3. QED
    BY <2>1, <2>2
<1>2. CASE TakesTurn(r)
  BY <1>0, <1>2, <1>a, <1>p, <1>w DEF TakesTurn
<1>3. CASE Marked(r)
  BY <1>0, <1>3, <1>p, <1>w DEF Marked
<1>4. CASE Refused(r)
  BY <1>4, <1>a DEF Refused
<1>5. CASE Proceed(r)
  BY <1>5, <1>a, <1>b, <1>p, <1>w DEF Proceed, LeaveWithSlot
<1>6. ASSUME NEW v \in Outcomes, NEW p \in Places, Concludes(r, v, p)
      PROVE  run' \in [Run -> Locals]
  BY <1>0, <1>6, <1>p, <1>w DEF Concludes
<1>7. ASSUME NEW w \in Outcomes PROVE Verdict(r, w) \in Outcomes
  <2>1. Verdict(r, w) \in {"removed", "paused", w}
    BY DEF Verdict
  <2>2. QED
    BY <1>7, <2>1 DEF Outcomes
<1>8. CASE Opens(r)
  <2>1. CASE ~StillTracked(r) \/ Cancelled(r)
    <3>1. Concludes(r, Verdict(r, "none"), "unwinding")
      BY <1>8, <2>1 DEF Opens
    <3>2. QED
      BY <1>6, <1>7, <1>p, <3>1
  <2>2. CASE ~(~StillTracked(r) \/ Cancelled(r))
    <3>1. PICK a \in Answer : OpensWith(r, a)
      BY <1>8, <2>2 DEF Opens
    <3>2. a.from + 1 \in 0..(Size + 1)
      BY BoundsAssumption DEF Answer
    <3>3. run' = [run EXCEPT ![r].pc = "streaming", ![r].existing = 0,
                             ![r].next = a.from + 1, ![r].known = ~Astray(r, a)]
      BY <3>1 DEF OpensWith
    <3> DEFINE n == a.from + 1
               b == ~Astray(r, a)
    <3>4. /\ run' = [run EXCEPT ![r].pc = "streaming", ![r].existing = 0,
                                ![r].next = n, ![r].known = b]
          /\ n \in 0..(Size + 1)
      BY <3>2, <3>3
    <3>b. b \in BOOLEAN
      OBVIOUS
    <3> HIDE DEF n, b
    <3>5. QED
      BY <1>p, <1>w, <3>4, <3>b
  <2>3. QED
    BY <2>1, <2>2
<1>9. CASE Chunk(r)
  <2>1. CASE ~StillTracked(r) \/ Cancelled(r)
    BY <1>9, <1>p, <1>w, <2>1 DEF Chunk
  <2>2. CASE ~(~StillTracked(r) \/ Cancelled(r))
    <3>1. run' = [run EXCEPT ![r].next = @ + 1] /\ run[r].next <= Size
      BY <1>9, <2>2 DEF Chunk
    <3>n. run[r].next \in 0..(Size + 1)
      BY <1>0 DEF Locals
    <3>2. run[r].next + 1 \in 0..(Size + 1)
      BY <3>1, <3>n, BoundsAssumption
    <3>3. run' = [run EXCEPT ![r].next = run[r].next + 1]
      BY <3>1
    <3>4. QED
      BY <1>p, <1>w, <3>2, <3>3
  <2>3. QED
    BY <2>1, <2>2
<1>10. CASE StreamEnds(r) \/ FailClosed(r)
  BY <1>10, <1>p, <1>w DEF StreamEnds, FailClosed
<1>11. ASSUME NEW e \in Errors, OpenFails(r, e) \/ StreamFails(r, e)
       PROVE  run' \in [Run -> Locals]
  <2>1. Verdict(r, e) \in Outcomes
    <3>1. e \in Outcomes
      BY DEF Errors, Outcomes
    <3>2. QED
      BY <1>7, <3>1
  <2>2. QED
    BY <1>6, <1>11, <1>p, <2>1 DEF OpenFails, StreamFails
<1>12. CASE Closed(r)
  <2>1. Verdict(r, "completed") \in Outcomes
    <3>1. "completed" \in Outcomes
      BY DEF Outcomes
    <3>2. QED
      BY <1>7, <3>1
  <2>2. QED
    BY <1>6, <1>12, <1>p, <2>1 DEF Closed
<1>13. CASE Retries(r)
  BY <1>13, <1>p, <1>w DEF Retries
<1>14. CASE GivesUp(r)
  BY <1>14, <1>a, <1>p, <1>w DEF GivesUp
<1>15. CASE BackoffEnds(r)
  BY <1>15, <1>a, <1>b DEF BackoffEnds, LeaveWithSlot
<1>16. CASE Ends(r)
  BY <1>16, <1>a DEF Ends, LeaveWithSlot
<1>17. QED
  BY <1>1, <1>2, <1>3, <1>4, <1>5, <1>8, <1>9, <1>10, <1>11, <1>12, <1>13,
     <1>14, <1>15, <1>16 DEF RunStep

(* The other variables stay typed as well.                                 *)
LEMMA RunTypes ==
  ASSUME HttpTypes, NEW r \in Run, RunStep(r)
  PROVE  HttpTypes'
<1>0. r[1] \in Task /\ r[2] \in RunNo /\ run[r] \in Locals
  BY Pairs DEF HttpTypes
<1>1. tracked' \in [Task -> 0..MaxObj] /\ removedIds' \in SUBSET Task
      /\ adding' \in [Task -> Nat] /\ removing' \in SUBSET (Task \X BOOLEAN)
  BY RunFrame DEF OthersStay, HttpTypes
<1>2. gen' \in [Task -> Nat] /\ chain' \in [Task -> 0..MaxRun]
  <2>1. CASE Launch(r)
    <3>1. gen \in [Task -> Nat] /\ chain \in [Task -> 0..MaxRun]
          /\ r[2] \in 0..MaxRun
      BY <1>0 DEF HttpTypes, RunNo
    <3>2. QED
      BY <2>1, <3>1 DEF Launch
  <2>2. CASE GoesOn(r)
    BY <2>2 DEF GoesOn, HttpTypes
  <2>3. CASE Leaves(r)
    BY <1>0, <2>3, BoundsAssumption DEF Leaves, Leave, HttpTypes
  <2>4. QED
    BY <2>1, <2>2, <2>3, RunKinds
<1>3. /\ status' \in [Object -> Statuses]
      /\ file' \in [Task -> Seq(Nat)]
      /\ pausedIds' \in SUBSET Task
  <2> DEFINE Typed == /\ status' \in [Object -> Statuses]
                      /\ file' \in [Task -> Seq(Nat)]
                      /\ pausedIds' \in SUBSET Task
  <2>0. /\ status \in [Object -> Statuses]
        /\ file \in [Task -> Seq(Nat)]
        /\ pausedIds \in SUBSET Task
    BY DEF HttpTypes
  <2> USE DEF Statuses, taskVars
  <2>1. ASSUME NEW v \in {"paused", "removed", "completed", "transient", "permanent"},
               NEW p, Concludes(r, v, p)
        PROVE  Typed
    <3>1. v # "removed" => StatusOf[v] \in Statuses
      BY <2>1 DEF StatusOf
    <3>2. /\ UNCHANGED <<file, pausedIds>>
          /\ status' = IF v = "removed" THEN status
                       ELSE [status EXCEPT ![Obj(r)] = StatusOf[v]]
      BY <2>1 DEF Concludes
    <3>3. QED
      BY <2>0, <3>1, <3>2
  <2>2. CASE Launch(r) \/ TakesTurn(r) \/ Marked(r) \/ Refused(r)
    BY <2>0, <2>2 DEF Launch, TakesTurn, Marked, Refused
  <2>3. CASE Proceed(r) \/ Retries(r) \/ BackoffEnds(r) \/ Ends(r)
    BY <2>0, <2>3 DEF Proceed, LeaveWithSlot, Retries, BackoffEnds, Ends
  <2>4. CASE Opens(r)
    <3>1. CASE ~StillTracked(r) \/ Cancelled(r)
      <4>1. Verdict(r, "none") \in {"paused", "removed"}
        BY <3>1 DEF Verdict
      <4>2. QED
        BY <2>1, <2>4, <3>1, <4>1 DEF Opens
    <3>2. CASE ~(~StillTracked(r) \/ Cancelled(r))
      <4>1. \/ UNCHANGED file
            \/ file' = [file EXCEPT ![r[1]] = <<>>]
        BY <2>4, <3>2 DEF Opens, OpensWith
      <4>2. UNCHANGED <<status, pausedIds>>
        BY <2>4, <3>2 DEF Opens, OpensWith
      <4>3. <<>> \in Seq(Nat)
        OBVIOUS
      <4>4. QED
        BY <2>0, <4>1, <4>2, <4>3
    <3>3. QED
      BY <3>1, <3>2
  <2>5. CASE Chunk(r)
    <3>1. \/ UNCHANGED file
          \/ file' = [file EXCEPT ![r[1]] = Append(@, ChunkOf(r))]
      BY <2>5 DEF Chunk
    <3>2. UNCHANGED <<status, pausedIds>>
      BY <2>5 DEF Chunk
    <3>3. ChunkOf(r) \in Nat
      BY <1>0, BoundsAssumption DEF Locals, ChunkOf
    <3>4. Append(file[r[1]], ChunkOf(r)) \in Seq(Nat)
      BY <1>0, <2>0, <3>3
    <3>5. QED
      BY <2>0, <3>1, <3>2, <3>4
  <2>6. CASE StreamEnds(r) \/ FailClosed(r)
    BY <2>0, <2>6 DEF StreamEnds, FailClosed
  <2>7. ASSUME NEW e \in Errors, OpenFails(r, e) \/ StreamFails(r, e)
        PROVE  Typed
    <3>1. Verdict(r, e) \in {"paused", "removed", "completed", "transient", "permanent"}
      BY DEF Verdict, Errors
    <3>2. QED
      BY <2>1, <2>7, <3>1 DEF OpenFails, StreamFails
  <2>8. CASE Closed(r)
    <3>1. Verdict(r, "completed") \in {"paused", "removed", "completed", "transient", "permanent"}
      BY DEF Verdict
    <3>2. QED
      BY <2>1, <2>8, <3>1 DEF Closed
  <2>9. CASE GivesUp(r)
    BY <1>0, <2>0, <2>9 DEF GivesUp
  <2>10. QED
    BY <2>2, <2>3, <2>4, <2>5, <2>6, <2>7, <2>8, <2>9 DEF RunStep
<1>4. QED
  BY <1>1, <1>2, <1>3, LocalsTyped DEF HttpTypes

-----------------------------------------------------------------------------
(* A step of a run writes at most one status, that of its object, and a    *)
(* superseded run, or one that is only launched, writes nothing at all:    *)
(* neither a status nor the file nor the paused ids.                       *)
LEMMA StatusWritten ==
  ASSUME HttpTypes, NEW r \in Run, RunStep(r)
  PROVE  \/ status' = status
         \/ \E v \in Statuses \ {"none"} :
              status' = [status EXCEPT ![Obj(r)] = v]
<1> USE DEF Statuses, taskVars
<1>1. ASSUME NEW v \in {"paused", "removed", "completed", "transient",
                        "permanent"}, NEW p, Concludes(r, v, p)
      PROVE  \/ status' = status
             \/ \E w \in Statuses \ {"none"} :
                  status' = [status EXCEPT ![Obj(r)] = w]
  <2>1. v # "removed" => StatusOf[v] \in Statuses \ {"none"}
    BY <1>1 DEF StatusOf
  <2>2. status' = IF v = "removed" THEN status
                  ELSE [status EXCEPT ![Obj(r)] = StatusOf[v]]
    BY <1>1 DEF Concludes
  <2>3. QED
    BY <2>1, <2>2
<1>2. CASE Launch(r) \/ TakesTurn(r) \/ Marked(r) \/ Refused(r)
  BY <1>2 DEF Launch, TakesTurn, Marked, Refused
<1>3. CASE Proceed(r) \/ Retries(r) \/ BackoffEnds(r) \/ Ends(r)
  BY <1>3 DEF Proceed, LeaveWithSlot, Retries, BackoffEnds, Ends
<1>4. CASE Opens(r)
  <2>1. CASE ~StillTracked(r) \/ Cancelled(r)
    <3>1. Verdict(r, "none") \in {"paused", "removed"}
      BY <2>1 DEF Verdict
    <3>2. QED
      BY <1>1, <1>4, <2>1, <3>1 DEF Opens
  <2>2. CASE ~(~StillTracked(r) \/ Cancelled(r))
    BY <1>4, <2>2 DEF Opens, OpensWith
  <2>3. QED
    BY <2>1, <2>2
<1>5. CASE Chunk(r) \/ StreamEnds(r) \/ FailClosed(r) \/ GivesUp(r)
  BY <1>5 DEF Chunk, StreamEnds, FailClosed, GivesUp
<1>6. ASSUME NEW e \in Errors, OpenFails(r, e) \/ StreamFails(r, e)
      PROVE  \/ status' = status
             \/ \E w \in Statuses \ {"none"} :
                  status' = [status EXCEPT ![Obj(r)] = w]
  <2>1. Verdict(r, e) \in {"paused", "removed", "transient", "permanent"}
    BY DEF Verdict, Errors
  <2>2. QED
    BY <1>1, <1>6, <2>1 DEF OpenFails, StreamFails
<1>7. CASE Closed(r)
  <2>1. Verdict(r, "completed") \in {"paused", "removed", "completed"}
    BY DEF Verdict
  <2>2. QED
    BY <1>1, <1>7, <2>1 DEF Closed
<1>8. QED
  BY <1>2, <1>3, <1>4, <1>5, <1>6, <1>7 DEF RunStep

(* A superseded run, or one that is only launched, writes neither a status *)
(* nor a file, and marks no task as paused.                                *)
LEMMA StaleRunQuiet ==
  ASSUME NEW r \in Run, RunStep(r), run[r].pc = "launching" \/ ~Newest(r)
  PROVE  UNCHANGED <<status, file, pausedIds>>
<1> USE DEF taskVars
<1>1. CASE run[r].pc = "launching"
  BY <1>1 DEF RunStep, Launch, TakesTurn, Marked, Refused, Proceed, Opens,
     Chunk, StreamEnds, OpenFails, StreamFails, Closed, FailClosed, Retries,
     GivesUp, BackoffEnds, Ends
<1>2. CASE run[r].pc # "launching" /\ ~Newest(r)
  <2>1. ASSUME NEW w, NEW p, Concludes(r, Verdict(r, w), p)
        PROVE  UNCHANGED <<status, file, pausedIds>>
    <3>1. Verdict(r, w) = "removed"
      BY <1>2 DEF Verdict, StillTracked
    <3>2. QED
      BY <2>1, <3>1 DEF Concludes
  <2>2. ~StillTracked(r) /\ ~MayRun(r) /\ ~CanRetry(r)
    BY <1>2 DEF StillTracked, MayRun, CanRetry
  <2>3. CASE TakesTurn(r) \/ Marked(r) \/ Refused(r)
    BY <2>2, <2>3 DEF TakesTurn, Marked, Refused
  <2>4. CASE Proceed(r) \/ Retries(r) \/ Ends(r)
    BY <2>2, <2>4 DEF Proceed, LeaveWithSlot, Retries, Ends
  <2>5. CASE BackoffEnds(r)
    BY <1>2, <2>5 DEF BackoffEnds, LeaveWithSlot
  <2>6. CASE Opens(r)
    BY <2>1, <2>2, <2>6 DEF Opens, OpensWith
  <2>7. CASE Chunk(r) \/ StreamEnds(r) \/ FailClosed(r)
    BY <2>2, <2>7 DEF Chunk, StreamEnds, FailClosed
  <2>8. CASE GivesUp(r)
    BY <1>2, <2>8 DEF GivesUp
  <2>9. QED
    BY <1>2, <2>1, <2>3, <2>4, <2>5, <2>6, <2>7, <2>8
       DEF RunStep, Launch, OpenFails, StreamFails, Closed
<1>3. QED
  BY <1>1, <1>2

-----------------------------------------------------------------------------
(* The numbers of runs and objects after a step that makes none.           *)
LEMMA NoneMade ==
  ASSUME MadeInOrder, UNCHANGED adding,
         \A t \in Task : Runs(t)' = Runs(t) /\ Objects(t)' = Objects(t)
  PROVE  MadeInOrder'
<1>1. ASSUME NEW t \in Task
      PROVE  RunsMade(t)' = RunsMade(t) /\ ObjectsMade(t)' = ObjectsMade(t)
  BY DEF Runs, Objects, RunsMade, ObjectsMade
<1>2. QED
  BY <1>1 DEF MadeInOrder

(* The next number is free while there is room.                            *)
LEMMA NextIsFree ==
  ASSUME HttpTypes, MadeInOrder, NEW t \in Task, RunsMade(t) < MaxRun
  PROVE  NextRun(t) \in Run /\ run[NextRun(t)].pc = "none"
<1>1. RunsMade(t) \in Nat /\ Runs(t) = 1..RunsMade(t)
  BY DEF MadeInOrder
<1>2. RunsMade(t) + 1 \in RunNo /\ RunsMade(t) + 1 \notin Runs(t)
  BY <1>1, BoundsAssumption DEF RunNo
<1>3. QED
  BY <1>2, Pairs DEF Runs, NextRun

(* Making the next run.                                                    *)
LEMMA OneMade ==
  ASSUME HttpTypes, MadeInOrder, NEW t \in Task, RunsMade(t) < MaxRun,
         NEW k, Launching(t, k)
  PROVE  /\ Runs(t)' = 1..(RunsMade(t) + 1)
         /\ RunsMade(t)' = RunsMade(t) + 1
         /\ \A u \in Task : u # t => Runs(u)' = Runs(u)
<1>0. /\ NextRun(t) \in Run /\ run[NextRun(t)].pc = "none"
      /\ RunsMade(t) \in Nat /\ Runs(t) = 1..RunsMade(t)
      /\ run \in [Run -> Locals]
  BY NextIsFree DEF MadeInOrder, HttpTypes
<1>1. \A q \in Run : run'[q].pc = IF q = NextRun(t) THEN "launching"
                                  ELSE run[q].pc
  BY <1>0 DEF Launching, NewRun
<1>2. Runs(t)' = Runs(t) \cup {RunsMade(t) + 1}
  <2>1. RunsMade(t) + 1 \in RunNo
    BY <1>0, BoundsAssumption DEF RunNo
  <2>2. QED
    BY <1>1, <2>1, Pairs DEF Runs, NextRun
<1>3. Runs(t)' = 1..(RunsMade(t) + 1)
  BY <1>0, <1>2
<1>4. RunsMade(t)' = RunsMade(t) + 1
  <2>1. RunsMade(t)' = Cardinality(Runs(t)')
    BY DEF RunsMade, Runs
  <2>2. QED
    BY <1>0, <1>3, <2>1, FS_Interval
<1>5. ASSUME NEW u \in Task, u # t PROVE Runs(u)' = Runs(u)
  BY <1>1, <1>5, Pairs DEF Runs, NextRun
<1>6. QED
  BY <1>3, <1>4, <1>5

-----------------------------------------------------------------------------
(* Who is behind whom stays as it is when the two and the predecessor do.  *)
LEMMA BehindStays ==
  ASSUME NEW a, NEW b, Behind(a, b), run'[a] = run[a],
         Live(Before(a))', run'[Before(a)].gen = run[Before(a)].gen,
         run'[b].gen = run[b].gen
  PROVE  Behind(a, b)'
BY DEF Behind, Before

(* Two live runs of a task are of different launches, and the one behind   *)
(* is not at its turn.                                                     *)
LEMMA BehindIsLater ==
  ASSUME HttpTypes, NEW t \in Task, NEW m \in RunNo, NEW n \in RunNo,
         Behind(<<t, m>>, <<t, n>>)
  PROVE  /\ run[<<t, n>>].gen < run[<<t, m>>].gen
         /\ ~OwnTurn(<<t, m>>)
         /\ Before(<<t, m>>) \in Run
<1> DEFINE p == run[<<t, m>>].prev
<1>1. <<t, m>> \in Run /\ <<t, n>> \in Run /\ p \in RunNo /\ <<t, p>> \in Run
  <2>1. <<t, m>> \in Run /\ <<t, n>> \in Run
    BY Pairs
  <2>2. p \in 0..MaxRun /\ p # 0
    BY <2>1 DEF HttpTypes, Locals, Behind
  <2>3. p \in RunNo
    BY <2>2, BoundsAssumption DEF RunNo
  <2>4. QED
    BY <2>1, <2>3, Pairs
<1>2. Before(<<t, m>>) = <<t, p>>
  BY DEF Before
<1>3. /\ run[<<t, m>>].gen \in Nat /\ run[<<t, n>>].gen \in Nat
      /\ run[<<t, p>>].gen \in Nat
  BY <1>1 DEF HttpTypes, Locals
<1>4. run[<<t, n>>].gen < run[<<t, m>>].gen
  BY <1>2, <1>3 DEF Behind
<1>5. ~OwnTurn(<<t, m>>)
  BY <1>2 DEF OwnTurn, Behind, PreviousLeft, Live
<1>6. QED
  BY <1>1, <1>2, <1>4, <1>5

(* The line of a task whose runs, gate and generation stay.                *)
LEMMA LineStays ==
  ASSUME HttpTypes, NEW t \in Task, InLine(t),
         \A n \in RunNo : Live(<<t, n>>)' <=> Live(<<t, n>>),
         \A n \in RunNo : Live(<<t, n>>) => run'[<<t, n>>] = run[<<t, n>>],
         chain'[t] = chain[t], gen'[t] \in Nat, gen'[t] >= gen[t]
  PROVE  InLine(t)'
<1>1. \A n \in RunNo : <<t, n>> \in Run /\ run[<<t, n>>].gen \in Nat
  BY Pairs DEF HttpTypes, Locals
<1>2. gen[t] \in Nat /\ chain[t] \in 0..MaxRun
  BY DEF HttpTypes
<1>3. ASSUME NEW m \in RunNo, Live(<<t, m>>)'
      PROVE  /\ chain'[t] # 0 /\ Live(<<t, chain[t]>>)'
             /\ run'[<<t, m>>].gen <= run'[<<t, chain[t]>>].gen
             /\ run'[<<t, chain[t]>>].gen <= gen'[t]
  <2>1. chain[t] # 0 /\ Live(<<t, chain[t]>>) /\ chain[t] \in RunNo
    BY <1>2, <1>3, BoundsAssumption DEF InLine, RunNo
  <2>2. /\ run[<<t, m>>].gen <= run[<<t, chain[t]>>].gen
        /\ run[<<t, chain[t]>>].gen <= gen[t]
    BY <1>3 DEF InLine
  <2>3. QED
    BY <1>1, <1>2, <1>3, <2>1, <2>2
<1>4. ASSUME NEW m \in RunNo, NEW n \in RunNo, Live(<<t, m>>), Live(<<t, n>>),
             Behind(<<t, m>>, <<t, n>>)
      PROVE  Behind(<<t, m>>, <<t, n>>)'
  <2>1. run[<<t, m>>].prev \in RunNo /\ Live(Before(<<t, m>>))
    <3>1. Before(<<t, m>>) \in Run
      BY <1>4, BehindIsLater
    <3>2. QED
      BY <1>4, <3>1 DEF Before, Behind, Run
  <2>2. /\ Before(<<t, m>>) = <<t, run[<<t, m>>].prev>>
        /\ Before(<<t, m>>)' = Before(<<t, m>>)
    BY <1>4 DEF Before
  <2>3. Live(Before(<<t, m>>))' /\ run'[Before(<<t, m>>)] = run[Before(<<t, m>>)]
    BY <2>1, <2>2 DEF Live
  <2>4. QED
    BY <1>4, <2>3, BehindStays
<1>5. QED
  BY <1>3, <1>4 DEF InLine

(* A step of a run keeps every line.                                       *)
LEMMA RunKeepsLine ==
  ASSUME HttpTypes, HttpTypes', LinedUp, NEW r \in Run, RunStep(r)
  PROVE  LinedUp'
<1>p. PICK t \in Task, me \in RunNo : r = <<t, me>>
  BY Pairs
<1>0. /\ t = r[1] /\ me = r[2]
      /\ \A n \in RunNo : <<t, n>> \in Run /\ run[<<t, n>>].gen \in Nat
      /\ gen[t] \in Nat /\ chain[t] \in 0..MaxRun
      /\ chain[t] # 0 => chain[t] \in RunNo
      /\ InLine(t)
  <2>1. t = r[1] /\ me = r[2] /\ InLine(t)
    BY <1>p DEF LinedUp
  <2>2. \A n \in RunNo : <<t, n>> \in Run /\ run[<<t, n>>].gen \in Nat
    BY Pairs DEF HttpTypes, Locals
  <2>3. gen[t] \in Nat /\ chain[t] \in 0..MaxRun
    BY DEF HttpTypes
  <2>4. chain[t] # 0 => chain[t] \in RunNo
    BY <2>3, BoundsAssumption DEF RunNo
  <2>5. QED
    BY <2>1, <2>2, <2>3, <2>4
<1>1. \A q \in Run : q # r => run'[q] = run[q]
  BY RunFrame DEF OthersStay
<1>2. \A n \in RunNo : n # me => run'[<<t, n>>] = run[<<t, n>>]
  BY <1>p, <1>0, <1>1
<1>3. ASSUME NEW u \in Task, u # t PROVE InLine(u)'
  <2>1. \A n \in RunNo : run'[<<u, n>>] = run[<<u, n>>]
    <3>1. ASSUME NEW n \in RunNo PROVE run'[<<u, n>>] = run[<<u, n>>]
      <4>1. <<u, n>> \in Run /\ <<u, n>> # r
        BY <1>p, <1>3, Pairs
      <4>2. QED
        BY <1>1, <4>1
    <3>2. QED
      BY <3>1
  <2>2. chain'[u] = chain[u] /\ gen'[u] = gen[u] /\ gen[u] \in Nat
    BY <1>0, <1>3, RunFrame DEF OthersStay, HttpTypes
  <2>3. InLine(u)
    BY <1>3 DEF LinedUp
  <2>4. gen'[u] \in Nat /\ gen'[u] >= gen[u]
    BY <2>2
  <2>5. \A n \in RunNo : Live(<<u, n>>)' <=> Live(<<u, n>>)
    BY <2>1 DEF Live
  <2>6. QED
    BY <2>1, <2>2, <2>3, <2>4, <2>5, LineStays
<1>4. ASSUME Launch(r) /\ status[Obj(r)] \notin Active PROVE InLine(t)'
  <2>1. run' = [run EXCEPT ![r] = OverRun] /\ UNCHANGED <<gen, chain>>
    BY <1>4 DEF Launch
  <2>2. ~Live(r) /\ ~Live(r)'
    BY <1>4, <2>1 DEF Launch, Live, OverRun, HttpTypes
  <2>3. \A n \in RunNo : Live(<<t, n>>)' <=> Live(<<t, n>>)
    BY <1>p, <1>0, <1>2, <2>2 DEF Live
  <2>4. \A n \in RunNo : Live(<<t, n>>) => run'[<<t, n>>] = run[<<t, n>>]
    BY <1>p, <1>0, <1>2, <2>2
  <2>5. gen'[t] \in Nat /\ gen'[t] >= gen[t] /\ chain'[t] = chain[t]
    BY <1>p, <1>0, <2>1
  <2>6. QED
    BY <1>p, <1>0, <2>3, <2>4, <2>5, LineStays
<1>5. ASSUME Launch(r) /\ status[Obj(r)] \in Active PROVE InLine(t)'
  <2>1. /\ run[r].pc = "launching"
        /\ gen'[t] = gen[t] + 1 /\ chain'[t] = me
        /\ run'[r].pc = "chained" /\ run'[r].gen = gen[t] + 1
        /\ run'[r].prev = chain[t]
    <3>1. /\ run[r].pc = "launching"
          /\ gen' = [gen EXCEPT ![r[1]] = @ + 1]
          /\ chain' = [chain EXCEPT ![r[1]] = r[2]]
          /\ run' = [run EXCEPT ![r].pc = "chained", ![r].gen = gen'[r[1]],
                                ![r].prev = chain[r[1]]]
      BY <1>5 DEF Launch
    <3>2. gen'[t] = gen[t] + 1 /\ chain'[t] = me
      BY <1>0, <3>1 DEF HttpTypes
    <3>3. run \in [Run -> Locals] /\ run[r] \in Locals
      BY DEF HttpTypes
    <3>4. QED
      BY <1>0, <3>1, <3>2, <3>3 DEF Locals
  <2>2. ~Live(r) /\ Live(r)'
    BY <2>1 DEF Live
  <2>3. ASSUME NEW n \in RunNo, Live(<<t, n>>)', n # me
        PROVE  Live(<<t, n>>) /\ run'[<<t, n>>] = run[<<t, n>>]
    BY <1>2, <2>3 DEF Live
  <2>4. ASSUME NEW m \in RunNo, Live(<<t, m>>)', m # me
        PROVE  Behind(r, <<t, m>>)' /\ run[<<t, m>>].gen <= gen[t]
    <3>1. /\ chain[t] # 0 /\ Live(<<t, chain[t]>>)
          /\ run[<<t, m>>].gen <= run[<<t, chain[t]>>].gen
          /\ run[<<t, chain[t]>>].gen <= gen[t]
      BY <1>p, <1>0, <2>3, <2>4 DEF InLine
    <3>2. chain[t] \in RunNo /\ chain[t] # me
      BY <1>p, <1>0, <2>2, <3>1
    <3>3. Before(r)' = <<t, chain[t]>>
      BY <1>p, <1>0, <2>1 DEF Before
    <3>4. run'[<<t, chain[t]>>] = run[<<t, chain[t]>>]
      BY <1>2, <3>2
    <3>5. QED
      BY <1>p, <1>0, <2>1, <2>3, <2>4, <3>1, <3>2, <3>3, <3>4 DEF Behind, Live
  <2>5. ASSUME NEW m \in RunNo, Live(<<t, m>>)'
        PROVE  /\ chain'[t] # 0 /\ Live(<<t, chain[t]>>)'
               /\ run'[<<t, m>>].gen <= run'[<<t, chain'[t]>>].gen
               /\ run'[<<t, chain'[t]>>].gen <= gen'[t]
    <3>1. chain'[t] # 0 /\ <<t, chain'[t]>> = r
      BY <1>p, <1>0, <2>1, BoundsAssumption DEF RunNo
    <3>2. run'[<<t, m>>].gen <= gen[t] + 1
      BY <1>p, <1>0, <2>1, <2>3, <2>4, <2>5
    <3>3. QED
      BY <1>p, <1>0, <2>1, <2>2, <3>1, <3>2
  <2>6. ASSUME NEW m \in RunNo, NEW n \in RunNo, m # n,
               Live(<<t, m>>)', Live(<<t, n>>)'
        PROVE  Behind(<<t, m>>, <<t, n>>)' \/ Behind(<<t, n>>, <<t, m>>)'
    <3>1. CASE m = me \/ n = me
      BY <1>p, <1>0, <2>4, <2>6, <3>1
    <3>2. CASE m # me /\ n # me
      <4>1. ASSUME NEW a \in RunNo, NEW b \in RunNo, a # me, b # me,
                   Behind(<<t, a>>, <<t, b>>)
            PROVE  Behind(<<t, a>>, <<t, b>>)'
        <5>1. Before(<<t, a>>) \in Run /\ Live(Before(<<t, a>>))
          BY <1>p, <1>0, <4>1, BehindIsLater DEF Behind
        <5>2. run'[Before(<<t, a>>)] = run[Before(<<t, a>>)]
          BY <1>1, <2>2, <5>1
        <5>3. run'[<<t, a>>] = run[<<t, a>>] /\ run'[<<t, b>>] = run[<<t, b>>]
          BY <1>2, <4>1
        <5>4. Live(Before(<<t, a>>))'
          BY <5>1, <5>2, <5>3 DEF Live, Before
        <5>5. QED
          BY <4>1, <5>2, <5>3, <5>4, BehindStays
      <4>2. Behind(<<t, m>>, <<t, n>>) \/ Behind(<<t, n>>, <<t, m>>)
        BY <1>p, <1>0, <2>3, <2>6, <3>2 DEF InLine
      <4>3. QED
        BY <3>2, <4>1, <4>2
    <3>3. QED
      BY <3>1, <3>2
  <2>7. QED
    BY <2>5, <2>6 DEF InLine
<1>6. ASSUME Live(r), OwnTurn(r), NEW n \in RunNo, n # me, Live(<<t, n>>)
      PROVE  Behind(<<t, n>>, r) /\ run[r].gen < run[<<t, n>>].gen
  BY <1>p, <1>0, <1>6, BehindIsLater DEF InLine
<1>7. ASSUME Leaves(r) PROVE InLine(t)'
  <2>1. /\ run' = [run EXCEPT ![r] = OverRun] /\ gen' = gen
        /\ chain'[t] = IF chain[t] = me THEN 0 ELSE chain[t]
        /\ Live(r) /\ OwnTurn(r)
    BY <1>p, <1>0, <1>7 DEF Leaves, Leave, HttpTypes
  <2>2. ~Live(r)'
    BY <2>1 DEF Live, OverRun, HttpTypes
  <2>3. ASSUME NEW n \in RunNo, Live(<<t, n>>)'
        PROVE  /\ n # me /\ Live(<<t, n>>)
               /\ run'[<<t, n>>] = run[<<t, n>>]
               /\ Behind(<<t, n>>, r) /\ run[r].gen < run[<<t, n>>].gen
    <3>1. n # me /\ run'[<<t, n>>] = run[<<t, n>>]
      BY <1>p, <1>0, <1>2, <2>2, <2>3
    <3>2. Live(<<t, n>>)
      BY <2>3, <3>1 DEF Live
    <3>3. QED
      BY <1>6, <2>1, <3>1, <3>2
  <2>4. ASSUME NEW m \in RunNo, Live(<<t, m>>)'
        PROVE  /\ chain'[t] # 0 /\ Live(<<t, chain[t]>>)'
               /\ run'[<<t, m>>].gen <= run'[<<t, chain'[t]>>].gen
               /\ run'[<<t, chain'[t]>>].gen <= gen'[t]
    <3>1. /\ chain[t] # 0 /\ Live(<<t, chain[t]>>)
          /\ run[<<t, m>>].gen <= run[<<t, chain[t]>>].gen
          /\ run[<<t, chain[t]>>].gen <= gen[t]
      BY <1>p, <1>0, <2>3, <2>4 DEF InLine
    <3>2. chain[t] # me
      BY <1>p, <1>0, <2>3, <2>4, <3>1
    <3>3. chain'[t] = chain[t] /\ run'[<<t, chain[t]>>] = run[<<t, chain[t]>>]
      BY <1>p, <1>0, <1>2, <2>1, <3>1, <3>2
    <3>4. QED
      BY <2>1, <2>3, <2>4, <3>1, <3>3 DEF Live
  <2>5. ASSUME NEW a \in RunNo, NEW b \in RunNo, Live(<<t, a>>)',
               Live(<<t, b>>)', Behind(<<t, a>>, <<t, b>>)
        PROVE  Behind(<<t, a>>, <<t, b>>)'
    <3>1. /\ Before(<<t, a>>) \in Run /\ Live(Before(<<t, a>>))
          /\ run[<<t, b>>].gen <= run[Before(<<t, a>>)].gen
      BY <1>p, <1>0, <2>5, BehindIsLater DEF Behind
    <3>2. Before(<<t, a>>) # r
      BY <1>p, <1>0, <2>3, <2>5, <3>1
    <3>3. run'[Before(<<t, a>>)] = run[Before(<<t, a>>)]
      BY <1>1, <3>1, <3>2
    <3>4. Live(Before(<<t, a>>))'
      BY <2>3, <2>5, <3>1, <3>3 DEF Live, Before
    <3>5. QED
      BY <2>3, <2>5, <3>3, <3>4, BehindStays
  <2>6. QED
    BY <1>p, <1>0, <2>3, <2>4, <2>5 DEF InLine
<1>8. ASSUME GoesOn(r) PROVE InLine(t)'
  <2>1. /\ Live(r) /\ OwnTurn(r) /\ Live(r)' /\ run'[r].gen = run[r].gen
        /\ UNCHANGED <<gen, chain>>
    BY <1>8 DEF GoesOn, Live
  <2>2. \A n \in RunNo : /\ Live(<<t, n>>)' <=> Live(<<t, n>>)
                         /\ run'[<<t, n>>].gen = run[<<t, n>>].gen
    BY <1>p, <1>0, <1>2, <2>1 DEF Live
  <2>3. ASSUME NEW m \in RunNo, Live(<<t, m>>)'
        PROVE  /\ chain'[t] # 0 /\ Live(<<t, chain[t]>>)'
               /\ run'[<<t, m>>].gen <= run'[<<t, chain'[t]>>].gen
               /\ run'[<<t, chain'[t]>>].gen <= gen'[t]
    <3>1. /\ chain[t] # 0 /\ Live(<<t, chain[t]>>)
          /\ run[<<t, m>>].gen <= run[<<t, chain[t]>>].gen
          /\ run[<<t, chain[t]>>].gen <= gen[t]
      BY <1>p, <1>0, <2>2, <2>3 DEF InLine
    <3>2. chain'[t] = chain[t] /\ gen'[t] = gen[t] /\ chain[t] \in RunNo
      BY <1>p, <1>0, <2>1, <3>1
    <3>3. QED
      BY <2>2, <3>1, <3>2
  <2>4. ASSUME NEW a \in RunNo, NEW b \in RunNo, Live(<<t, a>>),
               Live(<<t, b>>), Behind(<<t, a>>, <<t, b>>)
        PROVE  Behind(<<t, a>>, <<t, b>>)'
    <3>1. /\ Before(<<t, a>>) \in Run /\ Live(Before(<<t, a>>))
          /\ ~OwnTurn(<<t, a>>)
      BY <1>p, <1>0, <2>4, BehindIsLater DEF Behind
    <3>2. a # me
      BY <1>p, <1>0, <2>1, <3>1
    <3>3. /\ run'[Before(<<t, a>>)].gen = run[Before(<<t, a>>)].gen
          /\ run'[<<t, a>>] = run[<<t, a>>]
      BY <1>1, <1>2, <2>1, <3>1, <3>2
    <3>4. Before(<<t, a>>)' = Before(<<t, a>>)
      BY <3>3 DEF Before
    <3>5. Live(Before(<<t, a>>))'
      <4>1. CASE Before(<<t, a>>) = r
        BY <2>1, <3>4, <4>1 DEF Live
      <4>2. CASE Before(<<t, a>>) # r
        BY <1>1, <3>1, <3>4, <4>2 DEF Live
      <4>3. QED
        BY <4>1, <4>2
    <3>6. QED
      BY <2>2, <2>4, <3>3, <3>5, BehindStays
  <2>5. QED
    BY <1>p, <1>0, <2>2, <2>3, <2>4 DEF InLine
<1>9. InLine(t)'
  BY <1>4, <1>5, <1>7, <1>8, RunKinds
<1>10. QED
  BY <1>0, <1>3, <1>9 DEF LinedUp

-----------------------------------------------------------------------------
(* A run that launches or goes on keeps its object, and none is unmade.    *)
LEMMA PlaceAfter ==
  ASSUME HttpTypes, NEW r \in Run, RunStep(r)
  PROVE  /\ run[r].pc \notin {"none", "done"} /\ run'[r].pc # "none"
         /\ run'[r].pc # "done" => run'[r].obj = run[r].obj
<1>0. run \in [Run -> Locals] /\ run[r] \in Locals
  BY DEF HttpTypes
<1>1. CASE Launch(r)
  <2>1. \/ run' = [run EXCEPT ![r] = OverRun]
        \/ run' = [run EXCEPT ![r].pc = "chained", ![r].gen = gen'[r[1]],
                              ![r].prev = chain[r[1]]]
    BY <1>1 DEF Launch
  <2>2. run[r].pc = "launching"
    BY <1>1 DEF Launch
  <2>3. QED
    BY <1>0, <2>1, <2>2 DEF Locals, OverRun, NewRun
<1>2. CASE GoesOn(r)
  BY <1>2 DEF GoesOn, Live
<1>3. CASE Leaves(r)
  BY <1>0, <1>3 DEF Leaves, Leave, Live, OverRun, NewRun
<1>4. QED
  BY <1>1, <1>2, <1>3, RunKinds

(* Runs and objects stay numbered in order, and the ones that are referred *)
(* to exist.                                                               *)
LEMMA RunKeepsObjects ==
  ASSUME HttpTypes, HttpTypes', MadeInOrder, ObjectsExist,
         NEW r \in Run, RunStep(r)
  PROVE  MadeInOrder' /\ ObjectsExist'
<1>0. /\ r[1] \in Task /\ run[r].obj \in 1..MaxObj /\ Obj(r) \in Object
      /\ status[Obj(r)] # "none"
  <2>1. run[r].obj \in 0..MaxObj /\ run[r].obj # 0 /\ status[Obj(r)] # "none"
    BY PlaceAfter DEF ObjectsExist, HttpTypes, Locals
  <2>2. run[r].obj \in 1..MaxObj
    BY <2>1, BoundsAssumption
  <2>3. QED
    BY <2>1, <2>2, Pairs DEF Obj
<1>1. \A o \in Object : status'[o] = "none" <=> status[o] = "none"
  <2>1. status \in [Object -> Statuses]
    BY DEF HttpTypes
  <2>2. CASE status' = status
    BY <2>2
  <2>3. ASSUME NEW v \in Statuses \ {"none"},
               status' = [status EXCEPT ![Obj(r)] = v]
        PROVE  \A o \in Object : status'[o] = "none" <=> status[o] = "none"
    BY <1>0, <2>1, <2>3
  <2>4. QED
    BY <2>2, <2>3, StatusWritten
<1>2. \A q \in Run : q # r => run'[q] = run[q]
  BY RunFrame DEF OthersStay
<1>3. MadeInOrder'
  <2>1. ASSUME NEW t \in Task
        PROVE  Runs(t)' = Runs(t) /\ Objects(t)' = Objects(t)
    <3>1. ASSUME NEW n \in RunNo
          PROVE  run'[<<t, n>>].pc = "none" <=> run[<<t, n>>].pc = "none"
      BY <1>2, PlaceAfter, Pairs
    <3>2. ASSUME NEW k \in 1..MaxObj
          PROVE  status'[<<t, k>>] = "none" <=> status[<<t, k>>] = "none"
      BY <1>1, Pairs
    <3>3. QED
      BY <3>1, <3>2 DEF Runs, Objects
  <2>2. UNCHANGED adding
    BY RunFrame DEF OthersStay
  <2>3. QED
    BY <2>1, <2>2, NoneMade
<1>4. ObjectsExist'
  <2>1. ASSUME NEW q \in Run, run'[q].pc \notin {"none", "done"}
        PROVE  run'[q].obj # 0 /\ status'[Obj(q)'] # "none"
    <3>1. run[q].pc \notin {"none", "done"} /\ run'[q].obj = run[q].obj
      BY <1>2, <2>1, PlaceAfter
    <3>2. run[q].obj # 0 /\ status[Obj(q)] # "none" /\ Obj(q)' = Obj(q)
      BY <3>1 DEF ObjectsExist, Obj
    <3>3. Obj(q) \in Object
      <4>1. run[q].obj \in 0..MaxObj
        BY DEF HttpTypes, Locals
      <4>2. run[q].obj \in 1..MaxObj
        BY <3>2, <4>1, BoundsAssumption
      <4>3. QED
        BY <4>2, Pairs DEF Obj
    <3>4. QED
      BY <1>1, <3>1, <3>2, <3>3
  <2>2. ASSUME NEW t \in Task, tracked'[t] # 0 PROVE CurrentStatus(t)' # "none"
    <3>1. tracked' = tracked
      BY RunFrame DEF OthersStay
    <3>2. tracked[t] \in 1..MaxObj /\ CurrentStatus(t) # "none"
      <4>1. tracked[t] \in 0..MaxObj
        BY DEF HttpTypes
      <4>2. QED
        BY <2>2, <3>1, <4>1, BoundsAssumption DEF ObjectsExist
    <3>3. QED
      BY <1>1, <3>1, <3>2, Pairs DEF CurrentStatus
  <2>3. QED
    BY <2>1, <2>2 DEF ObjectsExist
<1>5. QED
  BY <1>3, <1>4

-----------------------------------------------------------------------------
(* What a run relies on, when neither it nor its task changes.             *)
LEMMA ViewStays ==
  ASSUME NEW q \in Run, RunInv(q), run'[q] = run[q],
         gen'[q[1]] = gen[q[1]], tracked'[q[1]] = tracked[q[1]],
         q[1] \in removedIds' => q[1] \in removedIds,
         q[1] \in pausedIds => q[1] \in pausedIds',
         Working(q) => file'[q[1]] = file[q[1]],
         Working(q) \/ Retrying(q) => CurrentStatus(q[1])' = CurrentStatus(q[1])
  PROVE  RunInv(q)'
<1>1. /\ Working(q)' <=> Working(q)
      /\ Retrying(q)' <=> Retrying(q)
      /\ Newest(q)' <=> Newest(q)
      /\ Tracks(q)' <=> Tracks(q)
  BY DEF Working, Retrying, Newest, Tracks
<1>2. Current(q)'
  BY <1>1 DEF RunInv, Current
<1>3. NotOver(q)'
  BY <1>1 DEF RunInv, NotOver
<1>4. Undecided(q)'
  BY DEF RunInv, Undecided
<1>5. QED
  BY <1>2, <1>3, <1>4 DEF RunInv

(* A superseded run relies on nothing.                                     *)
LEMMA StaleStays ==
  ASSUME NEW q \in Run, RunInv(q), run'[q] = run[q], ~Newest(q)'
  PROVE  RunInv(q)'
BY DEF RunInv, Current, NotOver, Undecided

(* Of two live runs of a task at most one is the newest, and none after a  *)
(* new launch.                                                             *)
LEMMA OneNewest ==
  ASSUME HttpTypes, LinedUp, NEW q \in Run, NEW r \in Run, q # r,
         q[1] = r[1], Live(q), Newest(q), Live(r)
  PROVE  ~Newest(r)
<1>1. PICK t \in Task, m \in RunNo, n \in RunNo : q = <<t, m>> /\ r = <<t, n>>
  BY Pairs
<1>2. InLine(t) /\ m # n
  BY <1>1 DEF LinedUp
<1>3. Behind(q, r) \/ Behind(r, q)
  BY <1>1, <1>2 DEF InLine
<1>4. run[r].gen < run[q].gen \/ run[q].gen < run[r].gen
  BY <1>1, <1>3, BehindIsLater
<1>5. run[r].gen \in Nat /\ run[q].gen \in Nat
  BY DEF HttpTypes, Locals
<1>6. QED
  BY <1>1, <1>4, <1>5 DEF Newest

(* No live run is of a launch that is still to come.                       *)
LEMMA LiveIsOld ==
  ASSUME HttpTypes, LinedUp, NEW q \in Run, Live(q)
  PROVE  run[q].gen \in Nat /\ gen[q[1]] \in Nat /\ run[q].gen <= gen[q[1]]
<1>1. PICK t \in Task, m \in RunNo : q = <<t, m>>
  BY Pairs
<1>2. /\ chain[t] # 0
      /\ run[q].gen <= run[<<t, chain[t]>>].gen
      /\ run[<<t, chain[t]>>].gen <= gen[t]
  BY <1>1 DEF LinedUp, InLine
<1>3. chain[t] \in RunNo
  <2>1. chain[t] \in 0..MaxRun
    BY DEF HttpTypes
  <2>2. QED
    BY <1>2, <2>1, BoundsAssumption DEF RunNo
<1>4. <<t, chain[t]>> \in Run
  BY <1>3, Pairs
<1>5. run[q].gen \in Nat /\ gen[t] \in Nat /\ run[<<t, chain[t]>>].gen \in Nat
  BY <1>4 DEF HttpTypes, Locals
<1>6. QED
  BY <1>1, <1>2, <1>5

(* A step of one run leaves what the other runs rely on.                   *)
LEMMA OthersKeep ==
  ASSUME HttpTypes, ObjectsExist, LinedUp,
         NEW r \in Run, RunStep(r), NEW q \in Run, q # r, RunInv(q)
  PROVE  RunInv(q)'
<1>0. /\ run'[q] = run[q] /\ tracked' = tracked /\ removedIds' = removedIds
      /\ q[1] \in Task /\ r[1] \in Task
      /\ \A o \in Object : o # Obj(r) => status'[o] = status[o]
  BY RunFrame, Pairs DEF OthersStay
<1>1. CASE q[1] # r[1]
  <2>1. /\ gen'[q[1]] = gen[q[1]] /\ file'[q[1]] = file[q[1]]
        /\ q[1] \in pausedIds' <=> q[1] \in pausedIds
    BY <1>0, <1>1, RunFrame DEF OthersStay
  <2>2. tracked[q[1]] # 0 => CurrentStatus(q[1])' = CurrentStatus(q[1])
    <3>1. ASSUME tracked[q[1]] # 0
          PROVE  <<q[1], tracked[q[1]]>> \in Object \ {Obj(r)}
      <4>1. tracked[q[1]] \in 1..MaxObj
        <5>1. tracked[q[1]] \in 0..MaxObj
          BY <1>0 DEF HttpTypes
        <5>2. QED
          BY <3>1, <5>1, BoundsAssumption
      <4>2. QED
        BY <1>0, <1>1, <4>1, Pairs DEF Obj
    <3>2. QED
      BY <1>0, <3>1 DEF CurrentStatus
  <2>3. CASE tracked[q[1]] # 0
    BY <1>0, <2>1, <2>2, <2>3, ViewStays
  <2>4. CASE tracked[q[1]] = 0
    <3>1. ~(Working(q) /\ Newest(q))
      BY <2>4 DEF RunInv, Current
    <3>2. ~(Retrying(q) /\ Tracks(q))
      BY <2>4 DEF ObjectsExist, Retrying, Tracks
    <3>3. QED
      BY <1>0, <2>1, <3>1, <3>2
         DEF RunInv, Current, NotOver, Undecided, Working, Retrying, Newest, Tracks
  <2>5. QED
    BY <2>3, <2>4
<1>2. CASE q[1] = r[1] /\ Launch(r) /\ status[Obj(r)] \in Active
  <2>1. gen'[q[1]] = gen[q[1]] + 1
    BY <1>0, <1>2 DEF Launch, HttpTypes
  <2>2. CASE Live(q)
    <3>1. run[q].gen # gen[q[1]] + 1
      BY <2>2, LiveIsOld
    <3>2. ~Newest(q)'
      BY <1>0, <2>1, <3>1 DEF Newest
    <3>3. QED
      BY <1>0, <3>2, StaleStays
  <2>3. CASE ~Live(q)
    BY <1>0, <2>3
       DEF Live, RunInv, Current, NotOver, Undecided, Working, Retrying
  <2>4. QED
    BY <2>2, <2>3
<1>3. CASE q[1] = r[1] /\ ~(Launch(r) /\ status[Obj(r)] \in Active)
  <2>1. gen' = gen
    BY <1>3, RunKinds DEF Launch, GoesOn, Leaves
  <2>2. CASE ~(Live(q) /\ Newest(q))
    BY <1>0, <2>1, <2>2
       DEF Live, RunInv, Current, NotOver, Undecided, Working, Retrying, Newest
  <2>3. CASE Live(q) /\ Newest(q)
    <3>1. run[r].pc = "launching" \/ ~Newest(r)
      <4>1. CASE Live(r)
        BY <1>3, <2>3, <4>1, OneNewest
      <4>2. CASE ~Live(r)
        BY <4>2, PlaceAfter DEF Live
      <4>3. QED
        BY <4>1, <4>2
    <3>2. UNCHANGED <<status, file, pausedIds>>
      BY <3>1, StaleRunQuiet
    <3>3. QED
      BY <1>0, <2>1, <3>2, ViewStays DEF CurrentStatus
  <2>4. QED
    BY <2>2, <2>3
<1>4. QED
  BY <1>1, <1>2, <1>3

-----------------------------------------------------------------------------
(* A run that may write appends where the file ends.                       *)
LEMMA WriterIsCurrent ==
  ASSUME NEW r \in Run, RunInv(r), Working(r), StillTracked(r), ~Cancelled(r)
  PROVE  /\ r[1] \notin removedIds /\ tracked[r[1]] # 0
         /\ CurrentStatus(r[1]) \in Active
         /\ IF run[r].pc = "opening"
              THEN run[r].existing = Len(file[r[1]])
              ELSE Fits(file[r[1]], run[r].next, run[r].known)
BY DEF RunInv, Current, StillTracked, Cancelled

(* The ways in which a run writes the file.                                *)
LEMMA FileWritten ==
  ASSUME HttpTypes, NEW r \in Run, RunStep(r)
  PROVE  \/ file' = file
         \/ /\ run[r].pc = "opening" /\ StillTracked(r) /\ ~Cancelled(r)
            /\ file' = [file EXCEPT ![r[1]] = <<>>]
            /\ UNCHANGED <<status, tracked>>
         \/ /\ run[r].pc = "streaming" /\ StillTracked(r) /\ ~Cancelled(r)
            /\ run[r].next <= Size
            /\ file' = [file EXCEPT ![r[1]] = Append(@, ChunkOf(r))]
            /\ UNCHANGED <<status, tracked>>
<1> USE DEF taskVars
<1>1. CASE Opens(r)
  <2>1. CASE ~StillTracked(r) \/ Cancelled(r)
    BY <1>1, <2>1 DEF Opens, Concludes
  <2>2. CASE ~(~StillTracked(r) \/ Cancelled(r))
    BY <1>1, <2>2 DEF Opens, OpensWith
  <2>3. QED
    BY <2>1, <2>2
<1>2. CASE Chunk(r)
  <2>1. CASE ~StillTracked(r) \/ Cancelled(r)
    BY <1>2, <2>1 DEF Chunk
  <2>2. CASE ~(~StillTracked(r) \/ Cancelled(r))
    BY <1>2, <2>2 DEF Chunk
  <2>3. QED
    BY <2>1, <2>2
<1>3. ASSUME NEW v, NEW p, Concludes(r, v, p) PROVE file' = file
  BY <1>3 DEF Concludes
<1>4. CASE Launch(r) \/ TakesTurn(r) \/ Marked(r) \/ Refused(r) \/ Proceed(r)
  BY <1>4 DEF Launch, TakesTurn, Marked, Refused, Proceed, LeaveWithSlot
<1>5. CASE StreamEnds(r) \/ FailClosed(r) \/ Retries(r) \/ GivesUp(r)
  BY <1>5 DEF StreamEnds, FailClosed, Retries, GivesUp
<1>6. CASE BackoffEnds(r) \/ Ends(r)
  BY <1>6 DEF BackoffEnds, Ends, LeaveWithSlot
<1>7. QED
  BY <1>1, <1>2, <1>3, <1>4, <1>5, <1>6
     DEF RunStep, OpenFails, StreamFails, Closed

(* The chunk that a run writes comes next in its file, and what the run    *)
(* knows of the file holds of the longer one.                              *)
LEMMA FitsGrows ==
  ASSUME NEW s \in Seq(Nat), NEW c \in 1..Size, NEW k \in BOOLEAN,
         Fits(s, c, k)
  PROVE  Fits(Append(s, IF k THEN c ELSE 0), c + 1, k)
<1> DEFINE x == IF k THEN c ELSE 0
           u == Append(s, x)
<1>0. Len(s) \in Nat /\ c \in Nat /\ Size \in Nat /\ x \in Nat
  BY BoundsAssumption
<1>1. /\ Len(u) = Len(s) + 1 /\ u[Len(s) + 1] = x
      /\ \A i \in 1..Len(s) : u[i] = s[i]
  BY <1>0
<1> HIDE DEF u
<1>2. Len(u) > 0 /\ (~k => \E i \in 1..Len(u) : u[i] = 0)
  BY <1>0, <1>1
<1>3. CASE k
  <2>1. Promise!Follows(s, c) /\ x = c
    BY <1>3 DEF Fits
  <2>2. c = Len(s) + 1 \/ \A i \in 1..Len(s) : s[i] = c - Len(s) - 1 + i
    BY <1>0, <2>1 DEF Promise!Follows
  <2>3. Promise!Follows(u, c + 1)
    <3>1. CASE c = Len(s) + 1
      BY <1>0, <1>1, <3>1 DEF Promise!Follows
    <3>2. CASE \A i \in 1..Len(s) : s[i] = c - Len(s) - 1 + i
      <4>1. ASSUME NEW i \in 1..Len(u)
            PROVE  u[i] = c + 1 - Len(u) - 1 + i
        <5>1. CASE i = Len(s) + 1
          BY <1>0, <1>1, <2>1, <5>1
        <5>2. CASE i \in 1..Len(s)
          BY <1>0, <1>1, <3>2, <5>2
        <5>3. QED
          BY <1>0, <1>1, <5>1, <5>2
      <4>2. QED
        BY <4>1 DEF Promise!Follows
    <3>3. QED
      BY <2>2, <3>1, <3>2
  <2>4. QED
    BY <1>2, <1>3, <2>3 DEF Fits, u
<1>4. CASE ~k
  <2>1. Promise!Follows(u, 0)
    BY DEF Promise!Follows
  <2>2. QED
    BY <1>2, <1>4, <2>1 DEF Fits, u
<1>5. QED
  BY <1>3, <1>4

(* A chunk that comes next leaves every chunk in its place.                *)
LEMMA InPlaceGrows ==
  ASSUME NEW s \in Seq(Nat), NEW c \in Nat, InPlace(s), Promise!Follows(s, c)
  PROVE  InPlace(Append(s, c))
<1> DEFINE u == Append(s, c)
<1>0. Len(s) \in Nat /\ \A i \in 1..Len(s) : s[i] \in Nat
  OBVIOUS
<1>1. /\ Len(u) = Len(s) + 1 /\ u[Len(s) + 1] = c
      /\ \A i \in 1..Len(s) : u[i] = s[i]
  BY <1>0
<1> HIDE DEF u
<1>2. ASSUME NEW i \in 1..Len(u)
      PROVE  \/ u[i] \in {i, 0}
             \/ \A j \in 1..i : u[j] = u[1] + j - 1
  <2>1. CASE i \in 1..Len(s)
    <3>1. \A j \in 1..i : u[j] = s[j] /\ u[1] = s[1]
      BY <1>0, <1>1, <2>1
    <3>2. \/ s[i] \in {i, 0}
          \/ \A j \in 1..i : s[j] = s[1] + j - 1
      BY <2>1 DEF InPlace
    <3>3. QED
      BY <1>1, <2>1, <3>1, <3>2
  <2>2. CASE i = Len(s) + 1
    <3>1. CASE c \in {Len(s) + 1, 0}
      BY <1>1, <2>2, <3>1
    <3>2. CASE \A j \in 1..Len(s) : s[j] = c - Len(s) - 1 + j
      <4>1. ASSUME NEW j \in 1..i PROVE u[j] = c - Len(s) - 1 + j
        <5>1. CASE j = Len(s) + 1
          BY <1>0, <1>1, <5>1
        <5>2. CASE j \in 1..Len(s)
          BY <1>1, <3>2, <5>2
        <5>3. QED
          BY <1>0, <2>2, <5>1, <5>2
      <4>2. u[1] = c - Len(s)
        BY <1>0, <2>2, <4>1
      <4>3. QED
        BY <1>0, <2>2, <4>1, <4>2
    <3>3. QED
      BY <3>1, <3>2 DEF Promise!Follows
  <2>3. QED
    BY <1>0, <1>1, <2>1, <2>2
<1>3. QED
  BY <1>2 DEF InPlace, u

(* What the answer of a server lets a run know: of an emptied file, and of *)
(* one that the body goes on with.                                         *)
LEMMA AnswerFits ==
  ASSUME NEW r \in Run, NEW a \in Answer, NEW s \in Seq(Nat),
         \/ s = <<>>
         \/ Appends(r, a) /\ run[r].existing = Len(s)
  PROVE  Fits(s, a.from + 1, ~Astray(r, a))
<1>0. a.from \in Nat /\ a.from + 1 <= Size /\ Len(s) \in Nat
  BY BoundsAssumption DEF Answer
<1>1. CASE Astray(r, a)
  BY <1>0, <1>1 DEF Fits, Promise!Follows
<1>2. CASE ~Astray(r, a) /\ s = <<>>
  BY <1>0, <1>2 DEF Fits, Promise!Follows
<1>3. CASE ~Astray(r, a) /\ Appends(r, a) /\ run[r].existing = Len(s)
  <2>1. a.from = Len(s)
    BY <1>3 DEF Astray, Appends
  <2>2. QED
    BY <1>0, <1>3, <2>1 DEF Fits, Promise!Follows
<1>4. QED
  BY <1>1, <1>2, <1>3

(* A body that has gone to the end has left no file that is a mere part.   *)
LEMMA WholeAtEnd ==
  ASSUME NEW s \in Seq(Nat), NEW k \in BOOLEAN, Fits(s, Size + 1, k)
  PROVE  ~Promise!Partial(s)
<1>0. Len(s) \in Nat /\ Size \in Nat
  BY BoundsAssumption
<1>1. SUFFICES ASSUME Len(s) < Size, \A i \in 1..Len(s) : s[i] = i
               PROVE  FALSE
  BY DEF Promise!Partial
<1>2. CASE k
  <2>1. Len(s) > 0 /\ Promise!Follows(s, Size + 1)
    BY <1>0, <1>2 DEF Fits
  <2>2. s[1] = 1
    BY <1>0, <1>1, <2>1
  <2>3. s[1] = Size + 1 - Len(s) - 1 + 1
    BY <1>0, <1>1, <2>1 DEF Promise!Follows
  <2>4. QED
    BY <1>0, <1>1, <2>2, <2>3
<1>3. CASE ~k
  BY <1>0, <1>1, <1>3 DEF Fits
<1>4. QED
  BY <1>2, <1>3

(* A step of a run extends the file by a chunk that comes next, or starts  *)
(* it anew.                                                                *)
LEMMA RunKeepsFiles ==
  ASSUME HttpTypes, ChunksInPlace,
         NEW r \in Run, RunStep(r), RunInv(r)
  PROVE  ChunksInPlace'
<1>0. /\ r[1] \in Task /\ run[r] \in Locals
      /\ \A t \in Task : file[t] \in Seq(Nat) /\ InPlace(file[t])
  BY Pairs DEF HttpTypes, ChunksInPlace
<1>1. CASE file' = file
  BY <1>1 DEF ChunksInPlace
<1>2. ASSUME NEW s, file' = [file EXCEPT ![r[1]] = s], InPlace(s)
      PROVE  ChunksInPlace'
  <2>1. ASSUME NEW t \in Task PROVE InPlace(file'[t])
    <3>1. file'[t] = s \/ file'[t] = file[t]
      BY <1>0, <1>2 DEF HttpTypes
    <3>2. QED
      BY <1>0, <1>2, <3>1
  <2>2. QED
    BY <2>1 DEF ChunksInPlace
<1>3. CASE file' = [file EXCEPT ![r[1]] = <<>>]
  <2>1. InPlace(<<>>)
    BY DEF InPlace
  <2>2. QED
    BY <1>2, <1>3, <2>1
<1>4. CASE /\ run[r].pc = "streaming" /\ StillTracked(r) /\ ~Cancelled(r)
           /\ run[r].next <= Size
           /\ file' = [file EXCEPT ![r[1]] = Append(@, ChunkOf(r))]
  <2> DEFINE s == file[r[1]]
             c == ChunkOf(r)
             u == Append(s, c)
  <2>1. Fits(s, run[r].next, run[r].known)
    BY <1>4, WriterIsCurrent DEF Working
  <2>2. file' = [file EXCEPT ![r[1]] = u]
    BY <1>4
  <2>3. c \in Nat /\ Promise!Follows(s, c)
    BY <1>0, <2>1, BoundsAssumption DEF Fits, ChunkOf, Locals
  <2>4. s \in Seq(Nat) /\ InPlace(s)
    BY <1>0
  <2> HIDE DEF s, c
  <2>5. InPlace(u)
    BY <2>3, <2>4, InPlaceGrows
  <2> HIDE DEF u
  <2>6. QED
    BY <1>2, <2>2, <2>5
<1>5. QED
  BY <1>1, <1>3, <1>4, FileWritten

-----------------------------------------------------------------------------
(* What a step leaves the run itself to rely on.  First the result of an   *)
(* attempt, then its start.                                                *)
LEMMA ConcludesKeeps ==
  ASSUME HttpTypes, HttpTypes', ObjectsExist, NEW r \in Run,
         run[r].pc \notin {"none", "done"}, NEW v,
         NEW p \in {"failing", "unwinding"}, Concludes(r, v, p)
  PROVE  RunInv(r)'
<1>0. /\ run \in [Run -> Locals] /\ run[r] \in Locals
      /\ run'[r].pc = p /\ run'[r].out = v /\ run'[r].obj = run[r].obj
      /\ UNCHANGED <<tracked, gen>>
  BY DEF HttpTypes, Locals, Concludes, taskVars
<1>1. ~Working(r)' /\ Undecided(r)'
  BY <1>0 DEF Working, Undecided
<1>2. ASSUME v = "transient", Tracks(r)'
      PROVE  CurrentStatus(r[1])' # "completed"
  <2>1. Obj(r) \in Object /\ tracked[r[1]] = run[r].obj
    <3>1. run[r].obj \in 1..MaxObj
      <4>1. run[r].obj # 0 /\ run[r].obj \in 0..MaxObj
        BY <1>0 DEF ObjectsExist, Locals
      <4>2. QED
        BY <4>1, BoundsAssumption
    <3>2. QED
      BY <1>0, <1>2, <3>1, Pairs DEF Obj, Tracks
  <2>2. status' = [status EXCEPT ![Obj(r)] = "error"]
    BY <1>2 DEF Concludes, StatusOf
  <2>3. status'[Obj(r)] = "error"
    BY <2>1, <2>2 DEF HttpTypes
  <2>4. QED
    BY <1>0, <2>1, <2>3 DEF CurrentStatus, Obj
<1>3. NotOver(r)'
  BY <1>0, <1>2 DEF NotOver, Retrying
<1>4. QED
  BY <1>1, <1>3 DEF RunInv, Current

(* The start of an attempt: cancelled, or with the length of the file.     *)
LEMMA AttemptKeeps ==
  ASSUME HttpTypes, ObjectsExist, NEW r \in Run, Attempt(r),
         run[r].pc \notin {"none", "done"}, r[1] \notin removedIds,
         Tracks(r), status'[Obj(r)] \in Active,
         UNCHANGED <<tracked, removedIds, gen, file>>
  PROVE  RunInv(r)'
<1>0. run \in [Run -> Locals] /\ run[r] \in Locals
  BY DEF HttpTypes
<1>1. CASE Cancelled(r)
  <2>1. run'[r].pc = "unwinding" /\ run'[r].out = "removed"
    BY <1>0, <1>1 DEF Attempt, Locals
  <2>2. QED
    BY <2>1 DEF RunInv, Current, NotOver, Undecided, Working, Retrying
<1>2. CASE ~Cancelled(r)
  <2>1. /\ run'[r].pc = "opening" /\ run'[r].out = "none"
        /\ run'[r].existing = Len(file[r[1]])
    BY <1>0, <1>2 DEF Attempt, Locals
  <2>2. tracked[r[1]] # 0
    BY DEF Tracks, ObjectsExist
  <2>3. CurrentStatus(r[1])' \in Active
    BY DEF CurrentStatus, Obj, Tracks
  <2>4. QED
    BY <2>1, <2>2, <2>3
       DEF RunInv, Current, NotOver, Undecided, Working, Retrying, Active
<1>3. QED
  BY <1>1, <1>2

(* A run keeps what it relies on itself.                                   *)
LEMMA SelfKeeps ==
  ASSUME HttpTypes, HttpTypes', ObjectsExist,
         NEW r \in Run, RunStep(r), RunInv(r)
  PROVE  RunInv(r)'
<1> USE DEF taskVars
<1>0. /\ r[1] \in Task /\ run \in [Run -> Locals] /\ run[r] \in Locals
      /\ run[r].pc \notin {"none", "done"}
      /\ UNCHANGED <<tracked, removedIds>>
  BY Pairs, PlaceAfter, RunFrame DEF HttpTypes, OthersStay
<1>a. ASSUME run'[r].pc \notin {"opening", "streaming", "closing", "failing",
                                "unwinding", "backoff"}
      PROVE  RunInv(r)'
  BY <1>a DEF RunInv, Current, NotOver, Undecided, Working, Retrying
<1>b. ASSUME Leave(r) PROVE RunInv(r)'
  <2>1. run'[r].pc = "done"
    BY <1>0, <1>b DEF Leave, OverRun, NewRun
  <2>2. QED
    BY <1>a, <2>1
<1>1. CASE Launch(r)
  BY <1>0, <1>1, <1>a DEF Launch, Locals, OverRun, NewRun
<1>2. CASE TakesTurn(r)
  BY <1>0, <1>2, <1>a, <1>b DEF TakesTurn, Locals
<1>3. CASE Marked(r)
  BY <1>0, <1>3, <1>a DEF Marked, Locals
<1>4. CASE Refused(r)
  BY <1>4, <1>b DEF Refused
<1>5. CASE Proceed(r)
  <2>1. CASE ~MayRun(r)
    BY <1>5, <1>b, <2>1 DEF Proceed, LeaveWithSlot
  <2>2. CASE MayRun(r) /\ status[Obj(r)] = "queued"
    BY <1>0, <1>5, <1>a, <2>2 DEF Proceed, Locals
  <2>3. CASE MayRun(r) /\ status[Obj(r)] # "queued"
    <3>1. Attempt(r) /\ UNCHANGED <<status, gen, file>>
      BY <1>5, <2>3 DEF Proceed
    <3>2. /\ Tracks(r) /\ r[1] \notin removedIds
          /\ status'[Obj(r)] \in Active
      BY <2>3, <3>1 DEF MayRun
    <3>3. QED
      BY <1>0, <3>1, <3>2, AttemptKeeps
  <2>4. QED
    BY <2>1, <2>2, <2>3
<1>6. CASE Opens(r)
  <2>1. CASE ~StillTracked(r) \/ Cancelled(r)
    BY <1>0, <1>6, <2>1, ConcludesKeeps DEF Opens
  <2>2. CASE ~(~StillTracked(r) \/ Cancelled(r))
    <3>0. PICK a \in Answer : OpensWith(r, a)
      BY <1>6, <2>2 DEF Opens
    <3>w. run' = [run EXCEPT ![r].pc = "streaming", ![r].existing = 0,
                             ![r].next = a.from + 1, ![r].known = ~Astray(r, a)]
      BY <3>0 DEF OpensWith
    <3>1. /\ run'[r].pc = "streaming" /\ run'[r].out = run[r].out
          /\ run'[r].next = a.from + 1 /\ run'[r].known = ~Astray(r, a)
          /\ run'[r].next > 0
      BY <1>0, <3>w, BoundsAssumption DEF Locals, Answer
    <3>f. Fits(file'[r[1]], run'[r].next, run'[r].known)
      <4>1. run[r].existing = Len(file[r[1]])
        BY <1>6, <2>2, WriterIsCurrent DEF Opens, Working
      <4>2. \/ Appends(r, a) /\ file'[r[1]] = file[r[1]]
            \/ file'[r[1]] = <<>>
        BY <1>0, <3>0 DEF OpensWith, HttpTypes
      <4>3. file'[r[1]] \in Seq(Nat)
        BY <1>0 DEF HttpTypes
      <4>4. Fits(file'[r[1]], a.from + 1, ~Astray(r, a))
        BY <4>1, <4>2, <4>3, AnswerFits
      <4>5. QED
        BY <3>1, <4>4
    <3>2. /\ r[1] \notin removedIds /\ tracked[r[1]] # 0
          /\ CurrentStatus(r[1]) \in Active
          /\ run[r].pc = "opening"
          /\ CurrentStatus(r[1])' = CurrentStatus(r[1])
      BY <1>0, <1>6, <2>2, <3>0, WriterIsCurrent
         DEF Opens, OpensWith, Working, CurrentStatus
    <3>3. QED
      BY <1>0, <3>1, <3>f, <3>2
         DEF RunInv, Current, NotOver, Undecided, Working, Retrying
  <2>3. QED
    BY <2>1, <2>2
<1>7. CASE Chunk(r)
  <2>1. CASE ~StillTracked(r) \/ Cancelled(r)
    <3>1. /\ run'[r].pc = "closing" /\ run'[r].out = "stopped"
          /\ run'[r].next = run[r].next /\ run'[r].known = run[r].known
          /\ run[r].pc = "streaming" /\ run'[r].gen = run[r].gen
          /\ UNCHANGED <<status, file, pausedIds, gen>>
      BY <1>0, <1>7, <2>1 DEF Chunk, Locals
    <3>2. QED
      BY <1>0, <3>1 DEF RunInv, Current, NotOver, Undecided, Working, Retrying,
                        Newest, CurrentStatus
  <2>2. CASE ~(~StillTracked(r) \/ Cancelled(r))
    <3>1. /\ run[r].pc = "streaming" /\ run[r].next <= Size
          /\ run' = [run EXCEPT ![r].next = @ + 1]
          /\ file' = [file EXCEPT ![r[1]] = Append(@, ChunkOf(r))]
          /\ UNCHANGED status
      BY <1>7, <2>2 DEF Chunk
    <3>2. /\ run'[r].pc = "streaming" /\ run'[r].out = run[r].out
          /\ run'[r].next = run[r].next + 1 /\ run'[r].known = run[r].known
      BY <1>0, <3>1 DEF Locals
    <3>3. /\ r[1] \notin removedIds /\ tracked[r[1]] # 0
          /\ CurrentStatus(r[1])' \in Active
          /\ Fits(file[r[1]], run[r].next, run[r].known)
      BY <1>0, <2>2, <3>1, WriterIsCurrent DEF Working, CurrentStatus
    <3>4. Fits(file'[r[1]], run'[r].next, run'[r].known) /\ run'[r].next > 0
      <4>1. /\ file[r[1]] \in Seq(Nat)
            /\ file'[r[1]] = Append(file[r[1]], ChunkOf(r))
        BY <1>0, <3>1 DEF HttpTypes
      <4>2. run[r].next \in 1..Size /\ run[r].known \in BOOLEAN
        BY <1>0, <3>1, BoundsAssumption DEF Locals, RunInv, Undecided
      <4>3. Fits(Append(file[r[1]], ChunkOf(r)), run[r].next + 1, run[r].known)
        BY <3>3, <4>1, <4>2, FitsGrows DEF ChunkOf
      <4>4. run[r].next + 1 > 0
        BY <4>2, BoundsAssumption
      <4>5. QED
        BY <3>2, <4>1, <4>3, <4>4
    <3>5. QED
      BY <1>0, <3>1, <3>2, <3>3, <3>4
         DEF RunInv, Current, NotOver, Undecided, Working, Retrying
  <2>3. QED
    BY <2>1, <2>2
<1>8. CASE StreamEnds(r)
  <2>1. /\ run'[r].pc = "closing" /\ run'[r].out = run[r].out
        /\ run'[r].next = run[r].next /\ run'[r].known = run[r].known
        /\ run[r].pc = "streaming" /\ run'[r].gen = run[r].gen
        /\ UNCHANGED <<status, file, pausedIds, gen>>
    BY <1>0, <1>8 DEF StreamEnds, Locals
  <2>2. QED
    BY <1>0, <2>1 DEF RunInv, Current, NotOver, Undecided, Working, Retrying,
                      Newest, CurrentStatus
<1>9. ASSUME NEW e \in Errors, OpenFails(r, e) \/ StreamFails(r, e)
      PROVE  RunInv(r)'
  BY <1>0, <1>9, ConcludesKeeps DEF OpenFails, StreamFails
<1>10. CASE Closed(r)
  BY <1>0, <1>10, ConcludesKeeps DEF Closed
<1>11. CASE FailClosed(r)
  <2>1. /\ run'[r].pc = "unwinding" /\ run'[r].out = run[r].out
        /\ run[r].pc = "failing" /\ run'[r].gen = run[r].gen
        /\ run'[r].obj = run[r].obj
        /\ UNCHANGED <<status, gen>>
    BY <1>0, <1>11 DEF FailClosed, Locals
  <2>2. QED
    BY <1>0, <2>1 DEF RunInv, Current, NotOver, Undecided, Working, Retrying,
                      Newest, Tracks, CurrentStatus
<1>12. CASE Retries(r)
  <2>1. /\ run'[r].pc = "backoff" /\ run'[r].obj = run[r].obj
        /\ status' = [status EXCEPT ![Obj(r)] = "downloading"]
    BY <1>0, <1>12 DEF Retries, Locals
  <2>2. Obj(r) \in Object
    <3>1. run[r].obj # 0 /\ run[r].obj \in 0..MaxObj
      BY <1>0 DEF ObjectsExist, Locals
    <3>2. run[r].obj \in 1..MaxObj
      BY <3>1, BoundsAssumption
    <3>3. QED
      BY <1>0, <3>2, Pairs DEF Obj
  <2>3. status'[Obj(r)] = "downloading"
    BY <2>1, <2>2 DEF HttpTypes
  <2>4. Tracks(r)' => CurrentStatus(r[1])' = "downloading"
    BY <1>0, <2>1, <2>3 DEF Tracks, CurrentStatus, Obj
  <2>5. QED
    BY <2>1, <2>4 DEF RunInv, Current, NotOver, Undecided, Working, Retrying
<1>13. CASE GivesUp(r)
  BY <1>0, <1>13, <1>a, <1>b DEF GivesUp, Locals
<1>14. CASE BackoffEnds(r)
  <2>1. CASE \/ ~Tracks(r) \/ r[1] \in removedIds \/ ~Newest(r)
             \/ r[1] \in pausedIds \/ status[Obj(r)] = "paused"
    BY <1>14, <1>b, <2>1 DEF BackoffEnds, LeaveWithSlot
  <2>2. CASE ~(\/ ~Tracks(r) \/ r[1] \in removedIds \/ ~Newest(r)
               \/ r[1] \in pausedIds \/ status[Obj(r)] = "paused")
    <3>1. /\ Attempt(r) /\ UNCHANGED <<gen, file>>
          /\ status' = [status EXCEPT ![Obj(r)] = "downloading"]
      BY <1>14, <2>2 DEF BackoffEnds
    <3>2. Obj(r) \in Object
      <4>1. run[r].obj # 0 /\ run[r].obj \in 0..MaxObj
        BY <1>0 DEF ObjectsExist, Locals
      <4>2. run[r].obj \in 1..MaxObj
        BY <4>1, BoundsAssumption
      <4>3. QED
        BY <1>0, <4>2, Pairs DEF Obj
    <3>3. status'[Obj(r)] \in Active
      BY <3>1, <3>2 DEF HttpTypes, Active
    <3>4. QED
      BY <1>0, <2>2, <3>1, <3>3, AttemptKeeps
  <2>3. QED
    BY <2>1, <2>2
<1>15. CASE Ends(r)
  BY <1>15, <1>b DEF Ends, LeaveWithSlot
<1>16. QED
  BY <1>1, <1>2, <1>3, <1>4, <1>5, <1>6, <1>7, <1>8, <1>9, <1>10, <1>11,
     <1>12, <1>13, <1>14, <1>15 DEF RunStep

-----------------------------------------------------------------------------
(* Steps of the user.  What they do to the runs: nothing, or one more run  *)
(* is made.                                                                *)
Makes(t, k) ==
  /\ RunsMade(t) < MaxRun /\ k \in 1..MaxObj /\ Launching(t, k)

(* The run that is made is launching for its object; the others stay.      *)
LEMMA OneMore ==
  ASSUME HttpTypes, MadeInOrder, NEW t \in Task, NEW k, Makes(t, k)
  PROVE  /\ run' \in [Run -> Locals]
         /\ NextRun(t) \in Run /\ run[NextRun(t)].pc = "none"
         /\ run'[NextRun(t)].pc = "launching" /\ run'[NextRun(t)].obj = k
         /\ \A q \in Run : q # NextRun(t) => run'[q] = run[q]
<1>1. /\ NextRun(t) \in Run /\ run[NextRun(t)].pc = "none"
      /\ run \in [Run -> Locals]
  BY NextIsFree DEF Makes, HttpTypes
<1> DEFINE new == [NewRun EXCEPT !.pc = "launching", !.obj = k]
<1>2. new \in Locals /\ new.pc = "launching" /\ new.obj = k
  <2>1. /\ "launching" \in Places /\ "none" \in Outcomes
        /\ k \in 0..MaxObj /\ 0 \in 0..MaxRun /\ 0 \in 0..(Size + 1)
        /\ 0 \in Nat
    BY BoundsAssumption DEF Makes, Places, Outcomes
  <2>2. QED
    BY <2>1 DEF NewRun, Locals
<1>3. run' = [run EXCEPT ![NextRun(t)] = new]
  BY DEF Makes, Launching
<1> HIDE DEF new
<1>4. QED
  BY <1>1, <1>2, <1>3

(* The lines do not feel a run that is made, nor a generation that grows.  *)
LEMMA UserKeepsLine ==
  ASSUME HttpTypes, HttpTypes', MadeInOrder, LinedUp, UNCHANGED chain,
         \A t \in Task : gen'[t] >= gen[t],
         \/ UNCHANGED run
         \/ \E t \in Task : \E k \in 1..MaxObj : Makes(t, k)
  PROVE  LinedUp'
<1>1. \A q \in Run : /\ Live(q)' <=> Live(q)
                     /\ Live(q) => run'[q] = run[q]
  <2>1. CASE UNCHANGED run
    BY <2>1 DEF Live
  <2>2. ASSUME NEW t \in Task, NEW k \in 1..MaxObj, Makes(t, k)
        PROVE  \A q \in Run : /\ Live(q)' <=> Live(q)
                              /\ Live(q) => run'[q] = run[q]
    BY <2>2, OneMore DEF Live
  <2>3. QED
    BY <2>1, <2>2
<1>2. ASSUME NEW t \in Task PROVE InLine(t)'
  <2>1. InLine(t) /\ chain'[t] = chain[t] /\ gen'[t] \in Nat /\ gen'[t] >= gen[t]
    BY DEF LinedUp, HttpTypes
  <2>2. \A n \in RunNo : Live(<<t, n>>)' <=> Live(<<t, n>>)
    BY <1>1, Pairs
  <2>3. \A n \in RunNo : Live(<<t, n>>) => run'[<<t, n>>] = run[<<t, n>>]
    BY <1>1, Pairs
  <2>4. QED
    BY <2>1, <2>2, <2>3, LineStays
<1>3. QED
  BY <1>2 DEF LinedUp

(* A user who acts on a task leaves it active, or paused and marked so.    *)
LEMMA ViewActive ==
  ASSUME NEW q \in Run, RunInv(q), run'[q] = run[q],
         gen' = gen, removedIds' = removedIds, file' = file,
         tracked'[q[1]] # 0,
         \/ CurrentStatus(q[1])' \in Active
         \/ CurrentStatus(q[1])' = "paused" /\ q[1] \in pausedIds'
  PROVE  RunInv(q)'
BY DEF RunInv, Current, NotOver, Undecided, Working, Retrying, Newest, Active

(* Objects that keep their being, and runs that are kept or made for one.  *)
LEMMA UserKeepsObjects ==
  ASSUME HttpTypes, HttpTypes', MadeInOrder, ObjectsExist,
         \A o \in Object : status[o] # "none" => status'[o] # "none",
         \A t \in Task : \/ tracked'[t] \in {0, tracked[t]}
                         \/ CurrentStatus(t)' # "none",
         \/ UNCHANGED run
         \/ \E t \in Task : \E k \in 1..MaxObj :
              Makes(t, k) /\ status'[<<t, k>>] # "none"
  PROVE  ObjectsExist'
<1>1. ASSUME NEW q \in Run, run'[q].pc \notin {"none", "done"}
      PROVE  run'[q].obj # 0 /\ status'[Obj(q)'] # "none"
  <2>1. CASE run'[q] = run[q]
    <3>1. run[q].obj # 0 /\ status[Obj(q)] # "none" /\ Obj(q)' = Obj(q)
      BY <1>1, <2>1 DEF ObjectsExist, Obj
    <3>2. Obj(q) \in Object
      <4>1. run[q].obj \in 0..MaxObj
        BY DEF HttpTypes, Locals
      <4>2. run[q].obj \in 1..MaxObj
        BY <3>1, <4>1, BoundsAssumption
      <4>3. QED
        BY <4>2, Pairs DEF Obj
    <3>3. QED
      BY <2>1, <3>1, <3>2
  <2>2. ASSUME NEW t \in Task, NEW k \in 1..MaxObj, Makes(t, k),
               status'[<<t, k>>] # "none", q = NextRun(t)
        PROVE  run'[q].obj # 0 /\ status'[Obj(q)'] # "none"
    <3>1. run'[q].obj = k /\ Obj(q)' = <<t, k>>
      BY <2>2, OneMore DEF Obj, NextRun
    <3>2. k # 0
      BY BoundsAssumption
    <3>3. QED
      BY <2>2, <3>1, <3>2
  <2>3. QED
    BY <2>1, <2>2, OneMore
<1>2. ASSUME NEW t \in Task, tracked'[t] # 0 PROVE CurrentStatus(t)' # "none"
  <2>1. CASE tracked'[t] = tracked[t]
    <3>1. CurrentStatus(t) # "none"
      BY <1>2, <2>1 DEF ObjectsExist
    <3>2. <<t, tracked[t]>> \in Object
      <4>1. tracked[t] \in 0..MaxObj
        BY DEF HttpTypes
      <4>2. tracked[t] \in 1..MaxObj
        BY <1>2, <2>1, <4>1, BoundsAssumption
      <4>3. QED
        BY <4>2, Pairs
    <3>3. QED
      BY <2>1, <3>1, <3>2 DEF CurrentStatus
  <2>2. QED
    BY <1>2, <2>1
<1>3. QED
  BY <1>1, <1>2 DEF ObjectsExist

(* Files that are dropped or left.                                         *)
LEMMA UserKeepsFiles ==
  ASSUME HttpTypes, ChunksInPlace, NEW S \in SUBSET Task,
         file' \in {file, DeleteFiles(S)}
  PROVE  ChunksInPlace'
<1>1. ASSUME NEW t \in Task
      PROVE  InPlace(file'[t])
  <2>1. file'[t] = file[t] \/ file'[t] = <<>>
    BY DEF DeleteFiles
  <2>2. InPlace(<<>>)
    BY DEF InPlace
  <2>3. QED
    BY <2>1, <2>2 DEF ChunksInPlace
<1>2. QED
  BY <1>1 DEF ChunksInPlace


-----------------------------------------------------------------------------
(* Every operation of the user keeps the invariant.  A request to add a    *)
(* task reserves the numbers of its run and its object.                    *)
LEMMA AddBeginsKeeps ==
  ASSUME HttpInv, NEW t \in Task, AddBegins(t)
  PROVE  HttpInv'
<1>0. /\ HttpTypes /\ MadeInOrder /\ LinedUp /\ ObjectsExist
      /\ UNCHANGED <<tracked, status, pausedIds, removedIds, gen, chain, file,
                     run, removing>>
      /\ adding' = [adding EXCEPT ![t] = @ + 1] /\ MayLaunch(t)
      /\ ObjectsMade(t) + adding[t] < MaxObj
  BY DEF HttpInv, AddBegins, taskVars
<1>1. HttpTypes'
  BY <1>0 DEF HttpTypes
<1>2. MadeInOrder'
  <2>1. ASSUME NEW u \in Task
        PROVE  /\ Runs(u)' = Runs(u) /\ Objects(u)' = Objects(u)
               /\ RunsMade(u)' = RunsMade(u) /\ ObjectsMade(u)' = ObjectsMade(u)
               /\ adding[u] \in Nat
               /\ adding'[u] = IF u = t THEN adding[u] + 1 ELSE adding[u]
    BY <1>0 DEF Runs, Objects, RunsMade, ObjectsMade, HttpTypes
  <2>2. MaxRun \in Nat /\ MaxObj \in Nat
    BY BoundsAssumption
  <2>3. QED
    BY <1>0, <2>1, <2>2 DEF MadeInOrder, MayLaunch
<1>3. LinedUp'
  <2>1. \A u \in Task : gen'[u] >= gen[u]
    BY <1>0 DEF HttpTypes
  <2>2. QED
    BY <1>0, <1>1, <2>1, UserKeepsLine
<1>4. \A q \in Run : RunInv(q)'
  BY <1>0 DEF HttpInv, RunInv, Current, NotOver, Undecided, Working, Retrying,
     Newest, Tracks, CurrentStatus
<1>5. ObjectsExist' /\ ChunksInPlace' /\ RemovalsKnown'
  BY <1>0 DEF HttpInv, ObjectsExist, Obj, CurrentStatus, ChunksInPlace,
     RemovalsKnown, Leaving
<1>6. QED
  BY <1>1, <1>2, <1>3, <1>4, <1>5 DEF HttpInv

(* The object is made with the next number, and becomes the task's.        *)
LEMMA AddStoresKeeps ==
  ASSUME HttpInv, NEW t \in Task, AddStores(t)
  PROVE  HttpInv'
<1> DEFINE next == ObjectsMade(t) + 1
<1>0. PICK k : k = next
  OBVIOUS
<1> HIDE DEF next
<1>1. /\ HttpTypes /\ MadeInOrder /\ LinedUp /\ ObjectsExist
      /\ ChunksInPlace
      /\ adding[t] > 0 /\ adding' = [adding EXCEPT ![t] = @ - 1]
      /\ tracked' = [tracked EXCEPT ![t] = k]
      /\ status' = [status EXCEPT ![<<t, k>>] = "downloading"]
      /\ Launching(t, k)
      /\ UNCHANGED <<pausedIds, removedIds, gen, chain, file, removing>>
  BY <1>0 DEF HttpInv, AddStores, next
<1>2. /\ RunsMade(t) \in Nat /\ ObjectsMade(t) \in Nat /\ adding[t] \in Nat
      /\ RunsMade(t) + adding[t] <= MaxRun
      /\ ObjectsMade(t) + adding[t] <= MaxObj
      /\ Objects(t) = 1..ObjectsMade(t) /\ k = ObjectsMade(t) + 1
      /\ MaxRun \in Nat /\ MaxObj \in Nat
  BY <1>0, <1>1, BoundsAssumption DEF MadeInOrder, HttpTypes, next
<1>3. Makes(t, k) /\ k \in 1..MaxObj /\ <<t, k>> \in Object
  <2>1. RunsMade(t) < MaxRun /\ k \in 1..MaxObj
    BY <1>1, <1>2
  <2>2. QED
    BY <1>1, <2>1, Pairs DEF Makes
<1>4. HttpTypes'
  <2>1. run' \in [Run -> Locals]
    BY <1>1, <1>3, OneMore
  <2>2. k \in 0..MaxObj
    BY <1>3, BoundsAssumption
  <2>3. tracked' \in [Task -> 0..MaxObj]
    BY <1>1, <2>2 DEF HttpTypes
  <2>4. status' \in [Object -> Statuses]
    BY <1>1, <1>3 DEF HttpTypes, Statuses
  <2>5. adding' \in [Task -> Nat]
    BY <1>1, <1>2 DEF HttpTypes
  <2>6. QED
    BY <1>1, <2>1, <2>3, <2>4, <2>5 DEF HttpTypes
<1>5. MadeInOrder'
  <2>1. Objects(t)' = 1..k /\ ObjectsMade(t)' = k
    <3>1. Objects(t)' = Objects(t) \cup {k}
      <4>1. \A j \in 1..MaxObj :
              status'[<<t, j>>] # "none" <=> j = k \/ status[<<t, j>>] # "none"
        BY <1>1, <1>3, Pairs DEF HttpTypes
      <4>2. QED
        BY <1>3, <4>1 DEF Objects
    <3>2. Objects(t)' = 1..k
      BY <1>2, <3>1
    <3>3. Cardinality(1..k) = k
      BY <1>2, FS_Interval
    <3>4. QED
      BY <3>2, <3>3 DEF Objects, ObjectsMade
  <2>2. ASSUME NEW u \in Task, u # t
        PROVE  /\ Objects(u)' = Objects(u) /\ ObjectsMade(u)' = ObjectsMade(u)
               /\ Runs(u)' = Runs(u) /\ RunsMade(u)' = RunsMade(u)
               /\ adding'[u] = adding[u]
    <3>1. Objects(u)' = Objects(u)
      <4>1. \A j \in 1..MaxObj : status'[<<u, j>>] = status[<<u, j>>]
        BY <1>1, <2>2, Pairs DEF HttpTypes
      <4>2. QED
        BY <4>1 DEF Objects
    <3>2. Runs(u)' = Runs(u)
      BY <1>1, <1>3, <2>2, OneMade DEF Makes
    <3>3. QED
      BY <1>1, <2>2, <3>1, <3>2 DEF Objects, ObjectsMade, Runs, RunsMade, HttpTypes
  <2>3. Runs(t)' = 1..(RunsMade(t) + 1) /\ RunsMade(t)' = RunsMade(t) + 1
    BY <1>1, <1>3, OneMade DEF Makes
  <2>4. adding'[t] = adding[t] - 1
    BY <1>1 DEF HttpTypes
  <2>5. /\ Runs(t)' = 1..RunsMade(t)' /\ Objects(t)' = 1..ObjectsMade(t)'
        /\ RunsMade(t)' \in Nat /\ RunsMade(t)' + adding'[t] <= MaxRun
        /\ ObjectsMade(t)' \in Nat /\ ObjectsMade(t)' + adding'[t] <= MaxObj
    BY <1>1, <1>2, <2>1, <2>3, <2>4
  <2>6. QED
    BY <1>1, <2>2, <2>5 DEF MadeInOrder
<1>6. CurrentStatus(t)' = "downloading"
  BY <1>1, <1>3 DEF CurrentStatus, HttpTypes
<1>7. \A u \in Task : u # t => /\ tracked'[u] = tracked[u]
                               /\ CurrentStatus(u)' = CurrentStatus(u)
  BY <1>1 DEF CurrentStatus, HttpTypes
<1>8. ObjectsExist'
  <2>1. \A o \in Object : status[o] # "none" => status'[o] # "none"
    BY <1>1 DEF HttpTypes
  <2>2. \A u \in Task : \/ tracked'[u] \in {0, tracked[u]}
                        \/ CurrentStatus(u)' # "none"
    BY <1>6, <1>7
  <2>3. status'[<<t, k>>] # "none"
    BY <1>1, <1>3 DEF HttpTypes
  <2>4. QED
    BY <1>1, <1>3, <1>4, <2>1, <2>2, <2>3, UserKeepsObjects
<1>9. LinedUp'
  <2>1. \A u \in Task : gen'[u] >= gen[u]
    BY <1>1 DEF HttpTypes
  <2>2. QED
    BY <1>1, <1>3, <1>4, <2>1, UserKeepsLine
<1>10. ASSUME NEW q \in Run PROVE RunInv(q)'
  <2>1. CASE q = NextRun(t)
    BY <1>1, <1>3, <2>1, OneMore
       DEF RunInv, Current, NotOver, Undecided, Working, Retrying
  <2>2. CASE q # NextRun(t)
    <3>1. run'[q] = run[q] /\ RunInv(q) /\ q[1] \in Task
      BY <1>1, <1>3, <2>2, OneMore, Pairs DEF HttpInv
    <3>2. CASE q[1] = t
      <4>1. tracked'[t] # 0
        BY <1>1, <1>3, BoundsAssumption DEF HttpTypes
      <4>2. QED
        BY <1>1, <1>6, <3>1, <3>2, <4>1, ViewActive DEF Active
    <3>3. CASE q[1] # t
      BY <1>1, <1>7, <3>1, <3>3, ViewStays
    <3>4. QED
      BY <3>2, <3>3
  <2>3. QED
    BY <2>1, <2>2
<1>11. ChunksInPlace' /\ RemovalsKnown'
  BY <1>1 DEF HttpInv, ChunksInPlace, RemovalsKnown, Leaving
<1>12. QED
  BY <1>4, <1>5, <1>8, <1>9, <1>10, <1>11 DEF HttpInv

(* Pausing, resuming and restarting write one status and leave the task    *)
(* active, or paused and marked so.                                        *)
LEMMA StatusKeeps ==
  ASSUME HttpInv, NEW t \in Task, NEW k, k = tracked[t], k # 0,
         NEW s \in {"downloading", "paused"},
         status' = [status EXCEPT ![<<t, k>>] = s],
         pausedIds' \in SUBSET Task,
         s = "paused" => t \in pausedIds',
         \A u \in Task : u # t => (u \in pausedIds' <=> u \in pausedIds),
         UNCHANGED <<tracked, removedIds, gen, chain, file, adding, removing>>,
         \/ UNCHANGED run
         \/ Makes(t, k) /\ MayLaunch(t)
  PROVE  HttpInv'
<1>0. k = tracked[t] /\ tracked' = tracked
  OBVIOUS
<1>1. /\ HttpTypes /\ MadeInOrder /\ LinedUp /\ ObjectsExist
      /\ k \in 1..MaxObj /\ <<t, k>> \in Object
      /\ status[<<t, k>>] # "none"
  <2>1. /\ HttpTypes /\ MadeInOrder /\ LinedUp /\ ObjectsExist
        /\ tracked[t] \in 0..MaxObj
    BY DEF HttpInv, HttpTypes
  <2>2. k \in 1..MaxObj
    BY <1>0, <2>1, BoundsAssumption
  <2>3. status[<<t, k>>] # "none" /\ <<t, k>> \in Object
    BY <1>0, <2>1, <2>2, Pairs DEF ObjectsExist, CurrentStatus
  <2>4. QED
    BY <2>1, <2>2, <2>3
<1>2. HttpTypes'
  <2>1. run' \in [Run -> Locals]
    BY <1>1, OneMore DEF HttpTypes
  <2>2. status' \in [Object -> Statuses]
    BY <1>1 DEF HttpTypes, Statuses
  <2>3. QED
    BY <1>1, <2>1, <2>2 DEF HttpTypes
<1>3. MadeInOrder'
  <2>1. \A u \in Task : Objects(u)' = Objects(u)
    <3>1. ASSUME NEW u \in Task, NEW j \in 1..MaxObj
          PROVE  status'[<<u, j>>] # "none" <=> status[<<u, j>>] # "none"
      BY <1>1, Pairs DEF HttpTypes
    <3>2. QED
      BY <3>1 DEF Objects
  <2>2. CASE UNCHANGED run
    BY <1>1, <2>1, <2>2, NoneMade DEF Runs
  <2>3. ASSUME Makes(t, k), MayLaunch(t) PROVE MadeInOrder'
    <3>1. /\ Runs(t)' = 1..(RunsMade(t) + 1) /\ RunsMade(t)' = RunsMade(t) + 1
          /\ \A u \in Task : u # t => Runs(u)' = Runs(u)
      BY <1>1, <2>3, OneMade DEF Makes
    <3>2. \A u \in Task : u # t => RunsMade(u)' = RunsMade(u)
      BY <3>1 DEF Runs, RunsMade
    <3>3. \A u \in Task : ObjectsMade(u)' = ObjectsMade(u)
      BY <2>1 DEF Objects, ObjectsMade
    <3>4. RunsMade(t) \in Nat /\ RunsMade(t) + 1 + adding[t] <= MaxRun
      <4>1. RunsMade(t) \in Nat /\ adding[t] \in Nat /\ MaxRun \in Nat
        BY <1>1, BoundsAssumption DEF MadeInOrder, HttpTypes
      <4>2. QED
        BY <2>3, <4>1 DEF MayLaunch
    <3>5. QED
      BY <1>1, <2>1, <3>1, <3>2, <3>3, <3>4 DEF MadeInOrder
  <2>4. QED
    BY <1>1, <2>2, <2>3
<1>4. CurrentStatus(t)' = s
  BY <1>0, <1>1 DEF CurrentStatus, HttpTypes
<1>5. \A u \in Task : u # t => CurrentStatus(u)' = CurrentStatus(u)
  BY <1>1 DEF CurrentStatus, HttpTypes
<1>6. ObjectsExist'
  <2>1. \A o \in Object : status[o] # "none" => status'[o] # "none"
    BY <1>1 DEF HttpTypes
  <2>2. status'[<<t, k>>] # "none"
    BY <1>1 DEF HttpTypes
  <2>3. QED
    BY <1>1, <1>2, <2>1, <2>2, UserKeepsObjects
<1>7. LinedUp'
  <2>1. \A u \in Task : gen'[u] >= gen[u]
    BY <1>1 DEF HttpTypes
  <2>2. QED
    BY <1>1, <1>2, <2>1, UserKeepsLine
<1>8. ASSUME NEW q \in Run PROVE RunInv(q)'
  <2>1. ASSUME q = NextRun(t), Makes(t, k) PROVE RunInv(q)'
    BY <1>1, <2>1, OneMore
       DEF RunInv, Current, NotOver, Undecided, Working, Retrying
  <2>2. ASSUME run'[q] = run[q] PROVE RunInv(q)'
    <3>1. RunInv(q) /\ q[1] \in Task
      BY Pairs DEF HttpInv
    <3>2. CASE q[1] = t
      BY <1>0, <1>4, <2>2, <3>1, <3>2, ViewActive DEF Active
    <3>3. CASE q[1] # t
      BY <1>5, <2>2, <3>1, <3>3, ViewStays
    <3>4. QED
      BY <3>2, <3>3
  <2>3. QED
    BY <1>1, <2>1, <2>2, OneMore
<1>9. ChunksInPlace' /\ RemovalsKnown'
  BY DEF HttpInv, ChunksInPlace, RemovalsKnown, Leaving
<1>10. QED
  BY <1>2, <1>3, <1>6, <1>7, <1>8, <1>9 DEF HttpInv

(* pauseTask.                                                              *)
LEMMA PauseKeeps ==
  ASSUME HttpInv, NEW t \in Task, Pause(t)
  PROVE  HttpInv'
<1>1. PICK k : k = tracked[t]
  OBVIOUS
<1>2. /\ k # 0 /\ status' = [status EXCEPT ![<<t, k>>] = "paused"]
      /\ pausedIds' = pausedIds \cup {t}
      /\ UNCHANGED <<tracked, removedIds, gen, chain, file, run, adding, removing>>
  BY <1>1 DEF Pause, userVars
<1>3. pausedIds \in SUBSET Task
  BY DEF HttpInv, HttpTypes
<1>4. QED
  BY <1>1, <1>2, <1>3, StatusKeeps

(* resumeTask, and startHttpDownload for a paused or failed task.          *)
LEMMA ReactivateKeeps ==
  ASSUME HttpInv, NEW t \in Task, Reactivate(t), UNCHANGED file
  PROVE  HttpInv'
<1>1. PICK k : k = tracked[t]
  OBVIOUS
<1>2. /\ k # 0 /\ status' = [status EXCEPT ![<<t, k>>] = "downloading"]
      /\ pausedIds' = pausedIds \ {t} /\ MayLaunch(t) /\ Launching(t, k)
      /\ UNCHANGED <<tracked, removedIds, gen, chain, adding, removing>>
  BY <1>1 DEF Reactivate, userVars
<1>3. /\ pausedIds \in SUBSET Task /\ k \in 0..MaxObj
      /\ RunsMade(t) \in Nat /\ adding[t] \in Nat /\ MaxRun \in Nat
  BY <1>1, BoundsAssumption DEF HttpInv, HttpTypes, MadeInOrder
<1>4. k \in 1..MaxObj
  BY <1>2, <1>3, BoundsAssumption
<1>5. Makes(t, k)
  BY <1>2, <1>3, <1>4 DEF Makes, MayLaunch
<1>6. QED
  BY <1>1, <1>2, <1>3, <1>5, StatusKeeps

(* A removal supersedes every run of the task.                             *)
LEMMA RemoveKeeps ==
  ASSUME HttpInv, NEW t \in Task, NEW delete \in BOOLEAN, Remove(t, delete)
  PROVE  HttpInv'
<1>1. /\ HttpTypes /\ MadeInOrder /\ LinedUp /\ ObjectsExist
      /\ gen' = [gen EXCEPT ![t] = @ + 1]
      /\ tracked' = [tracked EXCEPT ![t] = 0]
      /\ pausedIds' = pausedIds \ {t} /\ removedIds' = removedIds \cup {t}
      /\ removing' = removing \cup {<<t, delete>>}
      /\ UNCHANGED <<status, chain, file, run, adding>>
  BY DEF HttpInv, Remove
<1>2. HttpTypes'
  <2>1. gen' \in [Task -> Nat] /\ tracked' \in [Task -> 0..MaxObj]
    BY <1>1, BoundsAssumption DEF HttpTypes
  <2>2. QED
    BY <1>1, <2>1 DEF HttpTypes
<1>3. MadeInOrder'
  BY <1>1, NoneMade DEF Runs, Objects
<1>4. ObjectsExist'
  <2>1. \A u \in Task : tracked'[u] \in {0, tracked[u]}
    BY <1>1 DEF HttpTypes
  <2>2. QED
    BY <1>1, <1>2, <2>1, UserKeepsObjects
<1>5. LinedUp'
  <2>1. \A u \in Task : gen'[u] >= gen[u]
    BY <1>1 DEF HttpTypes
  <2>2. QED
    BY <1>1, <1>2, <2>1, UserKeepsLine
<1>6. ASSUME NEW q \in Run PROVE RunInv(q)'
  <2>0. RunInv(q) /\ run'[q] = run[q] /\ q[1] \in Task
    BY <1>1, Pairs DEF HttpInv
  <2>1. CASE q[1] = t /\ Live(q)
    <3>1. gen'[q[1]] = gen[q[1]] + 1
      BY <1>1, <2>0, <2>1 DEF HttpTypes
    <3>2. run'[q].gen # gen'[q[1]]
      BY <1>1, <2>0, <2>1, <3>1, LiveIsOld
    <3>3. QED
      BY <2>0, <3>2, StaleStays DEF Newest
  <2>2. CASE ~Live(q)
    BY <2>0, <2>2 DEF RunInv, Current, NotOver, Undecided, Working, Retrying, Live
  <2>3. CASE q[1] # t
    <3>1. /\ gen'[q[1]] = gen[q[1]] /\ tracked'[q[1]] = tracked[q[1]]
          /\ CurrentStatus(q[1])' = CurrentStatus(q[1])
      BY <1>1, <2>0, <2>3 DEF HttpTypes, CurrentStatus
    <3>2. QED
      BY <1>1, <2>0, <2>3, <3>1, ViewStays
  <2>4. QED
    BY <2>1, <2>2, <2>3
<1>7. ChunksInPlace'
  BY <1>1 DEF HttpInv, ChunksInPlace
<1>8. RemovalsKnown'
  BY <1>1 DEF HttpInv, RemovalsKnown, Leaving
<1>9. QED
  BY <1>2, <1>3, <1>4, <1>5, <1>6, <1>7, <1>8 DEF HttpInv

(* The end of a removal deletes no file that a run still knows, because a  *)
(* removed id has no working run that was not superseded.                  *)
LEMMA RemoveEndsKeeps ==
  ASSUME HttpInv, NEW t \in Task, NEW delete \in BOOLEAN,
         RemoveEnds(t, delete)
  PROVE  HttpInv'
<1>1. /\ HttpTypes /\ MadeInOrder /\ LinedUp /\ ObjectsExist
      /\ ChunksInPlace
      /\ <<t, delete>> \in removing /\ removing' = removing \ {<<t, delete>>}
      /\ file' = IF delete THEN DeleteFiles({t}) ELSE file
      /\ UNCHANGED <<tracked, pausedIds, removedIds, status, gen, chain, run,
                     adding>>
  BY DEF HttpInv, RemoveEnds, taskVars
<1>2. t \in removedIds
  BY <1>1 DEF HttpInv, RemovalsKnown, Leaving
<1>3. file' \in {file, DeleteFiles({t})}
  BY <1>1
<1>4. file' \in [Task -> Seq(Nat)]
  <2>1. <<>> \in Seq(Nat)
    OBVIOUS
  <2>2. QED
    BY <1>1, <1>3, <2>1 DEF HttpTypes, DeleteFiles
<1>5. HttpTypes'
  BY <1>1, <1>4 DEF HttpTypes
<1>6. MadeInOrder'
  BY <1>1, NoneMade DEF Runs, Objects
<1>7. ObjectsExist'
  BY <1>1, <1>5, UserKeepsObjects
<1>8. LinedUp'
  <2>1. \A u \in Task : gen'[u] >= gen[u]
    BY <1>1 DEF HttpTypes
  <2>2. QED
    BY <1>1, <1>5, <2>1, UserKeepsLine
<1>9. ASSUME NEW q \in Run PROVE RunInv(q)'
  <2>0. /\ RunInv(q) /\ run'[q] = run[q] /\ q[1] \in Task
        /\ CurrentStatus(q[1])' = CurrentStatus(q[1])
    BY <1>1, Pairs DEF HttpInv, CurrentStatus
  <2>1. CASE q[1] = t /\ Newest(q)
    <3>1. ~Working(q)
      BY <1>2, <2>0, <2>1 DEF RunInv, Current
    <3>2. QED
      BY <1>1, <2>0, <3>1, ViewStays
  <2>2. CASE ~Newest(q)
    BY <1>1, <2>0, <2>2, StaleStays DEF Newest
  <2>3. CASE q[1] # t
    <3>1. file'[q[1]] = file[q[1]]
      BY <1>3, <2>0, <2>3 DEF DeleteFiles
    <3>2. QED
      BY <1>1, <2>0, <3>1, ViewStays
  <2>4. QED
    BY <2>1, <2>2, <2>3
<1>10. ChunksInPlace'
  BY <1>1, <1>3, UserKeepsFiles
<1>11. RemovalsKnown'
  BY <1>1 DEF HttpInv, RemovalsKnown, Leaving
<1>12. QED
  BY <1>5, <1>6, <1>7, <1>8, <1>9, <1>10, <1>11 DEF HttpInv

(* Completed tasks have no working run that was not superseded.            *)
LEMMA ClearKeeps ==
  ASSUME HttpInv, NEW delete \in BOOLEAN, ClearCompleted(delete)
  PROVE  HttpInv'
<1>1. PICK done \in SUBSET Task :
        /\ done = {t \in Task : tracked[t] # 0 /\ CurrentStatus(t) = "completed"}
        /\ file' = IF delete THEN DeleteFiles(done) ELSE file
        /\ tracked' = [t \in Task |-> IF t \in done THEN 0 ELSE tracked[t]]
        /\ pausedIds' = pausedIds \ done
        /\ removedIds' = removedIds \cup done
        /\ UNCHANGED <<status, gen, chain, run, adding, removing>>
  <2> DEFINE d == {t \in Task : tracked[t] # 0 /\ CurrentStatus(t) = "completed"}
  <2>1. d \in SUBSET Task
    OBVIOUS
  <2>2. QED
    BY <2>1 DEF ClearCompleted, userVars
<1>2. /\ HttpTypes /\ MadeInOrder /\ LinedUp /\ ObjectsExist
      /\ ChunksInPlace
      /\ file' \in {file, DeleteFiles(done)}
  BY <1>1 DEF HttpInv
<1>3. HttpTypes'
  <2>1. file' \in [Task -> Seq(Nat)]
    <3>1. <<>> \in Seq(Nat)
      OBVIOUS
    <3>2. QED
      BY <1>2, <3>1 DEF HttpTypes, DeleteFiles
  <2>2. tracked' \in [Task -> 0..MaxObj]
    BY <1>1, <1>2, BoundsAssumption DEF HttpTypes
  <2>3. QED
    BY <1>1, <1>2, <2>1, <2>2 DEF HttpTypes
<1>4. MadeInOrder'
  BY <1>1, <1>2, NoneMade DEF Runs, Objects
<1>5. ObjectsExist'
  <2>1. \A u \in Task : tracked'[u] \in {0, tracked[u]}
    BY <1>1
  <2>2. QED
    BY <1>1, <1>2, <1>3, <2>1, UserKeepsObjects
<1>6. LinedUp'
  <2>1. \A u \in Task : gen'[u] >= gen[u]
    BY <1>1, <1>2 DEF HttpTypes
  <2>2. QED
    BY <1>1, <1>2, <1>3, <2>1, UserKeepsLine
<1>7. ASSUME NEW q \in Run PROVE RunInv(q)'
  <2>0. RunInv(q) /\ run'[q] = run[q] /\ q[1] \in Task
    BY <1>1, Pairs DEF HttpInv
  <2>1. ASSUME q[1] \in done, ~(Working(q) /\ Newest(q))  PROVE RunInv(q)'
    <3>1. run[q].obj # 0 \/ ~Live(q)
      BY <1>2 DEF ObjectsExist, Live
    <3>2. tracked'[q[1]] = 0
      BY <1>1, <2>0, <2>1
    <3>3. QED
      BY <1>1, <2>0, <2>1, <3>1, <3>2 DEF RunInv, Current, NotOver, Undecided,
         Working, Retrying, Newest, Tracks, Live
  <2>2. ASSUME q[1] \in done PROVE ~(Working(q) /\ Newest(q))
    BY <1>1, <2>0, <2>2 DEF RunInv, Current, Active
  <2>3. CASE q[1] \notin done
    <3>1. /\ file'[q[1]] = file[q[1]] /\ tracked'[q[1]] = tracked[q[1]]
          /\ CurrentStatus(q[1])' = CurrentStatus(q[1])
      BY <1>1, <1>2, <2>0, <2>3 DEF DeleteFiles, CurrentStatus
    <3>2. QED
      BY <1>1, <2>0, <2>3, <3>1, ViewStays
  <2>4. QED
    BY <2>1, <2>2, <2>3
<1>8. ChunksInPlace'
  BY <1>2, UserKeepsFiles
<1>9. RemovalsKnown'
  BY <1>1 DEF HttpInv, RemovalsKnown, Leaving
<1>10. QED
  BY <1>3, <1>4, <1>5, <1>6, <1>7, <1>8, <1>9 DEF HttpInv

(* The slot setting touches only the queue.                                *)
LEMMA QuietKeeps ==
  ASSUME HttpInv, UNCHANGED <<taskVars, status, gen, chain, file, run, adding,
                              removing>>
  PROVE  HttpInv'
<1>1. /\ HttpTypes /\ HttpTypes' /\ MadeInOrder /\ LinedUp /\ ObjectsExist
      /\ UNCHANGED <<tracked, pausedIds, removedIds, status, gen, chain, file,
                     run, adding, removing>>
  BY DEF HttpInv, HttpTypes, taskVars
<1>2. MadeInOrder' /\ LinedUp'
  <2>1. MadeInOrder'
    BY <1>1, NoneMade DEF Runs, Objects
  <2>2. \A u \in Task : gen'[u] >= gen[u]
    BY <1>1 DEF HttpTypes
  <2>3. QED
    BY <1>1, <2>1, <2>2, UserKeepsLine
<1>3. \A q \in Run : RunInv(q)'
  BY <1>1 DEF HttpInv, RunInv, Current, NotOver, Undecided, Working, Retrying,
     Newest, Tracks, CurrentStatus
<1>4. ObjectsExist' /\ ChunksInPlace' /\ RemovalsKnown'
  BY <1>1 DEF HttpInv, ObjectsExist, Obj, CurrentStatus, ChunksInPlace,
     RemovalsKnown, Leaving
<1>5. QED
  BY <1>1, <1>2, <1>3, <1>4 DEF HttpInv

-----------------------------------------------------------------------------
(* The manager starts with no task, no run and no file.                    *)
LEMMA InitHolds == Init => HttpInv
<1> SUFFICES ASSUME Init PROVE HttpInv
  OBVIOUS
<1>1. HttpTypes
  <2>1. NewRun \in Locals
    <3>1. /\ "none" \in Places /\ "none" \in Outcomes /\ 0 \in 0..MaxObj
          /\ 0 \in 0..MaxRun /\ 0 \in 0..(Size + 1) /\ 0 \in Nat
      BY BoundsAssumption DEF Places, Outcomes
    <3>2. QED
      BY <3>1 DEF NewRun, Locals
  <2>2. run \in [Run -> Locals]
    BY <2>1 DEF Init
  <2>3. file \in [Task -> Seq(Nat)]
    <3>1. <<>> \in Seq(Nat)
      OBVIOUS
    <3>2. QED
      BY <3>1 DEF Init
  <2>4. QED
    BY <2>2, <2>3, BoundsAssumption DEF Init, HttpTypes, Statuses
<1>2. \A r \in Run : run[r].pc = "none" /\ run[r].out = "none"
  BY DEF Init, NewRun
<1>3. MadeInOrder
  <2>1. ASSUME NEW t \in Task
        PROVE  /\ Runs(t) = {} /\ RunsMade(t) = 0 /\ adding[t] = 0
               /\ Objects(t) = {} /\ ObjectsMade(t) = 0
    <3>1. Runs(t) = {} /\ Objects(t) = {} /\ adding[t] = 0
      BY <1>2, Pairs DEF Init, Runs, Objects
    <3>2. QED
      BY <3>1, FS_EmptySet DEF Runs, RunsMade, Objects, ObjectsMade
  <2>2. 1..0 = {} /\ MaxRun \in Nat /\ MaxObj \in Nat
    BY BoundsAssumption
  <2>3. ASSUME NEW t \in Task
        PROVE  /\ Runs(t) = 1..RunsMade(t) /\ Objects(t) = 1..ObjectsMade(t)
               /\ RunsMade(t) \in Nat /\ RunsMade(t) + adding[t] <= MaxRun
               /\ ObjectsMade(t) \in Nat /\ ObjectsMade(t) + adding[t] <= MaxObj
    <3>1. Runs(t) = 1..0 /\ RunsMade(t) = 0 /\ adding[t] = 0
          /\ Objects(t) = 1..0 /\ ObjectsMade(t) = 0
      BY <2>1, <2>2, Zenon
    <3>2. 0 \in Nat /\ 0 + 0 <= MaxRun /\ 0 + 0 <= MaxObj
      BY <2>2
    <3>3. QED
      BY <3>1, <3>2, Zenon
  <2>4. QED
    BY <2>3 DEF MadeInOrder
<1>4. LinedUp
  BY <1>2, Pairs DEF LinedUp, InLine, Live
<1>5. \A r \in Run : RunInv(r)
  BY <1>2 DEF RunInv, Current, NotOver, Undecided, Working, Retrying
<1>6. ChunksInPlace
  <2>1. InPlace(<<>>)
    BY DEF InPlace
  <2>2. QED
    BY <2>1 DEF Init, ChunksInPlace
<1>7. ObjectsExist /\ RemovalsKnown
  BY <1>2 DEF Init, ObjectsExist, RemovalsKnown, Leaving
<1>8. QED
  BY <1>1, <1>3, <1>4, <1>5, <1>6, <1>7 DEF HttpInv

(* Every step of a run keeps the invariant.                                *)
LEMMA RunStepKeeps ==
  ASSUME HttpInv, NEW r \in Run, RunStep(r)
  PROVE  HttpInv'
<1>1. /\ HttpTypes /\ MadeInOrder /\ LinedUp /\ ObjectsExist
      /\ ChunksInPlace /\ RunInv(r)
  BY DEF HttpInv
<1>2. HttpTypes'
  BY <1>1, RunTypes
<1>3. MadeInOrder' /\ ObjectsExist'
  BY <1>1, <1>2, RunKeepsObjects
<1>4. LinedUp'
  BY <1>1, <1>2, RunKeepsLine
<1>5. \A q \in Run : RunInv(q)'
  <2>1. \A q \in Run : q # r => RunInv(q)'
    BY <1>1, OthersKeep DEF HttpInv
  <2>2. RunInv(r)'
    BY <1>1, <1>2, SelfKeeps
  <2>3. QED
    BY <2>1, <2>2
<1>6. ChunksInPlace'
  BY <1>1, RunKeepsFiles
<1>7. RemovalsKnown'
  BY <1>1, RunFrame DEF HttpInv, RemovalsKnown, Leaving, OthersStay
<1>8. QED
  BY <1>2, <1>3, <1>4, <1>5, <1>6, <1>7 DEF HttpInv

(* The invariant is inductive,                                             *)
LEMMA StepKeeps == HttpInv /\ [Next]_vars => HttpInv'
<1> SUFFICES ASSUME HttpInv, [Next]_vars PROVE HttpInv'
  OBVIOUS
<1>1. ASSUME NEW t \in Task, User(t) PROVE HttpInv'
  <2>1. ASSUME Resume(t) \/ Restart(t) PROVE HttpInv'
    BY <2>1, ReactivateKeeps DEF Resume, Restart
  <2>2. QED
    BY <1>1, <2>1, AddBeginsKeeps, PauseKeeps, RemoveKeeps DEF User
<1>2. ASSUME NEW t \in Task, Continuation(t) PROVE HttpInv'
  BY <1>2, AddStoresKeeps, RemoveEndsKeeps DEF Continuation
<1>3. ASSUME NEW delete \in BOOLEAN, ClearCompleted(delete) PROVE HttpInv'
  BY <1>3, ClearKeeps
<1>4. ASSUME NEW m \in SlotChoices, SetSlots(m) PROVE HttpInv'
  BY <1>4, QuietKeeps DEF SetSlots
<1>5. CASE SlotsStored
  BY <1>5, QuietKeeps DEF SlotsStored
<1>6. ASSUME NEW r \in Run, RunStep(r) PROVE HttpInv'
  BY <1>6, RunStepKeeps
<1>7. CASE UNCHANGED vars
  BY <1>7, QuietKeeps DEF vars, userVars
<1>8. QED
  BY <1>1, <1>2, <1>3, <1>4, <1>5, <1>6, <1>7 DEF Next

(* and holds throughout.                                                   *)
LEMMA HttpInvariant == Spec => []HttpInv
BY InitHolds, StepKeeps, PTL DEF Spec

-----------------------------------------------------------------------------
(* Of the bodies of one task at most one is past the gate of its           *)
(* predecessor: of two live runs one waits behind the other, and who waits *)
(* is still at the gate.                                                   *)
THEOREM OneBody == Spec => []OneBodyPerTask
<1>1. HttpInv => OneBodyPerTask
  <2> SUFFICES ASSUME HttpInv, NEW t \in Task, NEW m \in RunNo, NEW n \in RunNo,
                      InBody(<<t, m>>), InBody(<<t, n>>), m # n
               PROVE  FALSE
    BY DEF OneBodyPerTask
  <2>1. Live(<<t, m>>) /\ Live(<<t, n>>)
    BY DEF InBody, Live
  <2>2. Behind(<<t, m>>, <<t, n>>) \/ Behind(<<t, n>>, <<t, m>>)
    BY <2>1 DEF HttpInv, LinedUp, InLine
  <2>3. QED
    BY <2>2 DEF Behind, InBody
<1>2. QED
  BY <1>1, HttpInvariant, PTL

(* Whatever the runs, the user and the servers do, every chunk of a file   *)
(* whose body is known to begin where it was asked to is at its place: it  *)
(* is not written twice, nor out of order, nor by a superseded run; and a  *)
(* body whose Content-Range begins elsewhere is not joined to a file.      *)
THEOREM ChunksStayInPlace == Spec => []ChunksInPlace
<1>1. HttpInv => ChunksInPlace
  BY DEF HttpInv
<1>2. QED
  BY <1>1, HttpInvariant, PTL

-----------------------------------------------------------------------------
(* No step of a run takes an object out of the paused status.              *)
LEMMA PausedStays ==
  ASSUME HttpTypes, NEW r \in Run, RunStep(r), Obj(r) \in Object,
         status[Obj(r)] = "paused"
  PROVE  status'[Obj(r)] = "paused"
<1> USE DEF taskVars
<1>1. Cancelled(r) /\ ~MayRun(r) /\ ~CanRetry(r)
  BY DEF Cancelled, MayRun, CanRetry, Active
<1>2. ASSUME NEW w, NEW p, Concludes(r, Verdict(r, w), p)
      PROVE  status'[Obj(r)] = "paused"
  <2>1. Verdict(r, w) \in {"removed", "paused"}
    BY <1>1 DEF Verdict, Active
  <2>2. CASE Verdict(r, w) = "removed"
    BY <1>2, <2>2 DEF Concludes
  <2>3. CASE Verdict(r, w) = "paused"
    BY <1>2, <2>3 DEF Concludes, StatusOf, HttpTypes
  <2>4. QED
    BY <2>1, <2>2, <2>3
<1>3. CASE TakesTurn(r) \/ Proceed(r) \/ Retries(r)
  BY <1>1, <1>3 DEF TakesTurn, Proceed, Retries, LeaveWithSlot
<1>4. CASE Opens(r)
  BY <1>1, <1>2, <1>4 DEF Opens, OpensWith
<1>5. CASE BackoffEnds(r)
  BY <1>5 DEF BackoffEnds, LeaveWithSlot
<1>6. CASE \/ Launch(r) \/ Marked(r) \/ Refused(r) \/ Chunk(r) \/ StreamEnds(r)
           \/ FailClosed(r) \/ GivesUp(r) \/ Ends(r)
  BY <1>6 DEF Launch, Marked, Refused, Chunk, StreamEnds, FailClosed, GivesUp,
     Ends, LeaveWithSlot
<1>7. QED
  BY <1>2, <1>3, <1>4, <1>5, <1>6 DEF RunStep, OpenFails, StreamFails, Closed

(* A paused task stays paused until the user restarts or removes it: every *)
(* other step, late ones of superseded runs included, leaves it so.        *)
THEOREM PausedUntilResumed == Spec => PauseSticks
<1> DEFINE Sticks(t) ==
      /\ tracked[t] # 0 /\ CurrentStatus(t) = "paused"
      /\ tracked'[t] = tracked[t] /\ CurrentStatus(t)' # "paused"
      => \E n \in RunNo : run[<<t, n>>].pc = "none"
                          /\ run'[<<t, n>>].pc = "launching"
<1>1. ASSUME HttpInv, [Next]_vars, NEW t \in Task PROVE Sticks(t)
  <2> SUFFICES ASSUME tracked[t] # 0, CurrentStatus(t) = "paused",
                      tracked'[t] = tracked[t], CurrentStatus(t)' # "paused"
               PROVE  \E n \in RunNo : run[<<t, n>>].pc = "none"
                                       /\ run'[<<t, n>>].pc = "launching"
    OBVIOUS
  <2>0. /\ HttpTypes /\ MadeInOrder /\ <<t, tracked[t]>> \in Object
        /\ status'[<<t, tracked[t]>>] # status[<<t, tracked[t]>>]
    <3>1. HttpTypes /\ MadeInOrder /\ tracked[t] \in 0..MaxObj
      BY <1>1 DEF HttpInv, HttpTypes
    <3>2. tracked[t] \in 1..MaxObj
      BY <3>1, BoundsAssumption
    <3>3. QED
      BY <3>1, <3>2, Pairs DEF CurrentStatus
  <2>1. ASSUME NEW k, Launching(t, k), MayLaunch(t) \/ adding[t] > 0
        PROVE  \E n \in RunNo : run[<<t, n>>].pc = "none"
                                /\ run'[<<t, n>>].pc = "launching"
    <3>1. RunsMade(t) < MaxRun
      <4>1. /\ RunsMade(t) \in Nat /\ adding[t] \in Nat /\ MaxRun \in Nat
            /\ RunsMade(t) + adding[t] <= MaxRun
        BY <2>0, BoundsAssumption DEF MadeInOrder, HttpTypes
      <4>2. QED
        BY <2>1, <4>1 DEF MayLaunch
    <3>2. NextRun(t) \in Run /\ run[NextRun(t)].pc = "none"
      BY <2>0, <3>1, NextIsFree
    <3>3. run'[NextRun(t)].pc = "launching"
      BY <2>0, <2>1, <3>2 DEF Launching, NewRun, HttpTypes
    <3>4. RunsMade(t) + 1 \in RunNo
      BY <3>2 DEF NextRun, Run
    <3>5. QED
      BY <3>2, <3>3, <3>4 DEF NextRun
  <2>2. ASSUME NEW u \in Task, AddStores(u)
        PROVE  \E n \in RunNo : run[<<t, n>>].pc = "none"
                                /\ run'[<<t, n>>].pc = "launching"
    <3>1. u = t
      BY <2>0, <2>2 DEF AddStores, HttpTypes
    <3>2. QED
      BY <2>1, <2>2, <3>1 DEF AddStores
  <2>3. ASSUME NEW u \in Task, Reactivate(u)
        PROVE  \E n \in RunNo : run[<<t, n>>].pc = "none"
                                /\ run'[<<t, n>>].pc = "launching"
    <3>1. u = t
      BY <2>0, <2>3 DEF Reactivate, HttpTypes
    <3>2. QED
      BY <2>1, <2>3, <3>1 DEF Reactivate
  <2>4. ASSUME NEW u \in Task, Pause(u) PROVE FALSE
    <3>1. u = t
      BY <2>0, <2>4 DEF Pause, HttpTypes
    <3>2. QED
      BY <2>4, <3>1 DEF Pause, Active
  <2>5. ASSUME NEW r \in Run, RunStep(r) PROVE FALSE
    <3>1. Obj(r) = <<t, tracked[t]>>
      BY <2>0, <2>5, RunFrame DEF OthersStay
    <3>2. QED
      BY <2>0, <2>5, <3>1, PausedStays DEF CurrentStatus
  <2>6. ASSUME UNCHANGED status PROVE FALSE
    BY <2>0, <2>6
  <2>7. QED
    BY <1>1, <2>2, <2>3, <2>4, <2>5, <2>6 DEF Next, User, Continuation,
       AddBegins, Resume, Restart, Remove, RemoveEnds, ClearCompleted, SetSlots,
       SlotsStored, vars
<1>2. HttpInv /\ [Next]_vars => [\A t \in Task : Sticks(t)]_vars
  BY <1>1
<1>3. QED
  BY <1>2, HttpInvariant, PTL DEF Spec, PauseSticks

-----------------------------------------------------------------------------
(* The manager obeys the rules of its queue: whatever a step does to the   *)
(* statuses, it ends with one operation of the queue or leaves it alone.   *)
THEOREM QueueRulesKept == Spec => KeepsQueueRules
<1>0. Eligible \in SUBSET Task /\ Eligible' \in SUBSET Task
  BY DEF Eligible
<1>1. Init => Q!Init
  BY <1>0 DEF Init, Q!Init
<1>2. [Next]_vars => [Q!Next]_(Q!vars)
  <2> SUFFICES ASSUME [Next]_vars PROVE Q!Next
    OBVIOUS
  <2>1. ASSUME UNCHANGED queueVars PROVE Q!Next
    BY <1>0, <2>1 DEF queueVars, Q!OwnerStep, Q!Next
  <2>2. ASSUME Q!OwnerStep PROVE Q!Next
    BY <2>2 DEF Q!Next
  <2>3. ASSUME NEW S \in SUBSET Task, Q!Release(S) PROVE Q!Next
    BY <2>3 DEF Q!Next
  <2>4. ASSUME NEW t \in Task, User(t) PROVE Q!Next
    <3>1. {t} \in SUBSET Task
      OBVIOUS
    <3>2. QED
      BY <2>1, <2>2, <2>3, <2>4, <3>1 DEF User, AddBegins, Pause, Resume,
         Restart, Remove
  <2>5. ASSUME NEW t \in Task, Continuation(t) PROVE Q!Next
    BY <2>1, <2>2, <2>5 DEF Continuation, AddStores, RemoveEnds
  <2>6. ASSUME NEW delete \in BOOLEAN, ClearCompleted(delete) PROVE Q!Next
    <3>1. PICK done \in SUBSET Task : Q!Release(done)
      <4> DEFINE d == {t \in Task : tracked[t] # 0 /\ CurrentStatus(t) = "completed"}
      <4>1. d \in SUBSET Task /\ Q!Release(d)
        BY <2>6 DEF ClearCompleted
      <4> HIDE DEF d
      <4>2. QED
        BY <4>1
    <3>2. QED
      BY <2>3, <3>1
  <2>7. ASSUME NEW m \in SlotChoices, SetSlots(m) PROVE Q!Next
    BY <2>7, BoundsAssumption DEF SetSlots, Q!Next
  <2>8. CASE SlotsStored
    BY <2>8 DEF SlotsStored, Q!Next
  <2>9. ASSUME NEW r \in Run, RunStep(r) PROVE Q!Next
    <3>0. {r[1]} \in SUBSET Task
      BY Pairs
    <3>1. ASSUME Q!Acquire(r) \/ Q!Return(r) PROVE Q!Next
      BY <3>1 DEF Q!Next
    <3>2. ASSUME LeaveWithSlot(r) PROVE Q!Next
      BY <2>3, <3>0, <3>2 DEF LeaveWithSlot
    <3>3. ASSUME NEW v, NEW p, Concludes(r, v, p) PROVE Q!Next
      BY <2>2, <3>3 DEF Concludes
    <3>4. CASE TakesTurn(r) \/ Marked(r) \/ Refused(r) \/ Proceed(r)
      BY <2>1, <2>2, <3>1, <3>2, <3>4 DEF TakesTurn, Marked, Refused, Proceed
    <3>5. CASE Opens(r) \/ BackoffEnds(r) \/ Ends(r)
      BY <2>1, <2>2, <3>2, <3>3, <3>5 DEF Opens, OpensWith, BackoffEnds, Ends
    <3>6. CASE GivesUp(r) \/ Retries(r)
      BY <2>1, <2>2, <2>3, <3>0, <3>6 DEF GivesUp, Retries
    <3>7. CASE Launch(r) \/ Chunk(r) \/ StreamEnds(r) \/ FailClosed(r)
      BY <2>1, <3>7 DEF Launch, Chunk, StreamEnds, FailClosed
    <3>8. QED
      BY <2>9, <3>3, <3>4, <3>5, <3>6, <3>7
         DEF RunStep, OpenFails, StreamFails, Closed
  <2>10. CASE UNCHANGED vars
    BY <2>1, <2>10 DEF vars
  <2>11. QED
    BY <2>4, <2>5, <2>6, <2>7, <2>8, <2>9, <2>10 DEF Next
<1>3. QED
  BY <1>1, <1>2, PTL DEF Spec, KeepsQueueRules, Q!Spec

-----------------------------------------------------------------------------
(* The promise of HttpTask.  First what the user sees of a task.           *)
LEMMA Seen ==
  ASSUME NEW t \in Task
  PROVE  /\ tracked[t] = 0 => TaskState[t] = "absent"
         /\ tracked[t] # 0 /\ CurrentStatus(t) \in Active
              => TaskState[t] = "active"
         /\ tracked[t] # 0 /\ CurrentStatus(t) \notin Active
              => TaskState[t] = CurrentStatus(t)
BY DEF TaskState

(* The same, after a step.                                                 *)
LEMMA SeenNext ==
  ASSUME NEW t \in Task
  PROVE  /\ tracked'[t] = 0 => TaskState'[t] = "absent"
         /\ tracked'[t] # 0 /\ CurrentStatus(t)' \in Active
              => TaskState'[t] = "active"
         /\ tracked'[t] # 0 /\ CurrentStatus(t)' \notin Active
              => TaskState'[t] = CurrentStatus(t)'
BY DEF TaskState, Active

(* A task looks as before when its object and its status do.               *)
LEMMA LooksSame ==
  ASSUME NEW t \in Task, tracked'[t] = tracked[t],
         CurrentStatus(t)' = CurrentStatus(t)
  PROVE  TaskState'[t] = TaskState[t]
BY Seen, SeenNext

(* Two functions on Task.                                                  *)
LEMMA OneChanges ==
  ASSUME NEW t \in Task, NEW x, TaskState'[t] = x,
         \A u \in Task : u # t => TaskState'[u] = TaskState[u]
  PROVE  TaskState' = [TaskState EXCEPT ![t] = x]
<1>1. /\ TaskState = [u \in Task |-> TaskState[u]]
      /\ TaskState' = [u \in Task |-> TaskState'[u]]
  BY DEF TaskState
<1>2. QED
  BY <1>1

(* And two that agree everywhere.                                          *)
LEMMA NoneChanges ==
  ASSUME \A u \in Task : TaskState'[u] = TaskState[u]
  PROVE  TaskState' = TaskState
<1>1. /\ TaskState = [u \in Task |-> TaskState[u]]
      /\ TaskState' = [u \in Task |-> TaskState'[u]]
  BY DEF TaskState
<1>2. QED
  BY <1>1

(* What a run writes is the status of its object, which the user sees only *)
(* while it is the task's.                                                 *)
LEMMA WritesOneStatus ==
  ASSUME HttpTypes, NEW r \in Run, RunStep(r)
  PROVE  /\ UNCHANGED <<tracked, adding, removing>>
         /\ \A u \in Task : u # r[1] => TaskState'[u] = TaskState[u]
         /\ ~Tracks(r) => TaskState' = TaskState
         /\ UNCHANGED status => TaskState' = TaskState
<1>0. /\ r[1] \in Task /\ UNCHANGED <<tracked, adding, removing>>
      /\ status \in [Object -> Statuses]
      /\ \/ status' = status
         \/ \E v \in Statuses \ {"none"} :
              status' = [status EXCEPT ![Obj(r)] = v]
  BY Pairs, RunFrame, StatusWritten DEF OthersStay, HttpTypes
<1>1. ASSUME NEW u \in Task, u # r[1] \/ ~Tracks(r) \/ UNCHANGED status
      PROVE  TaskState'[u] = TaskState[u]
  <2>1. <<u, tracked[u]>> # Obj(r) \/ UNCHANGED status
    BY <1>1 DEF Obj, Tracks
  <2>2. CASE tracked[u] = 0
    BY <1>0, <2>2, Seen, SeenNext
  <2>3. CASE tracked[u] # 0
    <3>1. tracked[u] \in 0..MaxObj
      BY DEF HttpTypes
    <3>2. tracked[u] \in 1..MaxObj
      BY <2>3, <3>1, BoundsAssumption
    <3>3. <<u, tracked[u]>> \in Object
      BY <3>2, Pairs
    <3>4. status'[<<u, tracked[u]>>] = status[<<u, tracked[u]>>]
      BY <1>0, <2>1, <3>3
    <3>5. QED
      BY <1>0, <3>4, LooksSame DEF CurrentStatus
  <2>4. QED
    BY <2>2, <2>3
<1>2. QED
  BY <1>0, <1>1, NoneChanges

(* A body that is over, and did not go to the end of the resource.  The    *)
(* tasks with one stay the same while their runs do,                       *)
Short(q) ==
  run[q].pc = "closing" /\ run[q].out = "none" /\ run[q].next <= Size

LEMMA ShortStays ==
  ASSUME \A q \in Run : Short(q)' <=> Short(q)
  PROVE  CutShort' = CutShort
BY Pairs DEF CutShort, Short

(* and while the user has a run launched at most.                          *)
LEMMA ShortUser ==
  ASSUME HttpInv, NEW t \in Task, User(t) \/ Continuation(t)
  PROVE  CutShort' = CutShort
<1>1. CASE UNCHANGED run
  BY <1>1, ShortStays DEF Short
<1>2. ASSUME NEW k, Launching(t, k), RunsMade(t) < MaxRun
      PROVE  CutShort' = CutShort
  <2>1. /\ NextRun(t) \in Run /\ run[NextRun(t)].pc = "none"
        /\ run \in [Run -> Locals]
    BY <1>2, NextIsFree DEF HttpInv, HttpTypes
  <2>2. /\ run'[NextRun(t)].pc = "launching"
        /\ \A q \in Run : q # NextRun(t) => run'[q] = run[q]
    BY <1>2, <2>1 DEF Launching, NewRun
  <2>3. QED
    BY <2>1, <2>2, ShortStays DEF Short
<1>3. RunsMade(t) \in Nat /\ adding[t] \in Nat /\ MaxRun \in Nat
      /\ RunsMade(t) + adding[t] <= MaxRun
  BY BoundsAssumption DEF HttpInv, HttpTypes, MadeInOrder
<1>4. CASE AddStores(t)
  <2>1. PICK k : Launching(t, k) /\ adding[t] > 0
    BY <1>4 DEF AddStores
  <2>2. QED
    BY <1>2, <1>3, <2>1
<1>5. CASE Resume(t) \/ Restart(t)
  <2>1. PICK k : Launching(t, k) /\ MayLaunch(t)
    BY <1>5 DEF Resume, Restart, Reactivate
  <2>2. QED
    BY <1>2, <1>3, <2>1 DEF MayLaunch
<1>6. QED
  BY <1>1, <1>4, <1>5
     DEF User, Continuation, AddBegins, Pause, Remove, RemoveEnds

(* A run ends a body early only when the stream ends.                      *)
LEMMA ShortWhenEnds ==
  ASSUME HttpTypes, NEW r \in Run, RunStep(r), Short(r)'
  PROVE  StreamEnds(r)
<1> USE DEF Short
<1>0. run \in [Run -> Locals] /\ run[r] \in Locals
  BY DEF HttpTypes
<1>l. ASSUME Leave(r) PROVE FALSE
  BY <1>0, <1>l DEF Leave, OverRun, NewRun
<1>1. CASE Launch(r)
  BY <1>0, <1>1 DEF Launch, Locals, OverRun, NewRun
<1>2. CASE TakesTurn(r) \/ Marked(r) \/ Refused(r)
  <2>1. CASE TakesTurn(r)
    BY <1>0, <1>l, <2>1 DEF TakesTurn, Locals
  <2>2. CASE Marked(r) \/ Refused(r)
    BY <1>0, <1>l, <2>2 DEF Marked, Refused, Locals
  <2>3. QED
    BY <1>2, <2>1, <2>2
<1>3. ASSUME Attempt(r) PROVE FALSE
  BY <1>0, <1>3 DEF Attempt, Locals
<1>4. CASE Proceed(r)
  <2>1. CASE ~MayRun(r)
    BY <1>4, <1>l, <2>1 DEF Proceed, LeaveWithSlot
  <2>2. CASE MayRun(r)
    BY <1>0, <1>3, <1>4, <2>2 DEF Proceed, Locals
  <2>3. QED
    BY <2>1, <2>2
<1>5. ASSUME NEW v, NEW p \in {"failing", "unwinding"}, Concludes(r, v, p)
      PROVE  FALSE
  BY <1>0, <1>5 DEF Concludes, Locals
<1>6. CASE Opens(r)
  <2>1. CASE ~StillTracked(r) \/ Cancelled(r)
    BY <1>5, <1>6, <2>1 DEF Opens
  <2>2. CASE ~(~StillTracked(r) \/ Cancelled(r))
    <3>0. PICK a \in Answer : OpensWith(r, a)
      BY <1>6, <2>2 DEF Opens
    <3>1. run' = [run EXCEPT ![r].pc = "streaming", ![r].existing = 0,
                             ![r].next = a.from + 1, ![r].known = ~Astray(r, a)]
      BY <3>0 DEF OpensWith
    <3>2. QED
      BY <1>0, <3>1 DEF Locals
  <2>3. QED
    BY <2>1, <2>2
<1>7. CASE Chunk(r)
  <2>1. CASE ~StillTracked(r) \/ Cancelled(r)
    BY <1>0, <1>7, <2>1 DEF Chunk, Locals
  <2>2. CASE ~(~StillTracked(r) \/ Cancelled(r))
    <3>1. run' = [run EXCEPT ![r].next = @ + 1] /\ run[r].pc = "streaming"
      BY <1>7, <2>2 DEF Chunk
    <3>2. QED
      BY <1>0, <3>1 DEF Locals
  <2>3. QED
    BY <2>1, <2>2
<1>8. CASE FailClosed(r) \/ Retries(r)
  BY <1>0, <1>8 DEF FailClosed, Retries, Locals
<1>9. CASE GivesUp(r)
  BY <1>0, <1>9, <1>l DEF GivesUp, Locals
<1>10. CASE BackoffEnds(r) \/ Ends(r)
  BY <1>3, <1>10, <1>l DEF BackoffEnds, Ends, LeaveWithSlot
<1>11. QED
  BY <1>1, <1>2, <1>4, <1>5, <1>6, <1>7, <1>8, <1>9, <1>10
     DEF RunStep, OpenFails, StreamFails, Closed

(* So a step of a run changes the tasks whose body ended early by its own  *)
(* task: at the end of a stream that one may join them; before, it is not  *)
(* among them on account of this run; and afterwards it may leave them.    *)
LEMMA ShortChanges ==
  ASSUME HttpTypes, NEW r \in Run, RunStep(r)
  PROVE  /\ CutShort' \in {CutShort, CutShort \ {r[1]}, CutShort \cup {r[1]}}
         /\ ~StreamEnds(r) => CutShort' \in {CutShort, CutShort \ {r[1]}}
         /\ ~StreamEnds(r) /\ ~Short(r) => CutShort' = CutShort
<1>1. ASSUME NEW q \in Run, q # r PROVE Short(q)' <=> Short(q)
  BY <1>1, RunFrame DEF Short, OthersStay
<1>2. ASSUME NEW t \in Task
      PROVE  /\ t \in CutShort <=> \E n \in RunNo : Short(<<t, n>>)
             /\ t \in CutShort' <=> \E n \in RunNo : Short(<<t, n>>)'
  BY DEF CutShort, Short
<1>3. CutShort \subseteq Task /\ CutShort' \subseteq Task /\ r[1] \in Task
  BY Pairs DEF CutShort
<1>4. ASSUME NEW t \in Task, t # r[1] PROVE t \in CutShort' <=> t \in CutShort
  <2>1. ASSUME NEW n \in RunNo PROVE Short(<<t, n>>)' <=> Short(<<t, n>>)
    <3>1. <<t, n>> \in Run /\ <<t, n>> # r
      BY <1>4, <2>1, Pairs
    <3>2. QED
      BY <1>1, <3>1
  <2>2. QED
    BY <1>2, <2>1
<1>5. ASSUME ~Short(r)', r[1] \in CutShort' PROVE r[1] \in CutShort
  <2>1. PICK n \in RunNo : Short(<<r[1], n>>)'
    BY <1>2, <1>3, <1>5
  <2>2. <<r[1], n>> \in Run /\ <<r[1], n>> # r
    BY <1>3, <1>5, <2>1, Pairs
  <2>3. QED
    BY <1>1, <1>2, <1>3, <2>1, <2>2
<1>6. ASSUME ~Short(r), ~Short(r)' PROVE CutShort' = CutShort
  BY <1>1, <1>6, ShortStays
<1>7. ~StreamEnds(r) => ~Short(r)'
  BY ShortWhenEnds
<1>8. CutShort' \in {CutShort, CutShort \ {r[1]}, CutShort \cup {r[1]}}
  BY <1>3, <1>4
<1>9. ASSUME ~StreamEnds(r) PROVE CutShort' \in {CutShort, CutShort \ {r[1]}}
  BY <1>3, <1>4, <1>5, <1>7, <1>9
<1>10. QED
  BY <1>6, <1>7, <1>8, <1>9

(* The result of an attempt is no news, a failure of an active task, or    *)
(* its completion.                                                         *)
LEMMA ConclusionKept ==
  ASSUME HttpInv, HttpInv', NEW r \in Run, RunStep(r), Working(r),
         NEW w \in {"none", "transient", "permanent", "completed"},
         w = "none" => ~StillTracked(r) \/ Cancelled(r),
         w = "completed" => run[r].pc = "closing",
         NEW p \in {"failing", "unwinding"}, Concludes(r, Verdict(r, w), p)
  PROVE  [Promise!Next]_(Promise!vars)
<1>0. /\ HttpTypes /\ RunInv(r) /\ r[1] \in Task
      /\ UNCHANGED <<tracked, adding, removing, file>>
      /\ Leaving' = Leaving
  BY Pairs, WritesOneStatus DEF HttpInv, Concludes, Leaving, taskVars
<1>s. Promise!Settles(r[1])
  <2>1. run'[r].pc = p
    BY <1>0 DEF Concludes, HttpTypes, Locals
  <2>2. ~StreamEnds(r)
    BY <1>0, <2>1 DEF StreamEnds, HttpTypes, Locals
  <2>3. QED
    BY <1>0, <2>2, ShortChanges DEF Promise!Settles
<1>1. CASE TaskState' = TaskState
  BY <1>0, <1>s, <1>1 DEF Promise!Next
<1>2. CASE TaskState' # TaskState
  <2>1. /\ Tracks(r) /\ status' # status
        /\ \A u \in Task : u # r[1] => TaskState'[u] = TaskState[u]
    BY <1>0, <1>2, WritesOneStatus
  <2>2. StillTracked(r) /\ Obj(r) = <<r[1], tracked[r[1]]>>
    BY <2>1 DEF Concludes, Verdict, Tracks, Obj
  <2>3. \/ CurrentStatus(r[1]) \in Active
        \/ CurrentStatus(r[1]) = "paused"
    BY <1>0, <2>2 DEF RunInv, Current, StillTracked
  <2>4. Obj(r) \in Object
    <3>1. tracked[r[1]] \in 0..MaxObj /\ tracked[r[1]] # 0
      BY <1>0, <2>2 DEF HttpTypes, StillTracked
    <3>2. tracked[r[1]] \in 1..MaxObj
      BY <3>1, BoundsAssumption
    <3>3. QED
      BY <1>0, <2>2, <3>2, Pairs
  <2>5. ASSUME Cancelled(r) \/ run[r].out = "stopped" PROVE FALSE
    <3>1. Verdict(r, w) = IF status[Obj(r)] \in Active THEN "removed" ELSE "paused"
      BY <2>2, <2>5 DEF Verdict
    <3>2. CASE status[Obj(r)] \in Active
      BY <2>1, <3>1, <3>2 DEF Concludes
    <3>3. CASE status[Obj(r)] \notin Active
      <4>1. status[Obj(r)] = "paused"
        BY <2>2, <2>3, <3>3 DEF CurrentStatus
      <4>2. status' = [status EXCEPT ![Obj(r)] = StatusOf["paused"]]
        BY <3>1, <3>3 DEF Concludes
      <4>3. QED
        BY <1>0, <2>1, <2>4, <4>1, <4>2 DEF HttpTypes, StatusOf
    <3>4. QED
      BY <3>2, <3>3
  <2>6. /\ Verdict(r, w) = w /\ w # "none"
        /\ CurrentStatus(r[1]) \in Active /\ TaskState[r[1]] = "active"
    <3>1. Verdict(r, w) = w /\ w # "none" /\ CurrentStatus(r[1]) # "paused"
      BY <2>2, <2>5 DEF Verdict, Cancelled, CurrentStatus
    <3>2. QED
      BY <1>0, <2>2, <2>3, <3>1, Seen DEF StillTracked
  <2>7. ASSUME NEW x \in {"error", "completed"}, StatusOf[w] = x
        PROVE  TaskState' = [TaskState EXCEPT ![r[1]] = x]
    <3>1. status' = [status EXCEPT ![Obj(r)] = x]
      BY <2>6, <2>7 DEF Concludes, StatusOf
    <3>2. CurrentStatus(r[1])' = x /\ tracked'[r[1]] # 0
      BY <1>0, <2>2, <2>4, <3>1 DEF CurrentStatus, HttpTypes, StillTracked
    <3>3. TaskState'[r[1]] = x
      BY <1>0, <3>2, SeenNext DEF Active
    <3>4. QED
      BY <1>0, <2>1, <3>3, OneChanges
  <2>8. CASE w # "completed"
    <3>1. StatusOf[w] = "error"
      BY <2>6, <2>8 DEF StatusOf
    <3>2. Promise!Fail(r[1])
      BY <2>6, <2>7, <3>1 DEF Promise!Fail, Promise!Moves
    <3>3. QED
      BY <1>0, <1>s, <3>2 DEF Promise!Next
  <2>9. CASE w = "completed"
    <3>1. StatusOf[w] = "completed"
      BY <2>9 DEF StatusOf
    <3>2. /\ run[r].pc = "closing" /\ run[r].out = "none"
          /\ Fits(file[r[1]], run[r].next, run[r].known)
      BY <1>0, <2>2, <2>5, <2>9
         DEF RunInv, Current, Undecided, StillTracked, Working
    <3>3. Promise!Partial(file[r[1]]) => r[1] \in CutShort
      <4>1. CASE run[r].next <= Size
        BY <1>0, <3>2, <4>1, Pairs DEF CutShort
      <4>2. CASE ~(run[r].next <= Size)
        <5>1. /\ run[r].next = Size + 1 /\ run[r].known \in BOOLEAN
              /\ file[r[1]] \in Seq(Nat)
          BY <1>0, <4>2, BoundsAssumption DEF HttpTypes, Locals
        <5>2. Fits(file[r[1]], Size + 1, run[r].known)
          BY <3>2, <5>1
        <5>3. QED
          BY <5>1, <5>2, WholeAtEnd
      <4>3. QED
        BY <4>1, <4>2
    <3>4. Promise!Complete(r[1])
      BY <2>6, <2>7, <3>1, <3>3 DEF Promise!Complete, Promise!Moves
    <3>5. QED
      BY <1>0, <1>s, <3>4 DEF Promise!Next
  <2>10. QED
    BY <2>8, <2>9
<1>3. QED
  BY <1>1, <1>2

(* Every step of a run is a step of the promise, or none.                  *)
LEMMA RunKeepsPromise ==
  ASSUME HttpInv, HttpInv', NEW r \in Run, RunStep(r)
  PROVE  [Promise!Next]_(Promise!vars)
<1> USE DEF taskVars
<1>0. /\ HttpTypes /\ RunInv(r) /\ r[1] \in Task
      /\ UNCHANGED <<tracked, adding, removing>>
      /\ Leaving' = Leaving
  BY Pairs, WritesOneStatus DEF HttpInv, Leaving
<1>s. /\ Promise!EndsShort(r[1]) \/ Promise!Settles(r[1])
      /\ ~StreamEnds(r) => Promise!Settles(r[1])
      /\ ~StreamEnds(r) /\ ~Short(r) => CutShort' = CutShort
  BY <1>0, ShortChanges DEF Promise!EndsShort, Promise!Settles
<1>1. ASSUME TaskState' = TaskState, UNCHANGED file
      PROVE  [Promise!Next]_(Promise!vars)
  BY <1>0, <1>s, <1>1 DEF Promise!Next
<1>2. ASSUME UNCHANGED <<status, file>>
      PROVE  [Promise!Next]_(Promise!vars)
  BY <1>0, <1>1, <1>2, WritesOneStatus
<1>3. ASSUME Tracks(r), ~StreamEnds(r), NEW s \in Active,
             status' = [status EXCEPT ![Obj(r)] = s], UNCHANGED file,
             status[Obj(r)] \in Active \cup {"error"}
      PROVE  [Promise!Next]_(Promise!vars)
  <2>1. CASE tracked[r[1]] = 0
    <3>1. TaskState'[r[1]] = TaskState[r[1]]
      BY <1>0, <2>1, Seen, SeenNext
    <3>2. TaskState' = TaskState
      BY <1>0, <3>1, WritesOneStatus, NoneChanges
    <3>3. QED
      BY <1>1, <1>3, <3>2
  <2>2. CASE tracked[r[1]] # 0
    <3>1. tracked[r[1]] \in 0..MaxObj
      BY <1>0 DEF HttpTypes
    <3>2. tracked[r[1]] \in 1..MaxObj
      BY <2>2, <3>1, BoundsAssumption
    <3>3. Obj(r) \in Object /\ Obj(r) = <<r[1], tracked[r[1]]>>
      BY <1>0, <1>3, <3>2, Pairs DEF Obj, Tracks
    <3>4. CurrentStatus(r[1])' = s /\ CurrentStatus(r[1]) = status[Obj(r)]
      BY <1>0, <1>3, <3>3 DEF CurrentStatus, HttpTypes
    <3>5. TaskState'[r[1]] = "active"
      BY <1>0, <1>3, <2>2, <3>4, SeenNext
    <3>6. TaskState[r[1]] \in {"active", "error"}
      BY <1>0, <1>3, <2>2, <3>4, Seen
    <3>7. TaskState' = [TaskState EXCEPT ![r[1]] = "active"]
      BY <1>0, <3>5, WritesOneStatus, OneChanges
    <3>8. CASE TaskState[r[1]] = "active"
      <4>1. TaskState' = TaskState
        BY <1>0, <3>5, <3>8, WritesOneStatus, NoneChanges
      <4>2. QED
        BY <1>1, <1>3, <4>1
    <3>9. CASE TaskState[r[1]] = "error"
      <4>1. Promise!Resume(r[1])
        BY <3>7, <3>9 DEF Promise!Resume, Promise!Moves
      <4>2. QED
        BY <1>0, <1>s, <1>3, <4>1 DEF Promise!Next
    <3>10. QED
      BY <3>6, <3>8, <3>9
  <2>3. QED
    BY <2>1, <2>2
<1>4. CASE \/ Launch(r) \/ Marked(r) \/ Refused(r) \/ StreamEnds(r)
           \/ FailClosed(r) \/ GivesUp(r) \/ Ends(r)
  BY <1>2, <1>4 DEF Launch, Marked, Refused, StreamEnds, FailClosed, GivesUp,
     Ends, LeaveWithSlot
<1>5. CASE TakesTurn(r) \/ Proceed(r)
  <2>1. \/ UNCHANGED <<status, file>>
        \/ /\ MayRun(r) /\ UNCHANGED file
           /\ \E s \in Active : status' = [status EXCEPT ![Obj(r)] = s]
    BY <1>5 DEF TakesTurn, Proceed, LeaveWithSlot, Active
  <2>2. MayRun(r) => Tracks(r) /\ status[Obj(r)] \in Active
    BY DEF MayRun
  <2>3. ~StreamEnds(r)
    BY <1>5 DEF TakesTurn, Proceed, StreamEnds
  <2>4. QED
    BY <1>2, <1>3, <2>1, <2>2, <2>3
<1>6. ASSUME StillTracked(r), ~Cancelled(r), Working(r)
      PROVE  /\ TaskState[r[1]] = "active"
             /\ run[r].pc = "streaming"
                  => Fits(file[r[1]], run[r].next, run[r].known)
  BY <1>0, <1>6, WriterIsCurrent, Seen
<1>7. CASE Opens(r)
  <2>0. Working(r) /\ run[r].pc = "opening"
    BY <1>7 DEF Opens, Working
  <2>1. ASSUME \/ ~StillTracked(r) \/ Cancelled(r),
               Concludes(r, Verdict(r, "none"), "unwinding")
        PROVE  [Promise!Next]_(Promise!vars)
    BY <2>0, <2>1, ConclusionKept
  <2>2. ASSUME StillTracked(r), ~Cancelled(r), UNCHANGED status,
               file' = [file EXCEPT ![r[1]] = <<>>]
        PROVE  [Promise!Next]_(Promise!vars)
    <3>1. TaskState' = TaskState
      BY <1>0, <2>2, WritesOneStatus
    <3>2. CutShort' = CutShort
      BY <1>s, <2>0 DEF Short, StreamEnds
    <3>3. Promise!StartAnew(r[1])
      BY <1>6, <2>0, <2>2 DEF Promise!StartAnew
    <3>4. QED
      BY <1>0, <3>1, <3>2, <3>3 DEF Promise!Next
  <2>3. QED
    BY <1>2, <1>7, <2>1, <2>2 DEF Opens, OpensWith
<1>8. CASE Chunk(r)
  <2>0. /\ Working(r) /\ UNCHANGED status
        /\ run[r].next <= Size /\ run[r].pc = "streaming"
    BY <1>8 DEF Chunk, Working
  <2>1. ASSUME StillTracked(r), ~Cancelled(r),
               run' = [run EXCEPT ![r].next = @ + 1],
               file' = [file EXCEPT ![r[1]] = Append(@, ChunkOf(r))]
        PROVE  [Promise!Next]_(Promise!vars)
    <3>1. TaskState' = TaskState
      BY <1>0, <2>0, WritesOneStatus
    <3>2. CutShort' = CutShort
      <4>1. run'[r].pc = "streaming"
        BY <1>0, <2>0, <2>1 DEF HttpTypes, Locals
      <4>2. ~StreamEnds(r)
        BY <1>0, <4>1 DEF StreamEnds, HttpTypes, Locals
      <4>3. QED
        BY <1>s, <2>0, <4>2 DEF Short
    <3>3. ChunkOf(r) \in 0..Size /\ Promise!Follows(file[r[1]], ChunkOf(r))
      BY <1>0, <1>6, <2>0, <2>1, BoundsAssumption
         DEF HttpTypes, Locals, ChunkOf, Fits
    <3>4. Promise!Extend(r[1])
      BY <1>6, <2>0, <2>1, <3>3 DEF Promise!Extend
    <3>5. QED
      BY <1>0, <3>1, <3>2, <3>4 DEF Promise!Next
  <2>2. QED
    BY <1>2, <1>8, <2>0, <2>1 DEF Chunk
<1>9. ASSUME NEW e \in Errors, OpenFails(r, e) \/ StreamFails(r, e)
      PROVE  [Promise!Next]_(Promise!vars)
  <2>1. Working(r) /\ e \in {"none", "transient", "permanent", "completed"}
        /\ e # "none" /\ e # "completed"
    BY <1>9 DEF OpenFails, StreamFails, Working, Errors
  <2>2. \/ Concludes(r, Verdict(r, e), "unwinding")
        \/ Concludes(r, Verdict(r, e), "failing")
    BY <1>9 DEF OpenFails, StreamFails
  <2>3. QED
    BY <2>1, <2>2, ConclusionKept
<1>10. CASE Closed(r)
  <2>1. Working(r) /\ run[r].pc = "closing"
        /\ Concludes(r, Verdict(r, "completed"), "unwinding")
    BY <1>10 DEF Closed, Working
  <2>2. QED
    BY <2>1, ConclusionKept
<1>11. CASE Retries(r) \/ BackoffEnds(r)
  <2>1. \/ UNCHANGED <<status, file>>
        \/ /\ status' = [status EXCEPT ![Obj(r)] = "downloading"]
           /\ UNCHANGED file /\ Retrying(r) /\ Tracks(r) /\ Newest(r)
           /\ status[Obj(r)] # "paused"
    BY <1>11 DEF Retries, CanRetry, BackoffEnds, LeaveWithSlot, Retrying
  <2>2. ASSUME Retrying(r), Tracks(r), Newest(r), status[Obj(r)] # "paused"
        PROVE  status[Obj(r)] \in Active \cup {"error"}
    <3>1. run[r].obj # 0 /\ status[Obj(r)] # "none" /\ run[r].obj \in 0..MaxObj
      BY <1>0, <2>2 DEF HttpInv, ObjectsExist, Retrying, HttpTypes, Locals
    <3>2. run[r].obj \in 1..MaxObj
      BY <3>1, BoundsAssumption
    <3>3. Obj(r) \in Object /\ status[Obj(r)] \in Statuses
      BY <1>0, <3>2, Pairs DEF Obj, HttpTypes
    <3>4. status[Obj(r)] # "completed"
      BY <1>0, <2>2 DEF RunInv, NotOver, CurrentStatus, Obj, Tracks
    <3>5. QED
      BY <2>2, <3>1, <3>3, <3>4 DEF Statuses, Active
  <2>3. "downloading" \in Active
    BY DEF Active
  <2>4. ~StreamEnds(r)
    BY <1>11 DEF Retries, BackoffEnds, StreamEnds
  <2>5. QED
    BY <1>2, <1>3, <2>1, <2>2, <2>3, <2>4
<1>12. QED
  BY <1>4, <1>5, <1>7, <1>8, <1>9, <1>10, <1>11 DEF RunStep

(* The states of the promise are the ones the user can see.                *)
LEMMA SeenStates ==
  ASSUME HttpTypes, ObjectsExist, NEW t \in Task
  PROVE  TaskState[t] \in Promise!States
<1>1. CASE tracked[t] = 0
  BY <1>1, Seen DEF Promise!States
<1>2. CASE tracked[t] # 0
  <2>1. tracked[t] \in 0..MaxObj
    BY DEF HttpTypes
  <2>2. tracked[t] \in 1..MaxObj
    BY <1>2, <2>1, BoundsAssumption
  <2>3. CurrentStatus(t) \in Statuses \ {"none"}
    BY <1>2, <2>2, Pairs DEF HttpTypes, ObjectsExist, CurrentStatus
  <2>4. QED
    BY <1>2, <2>3, Seen DEF Statuses, Active, Promise!States
<1>3. QED
  BY <1>1, <1>2

(* Every step of the user is a step of the promise, or none.               *)
LEMMA UserKeepsPromise ==
  ASSUME HttpInv, NEW t \in Task, User(t) \/ Continuation(t)
  PROVE  [Promise!Next]_(Promise!vars)
<1>0. /\ HttpTypes /\ ObjectsExist
      /\ tracked[t] \in 0..MaxObj
      /\ tracked[t] # 0 => <<t, tracked[t]>> \in Object
  <2>1. HttpTypes /\ ObjectsExist /\ tracked[t] \in 0..MaxObj
    BY DEF HttpInv, HttpTypes
  <2>2. tracked[t] # 0 => tracked[t] \in 1..MaxObj
    BY <2>1, BoundsAssumption
  <2>3. QED
    BY <2>1, <2>2, Pairs
<1>s. CutShort' = CutShort
  BY ShortUser
<1>1. CASE AddBegins(t)
  <2>1. /\ UNCHANGED <<tracked, status, removing, file>>
        /\ tracked[t] = 0 /\ adding' = [adding EXCEPT ![t] = @ + 1]
    BY <1>1 DEF AddBegins, taskVars
  <2>2. TaskState' = TaskState /\ Leaving' = Leaving
    BY <2>1, LooksSame, NoneChanges DEF CurrentStatus, Leaving
  <2>3. Promise!Ask(t)
    BY <2>1, Seen DEF Promise!Ask
  <2>4. QED
    BY <1>s, <2>1, <2>2, <2>3 DEF Promise!Next
<1>2. CASE AddStores(t)
  <2>1. PICK k : k = ObjectsMade(t) + 1
    OBVIOUS
  <2>2. /\ adding[t] > 0 /\ adding' = [adding EXCEPT ![t] = @ - 1]
        /\ tracked' = [tracked EXCEPT ![t] = k]
        /\ status' = [status EXCEPT ![<<t, k>>] = "downloading"]
        /\ UNCHANGED <<file, removing>>
    BY <1>2, <2>1 DEF AddStores
  <2>3. k \in 1..MaxObj
    <3>1. /\ ObjectsMade(t) \in Nat /\ adding[t] \in Nat /\ MaxObj \in Nat
          /\ ObjectsMade(t) + adding[t] <= MaxObj
      BY BoundsAssumption DEF HttpInv, MadeInOrder, HttpTypes
    <3>2. QED
      BY <2>1, <2>2, <3>1
  <2>4. tracked'[t] # 0 /\ CurrentStatus(t)' = "downloading"
    BY <1>0, <2>2, <2>3, Pairs, BoundsAssumption DEF HttpTypes, CurrentStatus
  <2>5. TaskState'[t] = "active"
    BY <2>4, SeenNext DEF Active
  <2>6. ASSUME NEW u \in Task, u # t PROVE TaskState'[u] = TaskState[u]
    <3>1. tracked'[u] = tracked[u] /\ CurrentStatus(u)' = CurrentStatus(u)
      BY <1>0, <2>2, <2>6 DEF HttpTypes, CurrentStatus
    <3>2. QED
      BY <3>1, LooksSame
  <2>7. Promise!Add(t)
    BY <1>0, <2>2, <2>5, <2>6, OneChanges, SeenStates
       DEF Promise!Add, Promise!Moves
  <2>8. QED
    BY <1>s, <2>2, <2>7 DEF Promise!Next, Leaving
<1>3. ASSUME NEW s, NEW k, k = tracked[t], k # 0,
             status' = [status EXCEPT ![<<t, k>>] = s],
             UNCHANGED <<tracked, adding, removing, file>>
      PROVE  /\ CurrentStatus(t)' = s
             /\ \A u \in Task : u # t => TaskState'[u] = TaskState[u]
             /\ UNCHANGED <<adding, file>> /\ Leaving' = Leaving
  <2>1. CurrentStatus(t)' = s
    BY <1>0, <1>3 DEF HttpTypes, CurrentStatus
  <2>2. ASSUME NEW u \in Task, u # t PROVE TaskState'[u] = TaskState[u]
    <3>1. tracked'[u] = tracked[u] /\ CurrentStatus(u)' = CurrentStatus(u)
      BY <1>0, <1>3, <2>2 DEF HttpTypes, CurrentStatus
    <3>2. QED
      BY <3>1, LooksSame
  <2>3. QED
    BY <1>3, <2>1, <2>2 DEF Leaving
<1>4. CASE Pause(t)
  <2>1. PICK k : k = tracked[t]
    OBVIOUS
  <2>2. /\ k # 0 /\ CurrentStatus(t) \in Active
        /\ status' = [status EXCEPT ![<<t, k>>] = "paused"]
        /\ UNCHANGED <<tracked, adding, removing, file>>
    BY <1>4, <2>1 DEF Pause, userVars
  <2>3. /\ CurrentStatus(t)' = "paused"
        /\ \A u \in Task : u # t => TaskState'[u] = TaskState[u]
        /\ Leaving' = Leaving
    BY <1>3, <2>1, <2>2
  <2>4. TaskState'[t] = "paused" /\ TaskState[t] = "active"
    BY <2>1, <2>2, <2>3, Seen, SeenNext DEF Active
  <2>5. Promise!Pause(t)
    BY <2>3, <2>4, OneChanges DEF Promise!Pause, Promise!Moves
  <2>6. QED
    BY <1>s, <2>2, <2>3, <2>5 DEF Promise!Next, Promise!Settles
<1>5. CASE Resume(t) \/ Restart(t)
  <2>1. PICK k : k = tracked[t]
    OBVIOUS
  <2>2. /\ k # 0 /\ CurrentStatus(t) \in {"paused", "error"}
        /\ status' = [status EXCEPT ![<<t, k>>] = "downloading"]
        /\ UNCHANGED <<tracked, adding, removing, file>>
    BY <1>5, <2>1 DEF Resume, Restart, Reactivate, userVars
  <2>3. /\ CurrentStatus(t)' = "downloading"
        /\ \A u \in Task : u # t => TaskState'[u] = TaskState[u]
        /\ Leaving' = Leaving
    BY <1>3, <2>1, <2>2
  <2>4. TaskState'[t] = "active" /\ TaskState[t] \in {"paused", "error"}
    BY <2>1, <2>2, <2>3, Seen, SeenNext DEF Active
  <2>5. Promise!Resume(t)
    BY <2>3, <2>4, OneChanges DEF Promise!Resume, Promise!Moves
  <2>6. QED
    BY <1>s, <2>2, <2>3, <2>5 DEF Promise!Next, Promise!Settles
<1>6. ASSUME NEW delete \in BOOLEAN, Remove(t, delete)
      PROVE  [Promise!Next]_(Promise!vars)
  <2>1. /\ tracked[t] # 0 /\ tracked' = [tracked EXCEPT ![t] = 0]
        /\ removing' = removing \cup {<<t, delete>>}
        /\ UNCHANGED <<status, adding, file>>
    BY <1>6 DEF Remove
  <2>2. TaskState'[t] = "absent" /\ TaskState[t] # "absent"
    <3>1. tracked'[t] = 0
      BY <1>0, <2>1 DEF HttpTypes
    <3>2. CurrentStatus(t) \in Statuses
      BY <1>0, <2>1 DEF HttpTypes, CurrentStatus
    <3>3. QED
      BY <2>1, <3>1, <3>2, Seen, SeenNext DEF Statuses
  <2>3. ASSUME NEW u \in Task, u # t PROVE TaskState'[u] = TaskState[u]
    <3>1. tracked'[u] = tracked[u] /\ CurrentStatus(u)' = CurrentStatus(u)
      BY <1>0, <2>1, <2>3 DEF HttpTypes, CurrentStatus
    <3>2. QED
      BY <3>1, LooksSame
  <2>4. TaskState' = Promise!Forget({t})
    <3>1. TaskState' = [u \in Task |-> TaskState'[u]]
      BY DEF TaskState
    <3>2. QED
      BY <2>2, <2>3, <3>1 DEF Promise!Forget
  <2>5. Leaving' = Leaving \cup {t}
    BY <2>1 DEF Leaving
  <2>6. Promise!Remove(t)
    BY <2>2, <2>4, <2>5 DEF Promise!Remove
  <2>7. QED
    BY <1>s, <2>1, <2>6 DEF Promise!Next
<1>7. ASSUME NEW delete \in BOOLEAN, RemoveEnds(t, delete)
      PROVE  [Promise!Next]_(Promise!vars)
  <2>1. /\ <<t, delete>> \in removing
        /\ removing' = removing \ {<<t, delete>>}
        /\ file' = IF delete THEN DeleteFiles({t}) ELSE file
        /\ UNCHANGED <<tracked, status, adding>>
    BY <1>7 DEF RemoveEnds, taskVars
  <2>2. TaskState' = TaskState
    BY <2>1, LooksSame, NoneChanges DEF CurrentStatus
  <2>3. t \in Leaving /\ Leaving' \in {Leaving, Leaving \ {t}}
    <3>1. ASSUME NEW u, u # t, NEW b PROVE <<u, b>> \in removing' <=> <<u, b>> \in removing
      BY <2>1, <3>1
    <3>2. t \in Leaving /\ \A u \in Task : u # t => (u \in Leaving' <=> u \in Leaving)
      BY <2>1, <3>1 DEF Leaving
    <3>3. Leaving \subseteq Task /\ Leaving' \subseteq Task
      BY DEF Leaving
    <3>4. QED
      BY <3>2, <3>3
  <2>4. file' \in {file, Promise!Delete({t})}
    BY <2>1 DEF DeleteFiles, Promise!Delete
  <2>5. Promise!Left(t)
    BY <2>3, <2>4 DEF Promise!Left
  <2>6. QED
    BY <1>s, <2>1, <2>2, <2>5 DEF Promise!Next
<1>8. QED
  BY <1>1, <1>2, <1>4, <1>5, <1>6, <1>7 DEF User, Continuation

(* Clearing the completed tasks is one step of the promise.                *)
LEMMA ClearKeepsPromise ==
  ASSUME HttpInv, NEW delete \in BOOLEAN, ClearCompleted(delete)
  PROVE  [Promise!Next]_(Promise!vars)
<1>1. PICK done \in SUBSET Task :
        /\ done = {t \in Task : tracked[t] # 0 /\ CurrentStatus(t) = "completed"}
        /\ file' = IF delete THEN DeleteFiles(done) ELSE file
        /\ tracked' = [t \in Task |-> IF t \in done THEN 0 ELSE tracked[t]]
        /\ UNCHANGED <<status, adding, removing, run>>
  <2> DEFINE d == {t \in Task : tracked[t] # 0 /\ CurrentStatus(t) = "completed"}
  <2>1. d \in SUBSET Task
    OBVIOUS
  <2>2. QED
    BY <2>1 DEF ClearCompleted, userVars
<1>2. \A t \in done : TaskState[t] = "completed"
  BY <1>1, Seen DEF Active
<1>3. TaskState' = Promise!Forget(done)
  <2>1. ASSUME NEW u \in Task
        PROVE  TaskState'[u] = IF u \in done THEN "absent" ELSE TaskState[u]
    <3>1. CASE u \in done
      <4>1. tracked'[u] = 0
        BY <1>1, <3>1
      <4>2. QED
        BY <3>1, <4>1, SeenNext
    <3>2. CASE u \notin done
      BY <1>1, <3>2, LooksSame DEF CurrentStatus
    <3>3. QED
      BY <3>1, <3>2
  <2>2. TaskState' = [u \in Task |-> TaskState'[u]]
    BY DEF TaskState
  <2>3. QED
    BY <2>1, <2>2 DEF Promise!Forget
<1>4. file' \in {file, Promise!Delete(done)}
  BY <1>1 DEF DeleteFiles, Promise!Delete
<1>5. Promise!Clear(done)
  BY <1>2, <1>3, <1>4 DEF Promise!Clear
<1>6. CutShort' = CutShort
  BY <1>1, ShortStays DEF Short
<1>7. QED
  BY <1>1, <1>5, <1>6 DEF Promise!Next, Leaving

(* The pipeline keeps the promise of HttpTask: what the user sees of the   *)
(* tasks and finds on disk behaves as if there were no runs, gates, slots  *)
(* or generations.  So a task completes with a mere part of the resource   *)
(* only when the server has ended the body of its current run early.       *)
THEOREM PromiseKept == Spec => KeepsPromise
<1>1. Init => Promise!Init
  <2> SUFFICES ASSUME Init PROVE Promise!Init
    OBVIOUS
  <2>1. \A t \in Task : TaskState[t] = "absent"
    BY Seen DEF Init
  <2>2. TaskState = [t \in Task |-> "absent"]
    BY <2>1 DEF TaskState
  <2>3. Leaving = {}
    BY DEF Init, Leaving
  <2>4. CutShort = {}
    BY Pairs DEF Init, NewRun, CutShort
  <2>5. QED
    BY <2>2, <2>3, <2>4 DEF Init, Promise!Init
<1>2. ASSUME HttpInv, [Next]_vars PROVE [Promise!Next]_(Promise!vars)
  <2>0. HttpInv'
    BY <1>2, StepKeeps
  <2>1. ASSUME UNCHANGED <<taskVars, status, adding, removing, file, run>>
        PROVE  [Promise!Next]_(Promise!vars)
    <3>1. UNCHANGED <<tracked, status, adding, removing, file, run>>
      BY <2>1 DEF taskVars
    <3>2. TaskState' = TaskState /\ Leaving' = Leaving
      BY <3>1, LooksSame, NoneChanges DEF CurrentStatus, Leaving
    <3>3. CutShort' = CutShort
      BY <3>1, ShortStays DEF Short
    <3>4. QED
      BY <3>1, <3>2, <3>3 DEF Promise!vars
  <2>2. ASSUME SlotsStored \/ \E m \in SlotChoices : SetSlots(m)
        PROVE  UNCHANGED <<taskVars, status, adding, removing, file, run>>
    BY <2>2 DEF SetSlots, SlotsStored
  <2>3. ASSUME UNCHANGED vars
        PROVE  UNCHANGED <<taskVars, status, adding, removing, file, run>>
    BY <2>3 DEF vars, userVars
  <2>4. QED
    BY <1>2, <2>0, <2>1, <2>2, <2>3, RunKeepsPromise, UserKeepsPromise,
       ClearKeepsPromise DEF Next
<1>3. QED
  BY <1>1, <1>2, HttpInvariant, PTL DEF Spec, KeepsPromise, Promise!Spec

-----------------------------------------------------------------------------
(* The slot of a first attempt.  A run needs the slot of its task from the *)
(* grant to the end of the stream, while its task is neither removed nor   *)
(* superseded and it has not come back from a retry.                       *)
NeedsSlot(r) ==
  /\ StillTracked(r) /\ r[1] \notin removedIds /\ run[r].tries = 0
  /\ \/ run[r].pc = "acquiring" /\ call[r] = "granted"
     \/ run[r].pc \in {"starting", "opening", "streaming"}

(* A resumed task gives its slot up before the new run is launched.        *)
Replaced(t) ==
  \E n \in RunNo : run[<<t, n>>].pc = "launching" /\ Tracks(<<t, n>>)

HoldsSlot(r) ==
  NeedsSlot(r) => \/ r[1] \in holders
                  \/ CurrentStatus(r[1]) \notin Active
                  \/ Replaced(r[1])

SlotInv ==
  /\ call \in [Run -> Q!CallState]
  /\ \A r \in Run : HoldsSlot(r) /\ (run[r].pc = "backoff" => run[r].tries # 0)

(* What an operation of the queue does that gives up the slots of S: every *)
(* other holder that stays eligible keeps its slot, and a grant comes with *)
(* one.                                                                    *)
QueueKeeps(S) ==
  /\ \A t \in holders : t \in Eligible' /\ t \notin S => t \in holders'
  /\ \A c \in Run :
       call'[c] = "granted" /\ call[c] # "granted" => c[1] \in holders'
  /\ call' \in [Run -> Q!CallState]

(* A drain of what is left when the slots of S are given up.               *)
LEMMA DrainKeeps ==
  ASSUME NEW S, NEW q, NEW cs \in [Run -> Q!CallState],
         \A c \in Run : cs[c] = "granted" => call[c] = "granted",
         Q!DrainFrom(holders \ S, q, cs)
  PROVE  QueueKeeps(S)
<1>1. PICK k \in 0..Len(q) :
        /\ holders' = Q!HoldersAfter(Q!Reconciled(holders \ S), q, k)
        /\ call' = [c \in Run |->
                      IF \E i \in 1..k : q[i] = c THEN Q!Answer(c) ELSE cs[c]]
  BY DEF Q!DrainFrom
<1>2. \A t \in holders : t \in Eligible' /\ t \notin S => t \in holders'
  BY <1>1 DEF Q!HoldersAfter, Q!Reconciled
<1>3. ASSUME NEW c \in Run, call'[c] = "granted", call[c] # "granted"
      PROVE  c[1] \in holders'
  <2>1. \E i \in 1..k : q[i] = c
    BY <1>1, <1>3
  <2>2. c[1] \in Eligible'
    BY <1>1, <1>3, <2>1 DEF Q!Answer
  <2>3. QED
    BY <1>1, <2>1, <2>2 DEF Q!HoldersAfter
<1>4. call' \in [Run -> Q!CallState]
  BY <1>1 DEF Q!Answer, Q!CallState
<1>5. QED
  BY <1>2, <1>3, <1>4 DEF QueueKeeps

(* Each operation of the queue.                                            *)
LEMMA QueueSteps ==
  ASSUME call \in [Run -> Q!CallState]
  PROVE  /\ UNCHANGED queueVars \/ Q!OwnerStep => QueueKeeps({})
         /\ \A c \in Run : Q!Acquire(c) \/ Q!Return(c) => QueueKeeps({})
         /\ \A m : Q!SetMaxConcurrent(m) => QueueKeeps({})
         /\ Q!Drain => QueueKeeps({})
         /\ \A S : Q!Release(S) => QueueKeeps(S)
<1>1. ASSUME NEW S, UNCHANGED <<holders, call>> PROVE QueueKeeps(S)
  BY <1>1 DEF QueueKeeps
<1>2. ASSUME NEW S, Q!DrainFrom(holders \ S, queue, call) PROVE QueueKeeps(S)
  BY <1>2, DrainKeeps
<1>3. ASSUME Q!DrainFrom(holders, queue, call) PROVE QueueKeeps({})
  <2>1. holders \ {} = holders
    OBVIOUS
  <2>2. QED
    BY <1>3, <2>1, DrainKeeps
<1>4. ASSUME NEW c \in Run, Q!Acquire(c) PROVE QueueKeeps({})
  <2>1. ASSUME Q!AcquireWait(c) PROVE QueueKeeps({})
    <3>1. holders \ {} = holders
      OBVIOUS
    <3>2. PICK cs : cs = [call EXCEPT ![c] = "waiting"]
      OBVIOUS
    <3>3. /\ cs \in [Run -> Q!CallState]
          /\ \A d \in Run : cs[d] = "granted" => call[d] = "granted"
      BY <3>2 DEF Q!CallState
    <3>4. Q!DrainFrom(holders, Append(queue, c), cs)
      BY <2>1, <3>2 DEF Q!AcquireWait
    <3>5. QED
      BY <3>1, <3>3, <3>4, DrainKeeps
  <2>2. CASE Q!AcquireIneligible(c)
    BY <2>2 DEF Q!AcquireIneligible, Q!Reconciled, QueueKeeps, Q!CallState
  <2>3. CASE Q!AcquireHeld(c)
    BY <2>3 DEF Q!AcquireHeld, Q!Reconciled, QueueKeeps, Q!CallState
  <2>4. CASE Q!AcquireFree(c)
    BY <2>4 DEF Q!AcquireFree, Q!Reconciled, QueueKeeps, Q!CallState
  <2>5. QED
    BY <1>4, <2>1, <2>2, <2>3, <2>4 DEF Q!Acquire
<1>5. ASSUME NEW c \in Run, Q!Return(c) PROVE QueueKeeps({})
  BY <1>5 DEF Q!Return, QueueKeeps, Q!CallState
<1>6. QED
  BY <1>1, <1>2, <1>3, <1>4, <1>5 DEF queueVars, Q!OwnerStep, Q!Drain,
     Q!SetMaxConcurrent, Q!Release

(* A run that needs its slot after a step was granted it by the step, or   *)
(* needed it before, and nobody gave it up.                                *)
Undisturbed(r, S) ==
  NeedsSlot(r)' /\ CurrentStatus(r[1])' \in Active /\ ~Replaced(r[1])' =>
    \/ call'[r] = "granted" /\ call[r] # "granted"
    \/ /\ NeedsSlot(r) /\ CurrentStatus(r[1]) \in Active
       /\ ~Replaced(r[1]) /\ r[1] \notin S

(* Such a run holds its slot after the step.                               *)
LEMMA SlotStays ==
  ASSUME NEW r \in Run, HoldsSlot(r), NEW S, QueueKeeps(S), Undisturbed(r, S)
  PROVE  HoldsSlot(r)'
<1> SUFFICES ASSUME NeedsSlot(r)', CurrentStatus(r[1])' \in Active,
                    ~Replaced(r[1])'
             PROVE  r[1] \in holders'
  BY DEF HoldsSlot, Active
<1>1. r[1] \in Eligible'
  BY Pairs DEF NeedsSlot, StillTracked, Eligible, CurrentStatus
<1>2. QED
  BY <1>1 DEF Undisturbed, HoldsSlot, QueueKeeps

(* A step that leaves the runs, the status and the being of a task.        *)
LEMMA Apart ==
  ASSUME NEW r \in Run, NEW S, r[1] \notin S,
         \A n \in RunNo : run'[<<r[1], n>>] = run[<<r[1], n>>],
         tracked'[r[1]] = tracked[r[1]], gen'[r[1]] = gen[r[1]],
         CurrentStatus(r[1])' = CurrentStatus(r[1]),
         r[1] \in removedIds => r[1] \in removedIds'
  PROVE  Undisturbed(r, S)
<1>1. run'[r] = run[r]
  BY Pairs
<1>2. Replaced(r[1])' <=> Replaced(r[1])
  BY DEF Replaced, Tracks
<1>3. QED
  BY <1>1, <1>2 DEF Undisturbed, NeedsSlot, StillTracked, Newest

(* Steps of the user: the task itself is gone, inactive or has a new run,  *)
(* the others are left alone.                                              *)
LEMMA MadeReplaces ==
  ASSUME HttpTypes, MadeInOrder, NEW t \in Task, NEW k, Launching(t, k),
         MayLaunch(t) \/ adding[t] > 0, tracked'[t] = k
  PROVE  /\ Replaced(t)'
         /\ \A q \in Run : q[1] # t => run'[q] = run[q]
<1>1. RunsMade(t) < MaxRun
  <2>1. /\ RunsMade(t) \in Nat /\ adding[t] \in Nat /\ MaxRun \in Nat
        /\ RunsMade(t) + adding[t] <= MaxRun
    BY BoundsAssumption DEF MadeInOrder, HttpTypes
  <2>2. QED
    BY <2>1 DEF MayLaunch
<1>2. NextRun(t) \in Run
  BY <1>1, NextIsFree
<1>3. RunsMade(t) + 1 \in RunNo
  BY <1>2 DEF NextRun, Run
<1>4. run'[NextRun(t)].pc = "launching" /\ run'[NextRun(t)].obj = k
  BY <1>2 DEF Launching, NewRun, HttpTypes
<1>5. \A q \in Run : q[1] # t => run'[q] = run[q]
  BY <1>2 DEF Launching, HttpTypes, NextRun
<1>6. Replaced(t)'
  <2>1. PICK n \in RunNo : n = RunsMade(t) + 1
    BY <1>3
  <2>2. run'[<<t, n>>].pc = "launching" /\ run'[<<t, n>>].obj = k
    BY <1>4, <2>1 DEF NextRun
  <2>3. QED
    BY <2>2 DEF Replaced, Tracks
<1>7. QED
  BY <1>5, <1>6

(* A step of the user, or its continuation, disturbs no run that needs its *)
(* slot.                                                                   *)
LEMMA UserKeepsSlots ==
  ASSUME HttpInv, call \in [Run -> Q!CallState],
         NEW t \in Task, User(t) \/ Continuation(t)
  PROVE  \E S : QueueKeeps(S) /\ \A r \in Run : Undisturbed(r, S)
<1>0. /\ HttpTypes /\ MadeInOrder
      /\ \A r \in Run : r[1] \in Task
      /\ \A u \in Task : \A n \in RunNo : <<u, n>> \in Run
  BY Pairs DEF HttpInv
<1>1. ASSUME UNCHANGED <<tracked, status, gen, run, removedIds, queueVars>>
      PROVE  \E S : QueueKeeps(S) /\ \A r \in Run : Undisturbed(r, S)
  <2>1. \A r \in Run : Undisturbed(r, {})
    BY <1>1, Apart DEF CurrentStatus
  <2>2. QueueKeeps({})
    BY <1>1, QueueSteps
  <2>3. QED
    BY <2>1, <2>2
<1>2. CASE AddBegins(t) \/ \E delete \in BOOLEAN : RemoveEnds(t, delete)
  BY <1>1, <1>2 DEF AddBegins, RemoveEnds, taskVars
<1>3. CASE AddStores(t)
  <2>1. PICK k : k = ObjectsMade(t) + 1
    OBVIOUS
  <2>2. /\ tracked' = [tracked EXCEPT ![t] = k] /\ adding[t] > 0
        /\ status' = [status EXCEPT ![<<t, k>>] = "downloading"]
        /\ Launching(t, k) /\ UNCHANGED <<gen, removedIds>> /\ Q!OwnerStep
    BY <1>3, <2>1 DEF AddStores
  <2>3. /\ Replaced(t)'
        /\ \A q \in Run : q[1] # t => run'[q] = run[q]
    BY <1>0, <2>2, MadeReplaces DEF HttpTypes
  <2>4. ASSUME NEW r \in Run PROVE Undisturbed(r, {})
    <3>1. CASE r[1] = t
      BY <2>3, <3>1 DEF Undisturbed
    <3>2. CASE r[1] # t
      <4>1. /\ \A n \in RunNo : run'[<<r[1], n>>] = run[<<r[1], n>>]
            /\ tracked'[r[1]] = tracked[r[1]]
            /\ CurrentStatus(r[1])' = CurrentStatus(r[1])
        BY <1>0, <2>2, <2>3, <3>2 DEF HttpTypes, CurrentStatus
      <4>2. QED
        BY <2>2, <4>1, Apart
    <3>3. QED
      BY <3>1, <3>2
  <2>5. QueueKeeps({})
    BY <2>2, QueueSteps
  <2>6. QED
    BY <2>4, <2>5
<1>4. ASSUME NEW S, QueueKeeps(S), S \subseteq {t}, NEW s, NEW k, k = tracked[t],
             status' = [status EXCEPT ![<<t, k>>] = s],
             UNCHANGED <<tracked, gen, removedIds>>,
             \A q \in Run : q[1] # t => run'[q] = run[q],
             Replaced(t)' \/ s = "paused", k # 0
      PROVE  \A r \in Run : Undisturbed(r, S)
  <2>1. ASSUME NEW r \in Run, r[1] = t PROVE Undisturbed(r, S)
    <3>1. tracked[t] \in 1..MaxObj
      <4>1. tracked[t] \in 0..MaxObj
        BY <1>0 DEF HttpTypes
      <4>2. QED
        BY <1>4, <4>1, BoundsAssumption
    <3>2. CurrentStatus(t)' = s
      BY <1>0, <1>4, <3>1, Pairs DEF HttpTypes, CurrentStatus
    <3>3. QED
      BY <1>4, <2>1, <3>2 DEF Undisturbed, Active
  <2>2. ASSUME NEW r \in Run, r[1] # t PROVE Undisturbed(r, S)
    <3>1. /\ \A n \in RunNo : run'[<<r[1], n>>] = run[<<r[1], n>>]
          /\ CurrentStatus(r[1])' = CurrentStatus(r[1]) /\ r[1] \notin S
      BY <1>0, <1>4, <2>2 DEF HttpTypes, CurrentStatus
    <3>2. QED
      BY <1>4, <3>1, Apart
  <2>3. QED
    BY <2>1, <2>2
<1>5. CASE Pause(t)
  <2>1. PICK k : k = tracked[t]
    OBVIOUS
  <2>2. /\ k # 0 /\ status' = [status EXCEPT ![<<t, k>>] = "paused"]
        /\ UNCHANGED <<tracked, gen, removedIds, run>> /\ QueueKeeps({})
    BY <1>5, <2>1, QueueSteps DEF Pause
  <2>3. \A r \in Run : Undisturbed(r, {})
    BY <1>4, <2>1, <2>2
  <2>4. QED
    BY <2>2, <2>3
<1>6. CASE Resume(t) \/ Restart(t)
  <2>1. PICK k : k = tracked[t]
    OBVIOUS
  <2>2. /\ k # 0 /\ status' = [status EXCEPT ![<<t, k>>] = "downloading"]
        /\ UNCHANGED <<tracked, gen, removedIds>>
        /\ Launching(t, k) /\ MayLaunch(t)
    BY <1>6, <2>1 DEF Resume, Restart, Reactivate
  <2>3. PICK S : QueueKeeps(S) /\ S \subseteq {t}
    BY <1>6, QueueSteps DEF Resume, Restart
  <2>4. /\ Replaced(t)'
        /\ \A q \in Run : q[1] # t => run'[q] = run[q]
    BY <1>0, <2>1, <2>2, MadeReplaces
  <2>5. \A r \in Run : Undisturbed(r, S)
    BY <1>4, <2>1, <2>2, <2>3, <2>4
  <2>6. QED
    BY <2>3, <2>5
<1>7. ASSUME NEW delete \in BOOLEAN, Remove(t, delete)
      PROVE  \E S : QueueKeeps(S) /\ \A r \in Run : Undisturbed(r, S)
  <2>1. /\ tracked' = [tracked EXCEPT ![t] = 0]
        /\ gen' = [gen EXCEPT ![t] = @ + 1]
        /\ removedIds' = removedIds \cup {t}
        /\ UNCHANGED <<status, run>> /\ QueueKeeps({t})
    BY <1>7, QueueSteps DEF Remove
  <2>2. ASSUME NEW r \in Run PROVE Undisturbed(r, {t})
    <3>1. CASE r[1] = t
      BY <1>0, <2>1, <3>1 DEF Undisturbed, NeedsSlot, StillTracked, HttpTypes
    <3>2. CASE r[1] # t
      <4>1. /\ tracked'[r[1]] = tracked[r[1]] /\ gen'[r[1]] = gen[r[1]]
            /\ CurrentStatus(r[1])' = CurrentStatus(r[1])
        BY <1>0, <2>1, <3>2 DEF HttpTypes, CurrentStatus
      <4>2. QED
        BY <2>1, <3>2, <4>1, Apart
    <3>3. QED
      BY <3>1, <3>2
  <2>3. QED
    BY <2>1, <2>2
<1>8. QED
  BY <1>2, <1>3, <1>5, <1>6, <1>7 DEF User, Continuation

(* Clearing gives up slots of completed tasks only.                        *)
LEMMA ClearKeepsSlots ==
  ASSUME HttpInv, call \in [Run -> Q!CallState],
         NEW delete \in BOOLEAN, ClearCompleted(delete)
  PROVE  \E S : QueueKeeps(S) /\ \A r \in Run : Undisturbed(r, S)
<1>1. PICK done \in SUBSET Task :
        /\ tracked' = [t \in Task |-> IF t \in done THEN 0 ELSE tracked[t]]
        /\ removedIds' = removedIds \cup done
        /\ UNCHANGED <<status, gen, run>> /\ Q!Release(done)
  <2> DEFINE d == {t \in Task : tracked[t] # 0 /\ CurrentStatus(t) = "completed"}
  <2>1. /\ d \in SUBSET Task
        /\ tracked' = [t \in Task |-> IF t \in d THEN 0 ELSE tracked[t]]
        /\ removedIds' = removedIds \cup d
        /\ UNCHANGED <<status, gen, run>> /\ Q!Release(d)
    BY DEF ClearCompleted
  <2> HIDE DEF d
  <2>2. QED
    BY <2>1
<1>2. QueueKeeps(done)
  BY <1>1, QueueSteps
<1>3. ASSUME NEW r \in Run PROVE Undisturbed(r, done)
  <2>0. r[1] \in Task
    BY Pairs
  <2>1. CASE r[1] \in done
    BY <1>1, <2>0, <2>1 DEF Undisturbed, NeedsSlot, StillTracked
  <2>2. CASE r[1] \notin done
    <3>1. /\ tracked'[r[1]] = tracked[r[1]]
          /\ CurrentStatus(r[1])' = CurrentStatus(r[1])
      BY <1>1, <2>0, <2>2 DEF CurrentStatus
    <3>2. QED
      BY <1>1, <2>2, <3>1, Apart
  <2>3. QED
    BY <2>1, <2>2
<1>4. QED
  BY <1>2, <1>3

(* Steps of a run.  It gives up the slot of its task only when it leaves.  *)
LEMMA RunKeepsQueue ==
  ASSUME HttpTypes, call \in [Run -> Q!CallState], NEW q \in Run, RunStep(q)
  PROVE  \/ QueueKeeps({})
         \/ QueueKeeps({q[1]}) /\ InBody(q) /\ run'[q].pc = "done"
<1>0. run \in [Run -> Locals] /\ run[q] \in Locals
  BY DEF HttpTypes
<1>1. ASSUME LeaveWithSlot(q), InBody(q)
      PROVE  QueueKeeps({q[1]}) /\ InBody(q) /\ run'[q].pc = "done"
  BY <1>0, <1>1, QueueSteps DEF LeaveWithSlot, Leave, OverRun, NewRun
<1>2. CASE Proceed(q)
  <2>1. InBody(q)
    BY <1>2 DEF Proceed, InBody
  <2>2. CASE LeaveWithSlot(q)
    BY <1>1, <2>1, <2>2
  <2>3. CASE Q!Return(q) \/ Q!OwnerStep
    BY <2>3, QueueSteps
  <2>4. QED
    BY <1>2, <2>2, <2>3 DEF Proceed
<1>3. CASE BackoffEnds(q) \/ Ends(q)
  <2>1. InBody(q)
    BY <1>3 DEF BackoffEnds, Ends, InBody
  <2>2. LeaveWithSlot(q) \/ Q!OwnerStep
    BY <1>3 DEF BackoffEnds, Ends
  <2>3. QED
    BY <1>1, <2>1, <2>2, QueueSteps
<1>4. CASE GivesUp(q)
  <2>1. InBody(q)
    BY <1>4 DEF GivesUp, InBody
  <2>2. CASE StillTracked(q)
    <3>1. UNCHANGED queueVars
      BY <1>4, <2>2 DEF GivesUp, queueVars
    <3>2. QED
      BY <3>1, QueueSteps
  <2>3. CASE ~StillTracked(q)
    <3>1. Leave(q) /\ Q!Release({q[1]})
      BY <1>4, <2>3 DEF GivesUp
    <3>2. QED
      BY <1>0, <2>1, <3>1, QueueSteps DEF Leave, OverRun, NewRun
  <2>4. QED
    BY <2>2, <2>3
<1>5. CASE TakesTurn(q) \/ Marked(q) \/ Refused(q)
  <2>1. UNCHANGED queueVars \/ Q!OwnerStep \/ Q!Acquire(q) \/ Q!Return(q)
    BY <1>5 DEF TakesTurn, Marked, Refused
  <2>2. QED
    BY <2>1, QueueSteps
<1>6. ASSUME NEW v, NEW p, Concludes(q, v, p) PROVE QueueKeeps({})
  BY <1>6, QueueSteps DEF Concludes
<1>7. CASE Launch(q) \/ Chunk(q) \/ StreamEnds(q) \/ FailClosed(q) \/ Retries(q)
  <2>1. UNCHANGED queueVars \/ Q!OwnerStep
    BY <1>7 DEF Launch, Chunk, StreamEnds, FailClosed, Retries
  <2>2. QED
    BY <2>1, QueueSteps
<1>8. CASE Opens(q)
  BY <1>6, <1>8, QueueSteps DEF Opens, OpensWith
<1>9. QED
  BY <1>2, <1>3, <1>4, <1>5, <1>6, <1>7, <1>8
     DEF RunStep, OpenFails, StreamFails, Closed

(* A run comes to need its slot only by a grant, and a run that has been   *)
(* in the backoff has a retry on its count.                                *)
LEMMA SelfSlot ==
  ASSUME HttpTypes, NEW r \in Run, RunStep(r),
         run[r].pc = "backoff" => run[r].tries # 0, NeedsSlot(r)'
  PROVE  \/ call'[r] = "granted" /\ call[r] # "granted"
         \/ /\ NeedsSlot(r)
            /\ CurrentStatus(r[1])' \in Active => CurrentStatus(r[1]) \in Active
            /\ run[r].pc # "launching" /\ run'[r].pc \notin {"launching", "done"}
<1> USE DEF taskVars
<1>0. /\ run \in [Run -> Locals] /\ run[r] \in Locals
      /\ UNCHANGED <<tracked, removedIds>>
      /\ run'[r].pc \in {"acquiring", "starting", "opening", "streaming"}
      /\ run'[r].tries = 0
      /\ run'[r].pc = "acquiring" => call'[r] = "granted"
      /\ StillTracked(r)' /\ r[1] \notin removedIds
  BY RunFrame DEF HttpTypes, OthersStay, NeedsSlot
<1> USE DEF Locals
<1>1. CASE TakesTurn(r) \/ Marked(r)
  <2>1. Q!Acquire(r)
    <3>1. CASE TakesTurn(r)
      BY <1>0, <3>1 DEF TakesTurn, Leave, OverRun, NewRun
    <3>2. CASE Marked(r)
      BY <3>2 DEF Marked
    <3>3. QED
      BY <1>1, <3>1, <3>2
  <2>2. run'[r].pc = "acquiring"
    <3>1. CASE TakesTurn(r)
      BY <1>0, <3>1 DEF TakesTurn, Leave, OverRun, NewRun
    <3>2. CASE Marked(r)
      BY <1>0, <3>2 DEF Marked
    <3>3. QED
      BY <1>1, <3>1, <3>2
  <2>3. QED
    BY <1>0, <2>1, <2>2 DEF Q!Acquire
<1>2. CASE Proceed(r)
  <2>1. MayRun(r) /\ UNCHANGED gen
    BY <1>0, <1>2 DEF Proceed, LeaveWithSlot, Leave, OverRun, NewRun
  <2>2. run'[r].tries = run[r].tries /\ run'[r].gen = run[r].gen
    BY <1>0, <1>2, <2>1 DEF Proceed, Attempt, LeaveWithSlot
  <2>3. NeedsSlot(r)
    BY <1>0, <1>2, <2>1, <2>2 DEF Proceed, NeedsSlot, StillTracked, Newest
  <2>4. CurrentStatus(r[1]) \in Active
    BY <2>1 DEF MayRun, CurrentStatus, Tracks, Obj
  <2>5. QED
    BY <1>0, <1>2, <2>3, <2>4 DEF Proceed
<1>3. ASSUME NEW v, NEW p \in {"failing", "unwinding"}, Concludes(r, v, p)
      PROVE  FALSE
  BY <1>0, <1>3 DEF Concludes
<1>4. CASE Opens(r)
  <2>1. /\ run[r].pc = "opening" /\ UNCHANGED <<status, gen>>
        /\ run'[r].tries = run[r].tries /\ run'[r].gen = run[r].gen
    <3>1. CASE ~StillTracked(r) \/ Cancelled(r)
      BY <1>3, <1>4, <3>1 DEF Opens
    <3>2. CASE ~(~StillTracked(r) \/ Cancelled(r))
      <4>1. PICK n, b : /\ run' = [run EXCEPT ![r].pc = "streaming",
                                 ![r].existing = 0, ![r].next = n, ![r].known = b]
                        /\ run[r].pc = "opening" /\ UNCHANGED <<status, gen>>
        BY <1>4, <3>2 DEF Opens, OpensWith
      <4>2. QED
        BY <1>0, <4>1
    <3>3. QED
      BY <3>1, <3>2
  <2>2. QED
    BY <1>0, <2>1 DEF NeedsSlot, StillTracked, Newest, CurrentStatus
<1>5. CASE Chunk(r)
  <2>1. \/ run' = [run EXCEPT ![r].pc = "closing", ![r].out = "stopped"]
        \/ run' = [run EXCEPT ![r].next = @ + 1]
    BY <1>5 DEF Chunk
  <2>2. run'[r].tries = run[r].tries /\ run'[r].gen = run[r].gen
    BY <1>0, <2>1
  <2>3. run[r].pc = "streaming" /\ UNCHANGED <<status, gen>>
    BY <1>5 DEF Chunk
  <2>4. QED
    BY <1>0, <2>2, <2>3 DEF NeedsSlot, StillTracked, Newest, CurrentStatus
<1>6. CASE BackoffEnds(r)
  <2>1. run'[r].pc = "done" \/ run'[r].tries = run[r].tries
    BY <1>0, <1>6 DEF BackoffEnds, Attempt, LeaveWithSlot, Leave, OverRun, NewRun
  <2>2. QED
    BY <1>0, <1>6, <2>1 DEF BackoffEnds
<1>7. CASE Launch(r)
  BY <1>0, <1>7 DEF Launch, OverRun, NewRun
<1>8. CASE Refused(r) \/ Ends(r)
  BY <1>0, <1>8 DEF Refused, Ends, LeaveWithSlot, Leave, OverRun, NewRun
<1>9. CASE StreamEnds(r)
  BY <1>0, <1>9 DEF StreamEnds
<1>10. CASE FailClosed(r)
  BY <1>0, <1>10 DEF FailClosed
<1>11. CASE Retries(r)
  BY <1>0, <1>11 DEF Retries
<1>12. CASE GivesUp(r)
  BY <1>0, <1>12 DEF GivesUp, Leave, OverRun, NewRun
<1>13. QED
  BY <1>1, <1>2, <1>3, <1>4, <1>5, <1>6, <1>7, <1>8, <1>9, <1>10, <1>11,
     <1>12 DEF RunStep, OpenFails, StreamFails, Closed

(* A run gets into the backoff only by a retry, which it counts.           *)
LEMMA TriesCounted ==
  ASSUME HttpTypes, NEW q \in Run, RunStep(q), run'[q].pc = "backoff"
  PROVE  run'[q].tries # 0
<1>0. run \in [Run -> Locals] /\ run[q] \in Locals
  BY DEF HttpTypes
<1> USE DEF Locals
<1>1. CASE Retries(q)
  BY <1>0, <1>1 DEF Retries
<1>2. CASE Launch(q) \/ Marked(q)
  <2>1. CASE Launch(q)
    BY <1>0, <2>1 DEF Launch, OverRun, NewRun
  <2>2. CASE Marked(q)
    BY <1>0, <2>2 DEF Marked
  <2>3. QED
    BY <1>2, <2>1, <2>2
<1>3. CASE TakesTurn(q)
  BY <1>0, <1>3 DEF TakesTurn, Leave, OverRun, NewRun
<1>4. CASE Refused(q) \/ Ends(q)
  BY <1>0, <1>4 DEF Refused, Ends, LeaveWithSlot, Leave, OverRun, NewRun
<1>5. CASE Proceed(q)
  BY <1>0, <1>5 DEF Proceed, Attempt, LeaveWithSlot, Leave, OverRun, NewRun
<1>6. ASSUME NEW v, NEW p \in {"failing", "unwinding"}, Concludes(q, v, p)
      PROVE  FALSE
  BY <1>0, <1>6 DEF Concludes
<1>7. CASE Opens(q)
  <2>1. CASE ~StillTracked(q) \/ Cancelled(q)
    BY <1>6, <1>7, <2>1 DEF Opens
  <2>2. CASE ~(~StillTracked(q) \/ Cancelled(q))
    <3>1. PICK n, b : run' = [run EXCEPT ![q].pc = "streaming",
                                ![q].existing = 0, ![q].next = n, ![q].known = b]
      BY <1>7, <2>2 DEF Opens, OpensWith
    <3>2. QED
      BY <1>0, <3>1
  <2>3. QED
    BY <2>1, <2>2
<1>8. CASE Chunk(q)
  <2>1. \/ run' = [run EXCEPT ![q].pc = "closing", ![q].out = "stopped"]
        \/ run' = [run EXCEPT ![q].next = @ + 1]
    BY <1>8 DEF Chunk
  <2>2. QED
    BY <1>0, <1>8, <2>1 DEF Chunk
<1>9. CASE StreamEnds(q)
  BY <1>0, <1>9 DEF StreamEnds
<1>10. CASE FailClosed(q)
  BY <1>0, <1>10 DEF FailClosed
<1>11. CASE GivesUp(q)
  BY <1>0, <1>11 DEF GivesUp, Leave, OverRun, NewRun
<1>12. CASE BackoffEnds(q)
  BY <1>0, <1>12 DEF BackoffEnds, Attempt, LeaveWithSlot, Leave, OverRun, NewRun
<1>13. QED
  BY <1>1, <1>2, <1>3, <1>4, <1>5, <1>6, <1>7, <1>8, <1>9, <1>10, <1>11,
     <1>12 DEF RunStep, OpenFails, StreamFails, Closed

(* A step of a run leaves the slots of the other runs alone.               *)
LEMMA RunKeepsSlots ==
  ASSUME HttpInv, call \in [Run -> Q!CallState], NEW q \in Run, RunStep(q),
         run[q].pc = "backoff" => run[q].tries # 0
  PROVE  \E S : QueueKeeps(S) /\ \A r \in Run : Undisturbed(r, S)
<1>0. /\ HttpTypes /\ LinedUp /\ run \in [Run -> Locals]
      /\ OthersStay(q)
      /\ Launch(q) \/ GoesOn(q) \/ Leaves(q)
  BY RunFrame, RunKinds DEF HttpInv, HttpTypes
<1>1. PICK S : /\ QueueKeeps(S) /\ S \subseteq {q[1]}
               /\ S # {} => InBody(q) /\ run'[q].pc = "done"
  <2>1. CASE QueueKeeps({})
    BY <2>1
  <2>2. CASE QueueKeeps({q[1]}) /\ InBody(q) /\ run'[q].pc = "done"
    BY <2>2
  <2>3. QED
    BY <1>0, <2>1, <2>2, RunKeepsQueue
<1>2. ASSUME NEW r \in Run, r[1] # q[1] PROVE Undisturbed(r, S)
  <2>0. /\ r[1] \in Task /\ r[1] \notin S
        /\ \A n \in RunNo : <<r[1], n>> \in Run /\ <<r[1], n>> # q
    BY <1>1, <1>2, Pairs
  <2>1. /\ \A n \in RunNo : run'[<<r[1], n>>] = run[<<r[1], n>>]
        /\ tracked'[r[1]] = tracked[r[1]] /\ gen'[r[1]] = gen[r[1]]
        /\ removedIds' = removedIds
    BY <1>0, <1>2, <2>0 DEF OthersStay
  <2>2. CurrentStatus(r[1])' = CurrentStatus(r[1]) \/ tracked[r[1]] = 0
    <3>1. CASE tracked[r[1]] # 0
      <4>1. tracked[r[1]] \in 0..MaxObj
        BY <1>0, <2>0 DEF HttpTypes
      <4>2. tracked[r[1]] \in 1..MaxObj
        BY <3>1, <4>1, BoundsAssumption
      <4>3. <<r[1], tracked[r[1]]>> \in Object
        BY <2>0, <4>2, Pairs
      <4>4. <<r[1], tracked[r[1]]>> # Obj(q)
        BY <1>2 DEF Obj
      <4>5. QED
        BY <1>0, <2>1, <4>3, <4>4 DEF OthersStay, CurrentStatus
    <3>2. QED
      BY <3>1
  <2>3. CASE tracked[r[1]] = 0
    BY <2>1, <2>3 DEF Undisturbed, NeedsSlot, StillTracked
  <2>4. QED
    BY <2>0, <2>1, <2>2, <2>3, Apart
<1>3. ASSUME NEW r \in Run, r # q, r[1] = q[1] PROVE Undisturbed(r, S)
  <2> SUFFICES ASSUME NeedsSlot(r)', CurrentStatus(r[1])' \in Active,
                      ~Replaced(r[1])',
                      ~(call'[r] = "granted" /\ call[r] # "granted")
               PROVE  /\ NeedsSlot(r) /\ CurrentStatus(r[1]) \in Active
                      /\ ~Replaced(r[1]) /\ r[1] \notin S
    BY DEF Undisturbed, Active
  <2>0. /\ run'[r] = run[r] /\ r[1] \in Task
        /\ UNCHANGED <<tracked, removedIds>>
        /\ Live(r) /\ InBody(r)
    <3>1. run'[r] = run[r] /\ UNCHANGED <<tracked, removedIds>>
      BY <1>0, <1>3 DEF OthersStay
    <3>2. QED
      BY <3>1, Pairs DEF NeedsSlot, Live, InBody
  <2>1. CASE Launch(q)
    <3>1. status' = status /\ run[q].pc = "launching" /\ q[1] \in Task
      BY <2>1, Pairs DEF Launch
    <3>2. CASE status[Obj(q)] \in Active
      <4>1. gen'[r[1]] = gen[r[1]] + 1
        BY <1>0, <1>3, <2>0, <2>1, <3>2 DEF Launch, HttpTypes
      <4>2. run[r].gen \in Nat /\ gen[r[1]] \in Nat /\ run[r].gen <= gen[r[1]]
        BY <1>0, <2>0, LiveIsOld
      <4>3. run'[r].gen = gen'[r[1]]
        BY DEF NeedsSlot, StillTracked, Newest
      <4>4. QED
        BY <2>0, <4>1, <4>2, <4>3
    <3>3. CASE status[Obj(q)] \notin Active
      <4>1. /\ UNCHANGED gen /\ run' = [run EXCEPT ![q] = OverRun]
            /\ S = {}
        BY <1>1, <2>1, <3>1, <3>3 DEF Launch, InBody
      <4>2. CurrentStatus(r[1]) \in Active
        BY <2>0, <3>1 DEF CurrentStatus
      <4>3. ~Tracks(q)
        BY <1>3, <3>3, <4>2 DEF Tracks, Obj, CurrentStatus
      <4>4. ASSUME NEW n \in RunNo, run[<<r[1], n>>].pc = "launching",
                   Tracks(<<r[1], n>>)
            PROVE  FALSE
        <5>1. <<r[1], n>> # q /\ <<r[1], n>> \in Run
          BY <2>0, <4>3, <4>4, Pairs
        <5>2. run'[<<r[1], n>>] = run[<<r[1], n>>]
          BY <1>0, <5>1 DEF OthersStay
        <5>3. QED
          BY <2>0, <4>4, <5>2 DEF Replaced, Tracks
      <4>5. NeedsSlot(r)
        BY <2>0, <4>1 DEF NeedsSlot, StillTracked, Newest
      <4>6. QED
        BY <4>1, <4>2, <4>4, <4>5 DEF Replaced
    <3>4. QED
      BY <3>2, <3>3
  <2>2. CASE GoesOn(q) \/ Leaves(q)
    <3>1. /\ Live(q) /\ UNCHANGED gen /\ run'[q].pc # "launching"
      BY <1>0, <2>2 DEF GoesOn, Leaves, Leave, OverRun, NewRun
    <3>2. NeedsSlot(r) /\ Newest(r)
      BY <2>0, <3>1 DEF NeedsSlot, StillTracked, Newest
    <3>3. ~Newest(q)
      BY <1>0, <1>3, <2>0, <3>1, <3>2, OneNewest
    <3>4. CurrentStatus(r[1]) \in Active
      BY <2>0, <3>3, StaleRunQuiet DEF CurrentStatus
    <3>5. ~Replaced(r[1])
      <4>1. ASSUME NEW n \in RunNo, run[<<r[1], n>>].pc = "launching",
                   Tracks(<<r[1], n>>)
            PROVE  FALSE
        <5>1. <<r[1], n>> # q /\ <<r[1], n>> \in Run
          BY <2>0, <3>1, <4>1, Pairs DEF Live
        <5>2. run'[<<r[1], n>>] = run[<<r[1], n>>]
          BY <1>0, <5>1 DEF OthersStay
        <5>3. QED
          BY <2>0, <4>1, <5>2 DEF Replaced, Tracks
      <4>2. QED
        BY <4>1 DEF Replaced
    <3>6. r[1] \notin S
      <4>1. ASSUME InBody(q) PROVE FALSE
        <5>1. PICK t \in Task, m \in RunNo, n \in RunNo :
                r = <<t, m>> /\ q = <<t, n>> /\ m # n
          BY <1>3, Pairs
        <5>2. Behind(r, q) \/ Behind(q, r)
          BY <1>0, <2>0, <3>1, <5>1 DEF LinedUp, InLine
        <5>3. QED
          BY <2>0, <4>1, <5>2 DEF Behind, InBody
      <4>2. QED
        BY <1>1, <4>1
    <3>7. QED
      BY <3>2, <3>4, <3>5, <3>6
  <2>3. QED
    BY <1>0, <2>1, <2>2
<1>4. Undisturbed(q, S)
  <2> SUFFICES ASSUME NeedsSlot(q)', CurrentStatus(q[1])' \in Active,
                      ~Replaced(q[1])',
                      ~(call'[q] = "granted" /\ call[q] # "granted")
               PROVE  /\ NeedsSlot(q) /\ CurrentStatus(q[1]) \in Active
                      /\ ~Replaced(q[1]) /\ q[1] \notin S
    BY DEF Undisturbed, Active
  <2>1. /\ NeedsSlot(q) /\ CurrentStatus(q[1]) \in Active
        /\ run[q].pc # "launching" /\ run'[q].pc # "done"
    BY <1>0, SelfSlot
  <2>2. ~Replaced(q[1])
    <3>1. ASSUME NEW n \in RunNo, run[<<q[1], n>>].pc = "launching",
                 Tracks(<<q[1], n>>)
          PROVE  FALSE
      <4>1. <<q[1], n>> # q /\ <<q[1], n>> \in Run
        BY <2>1, <3>1, Pairs
      <4>2. run'[<<q[1], n>>] = run[<<q[1], n>>] /\ UNCHANGED tracked
        BY <1>0, <4>1 DEF OthersStay
      <4>3. QED
        BY <3>1, <4>2 DEF Replaced, Tracks
    <3>2. QED
      BY <3>1 DEF Replaced
  <2>3. QED
    BY <1>1, <2>1, <2>2
<1>5. QED
  BY <1>1, <1>2, <1>3, <1>4

(* The invariant of the slots is inductive, next to the other one.         *)
LEMMA SlotStepKeeps == HttpInv /\ SlotInv /\ [Next]_vars => SlotInv'
<1> SUFFICES ASSUME HttpInv, SlotInv, [Next]_vars PROVE SlotInv'
  OBVIOUS
<1>0. /\ HttpTypes /\ MadeInOrder /\ call \in [Run -> Q!CallState]
      /\ \A r \in Run : /\ HoldsSlot(r)
                        /\ run[r].pc = "backoff" => run[r].tries # 0
  BY DEF HttpInv, SlotInv
<1>1. PICK S : QueueKeeps(S) /\ \A r \in Run : Undisturbed(r, S)
  <2>1. ASSUME UNCHANGED <<tracked, status, gen, run, removedIds>>, QueueKeeps({})
        PROVE  QueueKeeps({}) /\ \A r \in Run : Undisturbed(r, {})
    BY <2>1, Apart DEF CurrentStatus
  <2>2. CASE SlotsStored \/ \E m \in SlotChoices : SetSlots(m)
    <3>1. /\ UNCHANGED <<tracked, status, gen, run, removedIds>>
          /\ QueueKeeps({})
      BY <1>0, <2>2, QueueSteps DEF SlotsStored, SetSlots, taskVars
    <3>2. QED
      BY <2>1, <3>1
  <2>3. CASE UNCHANGED vars
    <3>1. /\ UNCHANGED <<tracked, status, gen, run, removedIds>>
          /\ UNCHANGED queueVars
      BY <2>3 DEF vars, taskVars
    <3>2. QED
      BY <1>0, <2>1, <3>1, QueueSteps
  <2>4. QED
    BY <1>0, <2>2, <2>3, UserKeepsSlots, ClearKeepsSlots, RunKeepsSlots DEF Next
<1>2. \A r \in Run : HoldsSlot(r)'
  BY <1>0, <1>1, SlotStays
<1>3. ASSUME NEW r \in Run, run'[r].pc = "backoff" PROVE run'[r].tries # 0
  <2>1. ASSUME run'[r] = run[r] PROVE run'[r].tries # 0
    BY <1>0, <1>3, <2>1
  <2>2. ASSUME NEW q \in Run, RunStep(q) PROVE run'[r].tries # 0
    <3>1. CASE r = q
      BY <1>0, <1>3, <2>2, <3>1, TriesCounted
    <3>2. CASE r # q
      BY <1>0, <2>1, <2>2, <3>2, RunFrame DEF OthersStay
    <3>3. QED
      BY <3>1, <3>2
  <2>3. ASSUME NEW t \in Task, NEW k, Launching(t, k) PROVE run'[r].tries # 0
    <3>1. run'[r] = run[r] \/ run'[r].pc = "launching"
      BY <1>0, <2>3 DEF Launching, NewRun, HttpTypes
    <3>2. QED
      BY <1>3, <2>1, <3>1
  <2>4. QED
    BY <2>1, <2>2, <2>3 DEF Next, User, Continuation, AddBegins, AddStores,
       Pause, Resume, Restart, Reactivate, Remove, RemoveEnds, ClearCompleted,
       SetSlots, SlotsStored, vars
<1>4. QED
  BY <1>1, <1>2, <1>3 DEF SlotInv, QueueKeeps

(* A transfer that is neither cancelled nor about to be replaced, and has  *)
(* not come back from a retry, holds the slot of its task.                 *)
THEOREM FirstAttemptsHoldSlots == Spec => []FirstAttemptHoldsSlot
<1>1. Init => SlotInv
  <2> SUFFICES ASSUME Init PROVE SlotInv
    OBVIOUS
  <2>1. call \in [Run -> Q!CallState]
    BY DEF Init, Q!CallState
  <2>2. \A r \in Run : run[r].pc = "none"
    BY DEF Init, NewRun
  <2>3. QED
    BY <2>1, <2>2 DEF SlotInv, HoldsSlot, NeedsSlot
<1>2. HttpInv /\ SlotInv => FirstAttemptHoldsSlot
  <2> SUFFICES ASSUME HttpInv, SlotInv, NEW r \in Run,
                      run[r].pc \in {"opening", "streaming"},
                      StillTracked(r), ~Cancelled(r), run[r].tries = 0,
                      \A n \in RunNo : run[<<r[1], n>>].pc # "launching"
               PROVE  r[1] \in holders
    BY DEF FirstAttemptHoldsSlot
  <2>1. r[1] \notin removedIds /\ CurrentStatus(r[1]) \in Active
    BY WriterIsCurrent DEF HttpInv, Working
  <2>2. NeedsSlot(r) /\ ~Replaced(r[1])
    BY <2>1 DEF NeedsSlot, Replaced
  <2>3. QED
    BY <2>1, <2>2 DEF SlotInv, HoldsSlot
<1>3. QED
  BY <1>1, <1>2, HttpInvariant, SlotStepKeeps, PTL DEF Spec
=============================================================================
