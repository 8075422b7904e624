---------------------------- MODULE BangumiProofs ----------------------------
(***************************************************************************)
(* Proofs about what the Rust core has of Bangumi: the offline data        *)
(* (BangumiData), for any number of callers, calls and payloads; the       *)
(* requests (BangumiNetwork), for any number of calls, settings changes    *)
(* and keys; and the lists and threads (Catalogue), for any rows, lengths  *)
(* of pages and changes of the mode.                                       *)
(***************************************************************************)
EXTENDS BangumiData, BangumiNetwork, Catalogue, ListLemmas

-----------------------------------------------------------------------------
(* BangumiData: its types, that no stale payload stays in the slot, and    *)
(* that an index begun in calm and current is that of the file.            *)

(* A replacement of the file that no generation tells of yet.              *)
Unannounced == \E c \in Caller : task[c].pc = "written"

(* The payload a load holds, and the one an index holds, is the file's or  *)
(* is behind a replacement that is still to be told.                       *)
Follows(payload) == payload = file \/ Unannounced

Building == {"read", "missed", "parse", "install", "loaded"}

NotAhead ==
  /\ \A t \in Task : /\ task[t].loading <= generation
                     /\ task[t].started <= generation
  /\ index # Nobody => index.generation <= generation

InstallFollows ==
  \A t \in Task : task[t].pc = "install" /\ task[t].loading = generation
                    => Follows(task[t].data)

(* A build that may still be stored as current, and began in calm.         *)
Calm(t) == /\ builder = t /\ task[t].started = generation
           /\ ~task[t].raced

BuildCalm ==
  \A t \in Task : Calm(t) /\ task[t].pc \in Building
                    => \A c \in Caller : task[c].pc # "bumped"

BuildFollows ==
  \A t \in Task : Calm(t) /\ task[t].pc = "loaded" => Follows(task[t].data)

IndexFollows ==
  IndexCurrent /\ ~index.raced => Follows(index.payload)

(* Who holds the permit of builds is at one.                               *)
BuilderBuilds ==
  \A t \in Task : builder = t => task[t].pc \in Building \cup {"recheck"}

DataInv == /\ DataTypeOK /\ SlotIsFile /\ NotAhead /\ InstallFollows
           /\ BuildCalm /\ BuildFollows /\ IndexFollows /\ BuilderBuilds

(* What a task does in the steps that neither publish nor store anything.  *)
Moves(u) ==
  /\ u \in Caller => /\ task[u].pc \notin {"written", "bumped"}
                     /\ task'[u].pc # "bumped"
  /\ task'[u].loading <= generation /\ task'[u].started <= generation
  /\ task'[u].pc = "install" => task'[u].data = file
  /\ builder' = u =>
       \/ task'[u].pc = "recheck"
       \/ /\ builder = u
          /\ task[u].pc \in Building /\ task'[u].pc \in Building
          /\ task'[u].started = task[u].started
          /\ task'[u].raced = task[u].raced
          /\ task'[u].pc = "loaded" => slot # 0 /\ task'[u].data = slot

Rests(u) == task'[u] = task[u] /\ (builder' = u => builder = u)

-----------------------------------------------------------------------------
(* A fresh record is one of a task.                                        *)
LEMMA FreshTyped == Fresh \in TaskRecord
BY DataAssumption DEF Fresh, TaskRecord, Op, Payload

(* Spawning a build keeps the records of the tasks.                        *)
LEMMA SpawnTyped ==
  ASSUME NEW tasks \in [Task -> TaskRecord], builder \in Task \cup {Nobody},
         WithSpawn(tasks)
  PROVE  builder' \in Task \cup {Nobody} /\ task' \in [Task -> TaskRecord]
<1>1. [Fresh EXCEPT !.pc = "recheck", !.op = "build"] \in TaskRecord
  BY FreshTyped DEF TaskRecord, Op
<1>2. QED
  BY <1>1 DEF WithSpawn, Task

(* A spawn changes the record of the build only, and nobody else gets the  *)
(* permit by it.                                                           *)
LEMMA SpawnStarts ==
  ASSUME NEW tasks \in [Task -> TaskRecord], WithSpawn(tasks)
  PROVE  /\ \A u \in Caller : /\ task'[u] = tasks[u]
                              /\ builder' = u => builder = u
         /\ \/ /\ task'[Background] = tasks[Background]
               /\ builder' = Background => builder = Background
            \/ /\ task'[Background].pc = "recheck"
               /\ task'[Background].loading = 0
               /\ task'[Background].started = 0
<1>1. CASE builder = Nobody
  <2>1. /\ builder' = Background
        /\ task' = [tasks EXCEPT ![Background] =
                      [Fresh EXCEPT !.pc = "recheck", !.op = "build"]]
    BY <1>1 DEF WithSpawn
  <2>2. /\ Background \in Task /\ Background \notin Caller
        /\ Caller \subseteq Task
    BY DataAssumption DEF Task
  <2>3. task'[Background] = [Fresh EXCEPT !.pc = "recheck", !.op = "build"]
    BY <2>1, <2>2
  <2>4. QED
    BY <2>1, <2>2, <2>3 DEF Fresh
<1>2. CASE builder # Nobody
  BY <1>2 DEF WithSpawn
<1>3. QED
  BY <1>1, <1>2

(* Every step keeps the types.                                             *)
LEMMA StepTyped == DataTypeOK /\ [DataNext]_dataVars => DataTypeOK'
<1> SUFFICES ASSUME DataTypeOK, [DataNext]_dataVars PROVE DataTypeOK'
  OBVIOUS
<1> USE DataAssumption, FreshTyped DEF DataTypeOK
<1>0. MaxWrites \in Nat /\ 0 \in Payload
  BY DEF Payload
<1>a. Caller \subseteq Task
  BY DEF Task
<1>b. {"refresh", "schedule", "local", "build"} \subseteq Op
  BY DEF Op
<1>1. ASSUME NEW c \in Caller, Refresh(c) PROVE DataTypeOK'
  <2>1. task' \in [Task -> TaskRecord]
    BY <1>0, <1>a, <1>b, <1>1 DEF Refresh, Queue, TaskRecord
  <2>2. QED
    BY <1>0, <1>1, <2>1 DEF Refresh, Begins
<1>2. ASSUME NEW c \in Caller, Warmup(c) PROVE DataTypeOK'
  BY <1>0, <1>2 DEF Warmup, Begins, Queue, TaskRecord, Op, Task, Payload
<1>3. ASSUME NEW c \in Caller, Schedule(c) PROVE DataTypeOK'
  BY <1>0, <1>3 DEF Schedule, Begins, Queue, TaskRecord, Op, Task, Payload
<1>4. ASSUME NEW c \in Caller, ScheduleLocal(c) PROVE DataTypeOK'
  <2>1. task' \in [Task -> TaskRecord]
    BY <1>0, <1>a, <1>b, <1>4 DEF ScheduleLocal, TaskRecord
  <2>2. QED
    BY <1>0, <1>4, <2>1 DEF ScheduleLocal, Begins
<1>5. ASSUME NEW c \in Caller, Build(c) PROVE DataTypeOK'
  <2>1. task' \in [Task -> TaskRecord]
    BY <1>0, <1>a, <1>b, <1>5 DEF Build, TaskRecord
  <2>2. QED
    BY <1>0, <1>5, <2>1 DEF Build, Begins
<1>6. ASSUME NEW c \in Caller, Lookup(c) PROVE DataTypeOK'
  <2>1. CASE IndexCurrent
    BY <1>6, <2>1 DEF Lookup, Begins
  <2>2. CASE ~IndexCurrent
    <3>1. WithSpawn(task)
      BY <1>6, <2>2 DEF Lookup
    <3>2. QED
      BY <1>6, <3>1, SpawnTyped DEF Lookup, Begins
  <2>3. QED
    BY <2>1, <2>2
<1>7. ASSUME NEW c \in Caller, TakePermit(c) PROVE DataTypeOK'
  <2>1. task' \in [Task -> TaskRecord]
    BY <1>0, <1>a, <1>b, <1>7 DEF TakePermit, TaskRecord
  <2>2. QED
    BY <1>0, <1>7, <2>1 DEF TakePermit
<1>8. ASSUME NEW c \in Caller, Downloaded(c) PROVE DataTypeOK'
  <2>1. task' \in [Task -> TaskRecord]
    BY <1>0, <1>8 DEF Downloaded, Goto, TaskRecord, Op, Task
  <2>2. file' \in Payload
    BY <1>0, <1>8 DEF Downloaded, Payload
  <2>3. file' # 0
    BY <1>0, <1>8 DEF Downloaded, Payload
  <2>4. QED
    BY <1>8, <2>1, <2>2, <2>3 DEF Downloaded
<1>9. ASSUME NEW c \in Caller, DownloadFailed(c) PROVE DataTypeOK'
  BY <1>0, <1>9 DEF DownloadFailed, Goto, Return, TaskRecord, Op, Task,
     Payload
<1>10. ASSUME NEW c \in Caller, Bump(c) PROVE DataTypeOK'
  BY <1>0, <1>10 DEF Bump, Goto, TaskRecord, Op, Task, Payload
<1>11. ASSUME NEW c \in Caller, ClearSlot(c) PROVE DataTypeOK'
  BY <1>0, <1>11 DEF ClearSlot, Goto, TaskRecord, Op, Task, Payload
<1>12. ASSUME NEW c \in Caller, ClearIndex(c) PROVE DataTypeOK'
  <2>1. task' \in [Task -> TaskRecord] /\ builder' \in Task \cup {Nobody}
    <3>1. CASE task[c].op = "refresh"
      BY <1>12, <3>1 DEF ClearIndex, TaskRecord, Op, Task
    <3>2. CASE task[c].op = "warmup"
      BY <1>12, <3>2 DEF ClearIndex, Return
    <3>3. CASE task[c].op \notin {"refresh", "warmup"}
      <4>1. WithSpawn([task EXCEPT ![c].pc = "read"])
        BY <1>12, <3>3 DEF ClearIndex
      <4>2. [task EXCEPT ![c].pc = "read"] \in [Task -> TaskRecord]
        BY DEF TaskRecord, Task
      <4>3. QED
        BY <4>1, <4>2, SpawnTyped
    <3>4. QED
      BY <3>1, <3>2, <3>3
  <2>2. QED
    BY <1>12, <2>1 DEF ClearIndex
<1>13. ASSUME NEW c \in Caller, TakeBuild(c) PROVE DataTypeOK'
  BY <1>0, <1>13 DEF TakeBuild, Goto, TaskRecord, Op, Task, Payload
<1>14. ASSUME NEW c \in Caller, Answer(c) PROVE DataTypeOK'
  BY <1>0, <1>14 DEF Answer, Return, TaskRecord, Op, Task, Payload
<1>15. ASSUME NEW t \in Task, ReadSlot(t) PROVE DataTypeOK'
  BY <1>0, <1>15 DEF ReadSlot, Goto, TaskRecord, Op, Task, Payload
<1>16. ASSUME NEW t \in Task, NoteGeneration(t) PROVE DataTypeOK'
  BY <1>0, <1>16 DEF NoteGeneration, TaskRecord, Op, Task, Payload
<1>17. ASSUME NEW t \in Task, Parse(t) PROVE DataTypeOK'
  BY <1>0, <1>17 DEF Parse, TaskRecord, Op, Task, Payload
<1>18. ASSUME NEW t \in Task, ParseFails(t) PROVE DataTypeOK'
  BY <1>0, <1>18 DEF ParseFails, Queue, Return, BuilderAfter, TaskRecord, Op,
     Task, Payload
<1>19. ASSUME NEW t \in Task, Install(t) PROVE DataTypeOK'
  BY <1>0, <1>19 DEF Install, Goto, TaskRecord, Op, Task, Payload
<1>20. ASSUME NEW t \in Task, Recheck(t) PROVE DataTypeOK'
  BY <1>0, <1>20 DEF Recheck, Return, TaskRecord, Op, Task, Payload
<1>21. ASSUME NEW t \in Task, StoreIndex(t) PROVE DataTypeOK'
  BY <1>0, <1>21 DEF StoreIndex, NewIndex, Return, IndexRecord, TaskRecord,
     Op, Task, Payload
<1>22. CASE UNCHANGED dataVars
  BY <1>22 DEF dataVars
<1>23. QED
  BY <1>1, <1>2, <1>3, <1>4, <1>5, <1>6, <1>7, <1>8, <1>9, <1>10, <1>11,
     <1>12, <1>13, <1>14, <1>15, <1>16, <1>17, <1>18, <1>19, <1>20, <1>21,
     <1>22 DEF DataNext, Calls, Steps

-----------------------------------------------------------------------------
(* A step that only moves tasks keeps the invariant.                       *)
LEMMA QuietStep ==
  ASSUME DataInv, DataTypeOK', file' = file, slot' = slot,
         generation' = generation, index' = index \/ index' = Nobody,
         \A u \in Task : Rests(u) \/ Moves(u)
  PROVE  DataInv'
<1> USE DEF DataInv
<1>1. \A c \in Caller : /\ task[c].pc = "written" => task'[c].pc = "written"
                        /\ task[c].pc = "bumped" => task'[c].pc = "bumped"
                        /\ task'[c].pc = "bumped" => task[c].pc = "bumped"
  BY DEF Rests, Moves, Task
<1>2. Unannounced => Unannounced'
  BY <1>1 DEF Unannounced
<1>3. Publishing' = {} => Publishing = {}
  BY <1>1 DEF Publishing
<1>4. SlotIsFile'
  BY <1>3 DEF SlotIsFile
<1>5. NotAhead'
  BY DEF NotAhead, Rests, Moves
<1>6. InstallFollows'
  BY <1>2 DEF InstallFollows, Follows, Rests, Moves
<1>7. BuildCalm'
  <2> SUFFICES ASSUME NEW t \in Task, Calm(t)', (task[t].pc)' \in Building
               PROVE  Calm(t) /\ task[t].pc \in Building
    BY <1>1 DEF BuildCalm
  <2>1. QED
    BY DEF Calm, Rests, Moves, Building
<1>8. BuildFollows'
  <2> SUFFICES ASSUME NEW t \in Task, Calm(t)', (task[t].pc)' = "loaded"
               PROVE  Follows(task[t].data)'
    BY DEF BuildFollows
  <2>1. CASE Rests(t)
    BY <2>1, <1>2 DEF Rests, BuildFollows, Calm, Follows
  <2>2. CASE Moves(t)
    <3>1. /\ Calm(t) /\ task[t].pc \in Building
          /\ slot # 0 /\ task'[t].data = slot
      BY <2>2 DEF Moves, Calm
    <3>2. \A c \in Caller : task[c].pc # "bumped"
      BY <3>1 DEF BuildCalm
    <3>3. slot = file \/ Unannounced
      BY <3>1, <3>2 DEF SlotIsFile, Publishing, Unannounced
    <3>4. QED
      BY <3>1, <3>3, <1>2 DEF Follows
  <2>3. QED
    BY <2>1, <2>2
<1>9. IndexFollows'
  BY <1>2 DEF IndexFollows, IndexCurrent, Follows
<1>10. BuilderBuilds'
  BY DEF BuilderBuilds, Rests, Moves
<1>11. QED
  BY <1>4, <1>5, <1>6, <1>7, <1>8, <1>9, <1>10

-----------------------------------------------------------------------------
(* Every step keeps the invariant: those that only move tasks by the lemma *)
(* above, the others one conjunct at a time.                               *)
LEMMA StepKeeps == DataInv /\ [DataNext]_dataVars => DataInv'
<1> SUFFICES ASSUME DataInv, [DataNext]_dataVars PROVE DataInv'
  OBVIOUS
<1>0. DataTypeOK /\ DataTypeOK'
  BY StepTyped DEF DataInv
<1>a. /\ task \in [Task -> TaskRecord] /\ task' \in [Task -> TaskRecord]
      /\ generation \in Nat /\ Caller \subseteq Task
  BY <1>0 DEF DataTypeOK, Task
<1>b. /\ NotAhead /\ BuilderBuilds
      /\ \A t \in Task :
           builder = t => task[t].pc \in Building \cup {"recheck"}
      /\ Fresh.pc = "idle" /\ Fresh.loading = 0 /\ Fresh.started = 0
  BY DEF DataInv, BuilderBuilds, Fresh
<1>1. ASSUME NEW c \in Caller, Refresh(c) PROVE DataInv'
  <2>1. \A u \in Task : Rests(u) \/ Moves(u)
    BY <1>a, <1>b, <1>1 DEF Refresh, Begins, Queue, Rests, Moves, Building,
       NotAhead, TaskRecord
  <2>2. QED
    BY <1>0, <1>1, <2>1, QuietStep DEF Refresh
<1>2. ASSUME NEW c \in Caller, Warmup(c) PROVE DataInv'
  <2>1. \A u \in Task : Rests(u) \/ Moves(u)
    BY <1>a, <1>b, <1>2 DEF Warmup, Begins, Queue, Rests, Moves, Building,
       NotAhead, TaskRecord
  <2>2. QED
    BY <1>0, <1>2, <2>1, QuietStep DEF Warmup
<1>3. ASSUME NEW c \in Caller, Schedule(c) PROVE DataInv'
  <2>1. \A u \in Task : Rests(u) \/ Moves(u)
    BY <1>a, <1>b, <1>3 DEF Schedule, Begins, Queue, Rests, Moves, Building,
       NotAhead, TaskRecord
  <2>2. QED
    BY <1>0, <1>3, <2>1, QuietStep DEF Schedule
<1>4. ASSUME NEW c \in Caller, ScheduleLocal(c) PROVE DataInv'
  <2>1. \A u \in Task : Rests(u) \/ Moves(u)
    BY <1>a, <1>b, <1>4 DEF ScheduleLocal, Begins, Rests, Moves, Building,
       NotAhead, TaskRecord
  <2>2. QED
    BY <1>0, <1>4, <2>1, QuietStep DEF ScheduleLocal
<1>5. ASSUME NEW c \in Caller, Build(c) PROVE DataInv'
  <2>1. \A u \in Task : Rests(u) \/ Moves(u)
    BY <1>a, <1>b, <1>5 DEF Build, Begins, Rests, Moves, Building, NotAhead,
       TaskRecord
  <2>2. QED
    BY <1>0, <1>5, <2>1, QuietStep DEF Build
<1>6. ASSUME NEW c \in Caller, Lookup(c) PROVE DataInv'
  <2>1. \A u \in Task : Rests(u) \/ Moves(u)
    <3>1. CASE IndexCurrent
      BY <1>6, <3>1 DEF Lookup, Rests
    <3>2. CASE ~IndexCurrent
      <4>1. WithSpawn(task)
        BY <1>6, <3>2 DEF Lookup
      <4>2. QED
        BY <1>a, <4>1, SpawnStarts, DataAssumption DEF Rests, Moves, Task
    <3>3. QED
      BY <3>1, <3>2
  <2>2. QED
    BY <1>0, <1>6, <2>1, QuietStep DEF Lookup
<1>7. ASSUME NEW c \in Caller, TakePermit(c) PROVE DataInv'
  <2>1. \A u \in Task : Rests(u) \/ Moves(u)
    BY <1>a, <1>b, <1>7 DEF TakePermit, Rests, Moves, Building, NotAhead,
       TaskRecord
  <2>2. QED
    BY <1>0, <1>7, <2>1, QuietStep DEF TakePermit
<1>8. ASSUME NEW c \in Caller, DownloadFailed(c) PROVE DataInv'
  <2>1. \A u \in Task : Rests(u) \/ Moves(u)
    BY <1>a, <1>b, <1>8 DEF DownloadFailed, Goto, Return, Rests, Moves,
       Building, NotAhead, TaskRecord
  <2>2. QED
    BY <1>0, <1>8, <2>1, QuietStep DEF DownloadFailed
<1>9. ASSUME NEW c \in Caller, ClearIndex(c) PROVE DataInv'
  <2>0. /\ task[c].pc = "cleared" /\ builder # c
        /\ task[c].loading <= generation /\ task[c].started <= generation
    BY <1>a, <1>b, <1>9 DEF ClearIndex, Building, NotAhead
  <2>1. \A u \in Task : Rests(u) \/ Moves(u)
    <3>1. CASE task[c].op = "refresh"
      BY <1>a, <1>9, <2>0, <3>1 DEF ClearIndex, Rests, Moves, TaskRecord
    <3>2. CASE task[c].op = "warmup"
      BY <1>a, <1>b, <1>9, <2>0, <3>2 DEF ClearIndex, Return, Rests, Moves
    <3>3. CASE task[c].op \notin {"refresh", "warmup"}
      <4> DEFINE tasks == [task EXCEPT ![c].pc = "read"]
      <4>1. WithSpawn(tasks)
        BY <1>9, <3>3 DEF ClearIndex
      <4>2. /\ tasks \in [Task -> TaskRecord]
            /\ \A u \in Task \ {c} : tasks[u] = task[u]
            /\ tasks[c].pc = "read" /\ tasks[c].loading = task[c].loading
            /\ tasks[c].started = task[c].started
        BY <1>a DEF TaskRecord
      <4> HIDE DEF tasks
      <4>3. ASSUME NEW u \in Caller PROVE Rests(u) \/ Moves(u)
        <5>1. task'[u] = tasks[u] /\ (builder' = u => builder = u)
          BY <4>1, <4>2, SpawnStarts
        <5>2. QED
          BY <1>a, <2>0, <4>2, <5>1 DEF Rests, Moves
      <4>4. Rests(Background) \/ Moves(Background)
        <5>1. tasks[Background] = task[Background]
          BY <4>2, DataAssumption DEF Task
        <5>2. QED
          BY <1>a, <4>1, <4>2, <5>1, SpawnStarts, DataAssumption
             DEF Rests, Moves
      <4>5. QED
        BY <4>3, <4>4 DEF Task
    <3>4. QED
      BY <3>1, <3>2, <3>3
  <2>2. QED
    BY <1>0, <1>9, <2>1, QuietStep DEF ClearIndex
<1>10. ASSUME NEW c \in Caller, TakeBuild(c) PROVE DataInv'
  <2>1. \A u \in Task : Rests(u) \/ Moves(u)
    BY <1>a, <1>b, <1>10 DEF TakeBuild, Goto, Rests, Moves, Building,
       NotAhead, TaskRecord
  <2>2. QED
    BY <1>0, <1>10, <2>1, QuietStep DEF TakeBuild
<1>11. ASSUME NEW c \in Caller, Answer(c) PROVE DataInv'
  <2>1. \A u \in Task : Rests(u) \/ Moves(u)
    BY <1>a, <1>b, <1>11 DEF Answer, Return, Rests, Moves, Building, NotAhead,
       TaskRecord
  <2>2. QED
    BY <1>0, <1>11, <2>1, QuietStep DEF Answer
<1>12. ASSUME NEW t \in Task, ReadSlot(t) PROVE DataInv'
  <2>1. \A u \in Task : Rests(u) \/ Moves(u)
    BY <1>a, <1>b, <1>12 DEF ReadSlot, Goto, Rests, Moves, Building, NotAhead,
       TaskRecord
  <2>2. QED
    BY <1>0, <1>12, <2>1, QuietStep DEF ReadSlot
<1>13. ASSUME NEW t \in Task, NoteGeneration(t) PROVE DataInv'
  <2>1. \A u \in Task : Rests(u) \/ Moves(u)
    BY <1>a, <1>b, <1>13 DEF NoteGeneration, Rests, Moves, Building, NotAhead,
       TaskRecord
  <2>2. QED
    BY <1>0, <1>13, <2>1, QuietStep DEF NoteGeneration
<1>14. ASSUME NEW t \in Task, Parse(t) PROVE DataInv'
  <2>1. \A u \in Task : Rests(u) \/ Moves(u)
    BY <1>a, <1>b, <1>14 DEF Parse, Rests, Moves, Building, NotAhead,
       TaskRecord
  <2>2. QED
    BY <1>0, <1>14, <2>1, QuietStep DEF Parse
<1>15. ASSUME NEW t \in Task, ParseFails(t) PROVE DataInv'
  <2>0. /\ task[t].pc = "parse" /\ builder' # t
        /\ builder' = builder \/ builder' = Nobody
        /\ \A u \in Task : u # Nobody
        /\ task[t].loading <= generation /\ task[t].started <= generation
    BY <1>a, <1>b, <1>15, DataAssumption DEF ParseFails, BuilderAfter, Task,
       NotAhead
  <2>1. \A u \in Task : Rests(u) \/ Moves(u)
    <3>1. \A u \in Task \ {t} : task'[u] = task[u]
      BY <1>a, <1>15 DEF ParseFails, Queue, Return
    <3>2. /\ task'[t].pc \in {"queued", "idle"}
          /\ task'[t].loading \in {0, task[t].loading}
          /\ task'[t].started \in {0, task[t].started}
      BY <1>a, <1>b, <1>15 DEF ParseFails, Queue, Return, TaskRecord
    <3>3. QED
      BY <1>a, <2>0, <3>1, <3>2 DEF Rests, Moves
  <2>2. QED
    BY <1>0, <1>15, <2>1, QuietStep DEF ParseFails
<1>16. ASSUME NEW c \in Caller, Downloaded(c) PROVE DataInv'
  <2>1. /\ Unannounced' /\ Publishing' # {}
        /\ UNCHANGED <<slot, generation, index, builder>>
    BY <1>a, <1>16 DEF Downloaded, Goto, Unannounced, Publishing, TaskRecord
  <2>2. \A u \in Task :
          /\ u # c => task'[u] = task[u]
          /\ task'[u].loading = task[u].loading
          /\ task'[u].started = task[u].started
          /\ task'[u].pc = IF u = c THEN "written" ELSE task[u].pc
    BY <1>a, <1>16 DEF Downloaded, Goto, TaskRecord
  <2>3. task[c].pc = "downloading"
    BY <1>16 DEF Downloaded
  <2>4. SlotIsFile' /\ InstallFollows' /\ BuildFollows' /\ IndexFollows'
    BY <2>1 DEF SlotIsFile, InstallFollows, BuildFollows, IndexFollows,
       Follows
  <2>5. NotAhead'
    BY <1>b, <2>1, <2>2 DEF NotAhead
  <2>6. BuildCalm' /\ BuilderBuilds'
    BY <1>a, <1>b, <2>1, <2>2, <2>3 DEF DataInv, BuildCalm, BuilderBuilds,
       Building, Calm
  <2>7. QED
    BY <1>0, <2>4, <2>5, <2>6 DEF DataInv
<1>17. ASSUME NEW c \in Caller, Bump(c) PROVE DataInv'
  <2>1. /\ generation' = generation + 1
        /\ UNCHANGED <<file, slot, index, builder>>
        /\ task[c].pc = "written"
    BY <1>17 DEF Bump
  <2>2. \A u \in Task :
          /\ task'[u].loading = task[u].loading
          /\ task'[u].started = task[u].started
          /\ task'[u].pc = IF u = c THEN "bumped" ELSE task[u].pc
    BY <1>a, <1>17 DEF Bump, Goto, TaskRecord
  <2>3. Publishing' # {}
    BY <1>a, <2>2 DEF Publishing
  <2>4. index # Nobody => index.generation \in Nat
    BY <1>0 DEF DataTypeOK, IndexRecord
  <2>5. /\ \A u \in Task : /\ task'[u].loading < generation'
                           /\ task'[u].started < generation'
        /\ index' # Nobody => index'.generation < generation'
    BY <1>a, <1>b, <2>1, <2>2, <2>4 DEF NotAhead, TaskRecord
  <2>6. SlotIsFile'
    BY <2>3 DEF SlotIsFile
  <2>7. /\ NotAhead' /\ InstallFollows' /\ BuildCalm' /\ BuildFollows'
        /\ IndexFollows'
    <3>1. \A u \in Task : /\ task'[u].loading \in Nat
                          /\ task'[u].started \in Nat
      BY <1>a DEF TaskRecord
    <3>2. generation' \in Nat
      BY <1>a, <2>1
    <3>3. QED
      BY <2>1, <2>4, <2>5, <3>1, <3>2 DEF NotAhead, InstallFollows,
         BuildCalm, BuildFollows, IndexFollows, IndexCurrent, Calm
  <2>8. BuilderBuilds'
    BY <1>a, <1>b, <2>1, <2>2 DEF BuilderBuilds, Building
  <2>9. QED
    BY <1>0, <2>6, <2>7, <2>8 DEF DataInv
<1>18. ASSUME NEW c \in Caller, ClearSlot(c) PROVE DataInv'
  <2>1. /\ slot' = 0 /\ UNCHANGED <<file, generation, index, builder>>
        /\ task[c].pc = "bumped"
    BY <1>18 DEF ClearSlot
  <2>2. \A u \in Task :
          /\ u # c => task'[u] = task[u]
          /\ task'[u].loading = task[u].loading
          /\ task'[u].started = task[u].started
          /\ task'[u].raced = task[u].raced
          /\ task'[u].data = task[u].data
          /\ task'[u].pc = IF u = c THEN "cleared" ELSE task[u].pc
    BY <1>a, <1>18 DEF ClearSlot, Goto, TaskRecord
  <2>3. Unannounced => Unannounced'
    BY <1>a, <2>1, <2>2 DEF Unannounced
  <2>4. SlotIsFile'
    BY <2>1 DEF SlotIsFile
  <2>5. NotAhead' /\ BuilderBuilds'
    BY <1>a, <1>b, <2>1, <2>2 DEF NotAhead, BuilderBuilds, Building
  <2>6. InstallFollows' /\ BuildFollows' /\ IndexFollows'
    BY <2>1, <2>2, <2>3 DEF DataInv, InstallFollows, BuildFollows,
       IndexFollows, IndexCurrent, Follows, Calm
  <2>7. BuildCalm'
    BY <1>a, <2>1, <2>2 DEF DataInv, BuildCalm, Calm, Building
  <2>8. QED
    BY <1>0, <2>4, <2>5, <2>6, <2>7 DEF DataInv
<1>19. ASSUME NEW t \in Task, Install(t) PROVE DataInv'
  <2>1. /\ UNCHANGED <<file, generation, index, builder>>
        /\ task[t].pc = "install"
    BY <1>19 DEF Install
  <2>2. \A u \in Task :
          /\ u # t => task'[u] = task[u]
          /\ task'[u].started = task[u].started
          /\ task'[u].raced = task[u].raced
          /\ task'[u].loading <= task[u].loading
          /\ u = t => task'[u].pc \in {"read", "loaded"}
    BY <1>a, <1>19 DEF Install, TaskRecord
  <2>3. \/ task'[t].pc = "read" /\ slot' = slot
        \/ /\ task'[t].pc = "loaded" /\ task'[t].data = slot'
           /\ slot # 0 /\ slot' = slot
        \/ /\ task'[t].pc = "loaded" /\ task'[t].data = slot'
           /\ slot' = task[t].data /\ Follows(task[t].data)
    <3>1. CASE task[t].loading # generation
      BY <1>a, <1>19, <3>1 DEF Install, TaskRecord
    <3>2. CASE task[t].loading = generation
      <4>1. Follows(task[t].data)
        BY <2>1, <3>2 DEF DataInv, InstallFollows
      <4>2. QED
        BY <1>a, <1>19, <3>2, <4>1 DEF Install, TaskRecord
    <3>3. QED
      BY <3>1, <3>2
  <2>4. /\ Unannounced' <=> Unannounced
        /\ \A c \in Caller : task'[c].pc = "bumped" <=> task[c].pc = "bumped"
        /\ Publishing' = Publishing
    BY <1>a, <2>1, <2>2 DEF Unannounced, Publishing
  <2>5. \A p : Follows(p)' <=> Follows(p)
    BY <2>1, <2>4 DEF Follows
  <2>6. SlotIsFile'
    BY <2>1, <2>3, <2>4, <1>a DEF DataInv, SlotIsFile, Follows, Unannounced,
       Publishing
  <2>7. NotAhead'
    BY <1>a, <1>b, <2>1, <2>2 DEF NotAhead, TaskRecord
  <2>8. InstallFollows' /\ BuildCalm' /\ BuilderBuilds' /\ IndexFollows'
    BY <1>b, <2>1, <2>2, <2>4 DEF DataInv, InstallFollows, BuildCalm,
       BuilderBuilds, IndexFollows, IndexCurrent, Calm, Building, Follows
  <2>9. BuildFollows'
    <3> SUFFICES ASSUME NEW u \in Task, Calm(u)', (task[u].pc)' = "loaded"
                 PROVE  Follows(task[u].data)'
      BY DEF BuildFollows
    <3>1. Calm(u)
      BY <2>1, <2>2 DEF Calm
    <3>2. CASE u # t
      BY <2>1, <2>2, <2>4, <3>1, <3>2 DEF DataInv, BuildFollows, Follows
    <3>3. CASE u = t
      <4>1. \A c \in Caller : task[c].pc # "bumped"
        BY <2>1, <3>1, <3>3 DEF DataInv, BuildCalm, Building
      <4>2. slot # 0 => slot = file \/ Unannounced
        BY <4>1 DEF DataInv, SlotIsFile, Publishing, Unannounced
      <4>3. QED
        BY <2>1, <2>3, <2>4, <3>3, <4>2 DEF Follows
    <3>4. QED
      BY <3>2, <3>3
  <2>10. QED
    BY <1>0, <2>6, <2>7, <2>8, <2>9 DEF DataInv
<1>20. ASSUME NEW t \in Task, Recheck(t) PROVE DataInv'
  <2>1. CASE IndexCurrent
    <3>1. \A u \in Task : Rests(u) \/ Moves(u)
      BY <1>a, <1>b, <1>20, <2>1, DataAssumption DEF Recheck, Return, Rests,
         Moves, Task
    <3>2. QED
      BY <1>0, <1>20, <3>1, QuietStep DEF Recheck
  <2>2. CASE ~IndexCurrent
    <3>1. /\ UNCHANGED <<file, slot, generation, index, builder>>
          /\ task[t].pc = "recheck"
      BY <1>20, <2>2 DEF Recheck
    <3>2. /\ \A u \in Task \ {t} : task'[u] = task[u]
          /\ task'[t].pc = "read" /\ task'[t].started = generation
          /\ task'[t].loading = task[t].loading
          /\ task'[t].raced = (Publishing # {})
      BY <1>a, <1>20, <2>2 DEF Recheck, TaskRecord
    <3>3. /\ Unannounced' <=> Unannounced
          /\ \A c \in Caller :
               task'[c].pc = "bumped" <=> task[c].pc = "bumped"
          /\ Publishing' = Publishing
      BY <1>a, <3>1, <3>2 DEF Unannounced, Publishing
    <3>4. SlotIsFile' /\ IndexFollows'
      BY <3>1, <3>3 DEF DataInv, SlotIsFile, IndexFollows, IndexCurrent,
         Follows
    <3>5. NotAhead' /\ BuilderBuilds'
      BY <1>a, <1>b, <3>1, <3>2 DEF NotAhead, BuilderBuilds, Building
    <3>6. InstallFollows' /\ BuildFollows'
      BY <3>1, <3>2, <3>3 DEF DataInv, InstallFollows, BuildFollows, Follows,
         Calm
    <3>7. BuildCalm'
      BY <3>1, <3>2, <3>3 DEF DataInv, BuildCalm, Calm, Building, Publishing
    <3>8. QED
      BY <1>0, <3>4, <3>5, <3>6, <3>7 DEF DataInv
  <2>3. QED
    BY <2>1, <2>2
<1>21. ASSUME NEW t \in Task, StoreIndex(t) PROVE DataInv'
  <2>1. /\ UNCHANGED <<file, slot, generation>> /\ builder' = Nobody
        /\ task[t].pc = "loaded" /\ builder = t
    BY <1>21 DEF StoreIndex
  <2>2. /\ \A u \in Task \ {t} : task'[u] = task[u]
        /\ task'[t] = Fresh
        /\ \A u \in Task : u # Nobody
    BY <1>a, <1>21, DataAssumption DEF StoreIndex, Return, Task
  <2>3. /\ Unannounced' <=> Unannounced
        /\ Publishing' = Publishing
    BY <1>a, <1>b, <2>1, <2>2 DEF Unannounced, Publishing
  <2>4. SlotIsFile' /\ BuildCalm' /\ BuildFollows' /\ BuilderBuilds'
    BY <2>1, <2>2, <2>3 DEF DataInv, SlotIsFile, BuildCalm, BuildFollows,
       BuilderBuilds, Calm
  <2>5. InstallFollows'
    BY <1>b, <2>1, <2>2, <2>3 DEF DataInv, InstallFollows, Follows
  <2>6. NotAhead' /\ IndexFollows'
    <3>1. CASE generation # task[t].started
      BY <1>a, <1>b, <1>21, <2>1, <2>2, <2>3, <3>1 DEF StoreIndex, DataInv,
         NotAhead, IndexFollows, IndexCurrent, Follows
    <3>2. CASE generation = task[t].started
      <4>1. /\ index'.generation = generation
            /\ index'.payload = task[t].data
            /\ index'.raced = task[t].raced
        BY <1>21, <3>2 DEF StoreIndex, NewIndex
      <4>2. ~task[t].raced => Follows(task[t].data)
        BY <2>1, <3>2 DEF DataInv, BuildFollows, Calm
      <4>3. QED
        BY <1>a, <1>b, <2>1, <2>2, <2>3, <4>1, <4>2 DEF NotAhead,
           IndexFollows, IndexCurrent, Follows
    <3>3. QED
      BY <3>1, <3>2
  <2>7. QED
    BY <1>0, <2>4, <2>5, <2>6 DEF DataInv
<1>22. CASE UNCHANGED dataVars
  BY <1>0, <1>22 DEF dataVars, DataInv, SlotIsFile, Publishing, NotAhead,
     InstallFollows, Follows, Unannounced, BuildCalm, BuildFollows, Calm,
     IndexFollows, IndexCurrent, BuilderBuilds
<1>23. QED
  BY <1>1, <1>2, <1>3, <1>4, <1>5, <1>6, <1>7, <1>8, <1>9, <1>10, <1>11,
     <1>12, <1>13, <1>14, <1>15, <1>16, <1>17, <1>18, <1>19,
     <1>20, <1>21, <1>22 DEF DataNext, Calls, Steps

-----------------------------------------------------------------------------
(* The application starts with nothing loaded and nothing under way.       *)
LEMMA InitHolds == DataInit => DataInv
<1> SUFFICES ASSUME DataInit PROVE DataInv
  OBVIOUS
<1>1. DataTypeOK
  BY DataAssumption, FreshTyped DEF DataInit, DataTypeOK, Payload, Task
<1>2. QED
  BY <1>1, DataAssumption DEF DataInit, DataInv, SlotIsFile, NotAhead,
     InstallFollows, BuildCalm, BuildFollows, Calm, IndexFollows,
     IndexCurrent, BuilderBuilds, Fresh, Task

(* The invariant holds throughout.                                         *)
LEMMA DataInvHolds == DataSpec => []DataInv
BY InitHolds, StepKeeps, PTL DEF DataSpec

(* The cells and the locals of the offline data have their types, for any  *)
(* number of calls, downloads and builds that overlap.                     *)
THEOREM DataTypes == DataSpec => []DataTypeOK
BY DataInvHolds, PTL DEF DataInv

(* A load that straddles a replacement of the file never leaves the old    *)
(* payload in the slot once the slot has been dropped.                     *)
THEOREM SlotFollowsFile == DataSpec => []SlotIsFile
BY DataInvHolds, PTL DEF DataInv

(* The index lookups answer from is that of the file, unless its build     *)
(* began while the file was being replaced.                                *)
THEOREM CalmIndexFollowsFile == DataSpec => []CalmIndexIsFile
<1>1. DataInv => CalmIndexIsFile
  BY DEF DataInv, IndexFollows, CalmIndexIsFile, Follows, Unannounced,
     Publishing
<1>2. QED
  BY <1>1, DataInvHolds, PTL

-----------------------------------------------------------------------------
(* BangumiNetwork: no credential goes to a mirror, and no client of an old *)
(* key is taken for current.                                               *)

(* What a call may hold: the hosts that are asked, or their mirrors.       *)
AskedHosts == {"bgm.tv", "api.bgm.tv", "next.bgm.tv", "lain.bgm.tv"}
Addressed ==
  {"none"} \cup AskedHosts \cup {Rewritten(h, TRUE) : h \in AskedHosts}

AskerRecord ==
  [pc : {"idle", "ensure", "backoff", "doh", "fetched", "choose", "epoch",
         "check", "lock", "pin", "send", "done"},
   op : {"none", "read", "oauth", "find", "update", "patch", "delete",
         "refresh"},
   host : Addressed, bearer : Nat \cup {Vacant},
   seen : Nat, built : Nat, attempt : Nat, applied : BOOLEAN,
   result : {"none", "ok", "nothing", "missing", "refused", "lost"}]

ClientRecord == [epoch : Nat, key : Nat, pinned : Nat]

CallsTyped ==
  /\ asker \in [Client -> AskerRecord]
  /\ token \in Nat \cup {Vacant}
  /\ key \in Nat /\ keys \in Nat /\ epoch \in Nat
  /\ client \in ClientRecord \cup {Vacant}

(* Nobody is between the publication of a key and the drop of the client.  *)
NothingPublished == \A c \in Client : asker[c].pc # "fetched"

EpochsNotAhead ==
  /\ \A c \in Client : asker[c].seen <= epoch
  /\ client # Vacant => client.epoch <= epoch

(* A build that may still be taken for current has the published key.      *)
PinHoldsKey ==
  \A c \in Client :
    (/\ asker[c].pc = "pin" /\ asker[c].seen = epoch
     /\ KeyFresh /\ NothingPublished)
      => asker[c].built = key

NetInv == /\ CallsTyped /\ CredentialsStayHome /\ EpochsNotAhead
          /\ PinHoldsKey /\ ClientHoldsKey

Home(c) == asker[c].bearer # Vacant \/ asker[c].op = "oauth"
             => asker[c].host \notin Mirrors

-----------------------------------------------------------------------------
(* The hosts that get a credential are no mirrors.                         *)
LEMMA HomeHosts ==
  {"none", "bgm.tv", "api.bgm.tv", "next.bgm.tv"} \cap Mirrors = {}
<1>1. Len(MirrorOf) = 6 /\ DOMAIN MirrorOf = 1..6
  BY DEF MirrorOf
<1>2. Mirrors = {MirrorOf[i] : i \in 1..6}
  BY <1>1 DEF Mirrors, ToSet
<1>3. \A i \in 1..6 :
        MirrorOf[i] \notin {"none", "bgm.tv", "api.bgm.tv", "next.bgm.tv"}
  BY DEF MirrorOf
<1>4. QED
  BY <1>2, <1>3

(* The record of a call that has not begun is one of a call.               *)
LEMMA IdleTyped == Idle \in AskerRecord
BY DEF Idle, AskerRecord, Addressed

(* A call begins with what it asks for, and changes nothing else.          *)
LEMMA AsksTyped ==
  ASSUME CallsTyped, NEW c \in Client, NEW op, NEW host \in Addressed,
         NEW bearer \in Nat \cup {Vacant},
         op \in {"read", "oauth", "find", "update", "patch", "delete"},
         Asks(c, op, host, bearer)
  PROVE  /\ asker' \in [Client -> AskerRecord]
         /\ \A d \in Client \ {c} : asker'[d] = asker[d]
         /\ asker'[c].pc = "ensure" /\ asker'[c].op = op
         /\ asker'[c].host = host /\ asker'[c].bearer = bearer
         /\ asker'[c].seen = 0
         /\ UNCHANGED <<settings, secrets, keys>>
<1> DEFINE r == [Idle EXCEPT !.pc = "ensure", !.op = op, !.host = host,
                             !.bearer = bearer, !.attempt = 1]
<1>1. /\ r \in AskerRecord
      /\ r.pc = "ensure" /\ r.op = op /\ r.host = host /\ r.bearer = bearer
      /\ r.seen = 0
  BY IdleTyped DEF AskerRecord, Idle
<1>2. asker' = [asker EXCEPT ![c] = r]
  BY DEF Asks
<1> HIDE DEF r
<1>3. QED
  BY <1>1, <1>2 DEF Asks, CallsTyped

(* A step in which one call goes on without a key or a client.             *)
LEMMA WalkStep ==
  ASSUME NetInv, NEW c \in Client, asker' \in [Client -> AskerRecord],
         UNCHANGED <<token, key, keys, expired, epoch, client>>,
         \A d \in Client \ {c} : asker'[d] = asker[d],
         asker[c].pc # "fetched", asker'[c].pc # "pin",
         asker'[c].seen <= epoch, Home(c)'
  PROVE  NetInv'
<1>1. KeyFresh' <=> KeyFresh
  BY DEF KeyFresh
<1>2. NothingPublished' => NothingPublished
  BY DEF NothingPublished
<1>3. CallsTyped'
  BY DEF NetInv, CallsTyped
<1>4. CredentialsStayHome'
  BY DEF NetInv, CredentialsStayHome, Home
<1>5. EpochsNotAhead'
  BY DEF NetInv, EpochsNotAhead
<1>6. PinHoldsKey'
  BY <1>1, <1>2 DEF NetInv, PinHoldsKey
<1>7. ClientHoldsKey'
  BY <1>1, <1>2 DEF NetInv, ClientHoldsKey, NothingPublished
<1>8. QED
  BY <1>3, <1>4, <1>5, <1>6, <1>7 DEF NetInv

(* A step that leaves the calls and the key alone, or lets it expire.      *)
LEMMA SettingStep ==
  ASSUME NetInv, UNCHANGED <<asker, key, keys, client>>,
         token' \in Nat \cup {Vacant},
         epoch' = epoch \/ epoch' = epoch + 1,
         expired' = expired \/ expired' = TRUE
  PROVE  NetInv'
<1>1. KeyFresh' => KeyFresh
  BY DEF KeyFresh
<1>2. epoch \in Nat /\ asker \in [Client -> AskerRecord]
      /\ client \in ClientRecord \cup {Vacant}
  BY DEF NetInv, CallsTyped
<1>3. CallsTyped'
  BY <1>2 DEF NetInv, CallsTyped
<1>4. CredentialsStayHome'
  BY DEF NetInv, CredentialsStayHome
<1>5. \A c \in Client : asker[c].seen \in Nat /\ asker[c].seen <= epoch
  BY <1>2 DEF NetInv, EpochsNotAhead, AskerRecord
<1>6. client # Vacant => client.epoch \in Nat /\ client.epoch <= epoch
  BY <1>2 DEF NetInv, EpochsNotAhead, ClientRecord
<1>7. EpochsNotAhead'
  BY <1>2, <1>5, <1>6 DEF EpochsNotAhead
<1>8. PinHoldsKey'
  BY <1>1, <1>2, <1>5 DEF NetInv, PinHoldsKey, NothingPublished
<1>9. ClientHoldsKey'
  BY <1>1, <1>2, <1>6 DEF NetInv, ClientHoldsKey
<1>10. QED
  BY <1>3, <1>4, <1>7, <1>8, <1>9 DEF NetInv

-----------------------------------------------------------------------------
(* Whatever a call asks for, it keeps the invariant if a credential goes   *)
(* to a host that is no mirror.                                            *)
LEMMA AsksKeeps ==
  ASSUME NetInv, NEW c \in Client, NEW op, NEW host \in Addressed,
         NEW bearer \in Nat \cup {Vacant},
         op \in {"read", "oauth", "find", "update", "patch", "delete"},
         bearer # Vacant \/ op = "oauth" => host \notin Mirrors,
         Asks(c, op, host, bearer)
  PROVE  NetInv'
<1>1. CallsTyped
  BY DEF NetInv
<1>2. asker[c].pc # "fetched" /\ 0 <= epoch
  BY <1>1 DEF Asks, Ready, CallsTyped
<1>3. /\ asker' \in [Client -> AskerRecord]
      /\ \A d \in Client \ {c} : asker'[d] = asker[d]
      /\ asker'[c].pc = "ensure" /\ asker'[c].op = op
      /\ asker'[c].host = host /\ asker'[c].bearer = bearer
      /\ asker'[c].seen = 0
      /\ UNCHANGED <<token, key, keys, expired, epoch, client>>
  <2>1. UNCHANGED <<settings, secrets, keys>>
    BY <1>1, AsksTyped
  <2>2. /\ asker' \in [Client -> AskerRecord]
        /\ \A d \in Client \ {c} : asker'[d] = asker[d]
    BY <1>1, AsksTyped
  <2>3. /\ asker'[c].pc = "ensure" /\ asker'[c].op = op
        /\ asker'[c].host = host /\ asker'[c].bearer = bearer
        /\ asker'[c].seen = 0
    BY <1>1, AsksTyped
  <2>4. QED
    BY <2>1, <2>2, <2>3 DEF settings, secrets
<1>4. Home(c)'
  BY <1>3 DEF Home
<1>5. QED
  BY <1>2, <1>3, <1>4, WalkStep

(* The calls that carry no credential may go to a mirror.                  *)
LEMMA PublicHosts ==
  \A h \in AskedHosts : Public(h) \in Addressed
BY DEF Public, Addressed

(* A new call keeps the invariant: with a token or the secret of the       *)
(* application it is composed for a canonical host.                        *)
LEMMA AccountKeeps ==
  ASSUME NetInv, NEW c \in Client, AccountCalls(c) PROVE NetInv'
<1>0. /\ token \in Nat \cup {Vacant} /\ Vacant \in Nat \cup {Vacant}
      /\ AskedHosts \subseteq Addressed
      /\ Public("api.bgm.tv") \in Addressed
      /\ Public("lain.bgm.tv") \in Addressed
      /\ Public("next.bgm.tv") \in Addressed
      /\ {"bgm.tv", "api.bgm.tv", "next.bgm.tv"} \subseteq AskedHosts
  BY PublicHosts DEF NetInv, CallsTyped, Addressed, AskedHosts
<1>1. CASE Profile(c) \/ Collections(c) \/ SubjectImage(c) \/ ImageUrl(c)
  BY <1>0, <1>1, AsksKeeps
     DEF Profile, Collections, SubjectImage, ImageUrl
<1>2. CASE NextContent(c)
  <2>1. NextHost \in Addressed /\ (token # Vacant => NextHost \notin Mirrors)
    BY <1>0, HomeHosts DEF NextHost
  <2>2. QED
    BY <1>0, <1>2, <2>1, AsksKeeps DEF NextContent
<1>3. CASE OAuth(c)
  BY <1>0, <1>3, HomeHosts, AsksKeeps DEF OAuth
<1>4. ASSUME NEW op \in {"read", "find", "update", "patch", "delete"},
             AsksAccount(c, op)
      PROVE  NetInv'
  BY <1>0, <1>4, HomeHosts, AsksKeeps DEF AsksAccount
<1>5. QED
  BY <1>1, <1>2, <1>3, <1>4 DEF AccountCalls, Me, MyCollections,
     MyCollection, UpdateCollection, PatchMetadata, DeleteCollection

-----------------------------------------------------------------------------
(* What goes on for a call under way.                                      *)
LEMMA StepsKeep ==
  ASSUME NetInv, NEW c \in Client, NetworkSteps(c) PROVE NetInv'
<1>0. /\ CallsTyped /\ asker \in [Client -> AskerRecord]
      /\ asker[c] \in AskerRecord /\ Vacant \notin Client
      /\ epoch \in Nat /\ key \in Nat /\ keys \in Nat
      /\ asker[c].seen <= epoch /\ Home(c)
      /\ client \in ClientRecord \cup {Vacant}
  BY NetworkAssumption DEF NetInv, CallsTyped, EpochsNotAhead,
     CredentialsStayHome, Home
<1>1. ASSUME NEW where \in {"backoff", "fetched", "doh", "choose", "epoch",
                            "check", "lock", "send", "done"},
             To(c, where), asker[c].pc # "fetched",
             UNCHANGED <<token, key, keys, expired, epoch, client>>
      PROVE  NetInv'
  <2>1. /\ asker' \in [Client -> AskerRecord]
        /\ \A d \in Client \ {c} : asker'[d] = asker[d]
        /\ asker'[c].pc = where /\ asker'[c].seen = asker[c].seen
        /\ asker'[c].op = asker[c].op /\ asker'[c].host = asker[c].host
        /\ asker'[c].bearer = asker[c].bearer
    BY <1>0, <1>1 DEF To, AskerRecord
  <2>2. Home(c)'
    BY <1>0, <2>1 DEF Home
  <2>3. QED
    BY <1>0, <1>1, <2>1, <2>2, WalkStep
<1>2. AfterKey(c) \in {"done", "choose"}
  BY DEF AfterKey
<1>3. CASE Ensure(c)
  BY <1>1, <1>3 DEF Ensure, settings, secrets, counts
<1>4. CASE Backoff(c)
  BY <1>1, <1>2, <1>4 DEF Backoff, settings, secrets, counts
<1>5. CASE DohFailed(c)
  BY <1>1, <1>2, <1>5 DEF DohFailed, settings, counts
<1>6. CASE Choose(c)
  BY <1>1, <1>6 DEF Choose, settings, secrets, counts
<1>7. ASSUME asker[c].pc # "fetched", Taken(c),
             UNCHANGED <<token, key, keys, expired, epoch, client>>
      PROVE  NetInv'
  <2>1. /\ asker' \in [Client -> AskerRecord]
        /\ \A d \in Client \ {c} : asker'[d] = asker[d]
        /\ asker'[c].pc = "send" /\ asker'[c].seen = 0
        /\ asker'[c].op = asker[c].op /\ asker'[c].host = asker[c].host
        /\ asker'[c].bearer = asker[c].bearer
    BY <1>0, <1>7 DEF Taken, AskerRecord
  <2>2. Home(c)' /\ 0 <= epoch
    BY <1>0, <2>1 DEF Home
  <2>3. QED
    BY <1>7, <2>1, <2>2, WalkStep
<1>8. CASE CheckClient(c)
  BY <1>1, <1>7, <1>8 DEF CheckClient, settings, secrets, counts
<1>9. CASE LoadEpoch(c)
  <2>1. /\ asker' \in [Client -> AskerRecord]
        /\ \A d \in Client \ {c} : asker'[d] = asker[d]
        /\ asker'[c].pc = "check" /\ asker'[c].seen = epoch
        /\ asker'[c].op = asker[c].op /\ asker'[c].host = asker[c].host
        /\ asker'[c].bearer = asker[c].bearer
    BY <1>0, <1>9 DEF LoadEpoch, AskerRecord
  <2>2. Home(c)' /\ epoch <= epoch
    BY <1>0, <2>1 DEF Home
  <2>3. QED
    BY <1>9, <2>1, <2>2, WalkStep DEF LoadEpoch, settings, secrets, counts
<1>10. ASSUME NEW result \in {"ok", "nothing", "missing", "refused", "lost"},
              NEW applied \in BOOLEAN, Settled(c, result, applied),
              asker[c].pc # "fetched",
              UNCHANGED <<token, key, keys, expired, epoch, client>>
       PROVE  NetInv'
  <2>1. PICK told \in {"none", "ok", "nothing", "missing", "refused", "lost"} :
          told = IF Writes(c) THEN result ELSE "none"
    OBVIOUS
  <2> DEFINE r == [Idle EXCEPT !.pc = "done", !.op = asker[c].op,
                               !.applied = applied, !.result = told]
  <2>2. asker' = [asker EXCEPT ![c] = r]
    BY <1>10, <2>1 DEF Settled
  <2>3. asker[c].op \in {"none", "read", "oauth", "find", "update", "patch",
                         "delete", "refresh"}
    BY <1>0 DEF AskerRecord
  <2>4. r \in AskerRecord /\ r.pc = "done" /\ r.seen = 0 /\ r.host = "none"
    BY <2>3, IdleTyped DEF AskerRecord, Idle
  <2> HIDE DEF r
  <2>5. /\ asker' \in [Client -> AskerRecord]
        /\ \A d \in Client \ {c} : asker'[d] = asker[d]
        /\ asker'[c].pc = "done" /\ asker'[c].seen = 0
        /\ asker'[c].host = "none"
    BY <1>0, <2>2, <2>4
  <2>6. Home(c)' /\ 0 <= epoch
    BY <1>0, <2>5, HomeHosts DEF Home
  <2>7. QED
    BY <1>10, <2>5, <2>6, WalkStep
<1>11. CASE SendAnswered(c)
  <2>1. Writes(c) \in BOOLEAN
    BY DEF Writes
  <2>2. QED
    BY <1>10, <1>11, <2>1 DEF SendAnswered, settings, secrets, counts
<1>12. CASE SendMissing(c)
  BY <1>0, <1>10, <1>12 DEF SendMissing, Gone, AskerRecord, settings,
     secrets, counts
<1>13. CASE SendRefused(c)
  BY <1>0, <1>10, <1>13 DEF SendRefused, AskerRecord, settings, secrets,
     counts
<1>14. CASE SendTransient(c)
  <2>1. PICK reached \in BOOLEAN :
          IF asker[c].attempt = MaxAttempts
            THEN Settled(c, "lost", asker[c].applied \/ reached)
            ELSE asker' = [asker EXCEPT ![c].attempt = @ + 1,
                                        ![c].applied = @ \/ reached]
    BY <1>14 DEF SendTransient
  <2>2. /\ asker[c].pc = "send"
        /\ UNCHANGED <<token, key, keys, expired, epoch, client>>
    BY <1>14 DEF SendTransient, settings, secrets, counts
  <2>3. CASE asker[c].attempt = MaxAttempts
    <3>1. (asker[c].applied \/ reached) \in BOOLEAN
      OBVIOUS
    <3>2. QED
      BY <1>10, <2>1, <2>2, <2>3, <3>1
  <2>4. CASE asker[c].attempt # MaxAttempts
    <3>1. /\ asker' \in [Client -> AskerRecord]
          /\ \A d \in Client \ {c} : asker'[d] = asker[d]
          /\ asker'[c].pc = "send" /\ asker'[c].seen = asker[c].seen
          /\ asker'[c].op = asker[c].op /\ asker'[c].host = asker[c].host
          /\ asker'[c].bearer = asker[c].bearer
      BY <1>0, <2>1, <2>2, <2>4 DEF AskerRecord
    <3>2. Home(c)'
      BY <1>0, <3>1 DEF Home
    <3>3. QED
      BY <1>0, <2>2, <3>1, <3>2, WalkStep
  <2>5. QED
    BY <2>3, <2>4
<1>15. CASE DohAnswered(c)
  <2>1. /\ key' = keys + 1 /\ keys' = keys + 1
        /\ UNCHANGED <<token, epoch, client>>
    BY <1>15 DEF DohAnswered, settings
  <2>2. /\ asker' \in [Client -> AskerRecord]
        /\ \A d \in Client : /\ asker'[d].seen = asker[d].seen
                             /\ asker'[d].op = asker[d].op
                             /\ asker'[d].host = asker[d].host
                             /\ asker'[d].bearer = asker[d].bearer
        /\ asker'[c].pc = "fetched"
    BY <1>0, <1>15 DEF DohAnswered, To, AskerRecord
  <2>3. ~NothingPublished'
    BY <2>2 DEF NothingPublished
  <2>4. CallsTyped' /\ CredentialsStayHome' /\ EpochsNotAhead'
    BY <1>0, <2>1, <2>2 DEF NetInv, CallsTyped, CredentialsStayHome,
       EpochsNotAhead
  <2>5. PinHoldsKey' /\ ClientHoldsKey'
    BY <2>3 DEF PinHoldsKey, ClientHoldsKey, NothingPublished
  <2>6. QED
    BY <2>4, <2>5 DEF NetInv
<1>16. CASE Invalidated(c)
  <2>1. epoch' = epoch + 1 /\ UNCHANGED <<token, key, keys, client>>
    BY <1>16 DEF Invalidated, settings, counts
  <2>2. /\ asker' \in [Client -> AskerRecord]
        /\ \A d \in Client : /\ asker'[d].seen = asker[d].seen
                             /\ asker'[d].op = asker[d].op
                             /\ asker'[d].host = asker[d].host
                             /\ asker'[d].bearer = asker[d].bearer
    BY <1>0, <1>2, <1>16 DEF Invalidated, To, AskerRecord
  <2>3. /\ \A d \in Client : asker'[d].seen < epoch'
        /\ client # Vacant => client.epoch < epoch'
    <3>1. /\ \A d \in Client : asker[d].seen \in Nat
          /\ client # Vacant => client.epoch \in Nat
      BY <1>0 DEF AskerRecord, ClientRecord
    <3>2. QED
      BY <1>0, <2>1, <2>2, <3>1 DEF NetInv, EpochsNotAhead
  <2>4. CallsTyped' /\ CredentialsStayHome'
    BY <1>0, <2>1, <2>2 DEF NetInv, CallsTyped, CredentialsStayHome
  <2>5. EpochsNotAhead' /\ PinHoldsKey' /\ ClientHoldsKey'
    <3>1. /\ \A d \in Client : asker'[d].seen \in Nat
          /\ client' # Vacant => client'.epoch \in Nat
          /\ epoch' \in Nat
      BY <1>0, <2>1, <2>2 DEF AskerRecord, ClientRecord
    <3>2. QED
      BY <2>1, <2>3, <3>1 DEF EpochsNotAhead, PinHoldsKey, ClientHoldsKey
  <2>6. QED
    BY <2>4, <2>5 DEF NetInv
<1>17. CASE LockClient(c)
  <2>1. CASE Current(c)
    BY <1>7, <1>17, <2>1 DEF LockClient, settings, counts
  <2>2. CASE ~Current(c)
    <3>1. UNCHANGED <<token, key, keys, expired, epoch, client>>
      BY <1>17 DEF LockClient, settings, counts
    <3>2. /\ asker' \in [Client -> AskerRecord]
          /\ \A d \in Client \ {c} : asker'[d] = asker[d]
          /\ asker'[c].pc = "pin" /\ asker'[c].seen = asker[c].seen
          /\ asker'[c].op = asker[c].op /\ asker'[c].host = asker[c].host
          /\ asker'[c].bearer = asker[c].bearer
          /\ asker'[c].built = IF KeyFresh THEN key ELSE 0
      BY <1>0, <1>17, <2>2 DEF LockClient, AskerRecord
    <3>3. (KeyFresh' <=> KeyFresh) /\ asker[c].pc = "lock"
      BY <1>17, <3>1 DEF LockClient, KeyFresh
    <3>4. NothingPublished' => NothingPublished
      BY <3>2, <3>3 DEF NothingPublished
    <3>5. CallsTyped' /\ EpochsNotAhead'
      BY <1>0, <3>1, <3>2 DEF NetInv, CallsTyped, EpochsNotAhead
    <3>6. CredentialsStayHome'
      BY <3>2 DEF NetInv, CredentialsStayHome
    <3>7. PinHoldsKey'
      BY <3>1, <3>2, <3>3, <3>4 DEF NetInv, PinHoldsKey
    <3>8. ClientHoldsKey'
      BY <3>1, <3>3, <3>4 DEF NetInv, ClientHoldsKey, NothingPublished
    <3>9. QED
      BY <3>5, <3>6, <3>7, <3>8 DEF NetInv
  <2>3. QED
    BY <2>1, <2>2
<1>18. CASE PinAndStore(c)
  <2>1. /\ UNCHANGED <<token, key, keys, expired, epoch>>
        /\ asker[c].pc = "pin"
        /\ client' = [epoch |-> asker[c].seen, key |-> asker[c].built,
                      pinned |-> IF asker[c].built = 0 \/ ~KeyFresh
                                   THEN 0 ELSE key]
    BY <1>18 DEF PinAndStore, Stamp, settings, counts
  <2>2. /\ asker' \in [Client -> AskerRecord]
        /\ \A d \in Client \ {c} : asker'[d] = asker[d]
        /\ asker'[c].pc = "send" /\ asker'[c].seen = 0
        /\ asker'[c].op = asker[c].op /\ asker'[c].host = asker[c].host
        /\ asker'[c].bearer = asker[c].bearer
    BY <1>0, <1>18 DEF PinAndStore, Taken, AskerRecord
  <2>3. /\ KeyFresh' <=> KeyFresh
        /\ NothingPublished' => NothingPublished
    BY <2>1, <2>2 DEF KeyFresh, NothingPublished
  <2>4. client' \in ClientRecord
    BY <1>0, <2>1 DEF ClientRecord, AskerRecord
  <2>5. CallsTyped'
    BY <1>0, <2>1, <2>2, <2>4 DEF CallsTyped
  <2>6. CredentialsStayHome'
    BY <2>2 DEF NetInv, CredentialsStayHome
  <2>7. EpochsNotAhead'
    BY <1>0, <2>1, <2>2 DEF NetInv, EpochsNotAhead
  <2>8. PinHoldsKey'
    BY <2>1, <2>2, <2>3 DEF NetInv, PinHoldsKey
  <2>9. ClientHoldsKey'
    <3>1. client'.epoch = epoch /\ KeyFresh /\ NothingPublished
            => asker[c].built = key
      BY <2>1 DEF NetInv, PinHoldsKey
    <3>2. KeyFresh => key # 0
      BY DEF KeyFresh
    <3>3. QED
      BY <2>1, <2>3, <3>1, <3>2 DEF ClientHoldsKey, NothingPublished
  <2>10. QED
    BY <2>5, <2>6, <2>7, <2>8, <2>9 DEF NetInv
<1>19. QED
  BY <1>3, <1>4, <1>5, <1>6, <1>8, <1>9, <1>11, <1>12, <1>13, <1>14, <1>15,
     <1>16, <1>17, <1>18 DEF NetworkSteps

(* A refresh forgets the key, so nothing is claimed of it.                 *)
LEMMA RefreshKeeps ==
  ASSUME NetInv, NEW c \in Client, RefreshKey(c) PROVE NetInv'
<1> DEFINE r == [Idle EXCEPT !.pc = "backoff", !.op = "refresh"]
<1>1. /\ r \in AskerRecord /\ r.seen = 0 /\ r.bearer = Vacant
      /\ r.op = "refresh" /\ asker' = [asker EXCEPT ![c] = r]
  BY IdleTyped DEF RefreshKey, AskerRecord, Idle
<1> HIDE DEF r
<1>2. /\ asker' \in [Client -> AskerRecord]
      /\ \A d \in Client \ {c} : asker'[d] = asker[d]
      /\ asker'[c] = r /\ epoch \in Nat
  BY <1>1 DEF NetInv, CallsTyped
<1>3. ~KeyFresh' /\ key' = 0 /\ UNCHANGED <<token, keys, epoch, client>>
  BY DEF RefreshKey, KeyFresh, settings
<1>4. CallsTyped' /\ EpochsNotAhead'
  BY <1>1, <1>2, <1>3 DEF NetInv, CallsTyped, EpochsNotAhead
<1>5. CredentialsStayHome'
  BY <1>1, <1>2 DEF NetInv, CredentialsStayHome
<1>6. PinHoldsKey' /\ ClientHoldsKey'
  BY <1>3 DEF PinHoldsKey, ClientHoldsKey
<1>7. QED
  BY <1>4, <1>5, <1>6 DEF NetInv

-----------------------------------------------------------------------------
(* The invariant is inductive.                                             *)
LEMMA NetStep == NetInv /\ [NetworkNext]_netVars => NetInv'
<1> SUFFICES ASSUME NetInv, [NetworkNext]_netVars PROVE NetInv'
  OBVIOUS
<1>1. CASE SetReverseProxy \/ SetUseEch
  BY <1>1, SettingStep DEF SetReverseProxy, SetUseEch, Switches, NetInv,
     CallsTyped
<1>2. CASE SetAccessToken \/ ClearAccessToken
  <2>1. token' \in Nat \cup {Vacant}
    BY <1>2 DEF SetAccessToken, ClearAccessToken, NetInv, CallsTyped
  <2>2. QED
    BY <1>2, <2>1, SettingStep DEF SetAccessToken, ClearAccessToken, Switches
<1>3. CASE EndpointsChange
  <2>1. /\ UNCHANGED <<asker, key, keys, client, token, expired>>
        /\ epoch' = epoch \/ epoch' = epoch + 1
    BY <1>3 DEF EndpointsChange, SetEndpoints, AddEndpoint, RemoveEndpoint,
       MoveEndpoint, ResetEndpoints, Listed, Switches
  <2>2. token' \in Nat \cup {Vacant}
    BY <2>1 DEF NetInv, CallsTyped
  <2>3. QED
    BY <2>1, <2>2, SettingStep
<1>4. CASE KeyExpires \/ BackoffEnds
  <2>1. token' \in Nat \cup {Vacant}
    BY <1>4 DEF KeyExpires, BackoffEnds, settings, NetInv, CallsTyped
  <2>2. QED
    BY <1>4, <2>1, SettingStep DEF KeyExpires, BackoffEnds, counts
<1>5. ASSUME NEW c \in Client,
             AccountCalls(c) \/ RefreshKey(c) \/ NetworkSteps(c)
      PROVE  NetInv'
  BY <1>5, AccountKeeps, RefreshKeeps, StepsKeep
<1>6. CASE UNCHANGED netVars
  <2>1. token' \in Nat \cup {Vacant}
    BY <1>6 DEF netVars, NetInv, CallsTyped
  <2>2. QED
    BY <1>6, <2>1, SettingStep DEF netVars
<1>7. QED
  BY <1>1, <1>2, <1>3, <1>4, <1>5, <1>6 DEF NetworkNext

(* No client, no key and no call at the start.                             *)
LEMMA NetInitHolds == NetworkInit => NetInv
<1> SUFFICES ASSUME NetworkInit PROVE NetInv
  OBVIOUS
<1>1. /\ asker \in [Client -> AskerRecord]
      /\ \A c \in Client : asker[c] = Idle
  BY IdleTyped DEF NetworkInit
<1>2. CallsTyped /\ client = Vacant
  BY <1>1 DEF NetworkInit, CallsTyped
<1>3. Idle.pc = "idle" /\ Idle.seen = 0 /\ Idle.bearer = Vacant
      /\ Idle.op = "none"
  BY DEF Idle
<1>4. CredentialsStayHome /\ PinHoldsKey /\ ClientHoldsKey
  BY <1>1, <1>2, <1>3 DEF CredentialsStayHome, PinHoldsKey, ClientHoldsKey
<1>5. EpochsNotAhead
  BY <1>1, <1>2, <1>3 DEF EpochsNotAhead, NetworkInit
<1>6. QED
  BY <1>2, <1>4, <1>5 DEF NetInv

-----------------------------------------------------------------------------
(* Retries.  What a call may be told of its write, when the account holds  *)
(* the subject or does not: an attempt that was carried out unseen has     *)
(* left its effect, so a later one meets it.                               *)
ToldOf(a, held) ==
  a.op \in {"update", "patch", "delete"} =>
    /\ a.applied => (held <=> a.op # "delete")
    /\ a.pc = "done" /\ a.applied => a.result # "missing"
    /\ a.pc = "done" /\ a.result = "ok" => (held <=> a.op # "delete")

Alone(c) == \A d \in Client \ {c} : asker[d].op = "none"

RetryInv ==
  \A c \in Client : /\ asker[c].pc # "idle" => asker[c].op # "none"
                    /\ Alone(c) => ToldOf(asker[c], collected)

(* A step of one call: no other was alone, for this one has begun.         *)
LEMMA OneCallMoves ==
  ASSUME RetryInv, NEW c \in Client,
         \A d \in Client \ {c} : asker'[d] = asker[d],
         asker'[c].op # "none",
         Alone(c) => ToldOf(asker'[c], collected')
  PROVE  RetryInv'
<1>1. ASSUME NEW d \in Client
      PROVE  /\ asker'[d].pc # "idle" => asker'[d].op # "none"
             /\ Alone(d)' => ToldOf(asker'[d], collected')
  <2>1. CASE d = c
    BY <2>1 DEF Alone
  <2>2. CASE d # c
    BY <2>2 DEF Alone, RetryInv
  <2>3. QED
    BY <2>1, <2>2
<1>2. QED
  BY <1>1 DEF RetryInv

(* A call that goes on before it is sent knows no more of its write.       *)
LEMMA OnTheWay ==
  ASSUME RetryInv, CallsTyped, NEW c \in Client, asker[c].pc # "idle",
         collected' = collected,
         \A d \in Client \ {c} : asker'[d] = asker[d],
         asker'[c].op = asker[c].op, asker'[c].applied = asker[c].applied,
         asker'[c].pc # "done" \/ asker[c].op = "refresh"
  PROVE  RetryInv'
<1>1. asker[c].op # "none"
  BY DEF RetryInv
<1>2. ASSUME Alone(c) PROVE ToldOf(asker'[c], collected')
  BY <1>2 DEF RetryInv, ToldOf
<1>3. QED
  BY <1>1, <1>2, OneCallMoves

(* An attempt that gets a definite answer meets what an earlier one did.   *)
LEMMA SendMeetsEffect ==
  ASSUME RetryInv, CallsTyped, NEW c \in Client, asker[c].pc = "send",
         NEW result, NEW applied \in BOOLEAN, Settled(c, result, applied),
         LET op == asker[c].op IN
           op \in {"update", "patch", "delete"} /\ Alone(c) =>
             /\ applied => (collected' <=> op # "delete")
             /\ applied => result # "missing"
             /\ result = "ok" => (collected' <=> op # "delete")
  PROVE  RetryInv'
<1>1. asker[c].op # "none" /\ asker \in [Client -> AskerRecord]
  BY DEF RetryInv, CallsTyped
<1>2. PICK told : told = IF Writes(c) THEN result ELSE "none"
  OBVIOUS
<1>3. PICK r : r = [Idle EXCEPT !.pc = "done", !.op = asker[c].op,
                                !.applied = applied, !.result = told]
  OBVIOUS
<1>4. asker' = [asker EXCEPT ![c] = r]
  BY <1>2, <1>3 DEF Settled
<1>5. /\ \A d \in Client \ {c} : asker'[d] = asker[d]
      /\ asker'[c] = r
  BY <1>1, <1>4
<1>6. /\ r.op = asker[c].op /\ r.applied = applied /\ r.result = told
      /\ r.pc = "done"
  BY <1>3 DEF Idle
<1>7. ASSUME Alone(c) PROVE ToldOf(r, collected')
  BY <1>2, <1>6, <1>7 DEF ToldOf, Writes
<1>8. QED
  BY <1>1, <1>5, <1>6, <1>7, OneCallMoves

(* A call sends what it writes, and is answered or not.                    *)
LEMMA SendsKeepEffect ==
  ASSUME RetryInv, CallsTyped, NEW c \in Client,
         \/ SendAnswered(c) \/ SendMissing(c) \/ SendRefused(c)
         \/ SendTransient(c)
  PROVE  RetryInv'
<1>0. /\ asker[c].pc = "send" /\ asker[c].op # "none"
      /\ asker \in [Client -> AskerRecord]
      /\ asker[c] \in AskerRecord /\ asker[c].applied \in BOOLEAN
      /\ Alone(c) => ToldOf(asker[c], collected)
  BY DEF RetryInv, CallsTyped, SendAnswered, SendMissing, SendRefused,
     SendTransient, AskerRecord
<1>1. CASE SendAnswered(c)
  <2>0. Writes(c) \in BOOLEAN
    BY DEF Writes
  <2>1. PICK applied \in BOOLEAN : applied = Writes(c)
    BY <2>0, Zenon
  <2>2. Settled(c, "ok", applied)
    BY <1>1, <2>1 DEF SendAnswered
  <2>3. LET op == asker[c].op IN
          op \in {"update", "patch", "delete"} =>
            (collected' <=> op # "delete")
    BY <1>1 DEF SendAnswered, Effect, Needs
  <2>4. PICK result : result = "ok"
    OBVIOUS
  <2>5. QED
    BY <1>0, <2>2, <2>3, <2>4, SendMeetsEffect
<1>2. CASE SendMissing(c)
  <2>1. PICK result : result = Gone(c)
    OBVIOUS
  <2>2. /\ Settled(c, result, asker[c].applied) /\ collected' = collected
        /\ ~collected
    BY <1>2, <2>1 DEF SendMissing
  <2>3. asker[c].op \in {"update", "patch", "delete"} =>
          \/ asker[c].op = "delete" /\ result = "ok"
          \/ asker[c].op = "patch" /\ result = "missing"
    BY <1>2, <2>1 DEF SendMissing, Needs, Gone
  <2>4. QED
    BY <1>0, <2>2, <2>3, SendMeetsEffect DEF ToldOf
<1>3. CASE SendRefused(c)
  <2>1. PICK result : result = "refused"
    OBVIOUS
  <2>2. Settled(c, result, asker[c].applied) /\ collected' = collected
    BY <1>3, <2>1 DEF SendRefused
  <2>3. QED
    BY <1>0, <2>1, <2>2, SendMeetsEffect DEF ToldOf
<1>4. CASE SendTransient(c)
  <2>1. PICK reached \in BOOLEAN :
          /\ reached => Writes(c) /\ (Needs(c) => collected)
          /\ collected' = IF reached THEN Effect(c) ELSE collected
          /\ IF asker[c].attempt = MaxAttempts
               THEN Settled(c, "lost", asker[c].applied \/ reached)
               ELSE asker' = [asker EXCEPT ![c].attempt = @ + 1,
                                           ![c].applied = @ \/ reached]
    BY <1>4 DEF SendTransient
  <2>2. PICK applied \in BOOLEAN : applied = (asker[c].applied \/ reached)
    OBVIOUS
  <2>3. LET op == asker[c].op IN
          (op \in {"update", "patch", "delete"} /\ Alone(c)) =>
            (applied => (collected' <=> op # "delete"))
    <3>1. CASE reached
      BY <2>1, <3>1 DEF Effect, Needs
    <3>2. CASE ~reached
      BY <1>0, <2>1, <2>2, <3>2 DEF ToldOf
    <3>3. QED
      BY <3>1, <3>2
  <2>4. CASE asker[c].attempt = MaxAttempts
    <3>1. PICK result : result = "lost"
      OBVIOUS
    <3>2. Settled(c, result, applied)
      BY <2>1, <2>2, <2>4, <3>1
    <3>3. QED
      BY <1>0, <2>3, <3>1, <3>2, SendMeetsEffect
  <2>5. CASE asker[c].attempt # MaxAttempts
    <3>1. asker' = [asker EXCEPT ![c] = [asker[c] EXCEPT
                      !.attempt = @ + 1, !.applied = applied]]
      BY <2>1, <2>2, <2>5
    <3>2. /\ \A d \in Client \ {c} : asker'[d] = asker[d]
          /\ asker'[c].op = asker[c].op /\ asker'[c].pc = "send"
          /\ asker'[c].applied = applied
      BY <1>0, <3>1 DEF AskerRecord
    <3>3. Alone(c) => ToldOf(asker'[c], collected')
      BY <2>3, <3>2 DEF ToldOf
    <3>4. QED
      BY <1>0, <3>2, <3>3, OneCallMoves
  <2>6. QED
    BY <2>4, <2>5
<1>5. QED
  BY <1>1, <1>2, <1>3, <1>4

(* A new call has not written yet.                                         *)
LEMMA BeginsUntold ==
  ASSUME RetryInv, CallsTyped, NEW c \in Client,
         AccountCalls(c) \/ RefreshKey(c)
  PROVE  RetryInv'
<1>1. asker \in [Client -> AskerRecord]
  BY DEF CallsTyped
<1>2. ASSUME NEW r, asker' = [asker EXCEPT ![c] = r], r.op # "none",
             r.applied = FALSE, r.pc # "done"
      PROVE  RetryInv'
  <2>1. /\ \A d \in Client \ {c} : asker'[d] = asker[d]
        /\ asker'[c] = r
    BY <1>1, <1>2
  <2>2. ToldOf(r, collected')
    BY <1>2 DEF ToldOf
  <2>3. QED
    BY <1>2, <2>1, <2>2, OneCallMoves
<1>3. ASSUME NEW op, op # "none", NEW host, NEW bearer,
             Asks(c, op, host, bearer)
      PROVE  RetryInv'
  <2>1. PICK r : r = [Idle EXCEPT !.pc = "ensure", !.op = op, !.host = host,
                                  !.bearer = bearer, !.attempt = 1]
    OBVIOUS
  <2>2. /\ r.op = op /\ r.applied = FALSE /\ r.pc = "ensure"
        /\ asker' = [asker EXCEPT ![c] = r]
    BY <1>3, <2>1 DEF Idle, Asks
  <2>3. QED
    BY <1>2, <1>3, <2>2
<1>4. CASE RefreshKey(c)
  <2>1. PICK r : r = [Idle EXCEPT !.pc = "backoff", !.op = "refresh"]
    OBVIOUS
  <2>2. /\ r.op = "refresh" /\ r.applied = FALSE /\ r.pc = "backoff"
        /\ asker' = [asker EXCEPT ![c] = r]
    BY <1>4, <2>1 DEF Idle, RefreshKey
  <2>3. QED
    BY <1>2, <2>2
<1>5. CASE AccountCalls(c)
  <2>1. \E op \in {"read", "oauth", "find", "update", "patch", "delete"} :
          \E host, bearer : Asks(c, op, host, bearer)
    BY <1>5 DEF AccountCalls, Profile, Collections, SubjectImage, ImageUrl,
       NextContent, OAuth, Me, MyCollections, MyCollection,
       UpdateCollection, PatchMetadata, DeleteCollection, AsksAccount
  <2>2. QED
    BY <1>3, <2>1
<1>6. QED
  BY <1>4, <1>5

(* Every step keeps it.                                                    *)
LEMMA RetryStep ==
  NetInv /\ RetryInv /\ [NetworkNext]_netVars => RetryInv'
<1> SUFFICES ASSUME NetInv, RetryInv, [NetworkNext]_netVars
             PROVE  RetryInv'
  OBVIOUS
<1>0. CallsTyped /\ asker \in [Client -> AskerRecord]
  BY DEF NetInv, CallsTyped
<1>1. CASE UNCHANGED <<asker, collected>>
  BY <1>1 DEF RetryInv, Alone
<1>2. ASSUME \/ SetReverseProxy \/ SetUseEch \/ SetAccessToken
             \/ ClearAccessToken \/ EndpointsChange \/ KeyExpires
             \/ BackoffEnds \/ UNCHANGED netVars
      PROVE  UNCHANGED <<asker, collected>>
  BY <1>2 DEF SetReverseProxy, SetUseEch, SetAccessToken, ClearAccessToken,
     EndpointsChange, SetEndpoints, AddEndpoint, RemoveEndpoint,
     MoveEndpoint, ResetEndpoints, Listed, Switches, KeyExpires,
     BackoffEnds, netVars
<1>3. ASSUME NEW c \in Client, AccountCalls(c) \/ RefreshKey(c)
      PROVE  RetryInv'
  BY <1>0, <1>3, BeginsUntold
<1>4. ASSUME NEW c \in Client, NetworkSteps(c) PROVE RetryInv'
  <2>1. CASE \/ SendAnswered(c) \/ SendMissing(c) \/ SendRefused(c)
             \/ SendTransient(c)
    BY <1>0, <2>1, SendsKeepEffect
  <2>2. CASE \/ Ensure(c) \/ Backoff(c) \/ DohAnswered(c) \/ DohFailed(c)
             \/ Invalidated(c) \/ Choose(c) \/ LoadEpoch(c)
             \/ CheckClient(c) \/ LockClient(c) \/ PinAndStore(c)
    <3>1. collected' = collected /\ asker[c].pc # "idle"
      BY <2>2 DEF Ensure, Backoff, DohAnswered, DohFailed, Invalidated,
         Choose, LoadEpoch, CheckClient, LockClient, PinAndStore
    <3>2. AfterKey(c) # "done" \/ asker[c].op = "refresh"
      BY DEF AfterKey
    <3>3. \/ \E where : /\ To(c, where)
                        /\ where # "done" \/ asker[c].op = "refresh"
          \/ Taken(c)
          \/ asker' = [asker EXCEPT ![c].seen = epoch, ![c].pc = "check"]
          \/ asker' = [asker EXCEPT ![c].pc = "pin",
                          ![c].built = IF KeyFresh THEN key ELSE 0]
      BY <2>2, <3>2 DEF Ensure, Backoff, DohAnswered, DohFailed, Invalidated,
         Choose, LoadEpoch, CheckClient, LockClient, PinAndStore
    <3>4. /\ \A d \in Client \ {c} : asker'[d] = asker[d]
          /\ asker'[c].op = asker[c].op
          /\ asker'[c].applied = asker[c].applied
          /\ asker'[c].pc # "done" \/ asker[c].op = "refresh"
      <4>0. asker[c] \in AskerRecord
        BY <1>0
      <4>1. CASE \E where : /\ To(c, where)
                            /\ where # "done" \/ asker[c].op = "refresh"
        BY <1>0, <4>0, <4>1 DEF To, AskerRecord
      <4>2. CASE Taken(c)
        BY <1>0, <4>0, <4>2 DEF Taken, AskerRecord
      <4>3. CASE asker' = [asker EXCEPT ![c].seen = epoch, ![c].pc = "check"]
        BY <1>0, <4>0, <4>3 DEF AskerRecord
      <4>4. CASE asker' = [asker EXCEPT ![c].pc = "pin",
                             ![c].built = IF KeyFresh THEN key ELSE 0]
        BY <1>0, <4>0, <4>4 DEF AskerRecord
      <4>5. QED
        BY <3>3, <4>1, <4>2, <4>3, <4>4
    <3>5. QED
      BY <1>0, <3>1, <3>4, OnTheWay
  <2>3. QED
    BY <1>4, <2>1, <2>2 DEF NetworkSteps
<1>5. QED
  BY <1>1, <1>2, <1>3, <1>4 DEF NetworkNext

(* It holds when no call has begun.                                        *)
LEMMA RetryInitHolds == NetworkInit => RetryInv
<1> SUFFICES ASSUME NetworkInit PROVE RetryInv
  OBVIOUS
<1>1. \A c \in Client : asker[c].pc = "idle" /\ asker[c].op = "none"
  BY DEF NetworkInit, Idle
<1>2. QED
  BY <1>1 DEF RetryInv, ToldOf

(* So a call that is over and was alone was told what is so.               *)
LEMMA EffectFollows == RetryInv => RetryMeetsItsEffect
BY DEF RetryInv, RetryMeetsItsEffect, ToldOf, Alone, Writes

-----------------------------------------------------------------------------
(* No request that carries the token of the account or the secret of the   *)
(* application goes to a mirror, whatever is switched while it waits.      *)
THEOREM TokenStaysHome == NetworkSpec => []CredentialsStayHome
<1>1. NetInv => CredentialsStayHome
  BY DEF NetInv
<1>2. QED
  BY <1>1, NetInitHolds, NetStep, PTL DEF NetworkSpec

(* A client that is taken for current holds the published key, with the    *)
(* addresses that came with it, unless a call is about to drop it.         *)
THEOREM CurrentClientHoldsKey == NetworkSpec => []ClientHoldsKey
<1>1. NetInv => ClientHoldsKey
  BY DEF NetInv
<1>2. QED
  BY <1>1, NetInitHolds, NetStep, PTL DEF NetworkSpec

(* A write that was carried out unseen is met by its retry: a call that is *)
(* alone is not told that nothing is there, and what it is told is so.     *)
THEOREM RetriesMeetTheirEffect == NetworkSpec => []RetryMeetsItsEffect
<1>1. NetworkInit => NetInv /\ RetryInv
  BY NetInitHolds, RetryInitHolds
<1>2. NetInv /\ RetryInv /\ [NetworkNext]_netVars => (NetInv /\ RetryInv)'
  BY NetStep, RetryStep
<1>3. NetInv /\ RetryInv => RetryMeetsItsEffect
  BY EffectFollows
<1>4. QED
  BY <1>1, <1>2, <1>3, PTL DEF NetworkSpec

-----------------------------------------------------------------------------
(* Catalogue: what is read in parts is put together without a gap and to   *)
(* its end, and a thread shows no text that moderators have taken away.    *)

(* What is kept of a list of rows, by the tab.                             *)
KeptRows(t) == {row \in BangumiRow :
                CASE t = "comments" -> NextComment(row)
                  [] t = "topics" -> Listable(row)
                  [] t = "episodes" -> Episode(row)
                  [] OTHER -> Identified(row)}

Ways(t) == CASE t = "comments" -> {"comments", "htmlComments"}
             [] t = "topics" -> {"topics"}
             [] t = "episodes" -> {"episodes"}
             [] t = "topic" -> {"topic"}
             [] t \in Threads \ {"topic"} -> {"posts", "htmlPosts"}
             [] OTHER -> {"people"}
Loops(t) == CASE t = "episodes" -> {"full"}
              [] t = "characters" -> {"counted", "once"}
              [] OTHER -> {"once"}

(* A comment is somebody's.                                                *)
Named == tab = "comments" => \A i \in DOMAIN content : content[i].named

(* The rows of content.                                                    *)
HeldRows == {content[i] : i \in DOMAIN content}

(* A filter takes what is among the rows that pass.                        *)
LEMMA KeepsAmong ==
  ASSUME NEW s \in Seq(BangumiRow), tab \in InParts
  PROVE  Keeps(s) = Among(s, KeptRows(tab))
<1>1. \A i \in DOMAIN s : s[i] \in BangumiRow
  OBVIOUS
<1>2. CASE tab = "comments"
  <2>1. {i \in DOMAIN s : NextComment(s[i])}
          = {i \in DOMAIN s : s[i] \in KeptRows(tab)}
    BY <1>1, <1>2 DEF KeptRows
  <2>2. QED
    BY <1>2, <2>1, Zenon DEF Keeps, Filtered, Among
<1>3. CASE tab = "topics"
  <2>1. {i \in DOMAIN s : Listable(s[i])}
          = {i \in DOMAIN s : s[i] \in KeptRows(tab)}
    BY <1>1, <1>3 DEF KeptRows
  <2>2. Keeps(s) = Filtered(s, Listable)
    BY <1>3 DEF Keeps
  <2>3. QED
    BY <2>1, <2>2, Zenon DEF Filtered, Among
<1>4. CASE tab = "episodes"
  <2>1. {i \in DOMAIN s : Episode(s[i])}
          = {i \in DOMAIN s : s[i] \in KeptRows(tab)}
    BY <1>1, <1>4 DEF KeptRows
  <2>2. Keeps(s) = Filtered(s, Episode)
    BY <1>4 DEF Keeps
  <2>3. QED
    BY <2>1, <2>2, Zenon DEF Filtered, Among
<1>5. CASE tab \notin {"comments", "topics", "episodes"}
  <2>1. {i \in DOMAIN s : Identified(s[i])}
          = {i \in DOMAIN s : s[i] \in KeptRows(tab)}
    BY <1>1, <1>5 DEF KeptRows
  <2>2. Keeps(s) = Filtered(s, Identified)
    BY <1>5 DEF Keeps
  <2>3. QED
    BY <2>1, <2>2, Zenon DEF Filtered, Among
<1>6. QED
  BY <1>2, <1>3, <1>4, <1>5

(* Either route of a tab keeps the same.                                   *)
LEMMA KeptAlike ==
  ASSUME content \in Seq(BangumiRow), Named, tab \in InParts,
         NEW s \in Seq(HeldRows), NEW way \in Ways(tab)
  PROVE  s \in Seq(BangumiRow) /\ Kept(way, s) = Keeps(s)
<1>1. \A i \in DOMAIN s : s[i] \in HeldRows
  OBVIOUS
<1>2. HeldRows \subseteq BangumiRow
  BY DEF HeldRows
<1>3. s \in Seq(BangumiRow)
  BY <1>2
<1>4. CASE tab = "comments"
  <2>1. \A i \in DOMAIN s : s[i].named
    BY <1>1, <1>4 DEF HeldRows, Named
  <2>2. {i \in DOMAIN s : HtmlComment(s[i])}
          = {i \in DOMAIN s : NextComment(s[i])}
    BY <2>1 DEF HtmlComment, NextComment
  <2>3. Filtered(s, HtmlComment) = Filtered(s, NextComment)
    BY <2>2, Zenon DEF Filtered
  <2>4. Keeps(s) = Filtered(s, NextComment)
    BY <1>4 DEF Keeps
  <2>5. way \in {"comments", "htmlComments"}
    BY <1>4 DEF Ways, Threads
  <2>6. CASE way = "comments"
    <3>1. Kept(way, s) = Filtered(s, NextComment)
      BY <2>6 DEF Kept
    <3>2. QED
      BY <1>3, <2>4, <3>1
  <2>7. CASE way = "htmlComments"
    <3>1. Kept(way, s) = Filtered(s, HtmlComment)
      BY <2>7 DEF Kept
    <3>2. QED
      BY <1>3, <2>3, <2>4, <3>1
  <2>8. QED
    BY <1>3, <2>5, <2>6, <2>7
<1>5. CASE tab = "topics"
  <2>1. way = "topics"
    BY <1>5 DEF Ways, Threads
  <2>2. Kept(way, s) = Filtered(s, Listable)
    BY <2>1 DEF Kept
  <2>3. Keeps(s) = Filtered(s, Listable)
    BY <1>5 DEF Keeps
  <2>4. QED
    BY <1>3, <2>2, <2>3
<1>6. CASE tab = "episodes"
  <2>1. way = "episodes"
    BY <1>6 DEF Ways, Threads
  <2>2. Kept(way, s) = Filtered(s, Episode)
    BY <2>1 DEF Kept
  <2>3. Keeps(s) = Filtered(s, Episode)
    BY <1>6 DEF Keeps
  <2>4. QED
    BY <1>3, <2>2, <2>3
<1>7. CASE tab \in {"characters", "reviews"}
  <2>1. way = "people"
    BY <1>7 DEF Ways, Threads
  <2>2. Kept(way, s) = Filtered(s, Identified)
    BY <2>1 DEF Kept
  <2>3. Keeps(s) = Filtered(s, Identified)
    BY <1>7 DEF Keeps
  <2>4. QED
    BY <1>3, <2>2, <2>3
<1>8. QED
  BY <1>4, <1>5, <1>6, <1>7 DEF InParts, Paged

(* What is kept of the first n rows.                                       *)
Upto(n) == Keeps(SubSeq(content, 1, n))

(* The slice from some row on goes on where the ones before it end.        *)
LEMMA SliceAdds ==
  ASSUME PageSize \in Nat \ {0}, content \in Seq(BangumiRow), NEW from \in Nat
  PROVE  /\ Slice(from) \in Seq(HeldRows) /\ Len(Slice(from)) \in Nat
         /\ from + PageSize < Len(content) => Len(Slice(from)) = PageSize
         /\ from <= Len(content) /\ ~ (from + PageSize < Len(content))
              => Len(Slice(from)) = Len(content) - from
         /\ from >= Len(content) => Len(Slice(from)) = 0
         /\ from <= Len(content) =>
              SubSeq(content, 1, from) \o Slice(from)
                = SubSeq(content, 1, from + Len(Slice(from)))
<1>1. PICK L : L = Len(content)
  OBVIOUS
<1>2. L \in Nat /\ DOMAIN content = 1..L
  BY <1>1
<1>3. PICK to : to = IF from + PageSize < L THEN from + PageSize ELSE L
  OBVIOUS
<1>4. to \in Nat /\ to <= L /\ from + 1 \in Int
  BY <1>2, <1>3
<1>5. Slice(from) = SubSeq(content, from + 1, to)
  BY <1>1, <1>3 DEF Slice
<1>6. \A i \in (from + 1)..to : content[i] \in HeldRows
  BY <1>2, <1>4 DEF HeldRows
<1>7. /\ SubSeq(content, from + 1, to) \in Seq(HeldRows)
      /\ Len(SubSeq(content, from + 1, to)) =
           IF from + 1 <= to THEN to - (from + 1) + 1 ELSE 0
  <2>1. PICK m : m = from + 1
    OBVIOUS
  <2>2. PICK X : X = HeldRows
    OBVIOUS
  <2>3. m \in Int /\ to \in Int /\ \A i \in m..to : content[i] \in X
    BY <1>4, <1>6, <2>1, <2>2
  <2>4. /\ SubSeq(content, m, to) \in Seq(X)
        /\ Len(SubSeq(content, m, to)) = IF m <= to THEN to - m + 1 ELSE 0
    BY ONLY <2>3, SubSeqProperties
  <2>5. QED
    BY <2>1, <2>2, <2>4
<1>8. ASSUME from <= L
      PROVE  SubSeq(content, 1, from) \o Slice(from)
               = SubSeq(content, 1, from + Len(Slice(from)))
  <2>1. from <= to
    BY <1>2, <1>3, <1>8
  <2>2. from + Len(Slice(from)) = to
    BY <1>4, <1>5, <1>7, <2>1
  <2>3. /\ content \in Seq(BangumiRow) /\ 1 \in 1..(Len(content) + 1)
        /\ from \in (1 - 1)..Len(content) /\ to \in from..Len(content)
    BY <1>1, <1>2, <1>4, <1>8, <2>1
  <2>4. SubSeq(content, 1, from) \o SubSeq(content, from + 1, to)
          = SubSeq(content, 1, to)
    BY ONLY <2>3, ConcatAdjacentSubSeq
  <2>5. QED
    BY <1>5, <2>2, <2>4
<1>9. /\ Slice(from) \in Seq(HeldRows) /\ Len(Slice(from)) \in Nat
      /\ Len(Slice(from)) = IF from + 1 <= to THEN to - (from + 1) + 1 ELSE 0
  BY <1>5, <1>7
<1>10. PICK n : n = Len(Slice(from))
  OBVIOUS
<1>11. n = IF from + 1 <= to THEN to - (from + 1) + 1 ELSE 0
  BY <1>9, <1>10
<1>12. /\ from + PageSize < L => n = PageSize
       /\ from <= L /\ ~ (from + PageSize < L) => n = L - from
       /\ from >= L => n = 0
  BY <1>2, <1>3, <1>11
<1>13. QED
  BY <1>1, <1>8, <1>9, <1>10, <1>12

(* What is kept of the rows so far and of the slice after them is what is  *)
(* kept of all of these; nothing is kept of a slice beyond the end.        *)
LEMMA UptoAdds ==
  ASSUME PageSize \in Nat \ {0}, content \in Seq(BangumiRow), Named,
         tab \in InParts, NEW way \in Ways(tab), NEW from \in Nat
  PROVE  /\ from <= Len(content) =>
              /\ Upto(from) \o Kept(way, Slice(from))
                   = Upto(from + Len(Slice(from)))
              /\ from + Len(Slice(from)) \in 0..Len(content)
         /\ from >= Len(content) => Kept(way, Slice(from)) = <<>>
<1>1. PICK p : p = Slice(from)
  OBVIOUS
<1>2. PICK X : X = HeldRows
  OBVIOUS
<1>3. /\ p \in Seq(HeldRows) /\ Len(p) \in Nat
      /\ from >= Len(content) => Len(p) = 0
      /\ from + PageSize < Len(content) => Len(p) = PageSize
      /\ from <= Len(content) /\ ~ (from + PageSize < Len(content))
              => Len(p) = Len(content) - from
      /\ from <= Len(content) =>
              SubSeq(content, 1, from) \o p
                = SubSeq(content, 1, from + Len(p))
  BY <1>1, SliceAdds
<1>4. p \in Seq(BangumiRow) /\ Kept(way, p) = Keeps(p)
  BY <1>3, KeptAlike
<1>5. Len(content) \in Nat
  OBVIOUS
<1>6. from <= Len(content) => from + Len(p) \in 0..Len(content)
  BY <1>3, <1>5
<1>7. Keeps(p) = Among(p, KeptRows(tab))
  BY <1>4, KeepsAmong
<1>8. from >= Len(content) => Keeps(p) = <<>>
  <2> SUFFICES ASSUME from >= Len(content) PROVE Keeps(p) = <<>>
    OBVIOUS
  <2>1. p = <<>>
    BY <1>3
  <2>2. PICK w : w = KeptRows(tab)
    OBVIOUS
  <2>3. Among(p, w) = <<>>
    BY <1>4, <2>1, AmongHolds
  <2>4. QED
    BY <1>7, <2>2, <2>3
<1>9. ASSUME from <= Len(content)
      PROVE  Upto(from) \o Keeps(p) = Upto(from + Len(p))
  <2>1. PICK s : s = SubSeq(content, 1, from)
    OBVIOUS
  <2>2. \A i \in 1..from : content[i] \in BangumiRow
    BY <1>5, <1>9
  <2>3. s \in Seq(BangumiRow)
    BY <2>1, <2>2, SubSeqProperties
  <2>4. s \o p \in Seq(BangumiRow) /\ s \o p = SubSeq(content, 1, from + Len(p))
    BY <1>3, <1>4, <1>9, <2>1, <2>3
  <2>5. PICK r : r = s \o p
    OBVIOUS
  <2>6. Keeps(s) = Among(s, KeptRows(tab)) /\ Keeps(r) = Among(r, KeptRows(tab))
    BY <2>3, <2>4, <2>5, KeepsAmong
  <2>7. PICK w : w = KeptRows(tab)
    OBVIOUS
  <2>8. Among(s \o p, w) = Among(s, w) \o Among(p, w)
    BY <1>4, <2>3, AmongTwo
  <2>9. QED
    BY <1>7, <2>1, <2>4, <2>5, <2>6, <2>7, <2>8, Zenon DEF Upto
<1>10. QED
  BY <1>1, <1>3, <1>4, <1>6, <1>8, <1>9

(* Of nothing, nothing is kept; of all at once, what is kept of all.       *)
LEMMA UptoEnds ==
  ASSUME content \in Seq(BangumiRow), Named, tab \in InParts,
         NEW way \in Ways(tab)
  PROVE  Upto(0) = <<>> /\ Kept(way, content) = Upto(Len(content))
<1>1. SubSeq(content, 1, 0) = <<>>
  BY SubSeqEmpty
<1>2. PICK s : s = SubSeq(content, 1, 0)
  OBVIOUS
<1>3. s = <<>> /\ s \in Seq(BangumiRow)
  BY <1>1, <1>2
<1>4. Keeps(s) = Among(s, KeptRows(tab))
  BY <1>3, KeepsAmong
<1>5. PICK w : w = KeptRows(tab)
  OBVIOUS
<1>6. Among(s, w) = <<>>
  BY <1>3, AmongHolds
<1>7. Upto(0) = <<>>
  BY <1>2, <1>4, <1>5, <1>6 DEF Upto
<1>8. SubSeq(content, 1, Len(content)) = content
  BY SubSeqFull
<1>9. content \in Seq(HeldRows)
  BY DEF HeldRows
<1>10. Kept(way, content) = Keeps(content)
  BY <1>9, KeptAlike
<1>11. QED
  BY <1>7, <1>8, <1>10 DEF Upto

-----------------------------------------------------------------------------
(* Routes that suit a tab.                                                 *)
Site == {"p1", "html", "rest"}
Way == {"comments", "htmlComments", "topics", "episodes", "topic", "posts",
        "htmlPosts", "people"}
Loop == {"once", "full", "counted"}
Route == [at : Site, way : Way, gone : BOOLEAN, refused : BOOLEAN,
          lost : BOOLEAN, loop : Loop]
Suits(r, t) == /\ r \in Route /\ r.way \in Ways(t) /\ r.loop \in Loops(t)
               /\ t = "topics" => r.at = "p1"
OneOrTwo(q, t) == \/ \E r \in Route : Suits(r, t) /\ q = <<r>>
                  \/ \E r, s \in Route : /\ Suits(r, t) /\ Suits(s, t)
                                         /\ q = <<r, s>>

(* Every mode has one or two for each of the tabs read in parts, and for   *)
(* the threads.                                                            *)
LEMMA RoutesSuit ==
  ASSUME NEW t \in InParts \cup Threads, NEW m \in Mode
  PROVE  OneOrTwo(Reads[t][m], t)
<1>21. /\ "once" \in Loop /\ "full" \in Loop /\ "counted" \in Loop
       /\ "p1" \in Site /\ "html" \in Site /\ "rest" \in Site
       /\ "comments" \in Way /\ "htmlComments" \in Way /\ "topics" \in Way
       /\ "episodes" \in Way /\ "topic" \in Way /\ "posts" \in Way
       /\ "htmlPosts" \in Way /\ "people" \in Way
  BY DEF Loop, Site, Way
<1>19. ASSUME NEW a \in Site, NEW w \in Way
       PROVE  /\ Strict(a, w) \in Route /\ Gentle(a, w) \in Route
              /\ Lenient(a, w) \in Route
              /\ Strict(a, w).at = a /\ Gentle(a, w).at = a
              /\ Lenient(a, w).at = a
              /\ Strict(a, w).way = w /\ Gentle(a, w).way = w
              /\ Lenient(a, w).way = w
              /\ Strict(a, w).loop = "once" /\ Gentle(a, w).loop = "once"
              /\ Lenient(a, w).loop = "once"
  <2>1. PICK s : s = Strict(a, w)
    OBVIOUS
  <2>2. s = [at |-> a, way |-> w, gone |-> FALSE, refused |-> FALSE,
             lost |-> FALSE, loop |-> "once"]
    BY <2>1 DEF Strict
  <2>3. /\ s \in Route /\ s.at = a /\ s.way = w /\ s.loop = "once"
    BY <2>2 DEF Route, Loop
  <2>4. PICK g : g = [s EXCEPT !.gone = TRUE]
    OBVIOUS
  <2>5. /\ g \in Route /\ g.at = a /\ g.way = w /\ g.loop = "once"
    BY <2>3, <2>4 DEF Route
  <2>6. PICK k : k = [g EXCEPT !.refused = TRUE]
    OBVIOUS
  <2>7. /\ k \in Route /\ k.at = a /\ k.way = w /\ k.loop = "once"
    BY <2>5, <2>6 DEF Route
  <2>8. g = Gentle(a, w)
    BY <2>1, <2>4 DEF Gentle
  <2>9. k = Lenient(a, w)
    BY <2>6, <2>8 DEF Lenient
  <2>10. QED
    BY <2>1, <2>3, <2>5, <2>7, <2>8, <2>9, Zenon
<1>20. ASSUME NEW a \in Site, NEW w \in Way, NEW u,
              w \in Ways(u), u # "topics" \/ a = "p1", "once" \in Loops(u)
       PROVE  /\ Suits(Strict(a, w), u) /\ Suits(Gentle(a, w), u)
              /\ Suits(Lenient(a, w), u)
  <2>1. ASSUME NEW r \in Route, r.at = a, r.way = w, r.loop = "once"
        PROVE  Suits(r, u)
    BY <1>20, <2>1 DEF Suits
  <2>2. QED
    BY <1>19, <2>1, Zenon
<1>23. ASSUME NEW a \in Site, NEW w \in Way, NEW u, w \in Ways(u)
       PROVE  Strict(a, w).way \in Ways(u) /\ Lenient(a, w).way \in Ways(u)
  BY <1>19, <1>23, Zenon
<1>2. /\ "comments" \in Ways("comments")
      /\ "htmlComments" \in Ways("comments")
      /\ "posts" \in Ways("episodeComments")
      /\ "htmlPosts" \in Ways("episodeComments")
      /\ "topics" \in Ways("topics") /\ "topic" \in Ways("topic")
      /\ "people" \in Ways("reviews") /\ "posts" \in Ways("blogComments")
      /\ "posts" \in Ways("characterComments")
      /\ "posts" \in Ways("personComments")
      /\ "episodes" \in Ways("episodes") /\ "people" \in Ways("characters")
  BY DEF Ways, Threads
<1>3. /\ "once" \in Loops("comments") /\ "once" \in Loops("episodeComments")
      /\ "once" \in Loops("topics") /\ "once" \in Loops("topic")
      /\ "once" \in Loops("reviews") /\ "once" \in Loops("blogComments")
      /\ "once" \in Loops("characterComments")
      /\ "once" \in Loops("personComments")
      /\ "once" \in Loops("characters")
  BY DEF Loops
<1>22. /\ "comments" # "topics" /\ "episodeComments" # "topics"
       /\ "topic" # "topics" /\ "reviews" # "topics"
       /\ "blogComments" # "topics" /\ "characterComments" # "topics"
       /\ "personComments" # "topics" /\ "characters" # "topics"
       /\ "episodes" # "topics"
  OBVIOUS
<1>16. /\ Suits(CommentsLegacy, "comments") /\ Suits(CommentsNext, "comments")
       /\ Suits(EpisodeCommentsLegacy, "episodeComments")
       /\ Suits(EpisodeCommentsNext, "episodeComments")
  BY <1>2, <1>3, <1>20, <1>21, <1>22, Zenon
  DEF CommentsLegacy, CommentsNext,
     EpisodeCommentsLegacy, EpisodeCommentsNext
<1>17. /\ Suits(TopicsNext, "topics") /\ Suits(TopicNext, "topic")
       /\ Suits(ReviewsNext, "reviews")
       /\ Suits(BlogComments, "blogComments")
       /\ Suits(CharacterComments, "characterComments")
       /\ Suits(PersonComments, "personComments")
  BY <1>2, <1>3, <1>20, <1>21, <1>22, Zenon
  DEF TopicsNext, TopicNext, ReviewsNext, BlogComments,
     CharacterComments, PersonComments
<1>18. /\ Suits(EpisodesRest, "episodes") /\ Suits(EpisodesNext, "episodes")
       /\ Suits(CharactersRest, "characters")
       /\ Suits(CharactersNext, "characters")
  <2>1. /\ "full" \in Loops("episodes") /\ "once" \in Loops("characters")
        /\ "counted" \in Loops("characters")
    BY DEF Loops
  <2>2. ASSUME NEW r \in Route, NEW l \in Loop, NEW u,
               r.way \in Ways(u), u # "topics", l \in Loops(u)
        PROVE  Suits([r EXCEPT !.loop = l], u)
    <3>1. PICK s : s = [r EXCEPT !.loop = l]
      OBVIOUS
    <3>2. s \in Route /\ s.way = r.way /\ s.loop = l
      BY <3>1 DEF Route
    <3>3. Suits(s, u)
      BY <2>2, <3>2 DEF Suits
    <3>4. QED
      BY <3>1, <3>3
  <2>3. Suits(EpisodesRest, "episodes")
    <3>1. PICK r : r = Lenient("rest", "episodes")
      OBVIOUS
    <3>2. /\ Lenient("rest", "episodes") \in Route
          /\ Lenient("rest", "episodes").way \in Ways("episodes")
      BY <1>2, <1>19, <1>21, <1>23, Zenon
    <3>5. r \in Route /\ r.way \in Ways("episodes")
      BY <3>1, <3>2
    <3>3. EpisodesRest = [r EXCEPT !.loop = "full"]
      BY <3>1 DEF EpisodesRest
    <3>4. QED
      BY <1>21, <1>22, <2>1, <2>2, <3>3, <3>5
  <2>4. Suits(EpisodesNext, "episodes")
    <3>1. PICK r : r = Strict("p1", "episodes")
      OBVIOUS
    <3>2. /\ Strict("p1", "episodes") \in Route
          /\ Strict("p1", "episodes").way \in Ways("episodes")
      BY <1>2, <1>19, <1>21, <1>23, Zenon
    <3>5. r \in Route /\ r.way \in Ways("episodes")
      BY <3>1, <3>2
    <3>3. EpisodesNext = [r EXCEPT !.loop = "full"]
      BY <3>1 DEF EpisodesNext
    <3>4. QED
      BY <1>21, <1>22, <2>1, <2>2, <3>3, <3>5
  <2>5. Suits(CharactersNext, "characters")
    <3>1. PICK r : r = Strict("p1", "people")
      OBVIOUS
    <3>2. /\ Strict("p1", "people") \in Route
          /\ Strict("p1", "people").way \in Ways("characters")
      BY <1>2, <1>19, <1>21, <1>23, Zenon
    <3>5. r \in Route /\ r.way \in Ways("characters")
      BY <3>1, <3>2
    <3>3. CharactersNext = [r EXCEPT !.loop = "counted"]
      BY <3>1 DEF CharactersNext
    <3>4. QED
      BY <1>21, <1>22, <2>1, <2>2, <3>3, <3>5
  <2>6. Suits(CharactersRest, "characters")
    BY <1>2, <1>3, <1>20, <1>21, <1>22, Zenon DEF CharactersRest
  <2>7. QED
    BY <2>3, <2>4, <2>5, <2>6
<1>4. ASSUME NEW r, NEW u, Suits(r, u) PROVE OneOrTwo(<<r>>, u)
  BY <1>4 DEF OneOrTwo, Suits
<1>5. ASSUME NEW r, NEW s, NEW u, Suits(r, u), Suits(s, u)
      PROVE  OneOrTwo(<<r, s>>, u)
  BY <1>5 DEF OneOrTwo, Suits
<1>6. m = "legacy" \/ m = "hybrid" \/ m = "modern"
  BY DEF Mode
<1>7. CASE t = "comments"
  <2>1. Reads[t] = Comments
    BY <1>7 DEF Reads
  <2>2. /\ Comments["legacy"] = <<CommentsLegacy>>
        /\ Comments["hybrid"] = <<CommentsNext, CommentsLegacy>>
        /\ Comments["modern"] = <<CommentsNext>>
    BY DEF Comments, Either
  <2>3. QED
    BY <1>16, <1>4, <1>5, <1>6, <1>7, <2>1, <2>2
<1>8. CASE t = "episodeComments"
  <2>1. Reads[t] = EpisodeComments
    BY <1>8 DEF Reads
  <2>2. /\ EpisodeComments["legacy"] = <<EpisodeCommentsLegacy>>
        /\ EpisodeComments["hybrid"]
             = <<EpisodeCommentsNext, EpisodeCommentsLegacy>>
        /\ EpisodeComments["modern"] = <<EpisodeCommentsNext>>
    BY DEF EpisodeComments, Either
  <2>3. QED
    BY <1>16, <1>4, <1>5, <1>6, <1>8, <2>1, <2>2
<1>9. CASE t = "episodes"
  <2>1. Reads[t] = Episodes
    BY <1>9 DEF Reads
  <2>2. /\ Episodes["legacy"] = <<EpisodesRest>>
        /\ Episodes["hybrid"] = <<EpisodesRest>>
        /\ Episodes["modern"] = <<EpisodesNext>>
    BY DEF Episodes, Either
  <2>3. QED
    BY <1>18, <1>4, <1>6, <1>9, <2>1, <2>2
<1>10. CASE t = "characters"
  <2>1. Reads[t] = Characters
    BY <1>10 DEF Reads
  <2>2. /\ Characters["legacy"] = <<CharactersRest>>
        /\ Characters["hybrid"] = <<CharactersRest>>
        /\ Characters["modern"] = <<CharactersNext>>
    BY DEF Characters, Either
  <2>3. QED
    BY <1>18, <1>4, <1>6, <1>10, <2>1, <2>2
<1>11. ASSUME NEW r PROVE Always(r)[m] = <<r>>
  BY <1>6 DEF Always, Either
<1>12. /\ t = "topics" => Reads[t] = Always(TopicsNext)
       /\ t = "topic" => Reads[t] = Always(TopicNext)
       /\ t = "reviews" => Reads[t] = Always(ReviewsNext)
       /\ t = "blogComments" => Reads[t] = Always(BlogComments)
       /\ t = "characterComments" => Reads[t] = Always(CharacterComments)
       /\ t = "personComments" => Reads[t] = Always(PersonComments)
  BY DEF Reads
<1>13. CASE t \in {"topics", "topic", "reviews"}
  BY <1>17, <1>4, <1>11, <1>12, <1>13
<1>14. CASE t \in {"blogComments", "characterComments", "personComments"}
  BY <1>17, <1>4, <1>11, <1>12, <1>14
<1>15. QED
  BY <1>7, <1>8, <1>9, <1>10, <1>13, <1>14 DEF InParts, Paged, Threads

(* The first of them suits, and so do the others.                          *)
LEMMA FirstSuits ==
  ASSUME NEW q, NEW t, OneOrTwo(q, t)
  PROVE  /\ q # <<>> /\ Suits(Head(q), t) /\ Len(q) \in {1, 2}
         /\ Len(q) > 1 => OneOrTwo(Tail(q), t)
<1>1. CASE \E r \in Route : Suits(r, t) /\ q = <<r>>
  BY <1>1
<1>2. CASE \E r, s \in Route : Suits(r, t) /\ Suits(s, t) /\ q = <<r, s>>
  <2>1. PICK r \in Route, s \in Route :
          Suits(r, t) /\ Suits(s, t) /\ q = <<r, s>>
    BY <1>2
  <2>2. Tail(q) = <<s>>
    BY <2>1
  <2>3. QED
    BY <2>1, <2>2 DEF OneOrTwo
<1>3. QED
  BY <1>1, <1>2 DEF OneOrTwo

-----------------------------------------------------------------------------
(* What is fixed when the behaviour begins, and the mode.                  *)
Ground ==
  /\ tab \in DOMAIN Reads /\ mode \in Mode /\ content \in Content[tab]
  /\ totalled \in BOOLEAN /\ hurt \in BOOLEAN

(* How many rows the first p pages hold.                                   *)
Through(p) == p * PageSize
PagesEnd(p) == IF Through(p) < Len(content) THEN Through(p) ELSE Len(content)

IsPager(x) == x = [page |-> x.page, shown |-> x.shown, fetched |-> x.fetched,
                   total |-> x.total, more |-> x.more, failed |-> x.failed]
IsFetch(x) == x = [routes |-> x.routes, page |-> x.page, got |-> x.got,
                   count |-> x.count, total |-> x.total, turn |-> x.turn]

(* What is shown is kept of a beginning of the rows; there is more only    *)
(* after full pages, all of them fetched.                                  *)
PagerSound ==
  /\ pager.page \in Nat /\ pager.fetched \in 0..Len(content)
  /\ pager.shown = Upto(pager.fetched) /\ pager.more \in BOOLEAN
  /\ pager.total \in Nat \cup {Untold}
  /\ pager.page = 0 => /\ pager.fetched = 0 /\ ~ pager.more
                       /\ pager.total = Untold
  /\ pager.more => /\ tab \in Paged /\ pager.page > 0
                   /\ pager.fetched = PagesEnd(pager.page)
  /\ ~hurt /\ tab = "topics" => pager.total \in {Untold, Len(content)}

(* The call under way asks for the first page, or for the one after those  *)
(* shown; in a loop it has kept of a beginning of the rows.                *)
Turned == \/ fetch.page = 1 /\ pager.page = 0
          \/ fetch.page = pager.page + 1 /\ pager.page > 0 /\ pager.more
FetchSound ==
  /\ OneOrTwo(fetch.routes, tab) /\ Turned
  /\ fetch.count \in 0..Len(content) /\ fetch.got = Upto(fetch.count)
  /\ Head(fetch.routes).loop = "once" => fetch.count = 0
  /\ tab = "episodes" => /\ fetch.turn \in 1..MaxPages
                         /\ fetch.count = Through(fetch.turn - 1)

PartsInv ==
  tab \in InParts => /\ PagerSound /\ ReadToTheEnd
                     /\ fetch = NoFetch \/ FetchSound

(* Pages follow one another.                                               *)
LEMMA PagesAdd ==
  ASSUME PageSize \in Nat \ {0}, NEW p \in Nat
  PROVE  /\ Through(p) \in Nat /\ Through(p + 1) = Through(p) + PageSize
         /\ Through(0) = 0 /\ p > 0 => Through(p - 1) = Through(p) - PageSize
BY DEF Through

(* The rows are Bangumi's, and those of a list of comments are named.      *)
LEMMA GroundIs ==
  ASSUME Ground
  PROVE  content \in Seq(BangumiRow) /\ Named /\ PageSize \in Nat \ {0}
         /\ MaxPages \in Nat \ {0} /\ (tab = "topic" => content # <<>>)
BY CatalogueAssumption, ContentAssumption DEF Ground, Named

(* A list of what is kept of some rows.                                    *)
LEMMA UptoIs ==
  ASSUME content \in Seq(BangumiRow), tab \in InParts, NEW n \in 0..Len(content)
  PROVE  Upto(n) \in Seq(BangumiRow)
<1>1. PICK s : s = SubSeq(content, 1, n)
  OBVIOUS
<1>2. \A i \in 1..n : content[i] \in BangumiRow
  OBVIOUS
<1>3. s \in Seq(BangumiRow)
  BY <1>1, <1>2, SubSeqProperties
<1>4. Keeps(s) = Among(s, KeptRows(tab))
  BY <1>3, KeepsAmong
<1>5. PICK w : w = KeptRows(tab)
  OBVIOUS
<1>6. Among(s, w) \in Seq(BangumiRow)
  BY <1>3, AmongHolds
<1>7. QED
  BY <1>1, <1>4, <1>5, <1>6 DEF Upto

(* An answer that is full, or the end of a call that is given up, leaves   *)
(* the pages sound.                                                        *)
LEMMA ShowsKeeps ==
  ASSUME Ground, tab \in InParts, IsPager(pager), PagerSound, Turned,
         UNCHANGED <<tab, content>>, hurt' \in BOOLEAN,
         NEW rows \in Seq(BangumiRow), NEW n \in Nat,
         NEW total \in Nat \cup {Untold}, Shows(rows, n, total),
         pager.fetched + n \in 0..Len(content),
         pager.shown \o rows = Upto(pager.fetched + n),
         \/ /\ total \in {Untold, Len(content)} /\ hurt' = hurt
            /\ tab \in Paged => pager.fetched + n = PagesEnd(fetch.page)
            /\ tab \notin Paged =>
                 \/ n = Len(content)
                 \/ tab = "episodes" /\ n = MaxPages * PageSize
         \/ /\ total \in {Untold, 0} /\ hurt'
            /\ tab \in Paged => n = 0 /\ rows = <<>>
  PROVE  fetch' = NoFetch /\ IsPager(pager') /\ (PagerSound /\ ReadToTheEnd)'
<1>1. /\ content \in Seq(BangumiRow) /\ Named /\ PageSize \in Nat \ {0}
      /\ MaxPages \in Nat \ {0}
  BY GroundIs
<1>2. PICK L : L = Len(content)
  OBVIOUS
<1>3. L \in Nat
  BY <1>1, <1>2
<1>4. PICK known : known = IF total = Untold THEN pager.total ELSE total
  OBVIOUS
<1>5. PICK f : f = pager.fetched + n
  OBVIOUS
<1>6. PICK s : s = pager.shown \o rows
  OBVIOUS
<1>7. f \in 0..L /\ s = Upto(f) /\ s \in Seq(BangumiRow)
  BY <1>1, <1>2, <1>5, <1>6, UptoIs
<1>8. known \in Nat \cup {Untold}
  BY <1>4 DEF PagerSound
<1>9. fetch.page \in Nat \ {0} /\ fetch' = NoFetch
  BY DEF Turned, PagerSound, Shows
<1>10. ~hurt' /\ tab = "topics" => known \in {Untold, L}
  BY <1>2, <1>4 DEF PagerSound, Ground
<1>11. Upto(f)' = Upto(f) /\ \A k : Upto(k)' = Upto(k)
  BY DEF Upto, Keeps
<1>12. CASE fetch.page > 1 /\ Loaded(rows, n) = 0
  <2>1. pager' = [pager EXCEPT !.total = known, !.more = FALSE]
    BY <1>4, <1>12 DEF Shows
  <2>2. /\ IsPager(pager') /\ pager'.page = pager.page
        /\ pager'.shown = pager.shown /\ pager'.fetched = pager.fetched
        /\ pager'.total = known /\ pager'.more = FALSE
    BY <2>1 DEF IsPager
  <2>3. pager.page > 0 /\ pager.more /\ fetch.page = pager.page + 1
        /\ tab \in Paged /\ pager.fetched = PagesEnd(pager.page)
    BY <1>9, <1>12 DEF Turned, PagerSound
  <2>4. PagerSound'
    BY <1>2, <1>8, <1>10, <1>11, <2>2, <2>3 DEF PagerSound
  <2>5. ReadToTheEnd'
    <3> SUFFICES ASSUME tab = "topics", ~hurt' PROVE pager'.fetched = L
      BY <1>2, <2>3 DEF ReadToTheEnd, Paged
    <3>1. n = 0
      BY <1>12 DEF Loaded
    <3>2. pager.fetched = PagesEnd(fetch.page)
      BY <2>3, <3>1 DEF PagerSound
    <3>3. /\ Through(pager.page) \in Nat
          /\ Through(fetch.page) = Through(pager.page) + PageSize
      BY <1>1, <2>3, PagesAdd DEF PagerSound
    <3>4. QED
      BY <1>1, <1>2, <1>3, <2>2, <2>3, <3>2, <3>3 DEF PagesEnd
  <2>6. QED
    BY <1>9, <2>2, <2>4, <2>5
<1>13. CASE ~ (fetch.page > 1 /\ Loaded(rows, n) = 0)
  <2>1. PICK more \in BOOLEAN : more = HasMore(Loaded(s, f), known)
    BY DEF HasMore
  <2>2. pager' = [page |-> fetch.page, shown |-> s, fetched |-> f,
                  total |-> known, failed |-> FALSE, more |-> more]
    BY <1>4, <1>5, <1>6, <1>13, <2>1 DEF Shows
  <2>3. /\ IsPager(pager') /\ pager'.page = fetch.page
        /\ pager'.shown = s /\ pager'.fetched = f
        /\ pager'.total = known /\ pager'.more = more
    BY <2>2 DEF IsPager
  <2>4. more => tab \in Paged /\ f = PagesEnd(fetch.page)
    <3> SUFFICES ASSUME more PROVE tab \in Paged /\ f = PagesEnd(fetch.page)
      OBVIOUS
    <3>1. tab \in Paged
      BY <2>1 DEF HasMore
    <3>2. CASE n = 0 /\ rows = <<>> /\ total \in {Untold, 0}
      <4>1. Loaded(rows, n) = 0
        BY <3>2 DEF Loaded
      <4>2. pager.page = 0 /\ fetch.page = 1
        BY <1>9, <1>13, <4>1 DEF Turned, PagerSound
      <4>3. f = 0 /\ s = rows /\ known \in {0, Untold}
        <5>1. pager.fetched = 0 /\ pager.total = Untold
              /\ pager.shown = Upto(0)
          BY <4>2 DEF PagerSound
        <5>2. PICK u : u = Upto(0)
          OBVIOUS
        <5>3. 0 \in 0..Len(content)
          BY <1>2, <1>3
        <5>4. u \in Seq(BangumiRow)
          BY <1>1, <5>2, <5>3, UptoIs
        <5>5. u \o rows = u
          BY <3>2, <5>4
        <5>6. s = Upto(0)
          BY <1>6, <5>1, <5>2, <5>5
        <5>7. PICK w \in Ways(tab) : TRUE
          BY DEF Ways
        <5>8. Upto(0) = <<>>
          BY <1>1, <5>7, UptoEnds
        <5>9. QED
          BY <1>4, <1>5, <3>2, <5>1, <5>6, <5>8
      <4>4. Loaded(s, f) = 0
        BY <3>2, <4>3 DEF Loaded
      <4>5. QED
        <5>1. PICK l : l = Loaded(s, f)
          OBVIOUS
        <5>2. more = HasMore(l, known) /\ l = 0
          BY <2>1, <4>4, <5>1
        <5>3. ~ HasMore(l, known)
          BY <4>3, <5>2 DEF HasMore, Untold
        <5>4. QED
          BY <5>2, <5>3
    <3>3. QED
      BY <1>5, <3>1, <3>2
  <2>5. PagerSound'
    BY <1>2, <1>7, <1>8, <1>9, <1>10, <1>11, <2>3, <2>4
       DEF PagerSound, PagesEnd, Through
  <2>8. PICK limit : limit = MaxPages * PageSize
    OBVIOUS
  <2>6. ReadToTheEnd'
    <3> SUFFICES ASSUME tab \in {"topics", "episodes", "characters"}, ~hurt',
                        ~more
                 PROVE  f = L \/ (tab = "episodes" /\ f = limit)
      BY <1>2, <2>3, <2>8 DEF ReadToTheEnd
    <3>1. CASE tab = "topics"
      <4>1. f = PagesEnd(fetch.page) /\ Loaded(s, f) = f
        BY <1>5, <3>1 DEF Paged, Loaded
      <4>2. known \in {Untold, L}
        BY <1>10, <3>1
      <4>3. ~ (IF known = Untold THEN f > 0 ELSE f < known)
        BY <2>1, <3>1, <4>1 DEF HasMore, Paged
      <4>4. CASE known = L
        <5>1. known # Untold
          BY <1>3, <4>4 DEF Untold
        <5>2. ~ (f < L)
          BY <4>3, <4>4, <5>1
        <5>3. QED
          BY <1>3, <1>7, <5>2
      <4>5. CASE known = Untold
        <5>1. f = 0
          BY <1>7, <4>3, <4>5
        <5>2. Through(fetch.page - 1) \in Nat
              /\ Through(fetch.page) = Through(fetch.page - 1) + PageSize
          <6>1. PICK p : p = fetch.page - 1
            OBVIOUS
          <6>2. p \in Nat /\ p + 1 = fetch.page
            BY <1>9, <6>1
          <6>3. Through(p) \in Nat /\ Through(p + 1) = Through(p) + PageSize
            BY <1>1, <6>2, PagesAdd
          <6>4. QED
            BY <6>1, <6>2, <6>3
        <5>3. QED
          BY <1>1, <1>2, <1>3, <4>1, <5>1, <5>2 DEF PagesEnd
      <4>6. QED
        BY <4>2, <4>4, <4>5
    <3>2. CASE tab \in {"episodes", "characters"}
      <4>1. tab \notin Paged
        BY <3>2 DEF Paged
      <4>2. pager.fetched = 0
        BY <4>1 DEF Turned, PagerSound
      <4>3. \/ n = Len(content)
            \/ tab = "episodes" /\ n = limit
        BY <2>8, <4>1
      <4>4. f = n
        BY <1>5, <4>2
      <4>5. QED
        BY <1>2, <4>3, <4>4
    <3>3. QED
      BY <3>1, <3>2
  <2>7. QED
    BY <1>9, <2>3, <2>5, <2>6
<1>14. QED
  BY <1>12, <1>13

(* What an answer does, on a tab that is read in parts.                    *)
LEMMA AnswerDoes ==
  ASSUME tab \in InParts, RouteAnswers
  PROVE  \E route, served, got, count, total :
           /\ route = Head(fetch.routes) /\ served = Served(route)
           /\ got = fetch.got \o Kept(route.way, served)
           /\ count = fetch.count + Len(served) /\ total = Total(route)
           /\ \/ /\ GoesOn(route, served) /\ pager' = pager
                 /\ fetch' = [fetch EXCEPT !.got = got, !.count = count,
                                           !.turn = @ + 1]
              \/ ~ GoesOn(route, served) /\ Shows(got, count, total)
<1>1. PICK route : route = Head(fetch.routes)
  OBVIOUS
<1>2. PICK served : served = Served(route)
  OBVIOUS
<1>3. PICK got : got = fetch.got \o Kept(route.way, served)
  OBVIOUS
<1>4. PICK count : count = fetch.count + Len(served)
  OBVIOUS
<1>5. PICK total : total = Total(route)
  OBVIOUS
<1>6. tab # "timetable"
  BY DEF InParts, Paged
<1>7. CASE GoesOn(route, served)
  <2>1. /\ fetch' = [fetch EXCEPT !.got = got, !.count = count,
                                  !.turn = @ + 1]
        /\ pager' = pager
    BY <1>1, <1>2, <1>3, <1>4, <1>6, <1>7 DEF RouteAnswers
  <2>2. QED
    BY <1>1, <1>2, <1>3, <1>4, <1>5, <1>7, <2>1
<1>8. CASE ~ GoesOn(route, served)
  <2>1. Shows(got, count, total)
    BY <1>1, <1>2, <1>3, <1>4, <1>5, <1>6, <1>8 DEF RouteAnswers
  <2>2. QED
    BY <1>1, <1>2, <1>3, <1>4, <1>5, <1>8, <2>1
<1>9. QED
  BY <1>7, <1>8

(* What is kept of rows of content is rows.                                *)
LEMMA KeptIs ==
  ASSUME content \in Seq(BangumiRow), Named, tab \in InParts,
         NEW way \in Ways(tab), NEW s \in Seq(HeldRows)
  PROVE  Kept(way, s) \in Seq(BangumiRow)
<1>1. s \in Seq(BangumiRow) /\ Kept(way, s) = Keeps(s)
  BY KeptAlike
<1>2. Keeps(s) = Among(s, KeptRows(tab))
  BY <1>1, KeepsAmong
<1>3. PICK w : w = KeptRows(tab)
  OBVIOUS
<1>4. Among(s, w) \in Seq(BangumiRow)
  BY <1>1, AmongHolds
<1>5. QED
  BY <1>1, <1>2, <1>3, <1>4

(* A page that is answered joins those that are shown.                     *)
LEMMA PageAdds ==
  ASSUME Ground, tab \in Paged, PagerSound, Turned, NEW way \in Ways(tab),
         NEW p, p = Slice(Through(fetch.page - 1))
  PROVE  /\ Len(p) \in Nat /\ Kept(way, p) \in Seq(BangumiRow)
         /\ pager.fetched + Len(p) \in 0..Len(content)
         /\ pager.fetched + Len(p) = PagesEnd(fetch.page)
         /\ pager.shown \o Kept(way, p) = Upto(pager.fetched + Len(p))
<1>1. /\ content \in Seq(BangumiRow) /\ Named /\ PageSize \in Nat \ {0}
      /\ tab \in InParts
  BY GroundIs DEF InParts
<1>2. PICK L : L = Len(content)
  OBVIOUS
<1>3. L \in Nat
  BY <1>1, <1>2
<1>4. PICK from : from = Through(fetch.page - 1)
  OBVIOUS
<1>5. /\ fetch.page \in Nat \ {0}
      /\ \/ fetch.page = 1 /\ pager.page = 0
         \/ fetch.page - 1 = pager.page /\ pager.page > 0 /\ pager.more
  BY DEF Turned, PagerSound
<1>6. from \in Nat /\ Through(fetch.page) = from + PageSize
  <2>1. PICK k : k = fetch.page - 1
    OBVIOUS
  <2>2. k \in Nat /\ k + 1 = fetch.page
    BY <1>5, <2>1
  <2>3. Through(k) \in Nat /\ Through(k + 1) = Through(k) + PageSize
    BY <1>1, <2>2, PagesAdd
  <2>4. QED
    BY <1>4, <2>1, <2>2, <2>3
<1>7. pager.fetched = IF from < L THEN from ELSE L
  <2>1. CASE fetch.page = 1 /\ pager.page = 0
    <3>1. Through(0) = 0
      BY <1>1 DEF Through
    <3>2. from = 0
      BY <1>4, <2>1, <3>1
    <3>3. QED
      BY <1>3, <2>1, <3>2 DEF PagerSound
  <2>2. CASE fetch.page - 1 = pager.page /\ pager.page > 0 /\ pager.more
    BY <1>2, <1>4, <2>2 DEF PagerSound, PagesEnd
  <2>3. QED
    BY <1>5, <2>1, <2>2
<1>8. PICK q : q = Kept(way, p)
  OBVIOUS
<1>9. /\ p \in Seq(HeldRows) /\ Len(p) \in Nat
      /\ from + PageSize < L => Len(p) = PageSize
      /\ from <= L /\ ~ (from + PageSize < L) => Len(p) = L - from
      /\ from >= L => Len(p) = 0
  BY <1>1, <1>2, <1>4, <1>6, SliceAdds
<1>10. q \in Seq(BangumiRow)
  BY <1>1, <1>8, <1>9, KeptIs
<1>11. /\ from <= L => Upto(from) \o q = Upto(from + Len(p))
       /\ from >= L => q = <<>>
  BY <1>1, <1>2, <1>4, <1>6, <1>8, UptoAdds
<1>12. pager.fetched + Len(p) = PagesEnd(fetch.page)
  <2>1. PICK n : n = Len(p)
    OBVIOUS
  <2>2. PICK m : m = Through(fetch.page)
    OBVIOUS
  <2>3. PICK f : f = pager.fetched
    OBVIOUS
  <2>4. /\ n \in Nat /\ from \in Nat /\ m = from + PageSize
        /\ from + PageSize < L => n = PageSize
        /\ from <= L /\ ~ (from + PageSize < L) => n = L - from
        /\ from >= L => n = 0
        /\ f = IF from < L THEN from ELSE L
    BY <1>6, <1>7, <1>9, <2>1, <2>2, <2>3
  <2>5. f + n = IF m < L THEN m ELSE L
    BY <1>1, <1>3, <2>4
  <2>6. QED
    BY <1>2, <2>1, <2>2, <2>3, <2>5 DEF PagesEnd
<1>13. PagesEnd(fetch.page) \in 0..L
  BY <1>1, <1>2, <1>3, <1>6 DEF PagesEnd
<1>14. pager.shown = Upto(pager.fetched)
  BY DEF PagerSound
<1>15. pager.shown \o q = Upto(pager.fetched + Len(p))
  <2>1. CASE from < L
    BY <1>3, <1>6, <1>7, <1>11, <1>14, <2>1
  <2>2. CASE ~ (from < L)
    <3>1. pager.fetched = L /\ q = <<>> /\ Len(p) = 0
      BY <1>3, <1>6, <1>7, <1>9, <1>11, <2>2
    <3>2. L \in 0..Len(content)
      BY <1>2, <1>3
    <3>3. PICK u : u = Upto(L)
      OBVIOUS
    <3>4. u \in Seq(BangumiRow)
      BY <1>1, <3>2, <3>3, UptoIs
    <3>5. u \o q = u
      BY <3>1, <3>4
    <3>6. L + 0 = L
      BY <1>3
    <3>7. QED
      BY <1>14, <3>1, <3>3, <3>5, <3>6
  <2>3. QED
    BY <2>1, <2>2
<1>16. QED
  BY <1>2, <1>8, <1>9, <1>10, <1>12, <1>13, <1>15

(* A turn of a loop joins what it has kept.                                *)
LEMMA TurnAdds ==
  ASSUME Ground, tab \in InParts, FetchSound, PagerSound, tab \notin Paged,
         NEW way \in Ways(tab), NEW p, p = Slice(fetch.count)
  PROVE  /\ Len(p) \in Nat /\ fetch.got \o Kept(way, p) \in Seq(BangumiRow)
         /\ fetch.count + Len(p) \in 0..Len(content)
         /\ fetch.got \o Kept(way, p) = Upto(fetch.count + Len(p))
         /\ Len(p) # PageSize => fetch.count + Len(p) = Len(content)
         /\ p = <<>> => fetch.count + Len(p) = Len(content)
<1>1. /\ content \in Seq(BangumiRow) /\ Named /\ PageSize \in Nat \ {0}
  BY GroundIs
<1>2. fetch.count \in Nat /\ fetch.count <= Len(content)
      /\ Len(content) \in Nat /\ fetch.got = Upto(fetch.count)
  BY <1>1 DEF FetchSound
<1>3. /\ fetch.got \o Kept(way, p) = Upto(fetch.count + Len(p))
      /\ fetch.count + Len(p) \in 0..Len(content)
  BY <1>1, <1>2, UptoAdds
<1>4. /\ p \in Seq(HeldRows) /\ Len(p) \in Nat
      /\ fetch.count + PageSize < Len(content) => Len(p) = PageSize
      /\ ~ (fetch.count + PageSize < Len(content)) =>
           Len(p) = Len(content) - fetch.count
  BY <1>1, <1>2, SliceAdds
<1>5. /\ Len(p) # PageSize => fetch.count + Len(p) = Len(content)
      /\ Len(p) = 0 => fetch.count + Len(p) = Len(content)
  <2>1. PICK n : n = Len(p)
    OBVIOUS
  <2>2. PICK c : c = fetch.count
    OBVIOUS
  <2>3. PICK L : L = Len(content)
    OBVIOUS
  <2>4. /\ n \in Nat /\ c \in Nat /\ L \in Nat /\ c <= L
        /\ c + PageSize < L => n = PageSize
        /\ ~ (c + PageSize < L) => n = L - c
    BY <1>2, <1>4, <2>1, <2>2, <2>3
  <2>5. (n # PageSize => c + n = L) /\ (n = 0 => c + n = L)
    BY <1>1, <2>4
  <2>6. QED
    BY <2>1, <2>2, <2>3, <2>5
<1>6. p = <<>> => Len(p) = 0
  OBVIOUS
<1>7. PICK k : k = fetch.count + Len(p)
  OBVIOUS
<1>8. k \in 0..Len(content) /\ Upto(k) \in Seq(BangumiRow)
  BY <1>1, <1>3, <1>7, UptoIs
<1>9. QED
  BY <1>3, <1>4, <1>5, <1>6, <1>7, <1>8

(* So an answer leaves the pages sound, and what is kept so far.           *)
LEMMA AnswerKeeps ==
  ASSUME Ground, tab \in InParts, IsPager(pager), IsFetch(fetch), PagerSound,
         FetchSound, RouteAnswers
  PROVE  /\ IsPager(pager') /\ IsFetch(fetch')
         /\ (PagerSound /\ ReadToTheEnd)'
         /\ fetch' = NoFetch \/ FetchSound'
<1>1. PICK route, served, got, count, total :
           /\ route = Head(fetch.routes) /\ served = Served(route)
           /\ got = fetch.got \o Kept(route.way, served)
           /\ count = fetch.count + Len(served) /\ total = Total(route)
           /\ \/ /\ GoesOn(route, served) /\ pager' = pager
                 /\ fetch' = [fetch EXCEPT !.got = got, !.count = count,
                                           !.turn = @ + 1]
              \/ ~ GoesOn(route, served) /\ Shows(got, count, total)
  BY AnswerDoes
<1>2. /\ content \in Seq(BangumiRow) /\ Named /\ PageSize \in Nat \ {0}
      /\ MaxPages \in Nat \ {0}
  BY GroundIs
<1>3. /\ UNCHANGED <<mode, tab, content, totalled, hurt>>
      /\ hurt' \in BOOLEAN
  BY DEF RouteAnswers, Ground
<1>4. Suits(route, tab)
  BY <1>1, FirstSuits DEF FetchSound
<1>5. route.way \in Ways(tab) /\ route.loop \in Loops(tab)
  BY <1>4 DEF Suits
<1>6. Turned /\ fetch.got = Upto(fetch.count)
      /\ (route.loop = "once" => fetch.count = 0)
      /\ fetch.count \in 0..Len(content) /\ Len(content) \in Nat
  BY <1>1, <1>2 DEF FetchSound
<1>7. total \in {Untold, Len(content)} /\ total \in Nat \cup {Untold}
  BY <1>1, <1>6 DEF Total
<1>8. tab \notin Paged =>
        /\ pager.page = 0 /\ fetch.page = 1 /\ pager.fetched = 0
        /\ pager.shown = Upto(0)
  BY <1>6 DEF Turned, PagerSound
<1>9. Upto(0) = <<>>
  BY <1>2, <1>5, UptoEnds
<1>10. IsFetch(NoFetch)
  BY DEF IsFetch, NoFetch
<1>11. CASE tab \in Paged
  <2>1. route.loop = "once" /\ ~ GoesOn(route, served)
    BY <1>5, <1>11 DEF Loops, Paged, GoesOn
  <2>2. served = Slice(Through(fetch.page - 1))
    BY <1>1, <1>11, <2>1 DEF Served, Through
  <2>3. PICK w : w = route.way
    OBVIOUS
  <2>4. PICK q : q = Kept(w, served)
    OBVIOUS
  <2>5. /\ Len(served) \in Nat /\ q \in Seq(BangumiRow)
        /\ pager.fetched + Len(served) \in 0..Len(content)
        /\ pager.fetched + Len(served) = PagesEnd(fetch.page)
        /\ pager.shown \o q = Upto(pager.fetched + Len(served))
    BY <1>5, <1>6, <1>11, <2>2, <2>3, <2>4, PageAdds
  <2>6. got = q /\ count = Len(served)
    <3>1. fetch.count = 0 /\ fetch.got = <<>>
      BY <1>6, <1>9, <2>1
    <3>2. <<>> \o q = q
      BY <2>5
    <3>3. QED
      BY <1>1, <2>3, <2>4, <2>5, <3>1, <3>2
  <2>7. Shows(q, count, total)
    BY <1>1, <2>1, <2>6
  <2>8. /\ count \in Nat /\ pager.fetched + count \in 0..Len(content)
        /\ pager.fetched + count = PagesEnd(fetch.page)
        /\ pager.shown \o q = Upto(pager.fetched + count)
    BY <2>5, <2>6
  <2>9. fetch' = NoFetch /\ IsPager(pager') /\ (PagerSound /\ ReadToTheEnd)'
    BY <1>3, <1>6, <1>7, <1>11, <2>5, <2>7, <2>8, ShowsKeeps
  <2>10. QED
    BY <1>10, <2>9
<1>12. CASE tab \notin Paged
  <2>1. PICK w : w = route.way
    OBVIOUS
  <2>2. PICK end : end = MaxPages * PageSize
    OBVIOUS
  <2>7. /\ served = Served(route) /\ count = fetch.count + Len(served)
        /\ got = fetch.got \o Kept(w, served)
    BY <1>1, <2>1
  <2>8. ~ GoesOn(route, served) => Shows(got, count, total)
    BY <1>1
  <2>3. /\ tab = "episodes" \/ tab = "characters"
        /\ route.loop \in {"once", "full", "counted"}
        /\ route.loop = "once" => tab = "characters"
        /\ route.loop = "full" => tab = "episodes"
        /\ route.loop = "counted" => tab = "characters"
        /\ tab = "episodes" => route.loop = "full"
    BY <1>5, <1>12 DEF InParts, Loops
  <2>4. CASE route.loop = "once"
    <3>1. ~ GoesOn(route, served)
      BY <2>4 DEF GoesOn
    <3>2. served = content
      BY <1>1, <1>12, <2>4 DEF Served
    <3>3. PICK q : q = Kept(w, content)
      OBVIOUS
    <3>4. q = Upto(Len(content))
      BY <1>2, <1>5, <2>1, <3>3, UptoEnds
    <3>5. fetch.count = 0 /\ fetch.got = <<>>
      BY <1>6, <1>9, <2>4
    <3>6. Len(content) \in 0..Len(content)
      BY <1>6
    <3>7. q \in Seq(BangumiRow)
      BY <1>2, <3>4, <3>6, UptoIs
    <3>8. <<>> \o q = q
      BY <3>7
    <3>9. got = q /\ count = Len(content)
      <4>1. got = q
        BY <2>7, <3>2, <3>3, <3>5, <3>8, Zenon
      <4>2. QED
        BY <1>6, <2>7, <3>2, <3>5, <4>1
    <3>10. pager.shown \o q = Upto(pager.fetched + count)
      <4>1. pager.shown \o q = q
        BY <1>8, <1>9, <1>12, <3>8
      <4>2. pager.fetched + count = Len(content)
        BY <1>6, <1>8, <1>12, <3>9
      <4>3. QED
        BY <3>4, <4>1, <4>2
    <3>14. Shows(q, count, total)
      BY <2>8, <3>1, <3>9, Zenon
    <3>11. count \in Nat /\ pager.fetched + count \in 0..Len(content)
      BY <1>6, <1>8, <1>12, <3>6, <3>9
    <3>12. fetch' = NoFetch /\ IsPager(pager') /\ (PagerSound /\ ReadToTheEnd)'
      BY <1>3, <1>6, <1>7, <1>12, <3>7, <3>9, <3>10, <3>11, <3>14,
         ShowsKeeps
    <3>13. QED
      BY <1>10, <3>12
  <2>5. CASE route.loop # "once"
    <3>1. served = Slice(fetch.count)
      BY <1>12, <2>5, <2>7 DEF Served
    <3>2. PICK q : q = fetch.got \o Kept(w, served)
      OBVIOUS
    <3>3. /\ Len(served) \in Nat /\ q \in Seq(BangumiRow)
          /\ fetch.count + Len(served) \in 0..Len(content)
          /\ q = Upto(fetch.count + Len(served))
          /\ Len(served) # PageSize =>
               fetch.count + Len(served) = Len(content)
          /\ served = <<>> => fetch.count + Len(served) = Len(content)
      BY <1>5, <1>12, <2>1, <3>1, <3>2, TurnAdds
    <3>4. /\ got = q /\ q = Upto(count) /\ count \in 0..Len(content)
          /\ Len(served) # PageSize => count = Len(content)
          /\ served = <<>> => count = Len(content)
      BY <1>1, <2>1, <3>2, <3>3
    <3>5. CASE GoesOn(route, served)
      <4>1. /\ pager' = pager
            /\ fetch' = [fetch EXCEPT !.got = got, !.count = count,
                                      !.turn = @ + 1]
        BY <1>1, <3>5
      <4>2. /\ IsFetch(fetch') /\ fetch'.routes = fetch.routes
            /\ fetch'.page = fetch.page /\ fetch'.got = q
            /\ fetch'.count = count /\ fetch'.turn = fetch.turn + 1
        BY <3>4, <4>1 DEF IsFetch
      <4>3. tab = "episodes" =>
              Len(served) = PageSize /\ fetch.turn < MaxPages
        BY <2>3, <3>5 DEF GoesOn
      <4>4. tab = "episodes" => /\ fetch'.turn \in 1..MaxPages
                                /\ fetch'.count = Through(fetch'.turn - 1)
        <5> SUFFICES ASSUME tab = "episodes"
                     PROVE  /\ fetch'.turn \in 1..MaxPages
                            /\ fetch'.count = Through(fetch'.turn - 1)
          OBVIOUS
        <5>1. PICK k : k = fetch.turn - 1
          OBVIOUS
        <5>2. /\ k \in Nat /\ fetch.turn = k + 1 /\ fetch.count = Through(k)
              /\ fetch.turn \in 1..MaxPages
          BY <1>2, <5>1 DEF FetchSound
        <5>3. Through(k + 1) = Through(k) + PageSize
          BY <1>2, <5>2, PagesAdd
        <5>4. fetch'.turn - 1 = k + 1
          BY <4>2, <5>2
        <5>5. fetch'.turn \in 1..MaxPages
          BY <1>2, <4>2, <4>3, <5>2
        <5>6. fetch'.count = Through(fetch'.turn - 1)
          BY <1>1, <4>2, <4>3, <5>2, <5>3, <5>4
        <5>7. QED
          BY <5>5, <5>6
      <4>5. /\ tab' = tab /\ content' = content
            /\ \A k : Upto(k)' = Upto(k) /\ Through(k)' = Through(k)
        BY <1>3 DEF Upto, Keeps, Through
      <4>6. Head(fetch.routes).loop # "once" /\ OneOrTwo(fetch.routes, tab)
        BY <1>1, <2>5 DEF FetchSound
      <4>7. Turned'
        BY <1>6, <4>1, <4>2 DEF Turned
      <4>8. FetchSound'
        BY <3>4, <4>2, <4>4, <4>5, <4>6, <4>7 DEF FetchSound
      <4>9. PagerSound'
        BY <1>3, <4>1, <4>5 DEF PagerSound, PagesEnd, Through
      <4>10. ReadToTheEnd'
        BY <1>8, <1>12, <4>1 DEF ReadToTheEnd
      <4>11. QED
        BY <4>1, <4>2, <4>8, <4>9, <4>10
    <3>6. CASE ~ GoesOn(route, served)
      <4>11. Shows(q, count, total)
        BY <2>8, <3>4, <3>6, Zenon
      <4>1. count \in Nat
        BY <1>6, <3>4
      <4>2. PICK all \in BOOLEAN : all <=> (total # Untold
                                            /\ count >= Len(content))
        OBVIOUS
      <4>3. /\ route.loop = "full" =>
                 \/ Len(served) # PageSize \/ all \/ ~ (fetch.turn < MaxPages)
            /\ route.loop = "counted" =>
                 \/ served = <<>> \/ all \/ Len(served) # PageSize
        BY <1>1, <3>6, <4>2 DEF GoesOn
      <4>4. all => count = Len(content)
        BY <1>6, <3>4, <4>2
      <4>5. (/\ tab = "episodes" /\ Len(served) = PageSize
             /\ ~ (fetch.turn < MaxPages)) => count = end
        <5> SUFFICES ASSUME tab = "episodes", Len(served) = PageSize,
                            ~ (fetch.turn < MaxPages)
                     PROVE  count = end
          OBVIOUS
        <5>1. PICK k : k = fetch.turn - 1
          OBVIOUS
        <5>2. k \in Nat /\ k + 1 = MaxPages /\ fetch.count = Through(k)
          BY <1>2, <5>1 DEF FetchSound
        <5>3. Through(k + 1) = Through(k) + PageSize
          BY <1>2, <5>2, PagesAdd
        <5>4. Through(MaxPages) = end
          BY <2>2 DEF Through
        <5>5. QED
          BY <1>1, <5>2, <5>3, <5>4
      <4>6. \/ count = Len(content)
            \/ tab = "episodes" /\ count = end
        BY <2>3, <2>5, <3>4, <4>3, <4>4, <4>5
      <4>7. pager.shown \o q = Upto(pager.fetched + count)
        <5>1. pager.shown \o q = q
          <6>1. <<>> \o q = q
            BY <3>3
          <6>2. QED
            BY <1>8, <1>9, <1>12, <6>1
        <5>2. pager.fetched + count = count
          BY <1>8, <1>12, <4>1
        <5>3. QED
          BY <3>4, <5>1, <5>2
      <4>8. pager.fetched + count \in 0..Len(content)
        BY <1>8, <1>12, <3>4, <4>1
      <4>9. fetch' = NoFetch /\ IsPager(pager')
            /\ (PagerSound /\ ReadToTheEnd)'
        BY <1>3, <1>6, <1>7, <1>12, <2>2, <3>3, <4>1, <4>6, <4>7, <4>8,
           <4>11, ShowsKeeps
      <4>10. QED
        BY <1>10, <4>9
    <3>7. QED
      BY <3>5, <3>6
  <2>6. QED
    BY <2>4, <2>5
<1>13. QED
  BY <1>11, <1>12

(* A route that begins asks for the page of the call, with nothing kept.   *)
LEMMA RouteBegins ==
  ASSUME Ground, tab \in InParts, UNCHANGED <<tab, content>>,
         NEW q, OneOrTwo(q, tab), NEW page, Turned',
         fetch' = [NoFetch EXCEPT !.routes = q, !.page = page]
  PROVE  IsFetch(fetch') /\ FetchSound'
<1>1. /\ content \in Seq(BangumiRow) /\ Named /\ PageSize \in Nat \ {0}
      /\ MaxPages \in Nat \ {0}
  BY GroundIs
<1>2. /\ IsFetch(fetch') /\ fetch'.routes = q /\ fetch'.page = page
      /\ fetch'.got = <<>> /\ fetch'.count = 0 /\ fetch'.turn = 1
  BY DEF NoFetch, IsFetch
<1>3. PICK w \in Ways(tab) : TRUE
  BY DEF Ways
<1>4. Upto(0) = <<>>
  BY <1>1, <1>3, UptoEnds
<1>5. Through(0) = 0
  BY <1>1 DEF Through
<1>6. /\ tab' = tab /\ content' = content
      /\ \A k : Upto(k)' = Upto(k) /\ Through(k)' = Through(k)
  BY DEF Upto, Keeps, Through
<1>7. 1 \in 1..MaxPages /\ 0 \in 0..Len(content)
  BY <1>1
<1>8. QED
  BY <1>2, <1>4, <1>5, <1>6, <1>7 DEF FetchSound

(* What is sound is so of the rows alone.                                  *)
LEMMA PagerStays ==
  ASSUME tab \in InParts, UNCHANGED <<tab, content, pager>>, PagerSound,
         hurt' \/ hurt' = hurt
  PROVE  PagerSound'
<1>1. \A k : Upto(k)' = Upto(k) /\ PagesEnd(k)' = PagesEnd(k)
  BY DEF Upto, Keeps, PagesEnd, Through
<1>2. QED
  BY <1>1 DEF PagerSound

(* A failure ends the call with what there is, goes on to the next route,  *)
(* or ends it with nothing.                                                *)
LEMMA FailureKeeps ==
  ASSUME Ground, tab \in InParts, IsPager(pager), IsFetch(fetch), PagerSound,
         ReadToTheEnd, FetchSound, NEW settles, Fails(settles)
  PROVE  /\ IsPager(pager') /\ IsFetch(fetch')
         /\ (PagerSound /\ ReadToTheEnd)'
         /\ fetch' = NoFetch \/ FetchSound'
<1>1. /\ content \in Seq(BangumiRow) /\ Named /\ PageSize \in Nat \ {0}
      /\ MaxPages \in Nat \ {0}
  BY GroundIs
<1>2. UNCHANGED <<mode, tab, content, totalled>> /\ hurt' = TRUE
  BY DEF Fails
<1>3. PICK total : /\ total \in {0, Untold}
                   /\ \/ Shows(fetch.got, fetch.count, total)
                      \/ NextRoute
  <2>1. PICK total : total = IF Head(fetch.routes).at = "p1" THEN 0 ELSE Untold
    OBVIOUS
  <2>2. Shows(fetch.got, fetch.count, total) \/ NextRoute
    BY <2>1, Zenon DEF Fails
  <2>3. QED
    BY <2>1, <2>2
<1>4. Turned /\ fetch.got = Upto(fetch.count)
      /\ fetch.count \in 0..Len(content) /\ Len(content) \in Nat
      /\ OneOrTwo(fetch.routes, tab)
  BY <1>1 DEF FetchSound
<1>5. PICK w \in Ways(tab) : TRUE
  BY DEF Ways
<1>6. Upto(0) = <<>>
  BY <1>1, <1>5, UptoEnds
<1>7. IsFetch(NoFetch)
  BY DEF IsFetch, NoFetch
<1>8. ~ ReadToTheEnd' => FALSE
  BY <1>2 DEF ReadToTheEnd
<1>9. CASE Shows(fetch.got, fetch.count, total)
  <2>1. PICK q : q = fetch.got
    OBVIOUS
  <2>2. PICK n : n = fetch.count
    OBVIOUS
  <2>3. q \in Seq(BangumiRow) /\ q = Upto(n) /\ n \in 0..Len(content)
    BY <1>1, <1>4, <2>1, <2>2, UptoIs
  <2>4. tab \in Paged => n = 0 /\ q = <<>>
    <3>1. tab \in Paged => Loops(tab) = {"once"}
      BY DEF Paged, Loops
    <3>2. tab \in Paged => Head(fetch.routes).loop = "once"
      BY <1>4, <3>1, FirstSuits DEF Suits
    <3>3. QED
      BY <1>6, <2>2, <2>3, <3>2 DEF FetchSound
  <2>5. /\ pager.fetched + n \in 0..Len(content)
        /\ pager.shown \o q = Upto(pager.fetched + n)
    <3>1. CASE tab \in Paged
      <4>1. PICK u : u = pager.shown
        OBVIOUS
      <4>2. u \in Seq(BangumiRow) /\ u = Upto(pager.fetched)
            /\ pager.fetched \in 0..Len(content)
        BY <1>1, <4>1, UptoIs DEF PagerSound
      <4>3. u \o q = u
        BY <2>4, <3>1, <4>2
      <4>4. pager.fetched + n = pager.fetched
        BY <1>4, <2>4, <3>1, <4>2
      <4>5. QED
        BY <4>1, <4>2, <4>3, <4>4
    <3>2. CASE tab \notin Paged
      <4>1. pager.fetched = 0 /\ pager.shown = <<>>
        BY <1>4, <1>6, <3>2 DEF Turned, PagerSound
      <4>2. <<>> \o q = q
        BY <2>3
      <4>3. pager.fetched + n = n
        BY <2>3, <4>1
      <4>4. QED
        BY <2>3, <4>1, <4>2, <4>3
    <3>3. QED
      BY <3>1, <3>2
  <2>6. Shows(q, n, total) /\ n \in Nat /\ total \in Nat \cup {Untold}
    BY <1>3, <1>9, <2>1, <2>2, <2>3
  <2>7. fetch' = NoFetch /\ IsPager(pager') /\ (PagerSound /\ ReadToTheEnd)'
    BY <1>2, <1>3, <1>4, <2>3, <2>4, <2>5, <2>6, ShowsKeeps
  <2>8. QED
    BY <1>7, <2>7
<1>10. CASE NextRoute
  <2>1. CASE Len(fetch.routes) > 1
    <3>1. PICK q : q = Tail(fetch.routes)
      OBVIOUS
    <3>2. OneOrTwo(q, tab)
      BY <1>4, <2>1, <3>1, FirstSuits
    <3>3. /\ fetch' = [NoFetch EXCEPT !.routes = q, !.page = fetch.page]
          /\ pager' = pager
      BY <1>10, <2>1, <3>1 DEF NextRoute
    <3>4. fetch'.page = fetch.page
      BY <3>3 DEF NoFetch
    <3>5. Turned'
      BY <1>4, <3>3, <3>4 DEF Turned
    <3>6. IsFetch(fetch') /\ FetchSound'
      BY <1>2, <3>2, <3>3, <3>5, RouteBegins
    <3>7. PagerSound'
      BY <1>2, <3>3, PagerStays
    <3>8. QED
      BY <1>8, <3>3, <3>6, <3>7
  <2>2. CASE ~ (Len(fetch.routes) > 1) /\ fetch.page > 1
    <3>1. fetch' = NoFetch /\ pager' = pager
      BY <1>10, <2>2 DEF NextRoute
    <3>2. PagerSound'
      BY <1>2, <3>1, PagerStays
    <3>3. QED
      BY <1>7, <1>8, <3>1, <3>2
  <2>3. CASE ~ (Len(fetch.routes) > 1) /\ ~ (fetch.page > 1)
    <3>1. /\ fetch' = NoFetch
          /\ pager' = [NoPager EXCEPT !.page = 1, !.failed = TRUE]
      BY <1>10, <2>3 DEF NextRoute
    <3>2. /\ IsPager(pager') /\ pager'.page = 1 /\ pager'.shown = <<>>
          /\ pager'.fetched = 0 /\ pager'.total = Untold
          /\ pager'.more = FALSE
      BY <3>1 DEF NoPager, IsPager
    <3>6. \A k : Upto(k)' = Upto(k)
      BY <1>2 DEF Upto, Keeps
    <3>3. Upto(pager.fetched)' = <<>>
      BY <1>6, <3>2, <3>6
    <3>4. PagerSound'
      <4>1. pager'.page \in Nat /\ pager'.fetched \in 0..Len(content')
        BY <1>2, <1>4, <3>2
      <4>2. (pager.shown = Upto(pager.fetched))'
        BY <3>2, <3>3
      <4>3. /\ pager'.more \in BOOLEAN /\ ~ pager'.more
        BY <3>2
      <4>5. pager'.page # 0 /\ pager'.total \in Nat \cup {Untold}
        BY <3>2 DEF Untold
      <4>4. QED
        BY <1>2, <4>1, <4>2, <4>3, <4>5 DEF PagerSound
    <3>5. QED
      BY <1>7, <1>8, <3>1, <3>2, <3>4
  <2>4. QED
    BY <2>1, <2>2, <2>3
<1>11. QED
  BY <1>3, <1>9, <1>10

-----------------------------------------------------------------------------
(* The fields of a row.                                                    *)
IsRow(x) == x = [id |-> x.id, fits |-> x.fits, state |-> x.state,
                 named |-> x.named, text |-> x.text, sub |-> x.sub]

(* Every row has them.                                                     *)
LEMMA RowsAre == ASSUME NEW S, NEW x \in RowsOver(S)
                 PROVE  IsRow(x) /\ x.sub \in Seq(S)
BY DEF RowsOver, IsRow

(* A gate takes the text of a row that may not be seen, and nothing else.  *)
LEMMA GatedIs ==
  ASSUME NEW x, IsRow(x)
  PROVE  /\ IsRow(Gated(x)) /\ Gated(x).sub = x.sub
         /\ Gated(x).named = x.named
         /\ Gated(x).text = IF Viewable(x.state) THEN x.text ELSE ""
<1>1. PICK y : y = [x EXCEPT !.text = ""]
  OBVIOUS
<1>2. /\ IsRow(y) /\ y.text = "" /\ y.sub = x.sub /\ y.named = x.named
  BY <1>1 DEF IsRow
<1>3. CASE Viewable(x.state)
  BY <1>3 DEF Gated
<1>4. CASE ~ Viewable(x.state)
  <2>1. Gated(x) = y
    BY <1>1, <1>4 DEF Gated
  <2>2. QED
    BY <1>2, <1>4, <2>1
<1>5. QED
  BY <1>3, <1>4

(* A post shows its text if that may be seen, and its replies likewise.    *)
LEMMA PostIs ==
  ASSUME NEW S, NEW x \in RowsOver(RowsOver(S))
  PROVE  /\ Post(x).text = IF Viewable(x.state) THEN x.text ELSE ""
         /\ DOMAIN Post(x).sub = DOMAIN x.sub
         /\ \A i \in DOMAIN x.sub :
              Post(x).sub[i].text =
                IF Viewable(x.sub[i].state) THEN x.sub[i].text ELSE ""
<1>1. IsRow(x) /\ x.sub \in Seq(RowsOver(S))
  BY RowsAre
<1>2. PICK g : g = Gated(x)
  OBVIOUS
<1>3. /\ IsRow(g) /\ g.text = IF Viewable(x.state) THEN x.text ELSE ""
  BY <1>1, <1>2, GatedIs
<1>4. PICK v : v = [i \in DOMAIN x.sub |-> ReplyBase(x.sub[i])]
  OBVIOUS
<1>5. PICK y : y = [g EXCEPT !.sub = v]
  OBVIOUS
<1>6. y = Post(x)
  BY <1>2, <1>4, <1>5, Zenon DEF Post
<1>7. y.text = g.text /\ y.sub = v
  BY <1>3, <1>5 DEF IsRow
<1>8. ASSUME NEW i \in DOMAIN x.sub
      PROVE  v[i].text =
               IF Viewable(x.sub[i].state) THEN x.sub[i].text ELSE ""
  <2>1. PICK r : r = x.sub[i]
    OBVIOUS
  <2>2. r \in RowsOver(S)
    BY <1>1, <2>1
  <2>3. IsRow(r)
    BY <2>2, RowsAre
  <2>4. PICK h : h = Gated(r)
    OBVIOUS
  <2>5. IsRow(h) /\ h.text = IF Viewable(r.state) THEN r.text ELSE ""
    BY <2>3, <2>4, GatedIs
  <2>6. PICK z : z = [h EXCEPT !.sub = <<>>]
    OBVIOUS
  <2>7. z.text = h.text
    BY <2>5, <2>6 DEF IsRow
  <2>8. z = ReplyBase(r)
    BY <2>4, <2>6 DEF ReplyBase
  <2>9. v[i] = z
    BY <1>4, <2>1, <2>8
  <2>10. QED
    BY <2>1, <2>5, <2>7, <2>9
<1>9. DOMAIN v = DOMAIN x.sub
  BY <1>4
<1>10. QED
  BY <1>3, <1>6, <1>7, <1>8, <1>9, Zenon

(* What moderators have left, of posts and of replies.                     *)
LEMMA LeftHolds ==
  ASSUME NEW s, NEW k \in DOMAIN s
  PROVE  /\ Viewable(s[k].state) => s[k].text \in LeftIn(s)
         /\ \A j \in DOMAIN s[k].sub :
              Viewable(s[k].sub[j].state) => s[k].sub[j].text \in LeftIn(s)
<1>1. Viewable(s[k].state) => s[k].text \in Standing(s)
  BY DEF Standing
<1>2. \A j \in DOMAIN s[k].sub : Viewable(s[k].sub[j].state) =>
        s[k].sub[j].text \in Standing(s[k].sub)
  BY DEF Standing
<1>3. Standing(s) \subseteq LeftIn(s) /\ Standing(s[k].sub) \subseteq LeftIn(s)
  BY DEF LeftIn
<1>4. QED
  BY <1>1, <1>2, <1>3

(* A text that can be read is of a row or of one under it.                 *)
LEMMA ReadableIs ==
  ASSUME NEW p, NEW T,
         \A i \in DOMAIN p : /\ p[i].text \in T
                             /\ \A j \in DOMAIN p[i].sub :
                                  p[i].sub[j].text \in T
  PROVE  Readable(p) \subseteq T
BY DEF Readable

(* Rows that are shown as posts, and what a list is of.                    *)
Posts(r) == [i \in DOMAIN r |-> Post(r[i])]
OnesOf(r) == {r[i] : i \in DOMAIN r}

(* Posts that are shown as posts show what moderators have left.           *)
LEMMA PostsReadable ==
  ASSUME NEW S, NEW s \in Seq(RowsOver(RowsOver(S))),
         NEW r \in Seq(RowsOver(RowsOver(S))),
         OnesOf(r) \subseteq OnesOf(s), NEW p, p = Posts(r)
  PROVE  /\ Readable(p) \subseteq LeftIn(s) \cup {""}
         /\ p \in Seq(OnesOf(p))
<1>8. /\ p = [i \in DOMAIN r |-> Post(r[i])]
      /\ \A i \in DOMAIN r : \E k \in DOMAIN s : r[i] = s[k]
  BY DEF Posts, OnesOf
<1>2. PICK T : T = LeftIn(s) \cup {""}
  OBVIOUS
<1>1. ASSUME NEW i \in DOMAIN p
      PROVE  /\ p[i].text \in T
             /\ \A j \in DOMAIN p[i].sub : p[i].sub[j].text \in T
  <2>1. i \in DOMAIN r /\ p[i] = Post(r[i])
    BY <1>8
  <2>2. PICK k \in DOMAIN s : r[i] = s[k] /\ p[i] = Post(s[k])
    BY <1>8, <2>1
  <2>3. PICK x : x = s[k]
    OBVIOUS
  <2>4. x \in RowsOver(RowsOver(S))
    BY <2>3
  <2>5. /\ Post(x).text = IF Viewable(x.state) THEN x.text ELSE ""
        /\ DOMAIN Post(x).sub = DOMAIN x.sub
        /\ \A j \in DOMAIN x.sub :
             Post(x).sub[j].text =
               IF Viewable(x.sub[j].state) THEN x.sub[j].text ELSE ""
    BY <2>4, PostIs
  <2>6. /\ Viewable(x.state) => x.text \in LeftIn(s)
        /\ \A j \in DOMAIN x.sub :
             Viewable(x.sub[j].state) => x.sub[j].text \in LeftIn(s)
    BY <2>3, LeftHolds
  <2>7. QED
    BY <1>2, <2>2, <2>3, <2>5, <2>6
<1>7. \A i \in DOMAIN p : /\ p[i].text \in T
                         /\ \A j \in DOMAIN p[i].sub :
                              p[i].sub[j].text \in T
  BY <1>1, <1>2, Zenon
<1>3. Readable(p) \subseteq T
  BY ONLY <1>7, ReadableIs
<1>4. /\ DOMAIN p = 1..Len(r) /\ Len(r) \in Nat
      /\ p = [i \in DOMAIN p |-> p[i]]
  BY <1>8
<1>5. p \in Seq(OnesOf(p))
  BY <1>4 DEF OnesOf
<1>6. QED
  BY <1>2, <1>3, <1>5

(* The posts that are on the web page.                                     *)
WebPosts(s) == Filtered(s, WebPost)

(* What a filter leaves of a list is of the list, and passes.              *)
LEMMA WebPostsAre ==
  ASSUME NEW R, NEW s \in Seq(R), NEW f, f = WebPosts(s)
  PROVE  /\ f \in Seq(R)
         /\ \A i \in DOMAIN f : \E k \in DOMAIN s :
              f[i] = s[k] /\ WebPost(s[k])
<1>1. PICK at : at = {i \in DOMAIN s : WebPost(s[i])}
  OBVIOUS
<1>2. at \in SUBSET (DOMAIN s)
  BY <1>1
<1>3. f = Sublist(s, at)
  BY <1>1, Zenon DEF WebPosts, Filtered
<1>4. f \in Seq(R) /\ ToSet(f) = {s[i] : i \in at}
  BY <1>2, <1>3, SublistHolds
<1>5. \A i \in DOMAIN f : f[i] \in ToSet(f)
  BY <1>4 DEF ToSet
<1>6. QED
  BY <1>1, <1>4, <1>5

(* So do those of the web page.                                            *)
LEMMA HtmlReadable ==
  ASSUME NEW S, NEW s \in Seq(RowsOver(RowsOver(S))), NEW p, p = HtmlPosts(s)
  PROVE  /\ Readable(p) \subseteq LeftIn(s) \cup {""}
         /\ p \in Seq(OnesOf(p))
<1>1. PICK kept : kept = WebPosts(s)
  OBVIOUS
<1>2. /\ kept \in Seq(RowsOver(RowsOver(S)))
      /\ \A i \in DOMAIN kept : \E k \in DOMAIN s :
           kept[i] = s[k] /\ WebPost(s[k])
  BY <1>1, WebPostsAre
<1>3. p = [i \in DOMAIN kept |-> [kept[i] EXCEPT !.state = 0,
                                       !.sub = WebPosts(kept[i].sub)]]
  BY <1>1, Zenon DEF HtmlPosts, WebPosts
<1>4. ASSUME NEW x, IsRow(x), WebPost(x) PROVE Viewable(x.state)
  BY <1>4, GatedIs DEF WebPost
<1>5. ASSUME NEW i \in DOMAIN p
      PROVE  /\ p[i].text \in LeftIn(s) \cup {""}
             /\ \A j \in DOMAIN p[i].sub :
                  p[i].sub[j].text \in LeftIn(s) \cup {""}
  <2>1. i \in DOMAIN kept
    BY <1>3
  <2>2. PICK k \in DOMAIN s : kept[i] = s[k] /\ WebPost(s[k])
    BY <1>2, <2>1
  <2>3. PICK x : x = s[k]
    OBVIOUS
  <2>4. x \in RowsOver(RowsOver(S))
    BY <2>3
  <2>5. IsRow(x) /\ x.sub \in Seq(RowsOver(S))
    BY <2>4, RowsAre
  <2>6. PICK u : u = WebPosts(x.sub)
    OBVIOUS
  <2>7. \A j \in DOMAIN u : \E l \in DOMAIN x.sub :
          u[j] = x.sub[l] /\ WebPost(x.sub[l])
    <3>1. PICK t : t = x.sub
      OBVIOUS
    <3>2. PICK R : R = RowsOver(S)
      OBVIOUS
    <3>3. t \in Seq(R) /\ u = WebPosts(t)
      BY <2>5, <2>6, <3>1, <3>2
    <3>4. \A j \in DOMAIN u : \E l \in DOMAIN t :
            u[j] = t[l] /\ WebPost(t[l])
      BY ONLY <3>3, WebPostsAre
    <3>5. QED
      BY ONLY <3>1, <3>4
  <2>8. p[i] = [x EXCEPT !.state = 0, !.sub = u]
    BY <1>3, <2>1, <2>2, <2>3, <2>6
  <2>9. p[i].text = x.text /\ p[i].sub = u
    BY <2>5, <2>8 DEF IsRow
  <2>10. Viewable(x.state)
    BY <1>4, <2>2, <2>3, <2>5
  <2>11. \A j \in DOMAIN x.sub : WebPost(x.sub[j]) =>
           Viewable(x.sub[j].state)
    <3> SUFFICES ASSUME NEW j \in DOMAIN x.sub, WebPost(x.sub[j])
                 PROVE  Viewable(x.sub[j].state)
      OBVIOUS
    <3>1. x.sub[j] \in RowsOver(S)
      BY <2>5
    <3>2. PICK y : y = x.sub[j]
      OBVIOUS
    <3>3. IsRow(y) /\ WebPost(y)
      BY <3>1, <3>2, RowsAre
    <3>4. QED
      BY <1>4, <3>2, <3>3
  <2>12. /\ Viewable(x.state) => x.text \in LeftIn(s)
         /\ \A j \in DOMAIN x.sub :
              Viewable(x.sub[j].state) => x.sub[j].text \in LeftIn(s)
    BY <2>3, LeftHolds
  <2>13. QED
    BY <2>7, <2>9, <2>10, <2>11, <2>12
<1>6. PICK T : T = LeftIn(s) \cup {""}
  OBVIOUS
<1>7. Readable(p) \subseteq T
  BY <1>5, <1>6, ReadableIs
<1>8. DOMAIN p = DOMAIN kept /\ p = [i \in DOMAIN p |-> p[i]]
  BY <1>3, Zenon
<1>9. p \in Seq(OnesOf(p))
  <2>1. DOMAIN p = 1..Len(kept) /\ Len(kept) \in Nat
    BY <1>2, <1>8
  <2>2. QED
    BY <1>8, <2>1 DEF OnesOf
<1>10. QED
  BY <1>6, <1>7, <1>9

(* A text that is read of two lists is read of one of them.                *)
LEMMA ReadableHolds ==
  ASSUME NEW p, NEW T, Readable(p) \subseteq T, NEW i \in DOMAIN p
  PROVE  /\ p[i].text \in T
         /\ \A j \in DOMAIN p[i].sub : p[i].sub[j].text \in T
BY DEF Readable

(* The opening post of a topic shows its text if moderators have left it.  *)
LEMMA OpeningIs ==
  ASSUME NEW topic \in BangumiRow, NEW o, o = Gated(Opening(topic)),
         NEW T, LeftIn(topic.sub) \subseteq T, "" \in T,
         topic.state \notin {6, 7} => topic.text \in T
  PROVE  o.text \in T /\ o.sub = <<>>
<1>1. IsRow(topic) /\ topic.sub \in Seq(RowsOver(RowsOver({})))
  BY RowsAre DEF BangumiRow
<1>2. PICK g : g = Opening(topic)
  OBVIOUS
<1>3. CASE topic.text = "" /\ topic.sub # <<>>
  <2>1. PICK h : h = Head(topic.sub)
    OBVIOUS
  <2>2. /\ h = topic.sub[1] /\ 1 \in DOMAIN topic.sub
        /\ h \in RowsOver(RowsOver({}))
    <3>1. PICK t : t = topic.sub
      OBVIOUS
    <3>2. PICK X : X = RowsOver(RowsOver({}))
      OBVIOUS
    <3>3. t \in Seq(X) /\ t # <<>> /\ h = Head(t)
      BY <1>1, <1>3, <2>1, <3>1, <3>2
    <3>4. h = t[1] /\ 1 \in DOMAIN t /\ h \in X
      BY ONLY <3>3
    <3>5. QED
      BY <3>1, <3>2, <3>4
  <2>3. IsRow(h)
    BY <2>2, RowsAre
  <2>4. g = [h EXCEPT !.sub = <<>>]
    BY <1>2, <1>3, <2>1 DEF Opening
  <2>5. IsRow(g) /\ g.sub = <<>> /\ g.text = h.text /\ g.state = h.state
    BY <2>3, <2>4 DEF IsRow
  <2>6. o.sub = <<>> /\ o.text = IF Viewable(h.state) THEN h.text ELSE ""
    BY <1>2, <2>5, GatedIs
  <2>7. Viewable(h.state) => h.text \in T
    BY <2>2, LeftHolds
  <2>8. QED
    BY <2>6, <2>7
<1>4. CASE ~ (topic.text = "" /\ topic.sub # <<>>)
  <2>1. PICK e : e = IF topic.state \in {6, 7} THEN 6 ELSE 0
    OBVIOUS
  <2>2. g = [topic EXCEPT !.state = e, !.sub = <<>>]
    BY <1>2, <1>4, <2>1 DEF Opening
  <2>3. IsRow(g) /\ g.sub = <<>> /\ g.text = topic.text /\ g.state = e
    BY <1>1, <2>2 DEF IsRow
  <2>4. o.sub = <<>> /\ o.text = IF Viewable(e) THEN topic.text ELSE ""
    BY <1>2, <2>3, GatedIs
  <2>5. Viewable(e) => topic.state \notin {6, 7}
    BY <2>1 DEF Viewable
  <2>6. QED
    BY <2>4, <2>5
<1>5. QED
  BY <1>3, <1>4

(* A topic shows no text but one that moderators have left.                *)
LEMMA TopicReadable ==
  ASSUME tab = "topic", content \in Seq(BangumiRow), content # <<>>,
         NEW p, p = Discussion(Head(content))
  PROVE  /\ Readable(p) \subseteq Left \cup {""}
         /\ p \in Seq(OnesOf(p))
<1>1. PICK topic \in BangumiRow : topic = Head(content)
  OBVIOUS
<1>2. IsRow(topic) /\ topic.sub \in Seq(RowsOver(RowsOver({})))
  BY RowsAre DEF BangumiRow
<1>3. PICK s : s = topic.sub
  OBVIOUS
<1>4. PICK T : T = Left \cup {""}
  OBVIOUS
<1>5. /\ LeftIn(s) \cup {""} \subseteq T
      /\ topic.state \notin {6, 7} => topic.text \in T
  BY <1>1, <1>3, <1>4 DEF Left
<1>6. PICK rest : rest = IF topic.text = "" /\ s # <<>> THEN Tail(s) ELSE s
  OBVIOUS
<1>7. /\ rest \in Seq(RowsOver(RowsOver({})))
      /\ \A i \in DOMAIN rest : \E k \in DOMAIN s : rest[i] = s[k]
  <2>1. CASE topic.text = "" /\ s # <<>>
    <3>1. rest = Tail(s) /\ s \in Seq(RowsOver(RowsOver({}))) /\ s # <<>>
      BY <1>2, <1>3, <1>6, <2>1
    <3>2. /\ rest \in Seq(RowsOver(RowsOver({}))) /\ Len(rest) = Len(s) - 1
          /\ \A i \in 1..Len(rest) : rest[i] = s[i + 1]
      BY <3>1, HeadTailProperties
    <3>3. QED
      BY <3>1, <3>2
  <2>2. CASE ~ (topic.text = "" /\ s # <<>>)
    BY <1>2, <1>3, <1>6, <2>2
  <2>3. QED
    BY <2>1, <2>2
<1>8. PICK r : r = Posts(rest)
  OBVIOUS
<1>9. /\ Readable(r) \subseteq LeftIn(s) \cup {""}
      /\ r \in Seq(OnesOf(r))
  <2>1. s \in Seq(RowsOver(RowsOver({})))
    BY <1>2, <1>3
  <2>2. PICK S : S = {}
    OBVIOUS
  <2>3. /\ s \in Seq(RowsOver(RowsOver(S)))
        /\ rest \in Seq(RowsOver(RowsOver(S)))
        /\ OnesOf(rest) \subseteq OnesOf(s) /\ r = Posts(rest)
    BY <1>7, <1>8, <2>1, <2>2 DEF OnesOf
  <2>4. QED
    BY ONLY <2>3, PostsReadable
<1>10. PICK o : o = Gated(Opening(topic))
  OBVIOUS
<1>11. o.text \in T /\ o.sub = <<>>
  BY <1>3, <1>5, <1>10, OpeningIs
<1>12. p = <<o>> \o r
  BY <1>1, <1>3, <1>6, <1>8, <1>10, Zenon DEF Discussion, Posts
<1>13. Readable(r) \subseteq T
  BY <1>5, <1>9
<1>14. PICK U : U = {o} \cup OnesOf(r)
  OBVIOUS
<1>15. /\ r \in Seq(U) /\ o \in U
       /\ Len(r) \in Nat /\ DOMAIN r = 1..Len(r)
  <2>1. PICK V : V = OnesOf(r)
    OBVIOUS
  <2>2. r \in Seq(V) /\ V \subseteq U /\ o \in U
    BY <1>9, <1>14, <2>1
  <2>3. QED
    BY ONLY <2>2
<1>16. /\ p \in Seq(U) /\ Len(p) = 1 + Len(r) /\ p[1] = o
       /\ \A i \in 1..Len(r) : p[i + 1] = r[i]
  BY ONLY <1>12, <1>15
<1>17. ASSUME NEW i \in DOMAIN p
       PROVE  /\ p[i].text \in T
              /\ \A j \in DOMAIN p[i].sub : p[i].sub[j].text \in T
  <2>1. CASE i = 1
    BY <1>11, <1>16, <2>1
  <2>2. CASE i # 1
    <3>1. PICK k : k = i - 1
      OBVIOUS
    <3>2. k \in 1..Len(r) /\ k + 1 = i /\ k \in DOMAIN r
      BY <1>15, <1>16, <2>2, <3>1
    <3>3. p[i] = r[k]
      BY <1>16, <3>2
    <3>4. /\ r[k].text \in T
          /\ \A j \in DOMAIN r[k].sub : r[k].sub[j].text \in T
      BY <1>13, <3>2, ReadableHolds
    <3>5. QED
      BY <3>3, <3>4
  <2>3. QED
    BY <2>1, <2>2
<1>18. Readable(p) \subseteq T
  BY ONLY <1>17, ReadableIs
<1>19. p \in Seq(OnesOf(p))
  BY <1>16 DEF OnesOf
<1>20. QED
  BY <1>4, <1>18, <1>19

(* What may be read of a thread.                                           *)
Allowed == Left \cup {""}

(* However a thread arrives, it shows what moderators have left.           *)
LEMMA ThreadReadable ==
  ASSUME Ground, tab \in Threads, NEW way \in Ways(tab),
         NEW p, p = Kept(way, content)
  PROVE  Readable(p) \subseteq Allowed /\ p \in Seq(OnesOf(p))
<1>1. content \in Seq(BangumiRow) /\ (tab = "topic" => content # <<>>)
  BY GroundIs
<1>2. CASE tab = "topic"
  <2>1. way = "topic"
    BY <1>2 DEF Ways
  <2>2. p = Discussion(Head(content))
    BY <2>1 DEF Kept
  <2>3. QED
    BY <1>1, <1>2, <2>2, TopicReadable DEF Allowed
<1>3. CASE tab # "topic"
  <2>1. way = "posts" \/ way = "htmlPosts"
    BY <1>3 DEF Ways, Threads
  <2>2. PICK S : S = RowsOver({})
    OBVIOUS
  <2>3. content \in Seq(RowsOver(RowsOver(S)))
    BY <1>1, <2>2 DEF BangumiRow
  <2>4. Left = LeftIn(content)
    BY <1>3 DEF Left
  <2>5. CASE way = "posts"
    <3>1. p = Posts(content)
      BY <2>5 DEF Kept, Posts
    <3>2. OnesOf(content) \subseteq OnesOf(content)
      OBVIOUS
    <3>3. /\ Readable(p) \subseteq LeftIn(content) \cup {""}
          /\ p \in Seq(OnesOf(p))
      BY <2>3, <3>1, <3>2, PostsReadable
    <3>4. QED
      BY <2>4, <3>3 DEF Allowed
  <2>6. CASE way = "htmlPosts"
    <3>1. p = HtmlPosts(content)
      BY <2>6 DEF Kept
    <3>2. /\ Readable(p) \subseteq LeftIn(content) \cup {""}
          /\ p \in Seq(OnesOf(p))
      BY <2>3, <3>1, HtmlReadable
    <3>3. QED
      BY <2>4, <3>2 DEF Allowed
  <2>7. QED
    BY <2>1, <2>5, <2>6
<1>4. QED
  BY <1>2, <1>3

-----------------------------------------------------------------------------
(* A thread is read by one call, at once.                                  *)
ThreadPager ==
  /\ IsPager(pager) /\ ~ pager.more
  /\ pager.page = 0 => pager.shown = <<>>
  /\ Readable(pager.shown) \subseteq Allowed
ThreadFetch ==
  /\ IsFetch(fetch)
  /\ \/ fetch = NoFetch
     \/ /\ OneOrTwo(fetch.routes, tab) /\ fetch.got = <<>>
        /\ fetch.page = 1 /\ pager.page = 0
ThreadsInv == tab \in Threads => ThreadPager /\ ThreadFetch

PartsKept == tab \in InParts => /\ IsPager(pager) /\ IsFetch(fetch)
                                /\ PartsInv
CatalogueInv == Ground /\ PartsKept /\ ThreadsInv
CatalogueNext == CatalogueCalls \/ CatalogueSteps

(* A thread that is shown is the whole of it, of rows that may be read.    *)
LEMMA ThreadShown ==
  ASSUME tab \in Threads, ThreadsInv, fetch # NoFetch,
         UNCHANGED <<tab, content>>, NEW X, NEW rows \in Seq(X),
         Readable(rows) \subseteq Allowed, NEW n, NEW total,
         Shows(rows, n, total)
  PROVE  ThreadsInv'
<1>1. /\ fetch.page = 1 /\ pager.page = 0 /\ pager.shown = <<>>
      /\ tab \notin Paged
  BY DEF ThreadsInv, ThreadPager, ThreadFetch, Threads, Paged
<1>2. <<>> \o rows = rows
  OBVIOUS
<1>3. PICK known, fetched, more :
        /\ more \in BOOLEAN /\ ~ more
        /\ pager' = [page |-> 1, shown |-> rows, fetched |-> fetched,
                     total |-> known, failed |-> FALSE, more |-> more]
  <2>1. PICK known : known = IF total = Untold THEN pager.total ELSE total
    OBVIOUS
  <2>2. PICK fetched : fetched = pager.fetched + n
    OBVIOUS
  <2>3. PICK more \in BOOLEAN : more <=> HasMore(Loaded(rows, fetched), known)
    OBVIOUS
  <2>4. ~ more
    BY <1>1, <2>3 DEF HasMore
  <2>5. HasMore(Loaded(rows, fetched), known) = more
    BY <2>3 DEF HasMore
  <2>6. ~ (fetch.page > 1)
    BY <1>1
  <2>7. pager' = [page |-> fetch.page, shown |-> pager.shown \o rows,
                  fetched |-> fetched, total |-> known, failed |-> FALSE,
                  more |-> HasMore(Loaded(pager.shown \o rows, fetched), known)]
    BY <2>1, <2>2, <2>6, Zenon DEF Shows
  <2>8. QED
    BY <1>1, <1>2, <2>4, <2>5, <2>7, Zenon
<1>4. /\ IsPager(pager') /\ ~ pager'.more /\ pager'.page = 1
      /\ pager'.shown = rows
  BY <1>3 DEF IsPager
<1>5. fetch' = NoFetch /\ IsFetch(NoFetch)
  BY DEF Shows, IsFetch, NoFetch
<1>6. Allowed' = Allowed
  <2>1. Left' = Left
    BY DEF Left
  <2>2. QED
    BY <2>1, Zenon DEF Allowed
<1>7. /\ IsPager(pager') /\ ~ pager'.more
      /\ ~ (pager'.page = 0)
      /\ Readable(pager'.shown) \subseteq Allowed
  BY <1>4
<1>8. Readable(pager.shown)' = Readable(pager'.shown)
  BY DEF Readable
<1>9. QED
  <2>1. IsPager(pager)' /\ IsFetch(fetch)'
    BY <1>5, <1>7 DEF IsPager, IsFetch
  <2>2. Readable(pager.shown)' \subseteq Allowed'
    BY <1>6, <1>7, <1>8, Zenon
  <2>3. ThreadPager'
    BY <1>7, <2>1, <2>2, Zenon DEF ThreadPager
  <2>4. NoFetch' = NoFetch
    BY DEF NoFetch
  <2>5. ThreadFetch'
    BY <1>5, <2>1, <2>4, Zenon DEF ThreadFetch
  <2>6. QED
    BY <2>3, <2>5 DEF ThreadsInv

(* Every step of a thread shows it so, or nothing.                         *)
LEMMA ThreadStep ==
  ASSUME Ground, tab \in Threads, ThreadsInv, CatalogueNext
  PROVE  ThreadsInv'
<1>1. tab \notin Paged /\ tab # "timetable" /\ tab # "appearances"
  BY DEF Threads, Paged
<1>2. tab' = tab /\ content' = content
  BY DEF CatalogueNext, CatalogueCalls, CatalogueSteps, SetMode, OpenTab,
     LoadMore, Begun, RouteAnswers, RouteGone, RouteRefused, RouteLost,
     Fails, PeopleLost
<1>3. Allowed' = Allowed
  <2>1. Left' = Left
    BY <1>2 DEF Left
  <2>2. QED
    BY <2>1, Zenon DEF Allowed
<1>4. /\ IsPager(pager) /\ IsFetch(fetch) /\ ~ pager.more
      /\ pager.page = 0 => pager.shown = <<>>
      /\ Readable(pager.shown) \subseteq Allowed
      /\ \/ fetch = NoFetch
         \/ /\ OneOrTwo(fetch.routes, tab) /\ fetch.got = <<>>
            /\ fetch.page = 1 /\ pager.page = 0
  BY DEF ThreadsInv, ThreadPager, ThreadFetch
<1>5. ASSUME IsPager(pager'), IsFetch(fetch'), ~ pager'.more,
             pager'.page = 0 => pager'.shown = <<>>,
             Readable(pager'.shown) \subseteq Allowed,
             \/ fetch' = NoFetch
             \/ /\ OneOrTwo(fetch'.routes, tab) /\ fetch'.got = <<>>
                /\ fetch'.page = 1 /\ pager'.page = 0
      PROVE  ThreadsInv'
  <2>1. IsPager(pager)' /\ IsFetch(fetch)'
    BY <1>5 DEF IsPager, IsFetch
  <2>2. Readable(pager.shown)' = Readable(pager'.shown)
    BY DEF Readable
  <2>3. Readable(pager.shown)' \subseteq Allowed'
    BY <1>3, <1>5, <2>2, Zenon
  <2>4. ThreadPager'
    BY <1>5, <2>1, <2>3, Zenon DEF ThreadPager
  <2>5. NoFetch' = NoFetch
    BY DEF NoFetch
  <2>6. OneOrTwo(fetch'.routes, tab) => OneOrTwo(fetch'.routes, tab')
    BY <1>2
  <2>7. OneOrTwo(fetch.routes, tab)' <=> OneOrTwo(fetch'.routes, tab')
    BY Zenon DEF OneOrTwo, Suits, Ways, Loops
  <2>8. ThreadFetch'
    BY <1>5, <2>1, <2>5, <2>6, <2>7, Zenon DEF ThreadFetch
  <2>9. QED
    BY <2>4, <2>8 DEF ThreadsInv
<1>6. IsFetch(NoFetch) /\ NoFetch.routes = <<>>
  BY DEF IsFetch, NoFetch
<1>7. CASE SetMode
  <2>1. pager' = pager /\ fetch' = fetch
    BY <1>7 DEF SetMode
  <2>2. QED
    BY <1>4, <1>5, <2>1
<1>8. CASE OpenTab \/ LoadMore
  <2>1. OpenTab
    BY <1>4, <1>8 DEF LoadMore
  <2>2. pager' = pager /\ pager.page = 0
    BY <2>1 DEF OpenTab, Begun
  <2>3. PICK q : q = Reads[tab][mode]
    OBVIOUS
  <2>4. fetch' = [NoFetch EXCEPT !.routes = q, !.page = 1]
    BY <2>1, <2>3 DEF OpenTab, Begun
  <2>5. OneOrTwo(q, tab)
    BY <2>3, RoutesSuit DEF Ground
  <2>6. /\ IsFetch(fetch') /\ fetch'.routes = q /\ fetch'.got = <<>>
        /\ fetch'.page = 1
    BY <2>4 DEF IsFetch, NoFetch
  <2>7. QED
    BY <1>4, <1>5, <2>2, <2>5, <2>6
<1>9. CASE RouteAnswers
  <2>1. fetch # NoFetch /\ OneOrTwo(fetch.routes, tab) /\ fetch.got = <<>>
    BY <1>4, <1>6, <1>9 DEF RouteAnswers
  <2>2. PICK route : route = Head(fetch.routes)
    OBVIOUS
  <2>3. Suits(route, tab)
    BY <2>1, <2>2, FirstSuits
  <2>4. route.way \in Ways(tab) /\ route.loop = "once"
    BY <2>3 DEF Suits, Loops, Threads
  <2>5. Served(route) = content /\ \A s : ~ GoesOn(route, s)
    BY <1>1, <2>4 DEF Served, GoesOn
  <2>6. PICK p : p = Kept(route.way, content)
    OBVIOUS
  <2>7. PICK w : w = route.way
    OBVIOUS
  <2>8. Readable(p) \subseteq Allowed /\ p \in Seq(OnesOf(p))
    BY <2>4, <2>6, <2>7, ThreadReadable
  <2>9. PICK X : X = OnesOf(p)
    OBVIOUS
  <2>10. p \in Seq(X)
    BY <2>8, <2>9
  <2>11. PICK count : count = fetch.count + Len(content)
    OBVIOUS
  <2>12. Shows(fetch.got \o p, count, Total(route))
    BY <1>1, <1>9, <2>2, <2>5, <2>6, <2>11 DEF RouteAnswers
  <2>13. <<>> \o p = p
    BY ONLY <2>10
  <2>14. PICK total : total = Total(route)
    OBVIOUS
  <2>15. Shows(p, count, total)
    BY <2>1, <2>12, <2>13, <2>14, Zenon
  <2>16. QED
    BY <1>2, <2>1, <2>8, <2>10, <2>15, ThreadShown
<1>10. ASSUME NEW settles, Fails(settles) PROVE ThreadsInv'
  <2>1. fetch # NoFetch /\ OneOrTwo(fetch.routes, tab) /\ fetch.got = <<>>
        /\ fetch.page = 1 /\ pager.page = 0
    BY <1>4, <1>6, <1>10 DEF Fails
  <2>2. PICK total : total = IF Head(fetch.routes).at = "p1" THEN 0 ELSE Untold
    OBVIOUS
  <2>3. Shows(fetch.got, fetch.count, total) \/ NextRoute
    BY <1>10, <2>2, Zenon DEF Fails
  <2>4. CASE Shows(fetch.got, fetch.count, total)
    <3>1. PICK X : X = {0}
      OBVIOUS
    <3>2. PICK rows : rows = <<>>
      OBVIOUS
    <3>3. rows \in Seq(X) /\ Readable(rows) \subseteq Allowed
      BY <3>2 DEF Readable
    <3>4. PICK n : n = fetch.count
      OBVIOUS
    <3>5. Shows(rows, n, total)
      BY <2>1, <2>4, <3>2, <3>4, Zenon
    <3>6. QED
      BY <1>2, <2>1, <3>3, <3>5, ThreadShown
  <2>5. CASE NextRoute
    <3>1. CASE Len(fetch.routes) > 1
      <4>1. PICK q : q = Tail(fetch.routes)
        OBVIOUS
      <4>2. OneOrTwo(q, tab)
        BY <2>1, <3>1, <4>1, FirstSuits
      <4>3. /\ fetch' = [NoFetch EXCEPT !.routes = q, !.page = fetch.page]
            /\ pager' = pager
        BY <2>5, <3>1, <4>1 DEF NextRoute
      <4>4. /\ IsFetch(fetch') /\ fetch'.routes = q /\ fetch'.got = <<>>
            /\ fetch'.page = fetch.page
        BY <4>3 DEF IsFetch, NoFetch
      <4>5. QED
        BY <1>4, <1>5, <2>1, <4>2, <4>3, <4>4
    <3>2. CASE ~ (Len(fetch.routes) > 1)
      <4>1. /\ fetch' = NoFetch
            /\ pager' = [NoPager EXCEPT !.page = 1, !.failed = TRUE]
        BY <2>1, <2>5, <3>2 DEF NextRoute
      <4>2. /\ IsPager(pager') /\ pager'.page = 1 /\ pager'.shown = <<>>
            /\ ~ pager'.more
        BY <4>1 DEF IsPager, NoPager
      <4>3. PICK e : e = <<>>
        OBVIOUS
      <4>4. Readable(e) \subseteq Allowed
        BY <4>3 DEF Readable
      <4>5. QED
        BY <1>5, <1>6, <4>1, <4>2, <4>3, <4>4
    <3>3. QED
      BY <3>1, <3>2
  <2>6. QED
    BY <2>3, <2>4, <2>5
<1>11. ~ PeopleLost
  BY <1>1 DEF PeopleLost
<1>12. QED
  BY <1>7, <1>8, <1>9, <1>10, <1>11 DEF CatalogueNext, CatalogueCalls,
     CatalogueSteps, RouteGone, RouteRefused, RouteLost

-----------------------------------------------------------------------------
(* What is fixed stays so.                                                 *)
LEMMA GroundStays ==
  ASSUME Ground, CatalogueNext
  PROVE  Ground' /\ UNCHANGED <<tab, content, totalled>>
<1>1. /\ UNCHANGED <<tab, content, totalled>>
      /\ mode' = mode \/ mode' \in Mode
      /\ hurt' = hurt \/ hurt' = TRUE
  BY DEF CatalogueNext, CatalogueCalls, CatalogueSteps, SetMode, OpenTab,
     LoadMore, Begun, RouteAnswers, RouteGone, RouteRefused, RouteLost,
     Fails, PeopleLost
<1>2. Content[tab]' = Content[tab]
  BY <1>1
<1>3. mode' \in Mode /\ hurt' \in BOOLEAN
  BY <1>1 DEF Ground
<1>4. QED
  BY <1>1, <1>2, <1>3 DEF Ground

(* Every step of what is read in parts keeps it sound.                     *)
LEMMA PartsStep ==
  ASSUME Ground, tab \in InParts, PartsKept, CatalogueNext
  PROVE  PartsKept'
<1>1. IsPager(pager) /\ IsFetch(fetch) /\ PagerSound /\ ReadToTheEnd
      /\ (fetch = NoFetch \/ FetchSound)
  BY DEF PartsKept, PartsInv
<1>2. UNCHANGED <<tab, content>>
  BY GroundStays
<1>3. ASSUME IsPager(pager'), IsFetch(fetch'), PagerSound', ReadToTheEnd',
             fetch' = NoFetch \/ FetchSound'
      PROVE  PartsKept'
  <2>1. IsPager(pager)' /\ IsFetch(fetch)'
    BY <1>3 DEF IsPager, IsFetch
  <2>2. NoFetch' = NoFetch
    BY DEF NoFetch
  <2>3. PartsInv'
    BY <1>3, <2>2, Zenon DEF PartsInv
  <2>4. QED
    BY <2>1, <2>3 DEF PartsKept
<1>4. NoFetch.routes = <<>>
  BY DEF NoFetch
<1>5. CASE SetMode
  <2>1. UNCHANGED <<tab, content, fetch, pager, hurt>>
    BY <1>5 DEF SetMode
  <2>2. PagerSound'
    BY <1>1, <2>1, PagerStays
  <2>3. ReadToTheEnd'
    BY <1>1, <2>1 DEF ReadToTheEnd
  <2>4. FetchSound => FetchSound'
    <3>1. \A k : Upto(k)' = Upto(k) /\ Through(k)' = Through(k)
      BY <2>1 DEF Upto, Keeps, Through
    <3>2. OneOrTwo(fetch.routes, tab)' <=> OneOrTwo(fetch.routes, tab)
      BY <2>1 DEF OneOrTwo, Suits, Ways, Loops
    <3>3. Turned' <=> Turned
      BY <2>1 DEF Turned
    <3>4. QED
      BY <2>1, <3>1, <3>2, <3>3 DEF FetchSound
  <2>5. QED
    BY <1>1, <1>3, <2>1, <2>2, <2>3, <2>4
<1>6. CASE OpenTab \/ LoadMore
  <2>1. PICK page : /\ Begun(page)
                    /\ \/ page = 1 /\ pager.page = 0
                       \/ page = pager.page + 1 /\ pager.more
    BY <1>6 DEF OpenTab, LoadMore
  <2>2. pager' = pager /\ hurt' = hurt
    BY <2>1 DEF Begun
  <2>3. PICK q : q = Reads[tab][mode]
    OBVIOUS
  <2>4. fetch' = [NoFetch EXCEPT !.routes = q, !.page = page]
    BY <2>1, <2>3 DEF Begun
  <2>5. OneOrTwo(q, tab)
    BY <2>3, RoutesSuit DEF Ground
  <2>6. fetch'.page = page
    BY <2>4 DEF NoFetch
  <2>7. Turned'
    BY <1>1, <2>1, <2>2, <2>6 DEF Turned, PagerSound
  <2>8. IsFetch(fetch') /\ FetchSound'
    BY <1>2, <2>4, <2>5, <2>7, RouteBegins
  <2>9. PagerSound'
    BY <1>1, <1>2, <2>2, PagerStays
  <2>10. ReadToTheEnd'
    BY <1>1, <1>2, <2>2 DEF ReadToTheEnd
  <2>11. QED
    BY <1>1, <1>3, <2>2, <2>8, <2>9, <2>10
<1>7. CASE RouteAnswers
  <2>1. FetchSound
    BY <1>1, <1>4, <1>7 DEF RouteAnswers
  <2>2. QED
    BY <1>1, <1>3, <1>7, <2>1, AnswerKeeps
<1>8. ASSUME NEW settles, Fails(settles) PROVE PartsKept'
  <2>1. FetchSound
    BY <1>1, <1>4, <1>8 DEF Fails
  <2>2. QED
    BY <1>1, <1>3, <1>8, <2>1, FailureKeeps
<1>9. ~ PeopleLost
  BY DEF PeopleLost, InParts, Paged
<1>10. QED
  BY <1>5, <1>6, <1>7, <1>8, <1>9 DEF CatalogueNext, CatalogueCalls,
     CatalogueSteps, RouteGone, RouteRefused, RouteLost

(* Before the first call nothing is shown.                                 *)
LEMMA CatalogueInitHolds == CatalogueInit => CatalogueInv
<1> SUFFICES ASSUME CatalogueInit PROVE CatalogueInv
  OBVIOUS
<1>1. Ground /\ pager = NoPager /\ fetch = NoFetch
  BY DEF CatalogueInit, Ground
<1>2. /\ content \in Seq(BangumiRow) /\ Named /\ PageSize \in Nat \ {0}
      /\ MaxPages \in Nat \ {0}
  BY <1>1, GroundIs
<1>3. IsPager(pager) /\ IsFetch(fetch)
  BY <1>1 DEF IsPager, IsFetch, NoPager, NoFetch
<1>4. /\ pager.page = 0 /\ pager.shown = <<>> /\ pager.fetched = 0
      /\ pager.total = Untold /\ pager.more = FALSE
  BY <1>1 DEF NoPager
<1>5. PartsKept
  <2> SUFFICES ASSUME tab \in InParts PROVE PagerSound /\ ReadToTheEnd
    BY <1>1, <1>3 DEF PartsKept, PartsInv
  <2>1. PICK w \in Ways(tab) : TRUE
    BY DEF Ways
  <2>2. Upto(0) = <<>>
    BY <1>2, <2>1, UptoEnds
  <2>3. PagerSound
    <3>1. pager.page \in Nat /\ pager.fetched \in 0..Len(content)
          /\ pager.shown = Upto(pager.fetched)
      BY <1>2, <1>4, <2>2
    <3>2. /\ pager.more \in BOOLEAN /\ ~ pager.more
          /\ pager.total \in {Untold} /\ pager.total \in Nat \cup {Untold}
      BY <1>4
    <3>3. QED
      BY <1>4, <3>1, <3>2, Zenon DEF PagerSound
  <2>4. ReadToTheEnd
    BY <1>4 DEF ReadToTheEnd
  <2>5. QED
    BY <2>3, <2>4
<1>6. ThreadsInv
  <2>1. PICK e : e = <<>>
    OBVIOUS
  <2>2. Readable(e) \subseteq Allowed
    BY <2>1 DEF Readable
  <2>3. ThreadPager
    BY <1>3, <1>4, <2>1, <2>2 DEF ThreadPager
  <2>4. ThreadFetch
    BY <1>1, <1>3 DEF ThreadFetch
  <2>5. QED
    BY <2>3, <2>4 DEF ThreadsInv
<1>7. QED
  BY <1>1, <1>5, <1>6 DEF CatalogueInv

(* Every step keeps the invariant.                                         *)
LEMMA CatalogueStep ==
  CatalogueInv /\ [CatalogueNext]_catalogueVars => CatalogueInv'
<1> SUFFICES ASSUME CatalogueInv, [CatalogueNext]_catalogueVars
             PROVE  CatalogueInv'
  OBVIOUS
<1>1. Ground /\ PartsKept /\ ThreadsInv
  BY DEF CatalogueInv
<1>2. CASE CatalogueNext
  <2>1. Ground' /\ tab' = tab
    BY <1>1, <1>2, GroundStays
  <2>2. PartsKept'
    <3>1. CASE tab \in InParts
      BY <1>1, <1>2, <3>1, PartsStep
    <3>2. CASE tab \notin InParts
      BY <2>1, <3>2 DEF PartsKept
    <3>3. QED
      BY <3>1, <3>2
  <2>3. ThreadsInv'
    <3>1. CASE tab \in Threads
      BY <1>1, <1>2, <3>1, ThreadStep
    <3>2. CASE tab \notin Threads
      BY <2>1, <3>2 DEF ThreadsInv
    <3>3. QED
      BY <3>1, <3>2
  <2>4. QED
    BY <2>1, <2>2, <2>3 DEF CatalogueInv
<1>3. CASE UNCHANGED catalogueVars
  <2>1. UNCHANGED <<mode, tab, content, totalled, fetch, pager, hurt>>
    BY <1>3 DEF catalogueVars
  <2>2. Ground'
    BY <1>1, <2>1 DEF Ground
  <2>3. PartsKept' <=> PartsKept
    BY <2>1 DEF PartsKept, PartsInv, IsPager, IsFetch, PagerSound,
       FetchSound, ReadToTheEnd, Upto, Keeps, Through, PagesEnd, Turned,
       OneOrTwo, Suits, Ways, Loops
  <2>4. Readable(pager.shown)' = Readable(pager.shown) /\ Allowed' = Allowed
    <3>1. Left' = Left
      BY <2>1 DEF Left
    <3>2. Readable(pager.shown)' = Readable(pager.shown)
      BY <2>1 DEF Readable
    <3>3. QED
      BY <3>1, <3>2, Zenon DEF Allowed
  <2>5. ThreadsInv' <=> ThreadsInv
    BY <2>1, <2>4 DEF ThreadsInv, ThreadPager, ThreadFetch, IsPager,
       IsFetch, OneOrTwo, Suits, Ways, Loops
  <2>6. QED
    BY <1>1, <2>2, <2>3, <2>5 DEF CatalogueInv
<1>4. QED
  BY <1>2, <1>3

(* And it says what the properties say.                                    *)
LEMMA CatalogueFollows ==
  ASSUME CatalogueInv
  PROVE  ReadToTheEnd /\ PartsAddUp /\ ModeratedStaysHidden
<1>1. tab \in InParts => ReadToTheEnd /\ pager.shown = Upto(pager.fetched)
  BY DEF CatalogueInv, PartsKept, PartsInv, PagerSound
<1>2. tab \notin InParts => ReadToTheEnd
  BY DEF ReadToTheEnd, InParts, Paged
<1>3. PartsAddUp
  BY <1>1 DEF PartsAddUp, Upto
<1>4. tab \in Threads => Readable(pager.shown) \subseteq Allowed
  BY DEF CatalogueInv, ThreadsInv, ThreadPager
<1>5. ModeratedStaysHidden
  BY <1>4, Zenon DEF ModeratedStaysHidden, Allowed
<1>6. QED
  BY <1>1, <1>2, <1>3, <1>5
=============================================================================
