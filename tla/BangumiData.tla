---------------------------- MODULE BangumiData ----------------------------
(***************************************************************************)
(* The offline bangumi-data payload and the index of streaming sites that  *)
(* is built from it, in the Rust core:                                     *)
(*   api/crawler/bangumi_data_store.rs  the file, the parsed slot, refresh *)
(*   api/crawler/sites_index.rs         the index and its builds           *)
(*   api/crawler/schedule_api.rs        the timetable read from the file   *)
(*                                                                         *)
(* A payload is the number of the download that wrote it, 0 for none.  A   *)
(* task is a call from Dart or the one spawned build; its pc names what it *)
(* does next, and every read or write of a shared cell is a step.          *)
(***************************************************************************)
EXTENDS Integers, FiniteSets

CONSTANTS Caller,      \* calls from Dart that can be under way at once
          Background,  \* the build spawned by a lookup
          MaxCalls,    \* bound: calls in a behaviour
          MaxWrites,   \* bound: payloads written
          Nobody       \* the holder of a free permit; no index

ASSUME DataAssumption ==
  /\ Background \notin Caller /\ Nobody \notin Caller \cup {Background}
  /\ MaxCalls \in Nat /\ MaxWrites \in Nat \ {0}

Task == Caller \cup {Background}
Payload == 0..MaxWrites

VARIABLES
  file,        \* bangumi-data.json
  usable,      \* the payloads that parse
  marker,      \* bangumi-data.failed-at exists
  slot,        \* BANGUMI_DATA
  generation,  \* BANGUMI_DATA_GENERATION
  index,       \* SITES_INDEX
  downloader,  \* holder of DOWNLOAD_SINGLE_FLIGHT
  builder,     \* holder of SITES_INDEX_BUILD_SINGLE_FLIGHT
  task,        \* the locals of each task
  calls        \* calls begun

dataVars == <<file, usable, marker, slot, generation, index, downloader,
              builder, task, calls>>

Op == {"none", "refresh", "warmup", "schedule", "reschedule", "local",
       "build"}
TaskRecord ==
  [pc : {"idle", "queued", "downloading", "written", "bumped", "cleared",
         "build", "recheck", "read", "missed", "parse", "install", "loaded"},
   op : Op,
   seen    : Payload,  \* signature of the file before the permit
   started : Nat,      \* generation a build began under
   loading : Nat,      \* generation a load began under
   data    : Payload,  \* the payload a load has in hand
   raced   : BOOLEAN]  \* history: the build began while a payload was
                       \* being published

IndexRecord == [generation : Nat, payload : Payload, raced : BOOLEAN]

Fresh == [pc |-> "idle", op |-> "none", seen |-> 0, started |-> 0,
          loading |-> 0, data |-> 0, raced |-> FALSE]

DataInit ==
  /\ file \in {0, 1} /\ usable \in SUBSET ({file} \ {0})
  /\ marker \in BOOLEAN
  /\ slot = 0 /\ generation = 0 /\ index = Nobody
  /\ downloader = Nobody /\ builder = Nobody
  /\ task = [t \in Task |-> Fresh]
  /\ calls = 0

-----------------------------------------------------------------------------
Goto(t, where) == task' = [task EXCEPT ![t].pc = where]
Return(t) == task' = [task EXCEPT ![t] = Fresh]

IndexCurrent == index # Nobody /\ index.generation = generation

(* Tasks between the replacement of the file and the drop of the slot.     *)
Publishing == {t \in Caller : task[t].pc \in {"written", "bumped"}}

(* spawn_build_sites_index_background takes the permit for the task.       *)
WithSpawn(tasks) ==
  IF builder = Nobody
    THEN /\ builder' = Background
         /\ task' = [tasks EXCEPT ![Background] =
                       [Fresh EXCEPT !.pc = "recheck", !.op = "build"]]
    ELSE builder' = builder /\ task' = tasks

Begins(c) == /\ task[c].pc = "idle" /\ calls < MaxCalls
             /\ calls' = calls + 1

(* download_..._single_flight up to the wait for its permit.               *)
Queue(c, op) ==
  /\ task' = [task EXCEPT ![c].pc = "queued", ![c].op = op,
                          ![c].seen = file]

-----------------------------------------------------------------------------
(* Calls.                                                                  *)
Refresh(c) ==
  /\ Begins(c) /\ Queue(c, "refresh")
  /\ UNCHANGED <<file, usable, marker, slot, generation, index, downloader,
                 builder>>

(* ensure_bangumi_data_cache: age and cool-down are as the clock has them. *)
Warmup(c) ==
  /\ Begins(c)
  /\ \E fresh, recent \in BOOLEAN :
       /\ fresh => file # 0
       /\ recent => marker
       /\ marker' = (marker /\ ~(fresh /\ recent))
       /\ IF fresh \/ (recent /\ file # 0)
            THEN task' = task ELSE Queue(c, "warmup")
  /\ UNCHANGED <<file, usable, slot, generation, index, downloader, builder>>

(* fetch_schedule_basic_from_local_data_json, with or without a file.      *)
Schedule(c) ==
  /\ Begins(c)
  /\ IF file = 0
       THEN Queue(c, "schedule")
       ELSE task' = [task EXCEPT ![c].pc = "read", ![c].op = "schedule"]
  /\ UNCHANGED <<file, usable, marker, slot, generation, index, downloader,
                 builder>>

(* The variant that never downloads.                                       *)
ScheduleLocal(c) ==
  /\ Begins(c)
  /\ task' = [task EXCEPT ![c].pc = "read", ![c].op = "local"]
  /\ UNCHANGED <<file, usable, marker, slot, generation, index, downloader,
                 builder>>

(* build_sites_index, and ensure_sites_index_built when there is a file.   *)
Build(c) ==
  /\ Begins(c)
  /\ task' = [task EXCEPT ![c].pc = "build", ![c].op = "build"]
  /\ UNCHANGED <<file, usable, marker, slot, generation, index, downloader,
                 builder>>

(* The lookups by Bangumi and by Mikan id answer at once.                  *)
Lookup(c) ==
  /\ Begins(c)
  /\ IF IndexCurrent THEN UNCHANGED <<builder, task>> ELSE WithSpawn(task)
  /\ UNCHANGED <<file, usable, marker, slot, generation, index, downloader>>

-----------------------------------------------------------------------------
(* Download.                                                               *)
Forced(c) == task[c].op # "schedule"

Superfluous(c) == file # 0 /\ (Forced(c) => file # task[c].seen)

TakePermit(c) ==
  /\ task[c].pc = "queued" /\ downloader = Nobody
  /\ task' = [task EXCEPT
       ![c].pc = IF Superfluous(c) THEN "written" ELSE "downloading",
       ![c].seen = 0]
  /\ downloader' = IF Superfluous(c) THEN Nobody ELSE c
  /\ UNCHANGED <<file, usable, marker, slot, generation, index, builder,
                 calls>>

(* One of the CDNs answers: staged, renamed, failure marker removed.       *)
Downloaded(c) ==
  /\ task[c].pc = "downloading" /\ file < MaxWrites
  /\ file' = file + 1
  /\ usable' \in {usable \ {file'}, usable \cup {file'}}
  /\ marker' = FALSE
  /\ downloader' = Nobody
  /\ Goto(c, "written")
  /\ UNCHANGED <<slot, generation, index, builder, calls>>

(* All fail: the schedule goes on with what there is, the others give up.  *)
DownloadFailed(c) ==
  /\ task[c].pc = "downloading"
  /\ marker' = TRUE
  /\ downloader' = Nobody
  /\ IF task[c].op \in {"schedule", "reschedule"}
       THEN Goto(c, "written") ELSE Return(c)
  /\ UNCHANGED <<file, usable, slot, generation, index, builder, calls>>

(* invalidate_bangumi_data_cache: the generation, then the slot.           *)
Bump(c) ==
  /\ task[c].pc = "written"
  /\ generation' = generation + 1
  /\ marker' = (marker /\ task[c].op # "refresh")
  /\ Goto(c, "bumped")
  /\ UNCHANGED <<file, usable, slot, index, downloader, builder, calls>>

ClearSlot(c) ==
  /\ task[c].pc = "bumped"
  /\ slot' = 0
  /\ Goto(c, "cleared")
  /\ UNCHANGED <<file, usable, marker, generation, index, downloader, builder,
                 calls>>

(* invalidate_sites_index, and what each call does after it.               *)
ClearIndex(c) ==
  /\ task[c].pc = "cleared"
  /\ index' = Nobody
  /\ CASE task[c].op = "refresh" ->
            /\ task' = [task EXCEPT ![c].pc = "build", ![c].op = "build"]
            /\ UNCHANGED builder
       [] task[c].op = "warmup" -> Return(c) /\ UNCHANGED builder
       [] OTHER -> WithSpawn([task EXCEPT ![c].pc = "read"])
  /\ UNCHANGED <<file, usable, marker, slot, generation, downloader, calls>>

-----------------------------------------------------------------------------
(* get_or_load_bangumi_data_blocking.                                      *)
ReadSlot(t) ==
  /\ task[t].pc = "read"
  /\ IF slot # 0
       THEN task' = [task EXCEPT ![t].pc = "loaded", ![t].data = slot]
       ELSE Goto(t, "missed")
  /\ UNCHANGED <<file, usable, marker, slot, generation, index, downloader,
                 builder, calls>>

NoteGeneration(t) ==
  /\ task[t].pc = "missed"
  /\ task' = [task EXCEPT ![t].pc = "parse", ![t].loading = generation]
  /\ UNCHANGED <<file, usable, marker, slot, generation, index, downloader,
                 builder, calls>>

Parse(t) ==
  /\ task[t].pc = "parse" /\ file \in usable
  /\ task' = [task EXCEPT ![t].pc = "install", ![t].data = file]
  /\ UNCHANGED <<file, usable, marker, slot, generation, index, downloader,
                 builder, calls>>

\* Mutant: a build that fails keeps its permit.
BuilderStays(t) == builder
BuilderAfter(t) == IF builder = t THEN Nobody ELSE builder

(* No file, or one that does not parse.  The schedule downloads again once *)
(* in the second case; a build gives its permit back.                      *)
ParseFails(t) ==
  /\ task[t].pc = "parse" /\ file \notin usable
  /\ IF task[t].op = "schedule" /\ file # 0
       THEN Queue(t, "reschedule") ELSE Return(t)
  /\ builder' = BuilderAfter(t)
  /\ UNCHANGED <<file, usable, marker, slot, generation, index, downloader,
                 calls>>

\* Mutant: the parsed payload is installed whatever happened meanwhile.
InstallAlways(t) ==
  /\ task[t].pc = "install"
  /\ slot' = task[t].data
  /\ Goto(t, "loaded")
  /\ UNCHANGED <<file, usable, marker, generation, index, downloader, builder,
                 calls>>

Install(t) ==
  /\ task[t].pc = "install"
  /\ IF task[t].loading # generation
       THEN /\ task' = [task EXCEPT ![t].pc = "read", ![t].data = 0,
                                    ![t].loading = 0]
            /\ UNCHANGED slot
       ELSE /\ slot' = IF slot = 0 THEN task[t].data ELSE slot
            /\ task' = [task EXCEPT ![t].pc = "loaded", ![t].data = slot',
                                    ![t].loading = 0]
  /\ UNCHANGED <<file, usable, marker, generation, index, downloader, builder,
                 calls>>

(* The timetable is filtered from the payload in hand.                     *)
Answer(c) ==
  /\ task[c].pc = "loaded" /\ builder # c
  /\ Return(c)
  /\ UNCHANGED <<file, usable, marker, slot, generation, index, downloader,
                 builder, calls>>

-----------------------------------------------------------------------------
(* Builds.                                                                 *)
TakeBuild(c) ==
  /\ task[c].pc = "build" /\ builder = Nobody
  /\ builder' = c
  /\ Goto(c, "recheck")
  /\ UNCHANGED <<file, usable, marker, slot, generation, index, downloader,
                 calls>>

(* Another build may have ended meanwhile; else build_sites_index_core.    *)
Recheck(t) ==
  /\ task[t].pc = "recheck"
  /\ IF IndexCurrent
       THEN Return(t) /\ builder' = Nobody
       ELSE /\ task' = [task EXCEPT ![t].pc = "read",
                                    ![t].started = generation,
                                    ![t].raced = Publishing # {}]
            /\ UNCHANGED builder
  /\ UNCHANGED <<file, usable, marker, slot, generation, index, downloader,
                 calls>>

NewIndex(t) == [generation |-> task[t].started, payload |-> task[t].data,
                raced |-> task[t].raced]

\* Mutant: what a build made is stored as current whatever happened to it.
StoreAsCurrent(t) ==
  /\ task[t].pc = "loaded" /\ builder = t
  /\ index' = [NewIndex(t) EXCEPT !.generation = generation]
  /\ builder' = Nobody
  /\ Return(t)
  /\ UNCHANGED <<file, usable, marker, slot, generation, downloader, calls>>

StoreIndex(t) ==
  /\ task[t].pc = "loaded" /\ builder = t
  /\ index' = IF generation # task[t].started THEN index ELSE NewIndex(t)
  /\ builder' = Nobody
  /\ Return(t)
  /\ UNCHANGED <<file, usable, marker, slot, generation, downloader, calls>>

-----------------------------------------------------------------------------
Calls(c) == \/ Refresh(c) \/ Warmup(c) \/ Schedule(c) \/ ScheduleLocal(c)
            \/ Build(c) \/ Lookup(c)

Steps(t) ==
  \/ /\ t \in Caller
     /\ \/ TakePermit(t) \/ Downloaded(t) \/ DownloadFailed(t)
        \/ Bump(t) \/ ClearSlot(t) \/ ClearIndex(t)
        \/ TakeBuild(t) \/ Answer(t)
  \/ ReadSlot(t) \/ NoteGeneration(t) \/ Parse(t) \/ ParseFails(t)
  \/ Install(t) \/ Recheck(t) \/ StoreIndex(t)

DataNext == \/ \E c \in Caller : Calls(c)
            \/ \E t \in Task : Steps(t)

(* Requests end by an answer or a time-out, and permits are handed out in  *)
(* the order of the requests.                                              *)
DataFairness == \A t \in Task : WF_dataVars(Steps(t))
DataSpec == DataInit /\ [][DataNext]_dataVars /\ DataFairness

-----------------------------------------------------------------------------
DataTypeOK ==
  /\ file \in Payload /\ usable \subseteq Payload \ {0} /\ marker \in BOOLEAN
  /\ slot \in Payload /\ generation \in Nat
  /\ index \in IndexRecord \cup {Nobody}
  /\ downloader \in Caller \cup {Nobody} /\ builder \in Task \cup {Nobody}
  /\ task \in [Task -> TaskRecord]
  /\ calls \in 0..MaxCalls

(* A parsed payload that is not the file's is held only while a caller is  *)
(* between the rename and the drop of the slot: a load that straddles a    *)
(* replacement never leaves the old payload behind.                        *)
SlotIsFile == slot # 0 /\ Publishing = {} => slot = file

(* An index that lookups answer from holds what the file holds, if its     *)
(* build did not begin during a replacement, whatever else overlapped it.  *)
CalmIndexIsFile ==
  IndexCurrent /\ Publishing = {} /\ ~index.raced => index.payload = file

(* "Parsed payload generation used to build this index"                    *)
(* (sites_index.rs): once no replacement is under way, the index of the    *)
(* current generation is that of the file.  The code does not ensure it.   *)
IndexFollowsFile ==
  IndexCurrent /\ Publishing = {} => index.payload = file
=============================================================================
