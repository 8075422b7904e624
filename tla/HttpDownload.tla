---------------------------- MODULE HttpDownload ----------------------------
(***************************************************************************)
(* Plain-HTTP downloads of DownloadManager, composed with its slot queue:  *)
(*   lib/services/download/download_http_pipeline.dart   (launch, body)    *)
(*   lib/services/download/http_download_job.dart        (byte loop)       *)
(*   lib/services/download/download_bt_session.dart      (user operations) *)
(*                                                                         *)
(* A run is one call of _downloadHttpFile, <<task, n>>.  Dart code is      *)
(* atomic between awaits, so every action is the code from one await to    *)
(* the next and pc names the await at which a run is suspended:            *)
(*   launching   _saveTasks of the user operation, before the call         *)
(*   chained     the gate of the previous body of the task                 *)
(*   marking     _saveTasks of _markTaskQueued                             *)
(*   acquiring   acquire of the slot queue                                 *)
(*   starting    _saveTasks after queued became downloading                *)
(*   opening     HttpFileDownloadPort.start                                *)
(*   streaming   the next event of the response body                       *)
(*   closing     sink.close at the end of the body                         *)
(*   failing     sink.close of the finally block, after an exception       *)
(*   unwinding   handle.close                                              *)
(*   backoff     _saveTasks and the sleep before an automatic retry        *)
(*   ending      the last _saveTasks                                       *)
(***************************************************************************)
EXTENDS Integers, Sequences, FiniteSets

CONSTANTS Task,        \* task ids
          MaxRun,      \* bound: calls of _downloadHttpFile per task
          LeftAlone,   \* bound: the tasks the user adds and lets be
          MaxObj,      \* bound: DownloadTask objects made for one id
          MaxRetries,  \* kHttpDownloadMaxAutoRetries
          MaxSlots,    \* upper end of the user's setting
          SlotChoices, \* bound: the settings the user may change to
          MaxAstray,   \* bound: the longest file a body goes astray on
          Size         \* length of each resource, in chunks

ASSUME BoundsAssumption ==
  /\ MaxRun \in Nat \ {0} /\ MaxObj \in Nat \ {0} /\ MaxRetries \in Nat
  /\ MaxSlots \in Nat \ {0} /\ Size \in Nat \ {0}
  /\ SlotChoices \subseteq 1..MaxSlots /\ MaxAstray \in Nat
ASSUME HttpTaskAssumption == IsFiniteSet(Task) /\ LeftAlone \subseteq Task

RunNo == 1..MaxRun
Run == Task \X RunNo
Object == Task \X (1..MaxObj)

VARIABLES
  tracked,        \* _tasks: the number of the task's object, 0 if none
  status,         \* the status of every DownloadTask object
  pausedIds,      \* _pausedTaskIds
  removedIds,     \* _removedTaskIds
  gen,            \* _httpRunGeneration
  chain,          \* _httpRunChain: the run whose gate is stored, 0 if none
  job,            \* _httpDownloadJobs: none, or the flag of the stored job
  file,           \* the local file: the number of each chunk, 0 if astray
  run,            \* the local variables of every run
  adding,         \* startHttpDownload calls that still prepare the directory
  removing,       \* removeTask calls waiting for _saveTasks, <<task, delete>>
  settingSlots,   \* setDownloadSettings is between the setter and drain
  maxConcurrent, holders, queue, call   \* the slot queue

queueVars == <<maxConcurrent, holders, queue, call>>
userVars == <<adding, removing, settingSlots>>
taskVars == <<tracked, pausedIds, removedIds>>
vars == <<taskVars, status, gen, chain, job, file, run, userVars, queueVars>>

Active == {"downloading", "queued"}   \* _isActiveStatus, for HTTP tasks

(* _canAcquireDownloadSlot, the callback the manager gives its queue.      *)
Eligible ==
  {t \in Task : /\ tracked[t] # 0
                /\ t \notin removedIds
                /\ status[<<t, tracked[t]>>] \in Active}

Q == INSTANCE DownloadQueue WITH Call <- Run, eligible <- Eligible

NewRun == [pc |-> "none", obj |-> 0, gen |-> 0, prev |-> 0, tries |-> 0,
           existing |-> 0, next |-> 0, known |-> TRUE, out |-> "none"]
OverRun == [NewRun EXCEPT !.pc = "done"]

Init ==
  /\ tracked = [t \in Task |-> 0]
  /\ status = [o \in Object |-> "none"]
  /\ pausedIds = {} /\ removedIds = {}
  /\ gen = [t \in Task |-> 0]
  /\ chain = [t \in Task |-> 0]
  /\ job = [t \in Task |-> "none"]
  /\ file = [t \in Task |-> <<>>]
  /\ run = [r \in Run |-> NewRun]
  /\ adding = [t \in Task |-> 0]
  /\ removing = {} /\ settingSlots = FALSE
  /\ maxConcurrent \in 1..MaxSlots
  /\ holders = {} /\ queue = <<>>
  /\ call = [r \in Run |-> "idle"]

-----------------------------------------------------------------------------
Obj(r) == <<r[1], run[r].obj>>
Tracks(r) == tracked[r[1]] = run[r].obj
Newest(r) == gen[r[1]] = run[r].gen

(* isTaskStillTracked: some object of that id is tracked, and no launch or *)
(* removal came after this run.                                            *)
StillTracked(r) == tracked[r[1]] # 0 /\ Newest(r)

\* Mutant: only the flag of the registered job counts.
CancelledByJobOnly(r) == job[r[1]] = "cancelled" \/ ~Newest(r)

(* The isCancelled callback.                                               *)
Cancelled(r) ==
  \/ job[r[1]] = "cancelled"
  \/ status[Obj(r)] = "paused"
  \/ r[1] \in pausedIds
  \/ ~Newest(r)

(* The test made after each await before the body may start.               *)
MayRun(r) ==
  /\ Tracks(r) /\ r[1] \notin removedIds
  /\ Newest(r)
  /\ status[Obj(r)] \in Active

AbortJob(t) ==
  [job EXCEPT ![t] = IF @ = "none" THEN "none" ELSE "cancelled"]

(* The run leaves _downloadHttpFile: its gate completes, and its entry in  *)
(* the chain goes unless a later run has replaced it.                      *)
Leave(r) ==
  /\ run' = [run EXCEPT ![r] = OverRun]
  /\ chain' = [chain EXCEPT ![r[1]] = IF @ = r[2] THEN 0 ELSE @]

(* A return inside the inner try: the finally block gives up the slot.     *)
LeaveWithSlot(r) ==
  /\ UNCHANGED <<taskVars, status, gen, job, file, userVars>>
  /\ Leave(r)
  /\ Q!Release({r[1]})

-----------------------------------------------------------------------------
(* User operations.  Each ends at its _saveTasks; those that restart the   *)
(* body then call _downloadHttpFile, which is Launch of the new run.       *)

RunsMade(t) == Cardinality({n \in RunNo : run[<<t, n>>].pc # "none"})
ObjectsMade(t) == Cardinality({k \in 1..MaxObj : status[<<t, k>>] # "none"})

(* Bound: the operation's run and object numbers are not used up.          *)
MayLaunch(t) == RunsMade(t) + adding[t] < MaxRun

NextRun(t) == <<t, RunsMade(t) + 1>>
Launching(t, k) ==
  run' = [run EXCEPT ![NextRun(t)] =
            [NewRun EXCEPT !.pc = "launching", !.obj = k]]

(* startHttpDownload for a URL without a task, to its first await.         *)
AddBegins(t) ==
  /\ tracked[t] = 0
  /\ MayLaunch(t) /\ ObjectsMade(t) + adding[t] < MaxObj
  /\ adding' = [adding EXCEPT ![t] = @ + 1]
  /\ UNCHANGED <<taskVars, status, gen, chain, job, file, run, removing,
                 settingSlots, queueVars>>

(* ... its continuation: the object is made and stored, whatever happened  *)
(* to the id meanwhile.                                                    *)
AddStores(t) ==
  LET k == ObjectsMade(t) + 1 IN
  /\ adding[t] > 0
  /\ adding' = [adding EXCEPT ![t] = @ - 1]
  /\ tracked' = [tracked EXCEPT ![t] = k]
  /\ status' = [status EXCEPT ![<<t, k>>] = "downloading"]
  /\ Launching(t, k)
  /\ UNCHANGED <<pausedIds, removedIds, gen, chain, job, file, removing,
                 settingSlots>>
  /\ Q!OwnerStep

CurrentStatus(t) == status[<<t, tracked[t]>>]

(* pauseTask, offered by the download page for active tasks.  A queued     *)
(* task returns early, before its job is cancelled.                        *)
Pause(t) ==
  /\ tracked[t] # 0 /\ CurrentStatus(t) \in Active
  /\ job' = IF CurrentStatus(t) = "queued" THEN job ELSE AbortJob(t)
  /\ status' = [status EXCEPT ![<<t, tracked[t]>>] = "paused"]
  /\ pausedIds' = pausedIds \cup {t}
  /\ UNCHANGED <<tracked, removedIds, gen, chain, file, run, userVars>>
  /\ Q!OwnerStep

(* The part resumeTask and startHttpDownload share for a paused or failed  *)
(* task.                                                                   *)
Reactivate(t) ==
  /\ tracked[t] # 0 /\ CurrentStatus(t) \in {"paused", "error"}
  /\ MayLaunch(t)
  /\ pausedIds' = pausedIds \ {t}
  /\ status' = [status EXCEPT ![<<t, tracked[t]>>] = "downloading"]
  /\ Launching(t, tracked[t])
  /\ UNCHANGED <<tracked, removedIds, gen, chain, job, userVars>>

(* resumeTask, and startHttpDownload with a partial file: the slot of the  *)
(* previous run is given up.                                               *)
Resume(t) ==
  /\ Reactivate(t)
  /\ UNCHANGED file
  /\ Q!Release({t})

(* startHttpDownload without a partial file: the slot is kept.             *)
Restart(t) ==
  /\ file[t] = <<>>
  /\ Reactivate(t)
  /\ UNCHANGED file
  /\ Q!OwnerStep

\* Mutant: the holder is taken out of the queue without a drain.
RemoveHolder(t, delete) ==
  /\ tracked[t] # 0
  /\ gen' = [gen EXCEPT ![t] = @ + 1]
  /\ job' = AbortJob(t)
  /\ tracked' = [tracked EXCEPT ![t] = 0]
  /\ pausedIds' = pausedIds \ {t}
  /\ removedIds' = removedIds \cup {t}
  /\ removing' = removing \cup {<<t, delete>>}
  /\ holders' = holders \ {t}
  /\ UNCHANGED <<status, chain, file, run, adding, settingSlots,
                 maxConcurrent, queue, call>>

(* removeTask, to its _saveTasks; the rest is RemoveEnds.                  *)
Remove(t, delete) ==
  /\ tracked[t] # 0
  /\ gen' = [gen EXCEPT ![t] = @ + 1]
  /\ job' = AbortJob(t)
  /\ tracked' = [tracked EXCEPT ![t] = 0]
  /\ pausedIds' = pausedIds \ {t}
  /\ removedIds' = removedIds \cup {t}
  /\ removing' = removing \cup {<<t, delete>>}
  /\ UNCHANGED <<status, chain, file, run, adding, settingSlots>>
  /\ Q!Release({t})

DeleteFiles(S) == [t \in Task |-> IF t \in S THEN <<>> ELSE file[t]]

RemoveEnds(t, delete) ==
  /\ <<t, delete>> \in removing
  /\ removing' = removing \ {<<t, delete>>}
  /\ job' = [job EXCEPT ![t] = "none"]
  /\ file' = IF delete THEN DeleteFiles({t}) ELSE file
  /\ UNCHANGED <<taskVars, status, gen, chain, run, adding, settingSlots,
                 queueVars>>

(* clearCompleted, one synchronous block for HTTP tasks; the generation    *)
(* stays as it is.                                                         *)
ClearCompleted(delete) ==
  LET done == {t \in Task : tracked[t] # 0 /\ CurrentStatus(t) = "completed"}
  IN
  /\ done # {}
  /\ file' = IF delete THEN DeleteFiles(done) ELSE file
  /\ tracked' = [t \in Task |-> IF t \in done THEN 0 ELSE tracked[t]]
  /\ pausedIds' = pausedIds \ done
  /\ removedIds' = removedIds \cup done
  /\ UNCHANGED <<status, gen, chain, job, run, userVars>>
  /\ Q!Release(done)

(* setDownloadSettings: the setter of the queue, then, once the value is   *)
(* stored, a drain.                                                        *)
SetSlots(m) ==
  /\ ~settingSlots /\ settingSlots' = TRUE
  /\ UNCHANGED <<taskVars, status, gen, chain, job, file, run, adding,
                 removing>>
  /\ Q!SetMaxConcurrent(m)

SlotsStored ==
  /\ settingSlots /\ settingSlots' = FALSE
  /\ UNCHANGED <<taskVars, status, gen, chain, job, file, run, adding,
                 removing>>
  /\ Q!Drain

-----------------------------------------------------------------------------
\* Mutant: the own gate is stored before the previous one is read.
LaunchOnOwnGate(r) ==
  /\ run[r].pc = "launching" /\ status[Obj(r)] \in Active
  /\ gen' = [gen EXCEPT ![r[1]] = @ + 1]
  /\ job' = AbortJob(r[1])
  /\ chain' = [chain EXCEPT ![r[1]] = r[2]]
  /\ run' = [run EXCEPT ![r].pc = "chained", ![r].gen = gen'[r[1]],
                        ![r].prev = r[2]]
  /\ UNCHANGED <<taskVars, status, file, userVars, queueVars>>

(* _downloadHttpFile: the synchronous head, to the await of the previous   *)
(* body.  A task paused meanwhile is not launched.                         *)
Launch(r) ==
  /\ run[r].pc = "launching"
  /\ UNCHANGED <<taskVars, status, file, userVars, queueVars>>
  /\ IF status[Obj(r)] \notin Active
       THEN /\ run' = [run EXCEPT ![r] = OverRun]
            /\ UNCHANGED <<gen, chain, job>>
       ELSE /\ gen' = [gen EXCEPT ![r[1]] = @ + 1]
            /\ job' = AbortJob(r[1])
            /\ chain' = [chain EXCEPT ![r[1]] = r[2]]
            /\ run' = [run EXCEPT ![r].pc = "chained",
                                  ![r].gen = gen'[r[1]],
                                  ![r].prev = chain[r[1]]]

\* Mutant: the new body does not wait.
PreviousIgnored(r) == TRUE

(* The gate of the previous body.                                          *)
PreviousLeft(r) ==
  run[r].prev # 0 => run[<<r[1], run[r].prev>>].pc = "done"

NoSlotForMe == queue # <<>> \/ Cardinality(holders) >= maxConcurrent

TakesTurn(r) ==
  /\ run[r].pc = "chained" /\ PreviousLeft(r)
  /\ UNCHANGED <<taskVars, gen, job, file, userVars>>
  /\ \/ /\ ~MayRun(r)
        /\ Leave(r)
        /\ UNCHANGED <<status, queueVars>>
     \/ /\ MayRun(r) /\ NoSlotForMe
        /\ status' = [status EXCEPT ![Obj(r)] = "queued"]
        /\ run' = [run EXCEPT ![r].pc = "marking", ![r].prev = 0]
        /\ UNCHANGED chain
        /\ Q!OwnerStep
     \/ /\ MayRun(r) /\ ~NoSlotForMe
        /\ run' = [run EXCEPT ![r].pc = "acquiring", ![r].prev = 0]
        /\ UNCHANGED <<status, chain>>
        /\ Q!Acquire(r)

Marked(r) ==
  /\ run[r].pc = "marking"
  /\ run' = [run EXCEPT ![r].pc = "acquiring"]
  /\ UNCHANGED <<taskVars, status, gen, chain, job, file, userVars>>
  /\ Q!Acquire(r)

Refused(r) ==
  /\ run[r].pc = "acquiring" /\ call[r] = "refused"
  /\ Leave(r)
  /\ UNCHANGED <<taskVars, status, gen, job, file, userVars>>
  /\ Q!Return(r)

(* runHttpFileDownload up to the request: the length of the local file is  *)
(* read; a run that counts as cancelled already returns at once.           *)
Attempt(r) ==
  IF Cancelled(r)
    THEN /\ run' = [run EXCEPT ![r].pc = "unwinding", ![r].out = "removed"]
         /\ job' = [job EXCEPT ![r[1]] = "none"]
    ELSE /\ run' = [run EXCEPT ![r].pc = "opening", ![r].out = "none",
                               ![r].existing = Len(file[r[1]])]
         /\ UNCHANGED job

(* From the answer of the queue, or from starting, to the next await.  A   *)
(* run that leaves with its answer in hand is not called again.            *)
Proceed(r) ==
  /\ \/ run[r].pc = "acquiring" /\ call[r] = "granted"
     \/ run[r].pc = "starting"
  /\ \/ ~MayRun(r) /\ LeaveWithSlot(r)
     \/ /\ MayRun(r)
        /\ UNCHANGED <<taskVars, gen, chain, file, userVars>>
        /\ IF status[Obj(r)] = "queued"
             THEN /\ status' = [status EXCEPT ![Obj(r)] = "downloading"]
                  /\ run' = [run EXCEPT ![r].pc = "starting"]
                  /\ UNCHANGED job
             ELSE UNCHANGED status /\ Attempt(r)
        /\ IF run[r].pc = "acquiring" THEN Q!Return(r) ELSE Q!OwnerStep

-----------------------------------------------------------------------------
(* The byte loop.  Verdict is the result of the attempt when the code      *)
(* decides it: cancellation and a lost task win over what happened.        *)
Verdict(r, otherwise) ==
  CASE ~StillTracked(r) -> "removed"
    [] StillTracked(r) /\ (Cancelled(r) \/ run[r].out = "stopped") ->
         IF status[Obj(r)] \in Active THEN "removed" ELSE "paused"
    [] OTHER -> otherwise

StatusOf ==
  [paused |-> "paused", completed |-> "completed",
   transient |-> "error", permanent |-> "error"]

(* The verdict v is stored; with p = "unwinding" also clearJob has run,    *)
(* which only the newest run may do.                                       *)
Concludes(r, v, p) ==
  /\ run' = [run EXCEPT ![r].pc = p, ![r].out = v, ![r].existing = 0,
                        ![r].next = 0, ![r].known = TRUE]
  /\ status' = IF v = "removed" THEN status
               ELSE [status EXCEPT ![Obj(r)] = StatusOf[v]]
  /\ job' = IF p = "unwinding" /\ Newest(r)
              THEN [job EXCEPT ![r[1]] = "none"] ELSE job
  /\ UNCHANGED <<taskVars, gen, chain, file, userVars>>
  /\ Q!OwnerStep

(* A 2xx answer: the whole resource, or a 206 with a Content-Range, with   *)
(* none, or with one that cannot be read, whose body begins after `from`   *)
(* chunks, be it asked for or not.                                         *)
Answer ==
  [kind : {"range", "bare", "garbled"}, from : 0..(Size - 1)]
    \cup [kind : {"full"}, from : {0}]

(* A body that begins elsewhere than asked for and does not say so.        *)
Astray(r, a) == a.kind = "bare" /\ a.from # run[r].existing

\* Mutant: the Content-Range is not looked at.
AppendsByStatus(r, a) == run[r].existing > 0 /\ a.kind # "full"

(* _isMatchingPartialResponse, for a request that asked for a range: a 206 *)
(* is believed if it says nothing of where it begins.                      *)
Appends(r, a) ==
  /\ run[r].existing > 0
  /\ \/ a.kind = "bare"
     \/ a.kind = "range" /\ a.from = run[r].existing

(* The response arrives.  One that does not match empties the file, and    *)
(* its body is written from the first byte, wherever it begins.            *)
OpensWith(r, a) ==
  /\ Astray(r, a) => run[r].existing <= MaxAstray
  /\ file' = IF Appends(r, a) THEN file ELSE [file EXCEPT ![r[1]] = <<>>]
  /\ run' = [run EXCEPT ![r].pc = "streaming", ![r].existing = 0,
                        ![r].next = a.from + 1, ![r].known = ~Astray(r, a)]
  /\ job' = [job EXCEPT ![r[1]] = "live"]
  /\ UNCHANGED <<taskVars, status, gen, chain, userVars, queueVars>>

Opens(r) ==
  /\ run[r].pc = "opening"
  /\ \/ /\ ~StillTracked(r) \/ Cancelled(r)
        /\ Concludes(r, Verdict(r, "none"), "unwinding")
     \/ /\ StillTracked(r) /\ ~Cancelled(r)
        /\ \E a \in Answer : OpensWith(r, a)

(* The request fails for good in all header strategies; 416 is the answer  *)
(* of a range server to a request beyond a whole file.                     *)
OpenFails(r, error) ==
  /\ run[r].pc = "opening"
  /\ Concludes(r, Verdict(r, error), "unwinding")

ChunkOf(r) == IF run[r].known THEN run[r].next ELSE 0

Chunk(r) ==
  /\ run[r].pc = "streaming" /\ run[r].next <= Size
  /\ UNCHANGED <<taskVars, status, gen, chain, job, userVars, queueVars>>
  /\ IF ~StillTracked(r) \/ Cancelled(r)
       THEN /\ run' = [run EXCEPT ![r].pc = "closing", ![r].out = "stopped"]
            /\ UNCHANGED file
       ELSE /\ file' = [file EXCEPT ![r[1]] = Append(@, ChunkOf(r))]
            /\ run' = [run EXCEPT ![r].next = @ + 1]

(* The body ends, with the resource or before it: a 206 may cover less     *)
(* than asked for, and a body without a length ends with its connection.   *)
(* What came is not compared with the length the answer announced.         *)
StreamEnds(r) ==
  /\ run[r].pc = "streaming"
  /\ run' = [run EXCEPT ![r].pc = "closing"]
  /\ UNCHANGED <<taskVars, status, gen, chain, job, file, userVars,
                 queueVars>>

(* An error event of the body: the verdict, status included, is stored     *)
(* before the sink is closed and the job entry dropped.                    *)
StreamFails(r, error) ==
  /\ run[r].pc = "streaming"
  /\ Concludes(r, Verdict(r, error), "failing")

Closed(r) ==
  /\ run[r].pc = "closing"
  /\ Concludes(r, Verdict(r, "completed"), "unwinding")

FailClosed(r) ==
  /\ run[r].pc = "failing"
  /\ run' = [run EXCEPT ![r].pc = "unwinding"]
  /\ job' = IF Newest(r) THEN [job EXCEPT ![r[1]] = "none"] ELSE job
  /\ UNCHANGED <<taskVars, status, gen, chain, file, userVars, queueVars>>

-----------------------------------------------------------------------------
\* Mutant: a task paused meanwhile is retried all the same.
CanRetryPaused(r) ==
  /\ run[r].out = "transient" /\ run[r].tries < MaxRetries
  /\ Tracks(r) /\ Newest(r)

(* The result reaches the retry loop of _downloadHttpFile.                 *)
CanRetry(r) ==
  /\ run[r].out = "transient" /\ run[r].tries < MaxRetries
  /\ Tracks(r) /\ Newest(r)
  /\ r[1] \notin pausedIds
  /\ status[Obj(r)] # "paused"

Retries(r) ==
  /\ run[r].pc = "unwinding" /\ CanRetry(r)
  /\ status' = [status EXCEPT ![Obj(r)] = "downloading"]
  /\ run' = [run EXCEPT ![r].pc = "backoff", ![r].tries = @ + 1,
                        ![r].out = "none"]
  /\ UNCHANGED <<taskVars, gen, chain, job, file, userVars>>
  /\ Q!OwnerStep

GivesUp(r) ==
  /\ run[r].pc = "unwinding" /\ ~CanRetry(r)
  /\ pausedIds' = IF /\ run[r].out = "paused" /\ Tracks(r) /\ Newest(r)
                     /\ status[Obj(r)] \notin Active
                    THEN pausedIds \cup {r[1]} ELSE pausedIds
  /\ UNCHANGED <<tracked, removedIds, status, gen, job, file, userVars>>
  /\ IF StillTracked(r)
       THEN /\ run' = [run EXCEPT ![r].pc = "ending"]
            /\ UNCHANGED <<chain, queueVars>>
       ELSE Leave(r) /\ Q!Release({r[1]})

BackoffEnds(r) ==
  /\ run[r].pc = "backoff"
  /\ IF \/ ~Tracks(r) \/ r[1] \in removedIds \/ ~Newest(r)
        \/ r[1] \in pausedIds \/ status[Obj(r)] = "paused"
       THEN LeaveWithSlot(r)
       ELSE /\ status' = [status EXCEPT ![Obj(r)] = "downloading"]
            /\ Attempt(r)
            /\ UNCHANGED <<taskVars, gen, chain, file, userVars>>
            /\ Q!OwnerStep

Ends(r) ==
  /\ run[r].pc = "ending"
  /\ LeaveWithSlot(r)

-----------------------------------------------------------------------------
Errors == {"transient", "permanent"}

User(t) ==
  \/ AddBegins(t)
  \/ /\ t \notin LeftAlone
     /\ \/ Pause(t) \/ Resume(t) \/ Restart(t)
        \/ \E delete \in BOOLEAN : Remove(t, delete)

(* The continuations of user operations other than Launch.                 *)
Continuation(t) ==
  \/ AddStores(t)
  \/ \E delete \in BOOLEAN : RemoveEnds(t, delete)

RunStep(r) ==
  \/ Launch(r) \/ TakesTurn(r) \/ Marked(r) \/ Refused(r) \/ Proceed(r)
  \/ Opens(r) \/ Chunk(r) \/ StreamEnds(r)
  \/ \E error \in Errors : OpenFails(r, error) \/ StreamFails(r, error)
  \/ Closed(r) \/ FailClosed(r)
  \/ Retries(r) \/ GivesUp(r) \/ BackoffEnds(r) \/ Ends(r)

Next ==
  \/ \E t \in Task : User(t) \/ Continuation(t)
  \/ \E delete \in BOOLEAN : ClearCompleted(delete)
  \/ \E m \in SlotChoices : SetSlots(m)
  \/ SlotsStored
  \/ \E r \in Run : RunStep(r)

Spec == Init /\ [][Next]_vars

-----------------------------------------------------------------------------
(* The states of a run that is past the chain.                             *)
InBody(r) == run[r].pc \notin {"none", "launching", "chained", "done"}

(* download_manager.dart:192-194, "only one run holds the slot / writes    *)
(* the file at a time".                                                    *)
OneBodyPerTask ==
  \A t \in Task : \A m, n \in RunNo :
    InBody(<<t, m>>) /\ InBody(<<t, n>>) => m = n

(* Every chunk of the file is at its place in the resource, unless a       *)
(* server began a body elsewhere: silently, and then the chunk is astray,  *)
(* or with a Content-Range, and then such a body starts the file and joins *)
(* nothing (http_file_download_port.dart:64-66, "verify that a 206         *)
(* response starts at the byte offset it requested before appending").  So *)
(* a file that starts with the first chunk and has none astray is a prefix *)
(* of the resource.                                                        *)
InPlace(s) ==
  \A i \in 1..Len(s) :
    \/ s[i] \in {i, 0}
    \/ \A j \in 1..i : s[j] = s[1] + j - 1

ChunksInPlace == \A t \in Task : InPlace(file[t])

(* A run that downloads for the first time, and is neither cancelled nor   *)
(* about to be replaced, holds the slot of its task.                       *)
FirstAttemptHoldsSlot ==
  \A r \in Run :
    /\ run[r].pc \in {"opening", "streaming"}
    /\ StillTracked(r) /\ ~Cancelled(r) /\ run[r].tries = 0
    /\ \A n \in RunNo : run[<<r[1], n>>].pc # "launching"
    => r[1] \in holders

(* A paused task stays paused until the user resumes, restarts or removes  *)
(* it: no retry, late chunk or unwinding run brings it back.               *)
PauseSticks ==
  [][\A t \in Task :
       /\ tracked[t] # 0 /\ CurrentStatus(t) = "paused"
       /\ tracked'[t] = tracked[t] /\ CurrentStatus(t)' # "paused"
       => \E n \in RunNo : run[<<t, n>>].pc = "none"
                           /\ run'[<<t, n>>].pc = "launching"]_vars

(* The manager obeys the rules of its queue: every step that changes who   *)
(* is eligible, holds or waits is one of the queue's operations, seen with *)
(* the statuses the step leaves behind.                                    *)
KeepsQueueRules == Q!Spec

(* What the user sees of each task.                                        *)
TaskState ==
  [t \in Task |-> CASE tracked[t] = 0 -> "absent"
                    [] tracked[t] # 0 /\ CurrentStatus(t) \in Active -> "active"
                    [] OTHER -> CurrentStatus(t)]

Leaving == {t \in Task : \E delete \in BOOLEAN : <<t, delete>> \in removing}

(* The tasks whose last body the server ended before the resource did.     *)
CutShort ==
  {t \in Task : \E n \in RunNo : /\ run[<<t, n>>].pc = "closing"
                                 /\ run[<<t, n>>].out = "none"
                                 /\ run[<<t, n>>].next <= Size}

(* The promise of module HttpTask, kept by the pipeline.                   *)
Promise ==
  INSTANCE HttpTask WITH state <- TaskState, asked <- adding,
                         leaving <- Leaving, short <- CutShort

KeepsPromise == Promise!Spec

-----------------------------------------------------------------------------
(* A run that will still look after its task.                              *)
Serves(r) ==
  /\ run[r].pc \notin {"none", "done"} /\ Tracks(r)
  /\ run[r].pc = "launching" \/ Newest(r)

Served(t) ==
  tracked[t] # 0 /\ CurrentStatus(t) \in Active
    => \E n \in RunNo : Serves(<<t, n>>)

(* "Pause->resume waits for the previous body to exit (and release its     *)
(* slot) before the new body starts" (download_manager.dart:192-194), so a *)
(* resumed task has a body.  Refuted: a superseded run leaves its          *)
(* cancelled job behind, and the new body takes it for its own.            *)
ResumeServes == \A t \in Task : t \notin removedIds => Served(t)

(* "Start a new HTTP download task" (download_http_pipeline.dart:23), also *)
(* for a URL whose task was removed: while it is shown as active, some run *)
(* of it is under way.  Refuted: an id never leaves removedIds.            *)
AddServes ==
  \A t \in removedIds :
    tracked[t] # 0 /\ CurrentStatus(t) \in Active
      => \E n \in RunNo : run[<<t, n>>].pc \notin {"none", "done"}

(* "At most maxConcurrent tasks hold a slot at once" (download_queue.dart  *)
(* line 27) bounds the transfers only if each of them holds a slot; also   *)
(* after an automatic retry.  Refuted: see FirstAttemptHoldsSlot.          *)
RetryHoldsSlot ==
  \A r \in Run :
    /\ run[r].pc \in {"opening", "streaming"}
    /\ StillTracked(r) /\ ~Cancelled(r)
    /\ \A n \in RunNo : run[<<r[1], n>>].pc # "launching"
    => r[1] \in holders

-----------------------------------------------------------------------------
(* Every await of a run comes back: storage, timers and closing files do,  *)
(* and the network answers, sends a chunk, ends or fails.                  *)
FairSpec ==
  /\ Spec
  /\ \A r \in Run : WF_vars(RunStep(r))

(* The chain of bodies never blocks: who waits for the previous body gets  *)
(* its turn.                                                               *)
ChainMoves ==
  \A r \in Run : run[r].pc = "chained" ~> run[r].pc # "chained"
=============================================================================
