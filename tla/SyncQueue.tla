----------------------------- MODULE SyncQueue -----------------------------
(***************************************************************************)
(* The outbox for Bangumi collection writes and the callers that fill it:  *)
(*   lib/services/bangumi_sync_queue.dart        (rows, drain)             *)
(*   lib/services/bangumi_collection_cache.dart  (setStatus, saveMetadata, *)
(*                                                remove)                  *)
(*   lib/services/favorites_manager.dart         (local rows)              *)
(*   lib/services/bangumi_auth_manager.dart      (session)                 *)
(*                                                                         *)
(* A call is one user edit, or one drain on behalf of start-up, logout or  *)
(* a page; its state names the await it is at.  Rows and local favourites  *)
(* are in the database and survive a restart, calls and drains do not.     *)
(***************************************************************************)
EXTENDS Integers, Sequences, FiniteSets, SequencesExt

CONSTANTS Account, Subject,
          Type,      \* collection statuses
          Meta,      \* values of the metadata fields, taken as one
          Call,      \* calls that can be under way at once
          MaxId,     \* bound: no edit is begun once more rows were inserted
          None       \* null: no row, no account, field not set

ASSUME SyncAssumption == None \notin Account \cup Type \cup Meta

Nothing == [type |-> None, meta |-> None]

VARIABLES
  session,  \* the account whose token is in place, or None
  local,    \* the favourites row of each subject: its status and metadata,
            \* edited (updatedAt # null), owner (lastSyncedAt, ownerAccountId)
  rows,     \* the queue table
  nextId,   \* its autoincrement counter
  remote,   \* external: the collections on Bangumi, per account
  call,     \* the calls in progress
  drain,    \* _DatabaseDrainCoordinator and the drain it runs, per account
  wanted,   \* history: what the enqueued edits of an account add up to
  mixed     \* history: subjects a create was queued for across older rows

vars == <<session, local, rows, nextId, remote, call, drain, wanted, mixed>>

Idle == [pc |-> "idle", subject |-> None, payload |-> Nothing,
         op |-> "none", account |-> None, expected |-> {},
         settled |-> {}]
NoDrain == [pc |-> "idle", tasks |-> <<>>, answer |-> "none",
            refreshed |-> FALSE, sent |-> {}, left |-> {},
            rerun |-> FALSE, settled |-> {}, callers |-> {}]

(* A subject is unknown on both sides or synchronised.                     *)
Init ==
  /\ session \in Account
  /\ \E known \in SUBSET Subject, t \in Type :
       /\ local = [s \in Subject |->
                     IF s \in known
                       THEN [type |-> t, meta |-> None, edited |-> FALSE,
                             owner |-> session]
                       ELSE None]
       /\ remote = [at \in Account \X Subject |->
                      IF at[1] = session /\ at[2] \in known
                        THEN [type |-> t, meta |-> None] ELSE Nothing]
  /\ wanted = remote
  /\ rows = {} /\ nextId = 1 /\ mixed = {}
  /\ call = [c \in Call |-> Idle]
  /\ drain = [a \in Account |-> NoDrain]

-----------------------------------------------------------------------------
(* Rows of the queue.                                                      *)
RowsOf(a, s) == {r \in rows : r.account = a /\ r.subject = s}
TaskFor(a, s, op) == {r \in RowsOf(a, s) : r.op = op}

(* BangumiMetadataPayload.mergedWith: later edits win per field.           *)
MergedWith(old, new) ==
  [type |-> IF new.type # None THEN new.type ELSE old.type,
   meta |-> IF new.meta # None THEN new.meta ELSE old.meta]

(* An edit that meets a pending create is folded into it.                  *)
FoldedOp(a, s, op) ==
  IF op \in {"status", "metadata"} /\ TaskFor(a, s, "upsert") # {}
    THEN "upsert" ELSE op

\* Mutant: a pending delete outlives the decision to add the subject again.
SupersededByDelete(a, s, op) ==
  {r \in RowsOf(a, s) : op = "delete" /\ r.op # "delete"}

(* Rows an edit drops: a delete all others, any other edit the delete.     *)
Superseded(a, s, op) ==
  {r \in RowsOf(a, s) : (op = "delete") # (r.op = "delete")}

(* The row an edit leaves, written over the existing one or inserted.      *)
NewRow(a, s, op, payload) ==
  LET target == FoldedOp(a, s, op)
      old == TaskFor(a, s, target) IN
  [id      |-> IF old = {} THEN nextId ELSE (CHOOSE r \in old : TRUE).id,
   account |-> a, subject |-> s, op |-> target,
   payload |-> IF old # {} /\ op \in {"status", "metadata"}
                 THEN MergedWith((CHOOSE r \in old : TRUE).payload, payload)
                 ELSE payload,
   fresh |-> TRUE]

(* Rows a create neither replaces by as much or more, nor drops.           *)
Crossing(a, s, payload) ==
  {r \in RowsOf(a, s) :
     \/ r.op \in {"status", "metadata"}
     \/ r.op = "upsert" /\ MergedWith(r.payload, payload) # payload}

(* One transaction of enqueueStatus, enqueueMetadata, enqueueUpsert or     *)
(* enqueueDelete.                                                          *)
Enqueue(a, s, op, payload) ==
  LET new == NewRow(a, s, op, payload) IN
  /\ rows' = (rows \ (Superseded(a, s, op) \cup TaskFor(a, s, new.op)))
               \cup {new}
  /\ nextId' = IF new.id = nextId THEN nextId + 1 ELSE nextId
  /\ wanted' = [wanted EXCEPT ![<<a, s>>] =
                  IF op = "delete" THEN Nothing ELSE MergedWith(@, payload)]
  /\ mixed' = IF op = "upsert" /\ Crossing(a, s, payload) # {}
                THEN mixed \cup {<<a, s>>} ELSE mixed

-----------------------------------------------------------------------------
(* Calls.                                                                  *)
HasBaseline(s, a) == local[s] # None /\ local[s].owner = a

\* The create carries all the metadata that is known locally.
SetStatusOp(s, t, a) ==
  IF HasBaseline(s, a)
    THEN [op |-> "status", payload |-> [type |-> t, meta |-> None]]
    ELSE [op |-> "upsert",
          payload |-> [type |-> t,
                       meta |-> IF local[s] = None THEN None
                                ELSE local[s].meta]]

(* A changed row is no longer the one any call expects.                    *)
Unexpected(ss) ==
  [c \in Call |-> [call[c] EXCEPT !.expected = @ \ ss]]

(* The local write of an edit.  Without a session it ends there; otherwise *)
(* the account and the operation to queue are decided.                     *)
Edits(c, s, row, op, payload) ==
  /\ call[c].pc = "idle" /\ nextId <= MaxId
  /\ local' = [local EXCEPT ![s] = row]
  /\ call' = [Unexpected({s}) EXCEPT ![c] =
       IF session = None THEN Idle
       ELSE [Idle EXCEPT !.pc = "queueing", !.subject = s, !.op = op,
                         !.payload = payload, !.account = session]]
  /\ UNCHANGED <<session, rows, nextId, remote, drain, wanted, mixed>>

SetStatus(c, s, t) ==
  LET new == SetStatusOp(s, t, session) IN
  Edits(c, s,
        IF local[s] = None
          THEN [type |-> t, meta |-> None, edited |-> TRUE, owner |-> None]
          ELSE [local[s] EXCEPT !.type = t, !.edited = TRUE],
        new.op, new.payload)

SaveMetadata(c, s, m) ==
  /\ local[s] # None
  /\ Edits(c, s, [local[s] EXCEPT !.meta = m, !.edited = TRUE],
           "metadata", [type |-> None, meta |-> m])

RemoveFavorite(c, s) ==
  /\ local[s] # None
  /\ Edits(c, s, None, "delete", Nothing)

Commit(c) ==
  /\ call[c].pc = "queueing"
  /\ Enqueue(call[c].account, call[c].subject, call[c].op, call[c].payload)
  /\ call' = [call EXCEPT ![c].pc = "committed"]
  /\ UNCHANGED <<session, local, remote, drain>>

\* Mutant: a drain in flight is not told about the new row.
MarkNothing(c) ==
  /\ call[c].pc = "committed"
  /\ call' = [call EXCEPT ![c].pc = "joining"]
  /\ UNCHANGED <<session, local, rows, nextId, remote, drain, wanted, mixed>>

(* markDirty, once the transaction has returned.                           *)
MarkDirty(c) ==
  LET a == call[c].account IN
  /\ call[c].pc = "committed"
  /\ drain' = [drain EXCEPT ![a].rerun = @ \/ drain[a].pc # "idle"]
  /\ call' = [call EXCEPT ![c].pc = "joining"]
  /\ UNCHANGED <<session, local, rows, nextId, remote, wanted, mixed>>

(* drainBangumiSyncQueue.                                                  *)
CatchUp(c) ==
  /\ call[c].pc = "idle" /\ session # None
  /\ call' = [call EXCEPT ![c] =
       [Idle EXCEPT !.pc = "joining", !.op = "catchup", !.account = session]]
  /\ UNCHANGED <<session, local, rows, nextId, remote, drain, wanted, mixed>>

(* A caller starts a drain, or joins the one in flight and has it run once *)
(* more.                                                                   *)
Joined(d, c) ==
  IF d.pc = "idle" THEN [NoDrain EXCEPT !.pc = "reading", !.callers = {c}]
  ELSE [d EXCEPT !.rerun = TRUE, !.callers = d.callers \cup {c}]

(* The rows the caller expects to find settled are read, and drain is      *)
(* called.                                                                 *)
Join(c) ==
  LET a == call[c].account
      mine == CASE call[c].op = "catchup" -> Subject
                [] call[c].op = "delete" -> {}
                [] OTHER -> {call[c].subject} IN
  /\ call[c].pc = "joining"
  /\ drain' = [drain EXCEPT ![a] = Joined(@, c)]
  /\ call' = [call EXCEPT ![c] =
       [Idle EXCEPT !.pc = "draining", !.account = a,
                    !.expected = {s \in mine : local[s] # None}]]
  /\ UNCHANGED <<session, local, rows, nextId, remote, wanted, mixed>>

(* markQueueSettledIfUnchanged for each settled subject.                   *)
Settle(c) ==
  LET a == call[c].account
      ss == {s \in call[c].settled \cap call[c].expected :
               local[s].owner \in {None, a}}
      row(s) == [local[s] EXCEPT !.edited = FALSE, !.owner = a] IN
  /\ call[c].pc = "drained"
  /\ local' = [s \in Subject |-> IF s \in ss THEN row(s) ELSE local[s]]
  /\ call' = [Unexpected({s \in ss : row(s) # local[s]}) EXCEPT ![c] = Idle]
  /\ UNCHANGED <<session, rows, nextId, remote, drain, wanted, mixed>>

-----------------------------------------------------------------------------
(* The drain of account a.                                                 *)
Task(a) == Head(drain[a].tasks)

(* pendingTasks: the rows in the order of their ids.                       *)
InOrder(due) ==
  {list \in [1..Cardinality(due) -> due] :
     /\ ToSet(list) = due
     /\ \A i, j \in DOMAIN list : i < j => list[i].id < list[j].id}

(* Rows still in backoff are passed over: any of those that have failed    *)
(* since their last edit.                                                  *)
ReadTasks(a) ==
  LET mine == {r \in rows : r.account = a} IN
  /\ drain[a].pc = "reading"
  /\ \E due \in SUBSET mine :
       /\ {r \in mine : r.fresh} \subseteq due
       /\ \E list \in InOrder(due) :
            drain' = [drain EXCEPT
              ![a].pc = IF mine = {} THEN "counted" ELSE "sending",
              ![a].tasks = list]
  /\ UNCHANGED <<session, local, rows, nextId, remote, call, wanted, mixed>>

(* External: what Bangumi makes of a request.                              *)
Effect(old, r) ==
  IF r.op = "delete" THEN Nothing ELSE MergedWith(old, r.payload)

(* _send: the request goes out with whatever token is in place.  It may    *)
(* fail before or after Bangumi has applied it; without a token it fails   *)
(* on this side.                                                           *)
Send(a, answer) ==
  LET at == <<session, Task(a).subject>>
      missing == remote[at] = Nothing /\ Task(a).op \in {"metadata", "delete"}
  IN
  /\ drain[a].pc = "sending" /\ drain[a].tasks # <<>>
  /\ IF session = None THEN answer = "error" /\ UNCHANGED remote
     ELSE \/ /\ answer \in {"ok", "error"} /\ ~missing
             /\ remote' = [remote EXCEPT ![at] = Effect(@, Task(a))]
          \/ /\ answer \in {"error", "unauthorized"}
             /\ UNCHANGED remote
          \/ /\ answer = "missing" /\ missing
             /\ UNCHANGED remote
  /\ drain' = [drain EXCEPT ![a].pc = "answered", ![a].answer = answer]
  /\ UNCHANGED <<session, local, rows, nextId, call, wanted, mixed>>

\* Mutant: the row is found again by its id alone.
UnchangedById(task) == {r \in rows : r.id = task.id}

(* The row of a task, unless an edit has changed its payload meanwhile.    *)
Unchanged(task) ==
  {r \in rows : r.id = task.id /\ r.payload = task.payload}

(* The task is off the list.                                               *)
NextTask(a, sent) ==
  drain' = [drain EXCEPT ![a].pc = "sending", ![a].answer = "none",
                         ![a].tasks = Tail(@), ![a].sent = @ \cup sent]

(* _recordFailure.                                                         *)
BackedOff(task) ==
  (rows \ Unchanged(task)) \cup
    {[r EXCEPT !.fresh = FALSE] : r \in Unchanged(task)}

(* The write was accepted; an absent collection counts as deleted.         *)
Accepted(a) ==
  /\ drain[a].pc = "answered"
  /\ \/ drain[a].answer = "ok"
     \/ drain[a].answer = "missing" /\ Task(a).op = "delete"
  /\ rows' = rows \ Unchanged(Task(a))
  /\ NextTask(a, {Task(a).subject})
  /\ UNCHANGED <<session, local, nextId, remote, call, wanted, mixed>>

(* Anything but a rejected token leaves the row for later.                 *)
Failed(a) ==
  /\ drain[a].pc = "answered"
  /\ \/ drain[a].answer = "error"
     \/ drain[a].answer = "missing" /\ Task(a).op # "delete"
  /\ rows' = BackedOff(Task(a))
  /\ NextTask(a, {})
  /\ UNCHANGED <<session, local, nextId, remote, call, wanted, mixed>>

(* One refresh per pass; if it works the task is sent again.               *)
Refreshes(a) ==
  /\ drain[a].pc = "answered" /\ drain[a].answer = "unauthorized"
  /\ ~drain[a].refreshed /\ session # None
  /\ drain' = [drain EXCEPT ![a].pc = "sending", ![a].answer = "none",
                            ![a].refreshed = TRUE]
  /\ UNCHANGED <<session, local, rows, nextId, remote, call, wanted, mixed>>

(* The token stays rejected: the rest of the pass is given up, and its     *)
(* result names neither settled nor pending subjects.                      *)
Rejected(a) ==
  /\ drain[a].pc = "answered" /\ drain[a].answer = "unauthorized"
  /\ rows' = BackedOff(Task(a))
  /\ drain' = [drain EXCEPT ![a].pc = "counted", ![a].tasks = <<>>,
                            ![a].sent = {}]
  /\ UNCHANGED <<session, local, nextId, remote, call, wanted, mixed>>

(* The list is through: the rows that are left are read.                   *)
Count(a) ==
  /\ drain[a].pc = "sending" /\ drain[a].tasks = <<>>
  /\ drain' = [drain EXCEPT ![a].pc = "counted",
       ![a].left = {r.subject : r \in {q \in rows : q.account = a}}]
  /\ UNCHANGED <<session, local, rows, nextId, remote, call, wanted, mixed>>

SettledAfter(a) ==
  (drain[a].settled \cup drain[a].sent) \ drain[a].left

(* Somebody joined or queued a row meanwhile: one more pass.               *)
RunsAgain(a) ==
  /\ drain[a].pc = "counted" /\ drain[a].rerun
  /\ drain' = [drain EXCEPT ![a] =
       [NoDrain EXCEPT !.pc = "reading", !.callers = drain[a].callers,
                       !.settled = SettledAfter(a)]]
  /\ UNCHANGED <<session, local, rows, nextId, remote, call, wanted, mixed>>

(* Otherwise all who wait get the result.                                  *)
Returns(a) ==
  /\ drain[a].pc = "counted" /\ ~drain[a].rerun
  /\ drain' = [drain EXCEPT ![a] = NoDrain]
  /\ call' = [c \in Call |->
       IF c \in drain[a].callers
         THEN [call[c] EXCEPT !.pc = "drained", !.settled = SettledAfter(a)]
         ELSE call[c]]
  /\ UNCHANGED <<session, local, rows, nextId, remote, wanted, mixed>>

-----------------------------------------------------------------------------
(* The session ends: logout once its drain is through or has timed out, or *)
(* a token that cannot be refreshed.                                       *)
Logout ==
  /\ session # None /\ session' = None
  /\ UNCHANGED <<local, rows, nextId, remote, call, drain, wanted, mixed>>

Login(a) ==
  /\ session = None /\ session' = a
  /\ UNCHANGED <<local, rows, nextId, remote, call, drain, wanted, mixed>>

(* The app is killed and started again: the database and the token stay.   *)
Restart ==
  /\ call' = [c \in Call |-> Idle]
  /\ drain' = [a \in Account |-> NoDrain]
  /\ UNCHANGED <<session, local, rows, nextId, remote, wanted, mixed>>

Edit(c, s) ==
  \/ \E t \in Type : SetStatus(c, s, t)
  \/ \E m \in Meta : SaveMetadata(c, s, m)
  \/ RemoveFavorite(c, s)

CallStep(c) == Commit(c) \/ MarkDirty(c) \/ Join(c) \/ Settle(c)

DrainStep(a) ==
  \/ ReadTasks(a)
  \/ \E answer \in {"ok", "error", "unauthorized", "missing"} : Send(a, answer)
  \/ Accepted(a) \/ Failed(a) \/ Refreshes(a) \/ Rejected(a)
  \/ Count(a) \/ RunsAgain(a) \/ Returns(a)

Next ==
  \/ \E c \in Call :
       (\E s \in Subject : Edit(c, s)) \/ CatchUp(c) \/ CallStep(c)
  \/ \E a \in Account : DrainStep(a) \/ Login(a)
  \/ Logout \/ Restart

Spec == Init /\ [][Next]_vars

-----------------------------------------------------------------------------
(* What is queued for one subject makes sense in any order of sending: one *)
(* row per operation, and a delete stands alone, whatever edits, passes    *)
(* and failures preceded.                                                  *)
RowsDoNotContradict ==
  \A p, q \in rows :
    /\ p # q /\ p.account = q.account /\ p.subject = q.subject
    => p.op # q.op /\ "delete" \notin {p.op, q.op}

(* The collection shows the edits: every field an edit has set has that    *)
(* value, and a removed collection is gone.                                *)
Shows(collection, edits) ==
  IF edits = Nothing THEN collection = Nothing
  ELSE /\ edits.type \in {None, collection.type}
       /\ edits.meta \in {None, collection.meta}

(* Edits are neither lost nor overtaken by older ones: whenever the queue  *)
(* of a subject is empty and no request is under way, Bangumi shows the    *)
(* last edits queued, through edits during a request, answers that got     *)
(* lost, rejected tokens, logouts and restarts.  Left out are subjects for *)
(* which a create was queued beside older rows: those are sent later with  *)
(* their older content.                                                    *)
DeliveredWhenEmpty ==
  \A a \in Account, s \in Subject :
    RowsOf(a, s) = {} /\ drain[a].pc = "idle" /\ <<a, s>> \notin mixed
      => Shows(remote[<<a, s>>], wanted[<<a, s>>])

(* Nobody is told that a drain is over while a row lies there that no      *)
(* request was made for since its last edit; only a rejected token ends a  *)
(* drain early, and a row whose markDirty is still to come is the next     *)
(* drain's.                                                                *)
AttemptedBeforeReturn ==
  [][\A a \in Account :
       Returns(a) /\ drain[a].answer # "unauthorized" =>
         \A r \in rows : r.account = a /\ r.fresh =>
           \E c \in Call : /\ call[c].pc = "committed"
                           /\ call[c].account = a
                           /\ call[c].subject = r.subject]_vars

(* app_database.dart: "Tasks are never sent under a different account":    *)
(* what changes a collection is a drain of its own account.                *)
SentAsItsOwner ==
  [][\A a \in Account, s \in Subject :
       remote'[<<a, s>>] # remote[<<a, s>>] =>
         drain[a].pc = "sending" /\ drain'[a].pc = "answered"]_vars
=============================================================================
