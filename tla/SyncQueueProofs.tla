--------------------------- MODULE SyncQueueProofs --------------------------
(***************************************************************************)
(* Of the outbox, for any accounts, subjects and calls: its rows do not    *)
(* contradict one another (RowInv), a pass forgets no row (PassInv), and   *)
(* what is queued is delivered (QueueInv).  First the rows: two operations *)
(* add some, the transaction of an edit and the recording of a failure.    *)
(***************************************************************************)
EXTENDS SyncQueue, FiniteSetTheorems, SequenceTheorems, TLAPS

(* Every row has the columns of the table.                                 *)
HasColumns(r) ==
  r \in [id : {r.id}, account : {r.account}, subject : {r.subject},
         op : {r.op}, payload : {r.payload}, fresh : BOOLEAN]

Shaped == \A r \in rows : HasColumns(r)

RowInv == Shaped /\ RowsDoNotContradict

(* What an edit leaves is a row of its subject, and a delete only if the   *)
(* edit is one.                                                            *)
LEMMA NewRowFields ==
  ASSUME NEW a, NEW s, NEW op, NEW payload, NEW new,
         new = NewRow(a, s, op, payload)
  PROVE  /\ HasColumns(new)
         /\ new.account = a /\ new.subject = s
         /\ new.op = FoldedOp(a, s, op)
         /\ new.op = "delete" <=> op = "delete"
  <1>1. /\ HasColumns(new)
        /\ new.account = a /\ new.subject = s
        /\ new.op = FoldedOp(a, s, op)
    BY DEF NewRow, HasColumns
  <1>2. FoldedOp(a, s, op) = "delete" <=> op = "delete"
    BY DEF FoldedOp
  <1> QED BY <1>1, <1>2

(* The transaction of an edit drops exactly the rows its own would clash   *)
(* with.                                                                   *)
LEMMA EnqueueKeepsRows ==
  ASSUME RowInv, NEW a, NEW s, NEW op, NEW payload,
         Enqueue(a, s, op, payload)
  PROVE  RowInv'
  <1> DEFINE new == NewRow(a, s, op, payload)
  <1>1. rows' = (rows \ (Superseded(a, s, op) \cup TaskFor(a, s, new.op)))
                  \cup {new}
    BY DEF Enqueue
  <1>2. /\ HasColumns(new)
        /\ new.account = a /\ new.subject = s
        /\ new.op = "delete" <=> op = "delete"
    BY NewRowFields
  <1> HIDE DEF new
  <1>3. \A q \in rows' : q # new /\ q.account = a /\ q.subject = s =>
          /\ q \in rows
          /\ q.op # new.op
          /\ "delete" \notin {q.op, new.op}
    <2> SUFFICES ASSUME NEW q \in rows', q # new, q.account = a, q.subject = s
                 PROVE  /\ q \in rows
                        /\ q.op # new.op
                        /\ "delete" \notin {q.op, new.op}
      OBVIOUS
    <2>1. q \in rows /\ q \notin Superseded(a, s, op)
          /\ q \notin TaskFor(a, s, new.op)
      BY <1>1
    <2>2. q.op # new.op
      BY <2>1 DEF TaskFor, RowsOf
    <2>3. (op = "delete") <=> (q.op = "delete")
      BY <2>1 DEF Superseded, RowsOf
    <2> QED BY <1>2, <2>1, <2>2, <2>3
  <1>4. Shaped'
    BY <1>1, <1>2 DEF RowInv, Shaped
  <1>5. RowsDoNotContradict'
    <2> SUFFICES ASSUME NEW p \in rows', NEW q \in rows', p # q,
                        p.account = q.account, p.subject = q.subject
                 PROVE  p.op # q.op /\ "delete" \notin {p.op, q.op}
      BY DEF RowsDoNotContradict
    <2>1. CASE p = new
      BY <1>2, <1>3, <2>1
    <2>2. CASE q = new
      BY <1>2, <1>3, <2>2
    <2>3. CASE p # new /\ q # new
      BY <1>1, <2>3 DEF RowInv, RowsDoNotContradict
    <2> QED BY <2>1, <2>2, <2>3
  <1> QED BY <1>4, <1>5 DEF RowInv

(* A recorded failure changes no column that the rows are told apart by.   *)
LEMMA BackedOffKeepsRows ==
  ASSUME RowInv, NEW task, rows' = BackedOff(task)
  PROVE  RowInv'
  <1> DEFINE late(r) == [r EXCEPT !.fresh = FALSE]
  <1>1. \A r \in rows : /\ HasColumns(late(r))
                        /\ late(r).account = r.account
                        /\ late(r).subject = r.subject
                        /\ late(r).op = r.op
    BY DEF RowInv, Shaped, HasColumns
  <1>2. \A p \in rows' : \E r \in rows :
          \/ p = r /\ r \notin Unchanged(task)
          \/ p = late(r) /\ r \in Unchanged(task)
    BY DEF BackedOff, Unchanged
  <1> HIDE DEF late
  <1>3. Shaped'
    BY <1>1, <1>2 DEF RowInv, Shaped
  <1>4. RowsDoNotContradict'
    <2> SUFFICES ASSUME NEW p \in rows', NEW q \in rows', p # q,
                        p.account = q.account, p.subject = q.subject
                 PROVE  p.op # q.op /\ "delete" \notin {p.op, q.op}
      BY DEF RowsDoNotContradict
    <2>1. PICK r \in rows : \/ p = r /\ r \notin Unchanged(task)
                            \/ p = late(r) /\ r \in Unchanged(task)
      BY <1>2
    <2>2. PICK t \in rows : \/ q = t /\ t \notin Unchanged(task)
                            \/ q = late(t) /\ t \in Unchanged(task)
      BY <1>2
    <2>3. r # t
      BY <2>1, <2>2
    <2>4. /\ p.account = r.account /\ p.subject = r.subject /\ p.op = r.op
          /\ q.account = t.account /\ q.subject = t.subject /\ q.op = t.op
      BY <1>1, <2>1, <2>2
    <2> QED BY <2>3, <2>4 DEF RowInv, RowsDoNotContradict
  <1> QED BY <1>3, <1>4 DEF RowInv

(* Only the transaction of an edit adds rows; an answer drops one or marks *)
(* it as failed, and no other step touches them.                           *)
LEMMA RowSteps ==
  ASSUME [Next]_vars
  PROVE  \/ UNCHANGED rows
         \/ \E c \in Call : Commit(c)
         \/ \E a \in Account : Accepted(a) \/ Failed(a) \/ Rejected(a)
  <1>1. ASSUME NEW c \in Call, NEW s \in Subject, Edit(c, s)
        PROVE  UNCHANGED rows
    BY <1>1 DEF Edit, SetStatus, SaveMetadata, RemoveFavorite, Edits
  <1>2. ASSUME NEW c \in Call, CatchUp(c) \/ CallStep(c)
        PROVE  UNCHANGED rows \/ Commit(c)
    BY <1>2 DEF CatchUp, CallStep, MarkDirty, Join, Settle
  <1>3. ASSUME NEW a \in Account, DrainStep(a)
        PROVE  UNCHANGED rows \/ Accepted(a) \/ Failed(a) \/ Rejected(a)
    BY <1>3 DEF DrainStep, ReadTasks, Send, Refreshes, Count, RunsAgain,
                Returns
  <1>4. ASSUME \/ \E a \in Account : Login(a)
               \/ Logout \/ Restart \/ UNCHANGED vars
        PROVE  UNCHANGED rows
    BY <1>4 DEF Login, Logout, Restart, vars
  <1> QED BY <1>1, <1>2, <1>3, <1>4 DEF Next

(* The invariant on rows is inductive.                                     *)
LEMMA RowInvIsInductive == RowInv /\ [Next]_vars => RowInv'
  <1> SUFFICES ASSUME RowInv, [Next]_vars PROVE RowInv'
    OBVIOUS
  <1>1. CASE UNCHANGED rows
    BY <1>1 DEF RowInv, Shaped, RowsDoNotContradict
  <1>2. CASE \E c \in Call : Commit(c)
    BY <1>2, EnqueueKeepsRows DEF Commit
  <1>3. CASE \E a \in Account : Accepted(a)
    <2>1. rows' \subseteq rows
      BY <1>3 DEF Accepted
    <2> QED BY <2>1 DEF RowInv, Shaped, RowsDoNotContradict
  <1>4. CASE \E a \in Account : Failed(a) \/ Rejected(a)
    BY <1>4, BackedOffKeepsRows DEF Failed, Rejected
  <1> QED BY <1>1, <1>2, <1>3, <1>4, RowSteps

(* In every state of the outbox, what is queued for one subject has one    *)
(* row per operation and no delete beside another row, so the order in     *)
(* which backoff lets the rows out cannot undo an edit by a delete.        *)
THEOREM RowsConsistent == Spec => []RowsDoNotContradict
  <1>1. Init => RowInv
    BY DEF Init, RowInv, Shaped, RowsDoNotContradict
  <1>2. RowInv => RowsDoNotContradict
    BY DEF RowInv
  <1> QED BY <1>1, <1>2, RowInvIsInductive, PTL DEF Spec

-----------------------------------------------------------------------------
(* The calls.  Each knows its account from the moment it queues, and what  *)
(* it queues is an edit: a status, metadata, a create or a delete.         *)
SoundEdit(op, p) ==
  /\ p = [type |-> p.type, meta |-> p.meta]
  /\ op \in {"status", "metadata", "upsert", "delete"}
  /\ op = "status" => p.type # None /\ p.meta = None
  /\ op = "metadata" => p.type = None /\ p.meta # None
  /\ op = "upsert" => p.type # None
  /\ op = "delete" <=> p = Nothing

CallInv(w) ==
  /\ w = [pc |-> w.pc, subject |-> w.subject, payload |-> w.payload,
          op |-> w.op, account |-> w.account, expected |-> w.expected,
          settled |-> w.settled]
  /\ w.pc # "idle" => w.account \in Account
  /\ w.pc = "queueing" => w.subject \in Subject /\ SoundEdit(w.op, w.payload)

CallsInv ==
  /\ session \in Account \cup {None}
  /\ call = [c \in Call |-> call[c]]
  /\ \A c \in Call : CallInv(call[c])

(* What a step leaves of a call, but for the rows it expects.              *)
Same(w, v) == /\ w.pc = v.pc /\ w.account = v.account
              /\ w.subject = v.subject

(* A call at rest, and one that expects fewer rows.                        *)
LEMMA CallsAtRest ==
  /\ CallInv(Idle) /\ Idle.pc = "idle"
  /\ \A w, ss : CallInv(w) => /\ CallInv([w EXCEPT !.expected = @ \ ss])
                              /\ Same([w EXCEPT !.expected = @ \ ss], w)
  <1>1. CallInv(Idle) /\ Idle.pc = "idle"
    BY DEF CallInv, Idle
  <1>2. ASSUME NEW w, NEW ss, CallInv(w)
        PROVE  /\ CallInv([w EXCEPT !.expected = @ \ ss])
               /\ Same([w EXCEPT !.expected = @ \ ss], w)
    <2>1. PICK v : v = [w EXCEPT !.expected = @ \ ss]
      OBVIOUS
    <2>2. /\ v = [pc |-> w.pc, subject |-> w.subject, payload |-> w.payload,
                  op |-> w.op, account |-> w.account,
                  expected |-> w.expected \ ss, settled |-> w.settled]
      BY <1>2, <2>1 DEF CallInv
    <2> QED BY <1>2, <2>1, <2>2 DEF CallInv, Same
  <1> QED BY <1>1, <1>2

(* One call takes a step, the others may expect fewer rows.                *)
LEMMA OneCallGoes ==
  ASSUME CallsInv, NEW c \in Call, NEW w, CallInv(w), NEW ss,
         \/ call' = [call EXCEPT ![c] = w]
         \/ call' = [Unexpected(ss) EXCEPT ![c] = w],
         session' \in Account \cup {None}
  PROVE  /\ CallsInv' /\ call'[c] = w
         /\ \A d \in Call \ {c} : Same(call'[d], call[d])
  <1>1. CASE call' = [call EXCEPT ![c] = w]
    <2>1. /\ call' = [d \in Call |-> call'[d]] /\ call'[c] = w
          /\ \A d \in Call \ {c} : call'[d] = call[d]
      BY <1>1 DEF CallsInv
    <2>2. \A d \in Call : CallInv(call'[d])
      BY <2>1 DEF CallsInv
    <2>3. \A d \in Call : CallInv(call[d])'
      BY <2>2 DEF CallInv
    <2> QED BY <2>1, <2>3 DEF CallsInv, Same
  <1>2. CASE call' = [Unexpected(ss) EXCEPT ![c] = w]
    <2>1. /\ call' = [d \in Call |-> call'[d]] /\ call'[c] = w
          /\ \A d \in Call \ {c} :
               call'[d] = [call[d] EXCEPT !.expected = @ \ ss]
      BY <1>2 DEF Unexpected
    <2>2. ASSUME NEW d \in Call \ {c}
          PROVE  CallInv(call'[d]) /\ Same(call'[d], call[d])
      <3>1. PICK v : v = call[d] /\ CallInv(v)
        BY DEF CallsInv
      <3>2. call'[d] = [v EXCEPT !.expected = @ \ ss]
        BY <2>1, <3>1
      <3>3. CallInv([v EXCEPT !.expected = @ \ ss])
            /\ Same([v EXCEPT !.expected = @ \ ss], v)
        BY <3>1, CallsAtRest
      <3> QED BY <3>1, <3>2, <3>3
    <2>3. \A d \in Call : CallInv(call[d])'
      BY <2>1, <2>2 DEF CallInv
    <2> QED BY <2>1, <2>2, <2>3 DEF CallsInv
  <1> QED BY <1>1, <1>2

(* What a user's edit queues is sound.                                     *)
LEMMA EditsAreSound ==
  /\ \A s, a : \A t \in Type :
       SoundEdit(SetStatusOp(s, t, a).op, SetStatusOp(s, t, a).payload)
  /\ \A m \in Meta : SoundEdit("metadata", [type |-> None, meta |-> m])
  /\ SoundEdit("delete", Nothing)
  <1>1. ASSUME NEW s, NEW a, NEW t \in Type
        PROVE  SoundEdit(SetStatusOp(s, t, a).op,
                         SetStatusOp(s, t, a).payload)
    <2>1. t # None
      BY SyncAssumption
    <2>2. PICK known : known = IF local[s] = None THEN None ELSE local[s].meta
      OBVIOUS
    <2>3. CASE HasBaseline(s, a)
      <3>1. SetStatusOp(s, t, a)
              = [op |-> "status", payload |-> [type |-> t, meta |-> None]]
        BY <2>3 DEF SetStatusOp
      <3> QED BY <2>1, <3>1 DEF SoundEdit, Nothing
    <2>4. CASE ~HasBaseline(s, a)
      <3>1. SetStatusOp(s, t, a)
              = [op |-> "upsert", payload |-> [type |-> t, meta |-> known]]
        BY <2>2, <2>4 DEF SetStatusOp
      <3> QED BY <2>1, <3>1 DEF SoundEdit, Nothing
    <2> QED BY <2>3, <2>4
  <1>2. \A m \in Meta : SoundEdit("metadata", [type |-> None, meta |-> m])
    BY SyncAssumption DEF SoundEdit, Nothing
  <1>3. SoundEdit("delete", Nothing)
    BY DEF SoundEdit, Nothing
  <1> QED BY <1>1, <1>2, <1>3

(* The local write of an edit.                                             *)
LEMMA EditsCall ==
  ASSUME CallsInv, NEW c \in Call, NEW s \in Subject, NEW row, NEW op,
         NEW payload, SoundEdit(op, payload), Edits(c, s, row, op, payload)
  PROVE  /\ CallsInv' /\ call[c].pc = "idle"
         /\ \A d \in Call \ {c} : Same(call'[d], call[d])
  <1>1. PICK w : w = IF session = None THEN Idle
                     ELSE [Idle EXCEPT !.pc = "queueing", !.subject = s,
                             !.op = op, !.payload = payload,
                             !.account = session]
    OBVIOUS
  <1>2. CallInv(w)
    <2>1. CASE session = None
      BY <1>1, <2>1, CallsAtRest
    <2>2. CASE session # None
      <3>1. w = [pc |-> "queueing", subject |-> s, payload |-> payload,
                 op |-> op, account |-> session, expected |-> {},
                 settled |-> {}]
        BY <1>1, <2>2 DEF Idle
      <3>2. session \in Account
        BY <2>2 DEF CallsInv
      <3> QED BY <3>1, <3>2 DEF CallInv
    <2> QED BY <2>1, <2>2
  <1>3. /\ call' = [Unexpected({s}) EXCEPT ![c] = w]
        /\ session' \in Account \cup {None} /\ call[c].pc = "idle"
    BY <1>1 DEF Edits, CallsInv
  <1> QED BY <1>2, <1>3, OneCallGoes

(* The steps of one call.                                                  *)
LEMMA CallMoves ==
  ASSUME CallsInv, NEW c \in Call,
         (\E s \in Subject : Edit(c, s)) \/ CatchUp(c) \/ CallStep(c)
  PROVE  /\ CallsInv'
         /\ \A d \in Call \ {c} : Same(call'[d], call[d])
         /\ call[c].pc # "draining"
         /\ call[c].pc # "committed" \/ MarkDirty(c)
         /\ Commit(c) => /\ call'[c].pc = "committed"
                         /\ call'[c].account = call[c].account
                         /\ call'[c].subject = call[c].subject
         /\ Join(c) => /\ call'[c].pc = "draining"
                       /\ call'[c].account = call[c].account
  <1>1. CASE \E s \in Subject : Edit(c, s)
    <2>1. PICK s \in Subject : Edit(c, s)
      BY <1>1
    <2>2. \E row, op, payload : /\ SoundEdit(op, payload)
                                /\ Edits(c, s, row, op, payload)
      BY <2>1, EditsAreSound DEF Edit, SetStatus, SaveMetadata, RemoveFavorite
    <2> QED BY <2>2, EditsCall DEF Commit, Join
  <1>2. CASE CatchUp(c)
    <2>1. PICK w : w = [Idle EXCEPT !.pc = "joining", !.op = "catchup",
                                    !.account = session]
      OBVIOUS
    <2>2. w = [pc |-> "joining", subject |-> None, payload |-> Nothing,
               op |-> "catchup", account |-> session, expected |-> {},
               settled |-> {}]
      BY <2>1 DEF Idle
    <2>3. CallInv(w)
      BY <1>2, <2>2 DEF CallInv, CatchUp, CallsInv
    <2>4. /\ call' = [call EXCEPT ![c] = w] /\ call[c].pc = "idle"
          /\ session' \in Account \cup {None}
      BY <1>2, <2>1 DEF CatchUp, CallsInv
    <2> QED BY <2>3, <2>4, OneCallGoes DEF Commit, Join
  <1>3. CASE Commit(c)
    <2>1. PICK v : v = call[c] /\ CallInv(v) /\ v.pc = "queueing"
      BY <1>3 DEF Commit, CallsInv
    <2>2. PICK w : w = [v EXCEPT !.pc = "committed"]
      OBVIOUS
    <2>3. CallInv(w) /\ w.pc = "committed" /\ w.account = v.account
          /\ w.subject = v.subject
      <3>1. w = [pc |-> "committed", subject |-> v.subject,
                 payload |-> v.payload, op |-> v.op, account |-> v.account,
                 expected |-> v.expected, settled |-> v.settled]
        BY <2>1, <2>2 DEF CallInv
      <3> QED BY <2>1, <3>1 DEF CallInv
    <2>4. call' = [call EXCEPT ![c] = w]
      BY <1>3, <2>1, <2>2 DEF Commit
    <2>5. session' \in Account \cup {None}
      BY <1>3 DEF Commit, Enqueue, CallsInv
    <2> QED BY <2>1, <2>3, <2>4, <2>5, OneCallGoes DEF Join
  <1>4. CASE MarkDirty(c)
    <2>1. PICK v : v = call[c] /\ CallInv(v) /\ v.pc = "committed"
      BY <1>4 DEF MarkDirty, CallsInv
    <2>2. PICK w : w = [v EXCEPT !.pc = "joining"]
      OBVIOUS
    <2>3. CallInv(w)
      <3>1. w = [pc |-> "joining", subject |-> v.subject,
                 payload |-> v.payload, op |-> v.op, account |-> v.account,
                 expected |-> v.expected, settled |-> v.settled]
        BY <2>1, <2>2 DEF CallInv
      <3> QED BY <2>1, <3>1 DEF CallInv
    <2>4. call' = [call EXCEPT ![c] = w]
      BY <1>4, <2>1, <2>2 DEF MarkDirty
    <2>5. session' \in Account \cup {None}
      BY <1>4 DEF MarkDirty, CallsInv
    <2> QED BY <1>4, <2>1, <2>3, <2>4, <2>5, OneCallGoes DEF Join, Commit
  <1>5. CASE Join(c)
    <2>1. PICK v : v = call[c] /\ CallInv(v) /\ v.pc = "joining"
      BY <1>5 DEF Join, CallsInv
    <2>2. PICK a, ss : call' = [call EXCEPT ![c] =
                         [Idle EXCEPT !.pc = "draining", !.account = a,
                                      !.expected = ss]] /\ a = v.account
      BY <1>5, <2>1 DEF Join
    <2>3. PICK w : w = [Idle EXCEPT !.pc = "draining", !.account = a,
                                    !.expected = ss]
      OBVIOUS
    <2>4. w = [pc |-> "draining", subject |-> None, payload |-> Nothing,
               op |-> "none", account |-> a, expected |-> ss, settled |-> {}]
      BY <2>3 DEF Idle
    <2>5. CallInv(w) /\ w.pc = "draining" /\ w.account = a
      BY <2>1, <2>2, <2>4 DEF CallInv
    <2>6. call' = [call EXCEPT ![c] = w]
      BY <2>2, <2>3
    <2>7. session' \in Account \cup {None}
      BY <1>5 DEF Join, CallsInv
    <2> QED BY <2>1, <2>2, <2>5, <2>6, <2>7, OneCallGoes DEF Commit
  <1>6. CASE Settle(c)
    <2>1. PICK ss : call' = [Unexpected(ss) EXCEPT ![c] = Idle]
      BY <1>6 DEF Settle
    <2>2. call[c].pc = "drained" /\ session' \in Account \cup {None}
      BY <1>6 DEF Settle, CallsInv
    <2>3. Idle.pc # "committed" /\ Idle.pc # "draining"
      BY CallsAtRest
    <2> QED BY <2>1, <2>2, CallsAtRest, OneCallGoes DEF Commit, Join
  <1> QED BY <1>1, <1>2, <1>3, <1>4, <1>5, <1>6 DEF CallStep

-----------------------------------------------------------------------------
(* The drains.                                                             *)
IsSequence(ts) == \E S : ts \in Seq(S)

DrainInv(d) ==
  /\ d = [pc |-> d.pc, tasks |-> d.tasks, answer |-> d.answer,
          refreshed |-> d.refreshed, sent |-> d.sent, left |-> d.left,
          rerun |-> d.rerun, settled |-> d.settled, callers |-> d.callers]
  /\ IsSequence(d.tasks)
  /\ d.rerun \in BOOLEAN
  /\ d.pc = "answered" => d.tasks # <<>>

DrainsInv ==
  /\ IsFiniteSet(rows)
  /\ drain = [a \in Account |-> drain[a]]
  /\ \A a \in Account : DrainInv(drain[a])

(* The elements of a list: the first and those of the tail.                *)
LEMMA HeadAndTail ==
  ASSUME NEW ts, IsSequence(ts), ts # <<>>
  PROVE  /\ IsSequence(Tail(ts))
         /\ 1 \in DOMAIN ts /\ Head(ts) = ts[1]
         /\ \A i \in DOMAIN ts : i # 1 =>
              i - 1 \in DOMAIN Tail(ts) /\ Tail(ts)[i - 1] = ts[i]
         /\ \A i \in DOMAIN Tail(ts) :
              /\ i \in Nat /\ i # 0
              /\ i + 1 \in DOMAIN ts /\ Tail(ts)[i] = ts[i + 1]
  <1>1. PICK S : ts \in Seq(S)
    BY DEF IsSequence
  <1>2. /\ Tail(ts) \in Seq(S) /\ Len(Tail(ts)) = Len(ts) - 1
        /\ \A i \in 1..Len(Tail(ts)) : Tail(ts)[i] = ts[i + 1]
    BY <1>1, HeadTailProperties
  <1>3. /\ DOMAIN ts = 1..Len(ts) /\ Len(ts) \in Nat /\ Len(ts) # 0
        /\ DOMAIN Tail(ts) = 1..Len(Tail(ts)) /\ Len(Tail(ts)) \in Nat
        /\ Head(ts) = ts[1]
    BY <1>1, <1>2
  <1> QED BY <1>2, <1>3 DEF IsSequence

(* The list of a pass holds the rows that are due, in the order of their   *)
(* ids and none twice.                                                     *)
LEMMA ListOfRows ==
  ASSUME NEW due, IsFiniteSet(due), NEW list \in InOrder(due)
  PROVE  /\ IsSequence(list)
         /\ \A r \in due : \E i \in DOMAIN list : list[i] = r
         /\ \A i \in DOMAIN list : i \in Nat /\ list[i] \in due
         /\ \A i, j \in DOMAIN list : i < j => list[i].id < list[j].id
  <1>1. PICK n \in Nat : n = Cardinality(due)
    BY FS_CardinalityType
  <1>2. /\ list \in [1..n -> due] /\ ToSet(list) = due
        /\ \A i, j \in DOMAIN list : i < j => list[i].id < list[j].id
    BY <1>1 DEF InOrder
  <1>3. list \in Seq(due)
    BY <1>2, SeqDef
  <1> QED BY <1>2, <1>3 DEF IsSequence, ToSet

(* One drain takes a step.                                                 *)
LEMMA OneDrainGoes ==
  ASSUME DrainsInv, IsFiniteSet(rows'), NEW a \in Account, NEW w,
         DrainInv(w), drain' = [drain EXCEPT ![a] = w]
  PROVE  /\ DrainsInv' /\ drain'[a] = w
         /\ \A b \in Account \ {a} : drain'[b] = drain[b]
  <1>1. /\ drain' = [b \in Account |-> drain'[b]] /\ drain'[a] = w
        /\ \A b \in Account \ {a} : drain'[b] = drain[b]
    BY DEF DrainsInv
  <1>2. \A b \in Account : DrainInv(drain'[b])
    BY <1>1 DEF DrainsInv
  <1>3. \A b \in Account : DrainInv(drain[b])'
    BY <1>2 DEF DrainInv, IsSequence
  <1> QED BY <1>1, <1>3 DEF DrainsInv

(* A drain that is not under way.                                          *)
LEMMA NoDrainIsIdle ==
  /\ DrainInv(NoDrain) /\ NoDrain.pc = "idle" /\ NoDrain.tasks = <<>>
  /\ NoDrain.callers = {}
  <1>1. <<>> \in Seq({})
    OBVIOUS
  <1> QED BY <1>1 DEF DrainInv, NoDrain, IsSequence

(* A drain that starts on a list yet to be read.                           *)
LEMMA FreshDrain ==
  ASSUME NEW cs, NEW ss
  PROVE  \E w : /\ w = [NoDrain EXCEPT !.pc = "reading", !.callers = cs,
                                       !.settled = ss]
               /\ DrainInv(w) /\ w.pc = "reading" /\ w.tasks = <<>>
               /\ w.callers = cs
  <1>1. <<>> \in Seq({})
    OBVIOUS
  <1>2. PICK w : w = [NoDrain EXCEPT !.pc = "reading", !.callers = cs,
                                     !.settled = ss]
    OBVIOUS
  <1>3. w = [pc |-> "reading", tasks |-> <<>>, answer |-> "none",
             refreshed |-> FALSE, sent |-> {}, left |-> {},
             rerun |-> FALSE, settled |-> ss, callers |-> cs]
    BY <1>2 DEF NoDrain
  <1>4. DrainInv(w) /\ w.pc = "reading" /\ w.tasks = <<>> /\ w.callers = cs
    BY <1>1, <1>3 DEF DrainInv, IsSequence
  <1> QED BY <1>2, <1>4

(* The first drain of a group of callers.                                  *)
LEMMA FirstDrain ==
  ASSUME NEW cs
  PROVE  \E w : /\ w = [NoDrain EXCEPT !.pc = "reading", !.callers = cs]
               /\ DrainInv(w) /\ w.pc = "reading" /\ w.tasks = <<>>
               /\ w.callers = cs
  <1>1. <<>> \in Seq({})
    OBVIOUS
  <1>2. PICK w : w = [NoDrain EXCEPT !.pc = "reading", !.callers = cs]
    OBVIOUS
  <1>3. w = [pc |-> "reading", tasks |-> <<>>, answer |-> "none",
             refreshed |-> FALSE, sent |-> {}, left |-> {},
             rerun |-> FALSE, settled |-> {}, callers |-> cs]
    BY <1>2 DEF NoDrain
  <1>4. DrainInv(w) /\ w.pc = "reading" /\ w.tasks = <<>> /\ w.callers = cs
    BY <1>1, <1>3 DEF DrainInv, IsSequence
  <1> QED BY <1>2, <1>4

(* What the steps do to the rows: none but those of an edit add any, and   *)
(* there are finitely many.                                                *)
LEMMA RowsStayFinite ==
  ASSUME IsFiniteSet(rows), [Next]_vars
  PROVE  IsFiniteSet(rows')
  <1>1. CASE UNCHANGED rows
    BY <1>1
  <1>2. CASE \E c \in Call : Commit(c)
    <2>1. \E dropped, new : rows' = (rows \ dropped) \cup {new}
      BY <1>2 DEF Commit, Enqueue
    <2> QED BY <2>1, FS_Difference, FS_AddElement
  <1>3. CASE \E a \in Account : Accepted(a)
    <2>1. rows' \subseteq rows
      BY <1>3 DEF Accepted
    <2> QED BY <2>1, FS_Subset
  <1>4. CASE \E a \in Account : Failed(a) \/ Rejected(a)
    <2>1. PICK task : rows' = BackedOff(task)
      BY <1>4 DEF Failed, Rejected
    <2> DEFINE late == {[r EXCEPT !.fresh = FALSE] : r \in Unchanged(task)}
               f == [r \in Unchanged(task) |-> [r EXCEPT !.fresh = FALSE]]
    <2>2. Unchanged(task) \in SUBSET rows
      BY DEF Unchanged
    <2>3. IsFiniteSet(Unchanged(task)) /\ IsFiniteSet(rows \ Unchanged(task))
      BY <2>2, FS_Subset, FS_Difference
    <2>4. f \in Surjection(Unchanged(task), late)
      BY DEF Surjection
    <2>5. IsFiniteSet(late)
      BY <2>3, <2>4, FS_Surjection
    <2> QED BY <2>1, <2>3, <2>5, FS_Union DEF BackedOff
  <1> QED BY <1>1, <1>2, <1>3, <1>4, RowSteps

(* A pass reads its list.                                                  *)
LEMMA TasksRead ==
  ASSUME DrainsInv, NEW a \in Account, ReadTasks(a)
  PROVE  /\ DrainsInv' /\ drain[a].pc = "reading"
         /\ \A b \in Account \ {a} : drain'[b] = drain[b]
         /\ drain'[a].rerun = drain[a].rerun
         /\ drain'[a].callers = drain[a].callers
         /\ \E due \in SUBSET {r \in rows : r.account = a} :
              /\ {r \in rows : r.account = a /\ r.fresh} \subseteq due
              /\ IsFiniteSet(due) /\ drain'[a].tasks \in InOrder(due)
         /\ \/ drain'[a].pc = "sending"
            \/ drain'[a].pc = "counted" /\ ~\E r \in rows : r.account = a
  <1>1. PICK pc, due, list :
          /\ drain' = [drain EXCEPT ![a].pc = pc, ![a].tasks = list]
          /\ due \in SUBSET {r \in rows : r.account = a}
          /\ {r \in rows : r.account = a /\ r.fresh} \subseteq due
          /\ list \in InOrder(due)
          /\ \/ pc = "sending"
             \/ pc = "counted" /\ ~\E r \in rows : r.account = a
    <2> DEFINE mine == {r \in rows : r.account = a}
    <2>1. PICK due \in SUBSET mine :
            /\ {r \in mine : r.fresh} \subseteq due
            /\ \E list \in InOrder(due) :
                 drain' = [drain EXCEPT
                   ![a].pc = IF mine = {} THEN "counted" ELSE "sending",
                   ![a].tasks = list]
      BY DEF ReadTasks
    <2>2. {r \in rows : r.account = a /\ r.fresh} \subseteq due
      BY <2>1
    <2>3. CASE mine = {}
      BY <2>1, <2>2, <2>3
    <2>4. CASE mine # {}
      BY <2>1, <2>2, <2>4
    <2> QED BY <2>3, <2>4
  <1>2. IsFiniteSet(due) /\ IsFiniteSet(rows')
    BY <1>1, FS_Subset DEF DrainsInv, ReadTasks
  <1>3. IsSequence(list)
    BY <1>1, <1>2, ListOfRows
  <1>4. PICK d : d = drain[a] /\ DrainInv(d)
    BY DEF DrainsInv
  <1>5. PICK w : w = [d EXCEPT !.pc = pc, !.tasks = list]
    OBVIOUS
  <1>6. w = [pc |-> pc, tasks |-> list, answer |-> d.answer,
             refreshed |-> d.refreshed, sent |-> d.sent, left |-> d.left,
             rerun |-> d.rerun, settled |-> d.settled, callers |-> d.callers]
    BY <1>4, <1>5 DEF DrainInv
  <1>7. /\ w.pc = pc /\ w.tasks = list
        /\ w.rerun = d.rerun /\ w.callers = d.callers
    BY <1>6
  <1>8. DrainInv(w)
    BY <1>1, <1>3, <1>4, <1>6, <1>7 DEF DrainInv
  <1>9. drain' = [drain EXCEPT ![a] = w]
    BY <1>1, <1>4, <1>5
  <1>10. drain[a].pc = "reading"
    BY DEF ReadTasks
  <1> QED BY <1>1, <1>2, <1>4, <1>7, <1>8, <1>9, <1>10, OneDrainGoes

(* The first task leaves the list.                                         *)
LEMMA TaskLeaves ==
  ASSUME DrainsInv, IsFiniteSet(rows'), NEW a \in Account, NEW sent,
         drain[a].tasks # <<>>, NextTask(a, sent)
  PROVE  /\ DrainsInv'
         /\ \A b \in Account \ {a} : drain'[b] = drain[b]
         /\ drain'[a].pc = "sending"
         /\ drain'[a].tasks = Tail(drain[a].tasks)
         /\ drain'[a].rerun = drain[a].rerun
         /\ drain'[a].callers = drain[a].callers
  <1>1. PICK d : d = drain[a] /\ DrainInv(d)
    BY DEF DrainsInv
  <1>2. PICK ts : ts = Tail(d.tasks) /\ IsSequence(ts)
    BY <1>1, HeadAndTail DEF DrainInv
  <1>3. PICK w : w = [d EXCEPT !.pc = "sending", !.answer = "none",
                               !.tasks = ts, !.sent = d.sent \cup sent]
    OBVIOUS
  <1>4. w = [pc |-> "sending", tasks |-> ts, answer |-> "none",
             refreshed |-> d.refreshed, sent |-> d.sent \cup sent,
             left |-> d.left, rerun |-> d.rerun, settled |-> d.settled,
             callers |-> d.callers]
    BY <1>1, <1>3 DEF DrainInv
  <1>5. /\ w.pc = "sending" /\ w.tasks = ts
        /\ w.rerun = d.rerun /\ w.callers = d.callers
    BY <1>4
  <1>6. DrainInv(w)
    BY <1>1, <1>2, <1>4, <1>5 DEF DrainInv
  <1>7. drain' = [drain EXCEPT ![a] = w]
    <2>1. drain' = [drain EXCEPT ![a] =
            [drain[a] EXCEPT !.pc = "sending", !.answer = "none",
                             !.tasks = Tail(drain[a].tasks),
                             !.sent = drain[a].sent \cup sent]]
      BY DEF NextTask
    <2> QED BY <1>1, <1>2, <1>3, <2>1
  <1> QED BY <1>1, <1>2, <1>5, <1>6, <1>7, OneDrainGoes

(* A request is made: the list stays as it is.                             *)
LEMMA RequestMade ==
  ASSUME DrainsInv, NEW a \in Account, NEW answer, Send(a, answer)
  PROVE  /\ DrainsInv'
         /\ \A b \in Account \ {a} : drain'[b] = drain[b]
         /\ drain'[a].pc = "answered" /\ drain'[a].answer = answer
         /\ drain'[a].tasks = drain[a].tasks
         /\ drain'[a].rerun = drain[a].rerun
         /\ drain'[a].callers = drain[a].callers
  <1>1. PICK d : d = drain[a] /\ DrainInv(d) /\ d.tasks # <<>>
    BY DEF DrainsInv, Send
  <1>2. PICK w : w = [d EXCEPT !.pc = "answered", !.answer = answer]
    OBVIOUS
  <1>3. w = [pc |-> "answered", tasks |-> d.tasks, answer |-> answer,
             refreshed |-> d.refreshed, sent |-> d.sent, left |-> d.left,
             rerun |-> d.rerun, settled |-> d.settled, callers |-> d.callers]
    BY <1>1, <1>2 DEF DrainInv
  <1>4. /\ w.pc = "answered" /\ w.tasks = d.tasks /\ w.answer = answer
        /\ w.rerun = d.rerun /\ w.callers = d.callers
    BY <1>3
  <1>5. DrainInv(w)
    BY <1>1, <1>3, <1>4 DEF DrainInv
  <1>6. drain' = [drain EXCEPT ![a] = w] /\ IsFiniteSet(rows')
    BY <1>1, <1>2 DEF Send, DrainsInv
  <1> QED BY <1>1, <1>4, <1>5, <1>6, OneDrainGoes

(* The token is refreshed: the task is to be sent again.                   *)
LEMMA RequestRepeated ==
  ASSUME DrainsInv, NEW a \in Account, Refreshes(a)
  PROVE  /\ DrainsInv'
         /\ \A b \in Account \ {a} : drain'[b] = drain[b]
         /\ drain[a].pc = "answered" /\ drain'[a].pc = "sending"
         /\ drain'[a].tasks = drain[a].tasks
         /\ drain'[a].rerun = drain[a].rerun
         /\ drain'[a].callers = drain[a].callers
  <1>1. PICK d : d = drain[a] /\ DrainInv(d) /\ d.pc = "answered"
    BY DEF DrainsInv, Refreshes
  <1>2. PICK w : w = [d EXCEPT !.pc = "sending", !.answer = "none",
                               !.refreshed = TRUE]
    OBVIOUS
  <1>3. w = [pc |-> "sending", tasks |-> d.tasks, answer |-> "none",
             refreshed |-> TRUE, sent |-> d.sent, left |-> d.left,
             rerun |-> d.rerun, settled |-> d.settled, callers |-> d.callers]
    BY <1>1, <1>2 DEF DrainInv
  <1>4. /\ w.pc = "sending" /\ w.tasks = d.tasks
        /\ w.rerun = d.rerun /\ w.callers = d.callers
    BY <1>3
  <1>5. DrainInv(w)
    BY <1>1, <1>3, <1>4 DEF DrainInv
  <1>6. drain' = [drain EXCEPT ![a] = w] /\ IsFiniteSet(rows')
    BY <1>1, <1>2 DEF Refreshes, DrainsInv
  <1> QED BY <1>1, <1>4, <1>5, <1>6, OneDrainGoes

(* The rest of a pass is given up.                                         *)
LEMMA PassGivenUp ==
  ASSUME DrainsInv, IsFiniteSet(rows'), NEW a \in Account, Rejected(a)
  PROVE  /\ DrainsInv'
         /\ \A b \in Account \ {a} : drain'[b] = drain[b]
         /\ drain[a].pc = "answered" /\ drain'[a].pc = "counted"
         /\ drain'[a].answer = "unauthorized" /\ drain'[a].tasks = <<>>
         /\ drain'[a].rerun = drain[a].rerun
         /\ drain'[a].callers = drain[a].callers
  <1>1. PICK d : d = drain[a] /\ DrainInv(d) /\ d.pc = "answered"
                 /\ d.answer = "unauthorized"
    BY DEF DrainsInv, Rejected
  <1>2. PICK w : w = [d EXCEPT !.pc = "counted", !.tasks = <<>>, !.sent = {}]
    OBVIOUS
  <1>3. w = [pc |-> "counted", tasks |-> <<>>, answer |-> d.answer,
             refreshed |-> d.refreshed, sent |-> {}, left |-> d.left,
             rerun |-> d.rerun, settled |-> d.settled, callers |-> d.callers]
    BY <1>1, <1>2 DEF DrainInv
  <1>4. /\ w.pc = "counted" /\ w.tasks = <<>> /\ w.answer = "unauthorized"
        /\ w.rerun = d.rerun /\ w.callers = d.callers
    BY <1>1, <1>3
  <1>5. DrainInv(w)
    BY <1>1, <1>3, <1>4, NoDrainIsIdle DEF DrainInv
  <1>6. drain' = [drain EXCEPT ![a] = w]
    BY <1>1, <1>2 DEF Rejected
  <1> QED BY <1>1, <1>4, <1>5, <1>6, OneDrainGoes

(* The rows that are left are counted.                                     *)
LEMMA PassCounted ==
  ASSUME DrainsInv, NEW a \in Account, Count(a)
  PROVE  /\ DrainsInv'
         /\ \A b \in Account \ {a} : drain'[b] = drain[b]
         /\ drain[a].pc = "sending" /\ drain[a].tasks = <<>>
         /\ drain'[a].pc = "counted" /\ drain'[a].tasks = <<>>
         /\ drain'[a].rerun = drain[a].rerun
         /\ drain'[a].callers = drain[a].callers
  <1>1. PICK d : /\ d = drain[a] /\ DrainInv(d)
                 /\ d.pc = "sending" /\ d.tasks = <<>>
    BY DEF DrainsInv, Count
  <1>2. PICK left : left = {r.subject : r \in {q \in rows : q.account = a}}
    OBVIOUS
  <1>3. PICK w : w = [d EXCEPT !.pc = "counted", !.left = left]
    OBVIOUS
  <1>4. w = [pc |-> "counted", tasks |-> d.tasks, answer |-> d.answer,
             refreshed |-> d.refreshed, sent |-> d.sent, left |-> left,
             rerun |-> d.rerun, settled |-> d.settled, callers |-> d.callers]
    BY <1>1, <1>3 DEF DrainInv
  <1>5. /\ w.pc = "counted" /\ w.tasks = d.tasks
        /\ w.rerun = d.rerun /\ w.callers = d.callers
    BY <1>4
  <1>6. DrainInv(w)
    BY <1>1, <1>4, <1>5 DEF DrainInv
  <1>7. drain' = [drain EXCEPT ![a] = w] /\ IsFiniteSet(rows')
    BY <1>1, <1>2, <1>3 DEF Count, DrainsInv
  <1> QED BY <1>1, <1>5, <1>6, <1>7, OneDrainGoes

(* One more pass begins.                                                   *)
LEMMA PassBegins ==
  ASSUME DrainsInv, NEW a \in Account, RunsAgain(a)
  PROVE  /\ DrainsInv'
         /\ \A b \in Account \ {a} : drain'[b] = drain[b]
         /\ drain'[a].pc = "reading" /\ drain'[a].tasks = <<>>
         /\ drain'[a].callers = drain[a].callers
  <1>1. PICK cs, ss : cs = drain[a].callers /\ ss = SettledAfter(a)
    OBVIOUS
  <1>2. PICK w : /\ w = [NoDrain EXCEPT !.pc = "reading", !.callers = cs,
                                        !.settled = ss]
                 /\ DrainInv(w) /\ w.pc = "reading" /\ w.tasks = <<>>
                 /\ w.callers = cs
    BY FreshDrain
  <1>3. drain' = [drain EXCEPT ![a] = w] /\ IsFiniteSet(rows')
    BY <1>1, <1>2 DEF RunsAgain, DrainsInv
  <1> QED BY <1>1, <1>2, <1>3, OneDrainGoes

(* A drain is over.                                                        *)
LEMMA DrainEnds ==
  ASSUME DrainsInv, NEW a \in Account, Returns(a)
  PROVE  /\ DrainsInv'
         /\ \A b \in Account \ {a} : drain'[b] = drain[b]
         /\ drain'[a].pc = "idle" /\ drain'[a].tasks = <<>>
         /\ drain'[a].callers = {}
  <1>1. drain' = [drain EXCEPT ![a] = NoDrain] /\ IsFiniteSet(rows')
    BY DEF Returns, DrainsInv
  <1> QED BY <1>1, NoDrainIsIdle, OneDrainGoes

(* A drain in flight is told of a new row.                                 *)
LEMMA DrainIsTold ==
  ASSUME DrainsInv, NEW c \in Call, call[c].account \in Account, MarkDirty(c)
  PROVE  LET a == call[c].account IN
         /\ DrainsInv'
         /\ \A b \in Account \ {a} : drain'[b] = drain[b]
         /\ drain'[a].pc = drain[a].pc
         /\ drain'[a].pc = "idle" \/ drain'[a].rerun
         /\ drain'[a].tasks = drain[a].tasks
         /\ drain'[a].answer = drain[a].answer
         /\ drain'[a].callers = drain[a].callers
  <1>1. PICK a \in Account : a = call[c].account
    OBVIOUS
  <1>2. PICK d : d = drain[a] /\ DrainInv(d)
    BY DEF DrainsInv
  <1>3. PICK rerun \in BOOLEAN : rerun <=> d.rerun \/ d.pc # "idle"
    OBVIOUS
  <1>4. PICK w : w = [d EXCEPT !.rerun = rerun]
    OBVIOUS
  <1>5. w = [pc |-> d.pc, tasks |-> d.tasks, answer |-> d.answer,
             refreshed |-> d.refreshed, sent |-> d.sent, left |-> d.left,
             rerun |-> rerun, settled |-> d.settled, callers |-> d.callers]
    BY <1>2, <1>4 DEF DrainInv
  <1>6. /\ w.pc = d.pc /\ w.tasks = d.tasks /\ w.answer = d.answer
        /\ w.callers = d.callers
    BY <1>5
  <1>7. w.rerun = rerun
    BY <1>5
  <1>8. DrainInv(w)
    BY <1>2, <1>3, <1>5, <1>6, <1>7 DEF DrainInv
  <1>9. drain' = [drain EXCEPT ![a] = w] /\ IsFiniteSet(rows')
    <2>1. drain' = [drain EXCEPT ![a] =
            [drain[a] EXCEPT !.rerun = drain[a].rerun \/ drain[a].pc # "idle"]]
      BY <1>1 DEF MarkDirty
    <2>2. (d.rerun \/ d.pc # "idle") = rerun
      BY <1>2, <1>3 DEF DrainInv
    <2>3. drain' = [drain EXCEPT ![a] = w]
      BY <1>2, <1>4, <2>1, <2>2, Zenon
    <2> QED BY <2>3 DEF MarkDirty, DrainsInv
  <1>10. w.pc = "idle" \/ w.rerun
    BY <1>3, <1>6, <1>7
  <1> QED BY <1>1, <1>2, <1>6, <1>8, <1>9, <1>10, OneDrainGoes

(* A caller starts a drain or joins the one in flight.                     *)
LEMMA DrainIsJoined ==
  ASSUME DrainsInv, NEW c \in Call, call[c].account \in Account, Join(c)
  PROVE  LET a == call[c].account IN
         /\ DrainsInv'
         /\ \A b \in Account \ {a} : drain'[b] = drain[b]
         /\ \/ drain'[a].pc = "reading" /\ drain'[a].tasks = <<>>
            \/ /\ drain'[a].pc = drain[a].pc /\ drain'[a].rerun
               /\ drain'[a].tasks = drain[a].tasks
               /\ drain'[a].answer = drain[a].answer
         /\ drain'[a].callers \subseteq drain[a].callers \cup {c}
  <1>1. PICK a \in Account : a = call[c].account
    OBVIOUS
  <1>2. PICK d : d = drain[a] /\ DrainInv(d)
    BY DEF DrainsInv
  <1>3. IsFiniteSet(rows')
    BY DEF Join, DrainsInv
  <1>4. CASE d.pc = "idle"
    <2>1. PICK cs : cs = {c}
      OBVIOUS
    <2>2. PICK w : /\ w = [NoDrain EXCEPT !.pc = "reading", !.callers = cs]
                   /\ DrainInv(w) /\ w.pc = "reading" /\ w.tasks = <<>>
                   /\ w.callers = cs
      BY FirstDrain
    <2>3. drain' = [drain EXCEPT ![a] = w]
      <3>1. w = Joined(d, c)
        BY <1>4, <2>1, <2>2 DEF Joined
      <3>2. drain' = [drain EXCEPT ![a] = Joined(drain[a], c)]
        BY <1>1 DEF Join
      <3> QED BY <1>2, <3>1, <3>2
    <2> QED BY <1>1, <1>3, <2>1, <2>2, <2>3, OneDrainGoes
  <1>5. CASE d.pc # "idle"
    <2>1. PICK cs : cs = d.callers \cup {c}
      OBVIOUS
    <2>2. PICK w : w = [d EXCEPT !.rerun = TRUE, !.callers = cs]
      OBVIOUS
    <2>3. w = [pc |-> d.pc, tasks |-> d.tasks, answer |-> d.answer,
               refreshed |-> d.refreshed, sent |-> d.sent, left |-> d.left,
               rerun |-> TRUE, settled |-> d.settled, callers |-> cs]
      BY <1>2, <2>2 DEF DrainInv
    <2>4. /\ w.pc = d.pc /\ w.tasks = d.tasks /\ w.answer = d.answer
          /\ w.callers = cs /\ w.rerun /\ w.rerun \in BOOLEAN
      BY <2>3
    <2>5. DrainInv(w)
      BY <1>2, <2>3, <2>4 DEF DrainInv
    <2>6. drain' = [drain EXCEPT ![a] = w]
      <3>1. w = Joined(d, c)
        BY <1>5, <2>1, <2>2 DEF Joined
      <3>2. drain' = [drain EXCEPT ![a] = Joined(drain[a], c)]
        BY <1>1 DEF Join
      <3> QED BY <1>2, <3>1, <3>2
    <2> QED BY <1>1, <1>2, <1>3, <2>1, <2>4, <2>5, <2>6, OneDrainGoes
  <1> QED BY <1>4, <1>5

-----------------------------------------------------------------------------
(* No row is forgotten.  Who waits for a drain is a call of its account;   *)
(* and a row that was not tried since its last edit is with a pass that is *)
(* still to read it, or on the list of the one under way, or its edit has  *)
(* yet to tell the drain, or a rejected token has ended the pass.          *)
CallersWait ==
  \A a \in Account : \A c \in drain[a].callers :
    c \in Call /\ call[c].pc = "draining" /\ call[c].account = a

Excused(a, s) ==
  \E c \in Call : /\ call[c].pc = "committed"
                  /\ call[c].account = a /\ call[c].subject = s

Listed(a, r) ==
  \E i \in DOMAIN drain[a].tasks :
    drain[a].tasks[i].id = r.id /\ drain[a].tasks[i].payload = r.payload

Covered(a, r) ==
  \/ drain[a].pc \in {"idle", "reading"}
  \/ drain[a].rerun
  \/ Excused(a, r.subject)
  \/ drain[a].pc = "counted" /\ drain[a].answer = "unauthorized"
  \/ drain[a].pc \in {"sending", "answered"} /\ Listed(a, r)

AttemptInv ==
  \A a \in Account : \A r \in rows : r.account = a /\ r.fresh => Covered(a, r)

PassInv == RowInv /\ CallsInv /\ DrainsInv /\ CallersWait /\ AttemptInv

(* A call that was committed is so still, unless it is the one that moves. *)
LEMMA ExcusedStays ==
  ASSUME NEW c \in Call, call[c].pc # "committed",
         \A d \in Call \ {c} : Same(call'[d], call[d]),
         NEW a, NEW s, Excused(a, s)
  PROVE  Excused(a, s)'
  BY DEF Excused, Same

(* What is not as it was in a drain leaves its rows covered.               *)
LEMMA CoverStays ==
  ASSUME NEW a \in Account, NEW r, Covered(a, r),
         Excused(a, r.subject) => Excused(a, r.subject)',
         drain'[a].pc = drain[a].pc, drain'[a].answer = drain[a].answer,
         drain'[a].tasks = drain[a].tasks,
         drain'[a].rerun \/ ~drain[a].rerun
  PROVE  Covered(a, r)'
  BY DEF Covered, Listed

(* The rows that are fresh after a failure were so before, and are not the *)
(* one that failed.                                                        *)
LEMMA FreshAfterFailure ==
  ASSUME RowInv, NEW task, rows' = BackedOff(task), NEW r \in rows', r.fresh
  PROVE  r \in rows /\ (r.id # task.id \/ r.payload # task.payload)
  <1>1. ASSUME NEW q \in rows
        PROVE  ~[q EXCEPT !.fresh = FALSE].fresh
    BY <1>1 DEF RowInv, Shaped, HasColumns
  <1>2. r \in rows \ Unchanged(task)
    BY <1>1 DEF BackedOff, Unchanged
  <1> QED BY <1>2 DEF Unchanged

(* Edits, catching up and settling do not touch the drains.                *)
LEMMA CallsLeaveCover ==
  ASSUME PassInv, IsFiniteSet(rows'), NEW c \in Call,
         \/ \E s \in Subject : Edit(c, s)
         \/ CatchUp(c) \/ Commit(c) \/ Settle(c)
  PROVE  CallsInv' /\ DrainsInv' /\ CallersWait' /\ AttemptInv'
  <1>1. drain' = drain
    BY DEF Edit, SetStatus, SaveMetadata, RemoveFavorite, Edits, CatchUp,
           Commit, Settle
  <1>2. ~MarkDirty(c)
    BY <1>1 DEF Edit, SetStatus, SaveMetadata, RemoveFavorite, Edits, CatchUp,
           Commit, Settle, MarkDirty
  <1>3. /\ CallsInv' /\ call[c].pc # "draining" /\ call[c].pc # "committed"
        /\ \A d \in Call \ {c} : Same(call'[d], call[d])
        /\ Commit(c) => /\ call'[c].pc = "committed"
                        /\ call'[c].account = call[c].account
                        /\ call'[c].subject = call[c].subject
    BY <1>2, CallMoves DEF PassInv, CallStep
  <1>4. DrainsInv'
    BY <1>1 DEF PassInv, DrainsInv, DrainInv, IsSequence
  <1>5. CallersWait'
    BY <1>1, <1>3 DEF PassInv, CallersWait, Same
  <1>6. ASSUME NEW a \in Account, NEW r \in rows', r.account = a, r.fresh
        PROVE  Covered(a, r)'
    <2>1. CASE r \in rows
      <3>1. Covered(a, r)
        BY <1>6, <2>1 DEF PassInv, AttemptInv
      <3>2. Excused(a, r.subject) => Excused(a, r.subject)'
        BY <1>3, ExcusedStays
      <3> QED BY <1>1, <3>1, <3>2, CoverStays
    <2>2. CASE r \notin rows
      <3>1. Commit(c)
        BY <1>6, <2>2 DEF Edit, SetStatus, SaveMetadata, RemoveFavorite,
                          Edits, CatchUp, Settle
      <3>2. r = NewRow(call[c].account, call[c].subject, call[c].op,
                       call[c].payload)
        BY <1>6, <2>2, <3>1 DEF Commit, Enqueue
      <3>3. r.account = call[c].account /\ r.subject = call[c].subject
        BY <3>2, NewRowFields
      <3>4. Excused(a, r.subject)'
        BY <1>3, <1>6, <3>1, <3>3 DEF Excused
      <3> QED BY <3>4 DEF Covered
    <2> QED BY <2>1, <2>2
  <1> QED BY <1>3, <1>4, <1>5, <1>6 DEF AttemptInv

(* A markDirty that arrives has the drain in flight run once more.         *)
LEMMA MarkDirtyCovers ==
  ASSUME PassInv, NEW c \in Call, MarkDirty(c)
  PROVE  CallsInv' /\ DrainsInv' /\ CallersWait' /\ AttemptInv'
  <1>1. PICK a \in Account : a = call[c].account
    BY DEF MarkDirty, PassInv, CallsInv, CallInv
  <1>2. /\ CallsInv' /\ call[c].pc # "draining"
        /\ \A d \in Call \ {c} : Same(call'[d], call[d])
    BY CallMoves DEF PassInv, CallStep
  <1>3. /\ DrainsInv'
        /\ \A b \in Account \ {a} : drain'[b] = drain[b]
        /\ drain'[a].pc = "idle" \/ drain'[a].rerun
        /\ drain'[a].callers = drain[a].callers
    BY <1>1, DrainIsTold DEF PassInv
  <1>4. CallersWait'
    BY <1>2, <1>3 DEF PassInv, CallersWait, Same
  <1>5. ASSUME NEW b \in Account, NEW r \in rows', r.account = b, r.fresh
        PROVE  Covered(b, r)'
    <2>1. CASE b = a
      BY <1>3, <2>1 DEF Covered
    <2>2. CASE b # a
      <3>1. Covered(b, r)
        BY <1>5 DEF PassInv, AttemptInv, MarkDirty
      <3>2. Excused(b, r.subject) => Excused(b, r.subject)'
        BY <1>1, <1>2, <2>2 DEF Excused, Same
      <3> QED BY <1>3, <2>2, <3>1, <3>2, CoverStays
    <2> QED BY <2>1, <2>2
  <1> QED BY <1>2, <1>3, <1>4, <1>5 DEF AttemptInv

(* A caller that joins has it run once more, too.                          *)
LEMMA JoinCovers ==
  ASSUME PassInv, NEW c \in Call, Join(c)
  PROVE  CallsInv' /\ DrainsInv' /\ CallersWait' /\ AttemptInv'
  <1>1. PICK a \in Account : a = call[c].account
    BY DEF Join, PassInv, CallsInv, CallInv
  <1>2. ~MarkDirty(c)
    BY DEF Join, MarkDirty
  <1>3. /\ CallsInv' /\ call[c].pc # "draining" /\ call[c].pc # "committed"
        /\ call'[c].pc = "draining" /\ call'[c].account = a
        /\ \A d \in Call \ {c} : Same(call'[d], call[d])
    BY <1>1, <1>2, CallMoves DEF PassInv, CallStep
  <1>4. /\ DrainsInv'
        /\ \A b \in Account \ {a} : drain'[b] = drain[b]
        /\ drain'[a].pc = "reading" \/ drain'[a].rerun
        /\ drain'[a].callers \subseteq drain[a].callers \cup {c}
    BY <1>1, DrainIsJoined DEF PassInv
  <1>5. CallersWait'
    <2>1. ASSUME NEW b \in Account, NEW d \in drain'[b].callers
          PROVE  d \in Call /\ call'[d].pc = "draining"
                 /\ call'[d].account = b
      <3>1. CASE d = c /\ b = a
        BY <1>3, <3>1
      <3>2. CASE d \in drain[b].callers
        BY <1>3, <3>2 DEF PassInv, CallersWait, Same
      <3> QED BY <1>4, <2>1, <3>1, <3>2
    <2> QED BY <2>1 DEF CallersWait
  <1>6. ASSUME NEW b \in Account, NEW r \in rows', r.account = b, r.fresh
        PROVE  Covered(b, r)'
    <2>1. CASE b = a
      BY <1>4, <2>1 DEF Covered
    <2>2. CASE b # a
      <3>1. Covered(b, r)
        BY <1>6 DEF PassInv, AttemptInv, Join
      <3>2. Excused(b, r.subject) => Excused(b, r.subject)'
        BY <1>3, ExcusedStays
      <3> QED BY <1>4, <2>2, <3>1, <3>2, CoverStays
    <2> QED BY <2>1, <2>2
  <1> QED BY <1>3, <1>4, <1>5, <1>6 DEF AttemptInv

(* The steps of a drain under way: what stays of the list covers the rows  *)
(* that are left.                                                          *)
LEMMA DrainCovers ==
  ASSUME PassInv, IsFiniteSet(rows'), NEW a \in Account, DrainStep(a),
         ~Returns(a)
  PROVE  DrainsInv' /\ CallersWait' /\ AttemptInv'
  <1>1. call' = call
    BY DEF DrainStep, ReadTasks, Send, Accepted, Failed, Refreshes, Rejected,
           Count, RunsAgain
  <1>2. \A b, s : Excused(b, s) => Excused(b, s)'
    BY <1>1 DEF Excused
  <1> DEFINE Fits == /\ DrainsInv'
                     /\ \A b \in Account \ {a} : drain'[b] = drain[b]
                     /\ drain'[a].callers = drain[a].callers
                     /\ \A r \in rows' : r.fresh => r \in rows
                     /\ \A r \in rows' : r.account = a /\ r.fresh
                                         => Covered(a, r)'
  <1>3. ASSUME ReadTasks(a)
        PROVE  Fits
    <2>1. /\ DrainsInv'
          /\ \A b \in Account \ {a} : drain'[b] = drain[b]
          /\ drain'[a].callers = drain[a].callers
          /\ \/ drain'[a].pc = "sending"
             \/ drain'[a].pc = "counted" /\ ~\E r \in rows : r.account = a
      BY <1>3, TasksRead DEF PassInv
    <2>2. PICK due :
            /\ {r \in rows : r.account = a /\ r.fresh} \subseteq due
            /\ IsFiniteSet(due) /\ drain'[a].tasks \in InOrder(due)
      BY <1>3, TasksRead DEF PassInv
    <2>3. rows' = rows
      BY <1>3 DEF ReadTasks
    <2>4. ASSUME NEW r \in rows', r.account = a, r.fresh
          PROVE  Covered(a, r)'
      <3>1. PICK list : list = drain'[a].tasks /\ list \in InOrder(due)
        BY <2>2
      <3>2. PICK i \in DOMAIN list : list[i] = r
        BY <2>2, <2>3, <2>4, <3>1, ListOfRows
      <3>3. drain'[a].pc = "sending"
        BY <2>1, <2>3, <2>4
      <3> QED BY <3>1, <3>2, <3>3 DEF Covered, Listed
    <2>5. \A r \in rows' : r.fresh => r \in rows
      BY <2>3
    <2> QED BY <2>1, <2>4, <2>5
  <1>4. ASSUME \E answer : Send(a, answer)
        PROVE  Fits
    <2>1. PICK answer : Send(a, answer)
      BY <1>4
    <2>2. /\ DrainsInv'
          /\ \A b \in Account \ {a} : drain'[b] = drain[b]
          /\ drain'[a].pc = "answered"
          /\ drain'[a].tasks = drain[a].tasks
          /\ drain'[a].rerun = drain[a].rerun
          /\ drain'[a].callers = drain[a].callers
      BY <2>1, RequestMade DEF PassInv
    <2>3. rows' = rows /\ drain[a].pc = "sending"
      BY <2>1 DEF Send
    <2>4. ASSUME NEW r \in rows', r.account = a, r.fresh
          PROVE  Covered(a, r)'
      <3>1. Covered(a, r)
        BY <2>3, <2>4 DEF PassInv, AttemptInv
      <3> QED BY <1>2, <2>2, <2>3, <3>1 DEF Covered, Listed
    <2> QED BY <2>2, <2>3, <2>4
  <1>5. ASSUME Accepted(a) \/ Failed(a)
        PROVE  Fits
    <2>1. PICK d : d = drain[a] /\ DrainInv(d) /\ d.pc = "answered"
      BY <1>5 DEF PassInv, DrainsInv, Accepted, Failed
    <2>2. d.tasks # <<>> /\ IsSequence(d.tasks)
      BY <2>1 DEF DrainInv
    <2>3. \E sent : NextTask(a, sent)
      BY <1>5 DEF Accepted, Failed
    <2>4. /\ DrainsInv'
          /\ \A b \in Account \ {a} : drain'[b] = drain[b]
          /\ drain'[a].pc = "sending"
          /\ drain'[a].tasks = Tail(d.tasks)
          /\ drain'[a].rerun = drain[a].rerun
          /\ drain'[a].callers = drain[a].callers
      BY <2>1, <2>2, <2>3, TaskLeaves DEF PassInv
    <2>5. PICK task : task = Head(d.tasks)
      OBVIOUS
    <2>6. ASSUME NEW r \in rows', r.fresh
          PROVE  r \in rows /\ (r.id # task.id \/ r.payload # task.payload)
      <3>1. CASE Accepted(a)
        BY <2>1, <2>5, <2>6, <3>1 DEF Accepted, Unchanged, Task
      <3>2. CASE Failed(a)
        <4>1. rows' = BackedOff(task)
          BY <2>1, <2>5, <3>2 DEF Failed, Task
        <4> QED BY <2>6, <4>1, FreshAfterFailure DEF PassInv
      <3> QED BY <1>5, <3>1, <3>2
    <2>7. ASSUME NEW r \in rows', r.account = a, r.fresh
          PROVE  Covered(a, r)'
      <3>1. Covered(a, r)
        BY <2>6, <2>7 DEF PassInv, AttemptInv
      <3>2. CASE Listed(a, r)
        <4>1. PICK i \in DOMAIN d.tasks :
                d.tasks[i].id = r.id /\ d.tasks[i].payload = r.payload
          BY <2>1, <3>2 DEF Listed
        <4>2. i # 1
          BY <2>2, <2>5, <2>6, <2>7, <4>1, HeadAndTail
        <4>3. /\ i - 1 \in DOMAIN Tail(d.tasks)
              /\ Tail(d.tasks)[i - 1] = d.tasks[i]
          BY <2>2, <4>2, HeadAndTail
        <4> QED BY <2>4, <4>1, <4>3 DEF Covered, Listed
      <3>3. CASE ~Listed(a, r)
        BY <1>2, <2>1, <2>4, <3>1, <3>3 DEF Covered
      <3> QED BY <3>2, <3>3
    <2> QED BY <2>4, <2>6, <2>7
  <1>6. ASSUME Refreshes(a)
        PROVE  Fits
    <2>1. /\ DrainsInv'
          /\ \A b \in Account \ {a} : drain'[b] = drain[b]
          /\ drain[a].pc = "answered" /\ drain'[a].pc = "sending"
          /\ drain'[a].tasks = drain[a].tasks
          /\ drain'[a].rerun = drain[a].rerun
          /\ drain'[a].callers = drain[a].callers
      BY <1>6, RequestRepeated DEF PassInv
    <2>2. rows' = rows
      BY <1>6 DEF Refreshes
    <2>3. ASSUME NEW r \in rows', r.account = a, r.fresh
          PROVE  Covered(a, r)'
      <3>1. Covered(a, r)
        BY <2>2, <2>3 DEF PassInv, AttemptInv
      <3> QED BY <1>2, <2>1, <3>1 DEF Covered, Listed
    <2> QED BY <2>1, <2>2, <2>3
  <1>7. ASSUME Rejected(a)
        PROVE  Fits
    <2>1. /\ DrainsInv'
          /\ \A b \in Account \ {a} : drain'[b] = drain[b]
          /\ drain'[a].pc = "counted" /\ drain'[a].answer = "unauthorized"
          /\ drain'[a].callers = drain[a].callers
      BY <1>7, PassGivenUp DEF PassInv
    <2>2. \A r \in rows' : r.fresh => r \in rows
      BY <1>7, FreshAfterFailure DEF Rejected, PassInv
    <2> QED BY <2>1, <2>2 DEF Covered
  <1>8. ASSUME Count(a)
        PROVE  Fits
    <2>1. /\ DrainsInv'
          /\ \A b \in Account \ {a} : drain'[b] = drain[b]
          /\ drain[a].pc = "sending" /\ drain[a].tasks = <<>>
          /\ drain'[a].rerun = drain[a].rerun
          /\ drain'[a].callers = drain[a].callers
      BY <1>8, PassCounted DEF PassInv
    <2>2. rows' = rows
      BY <1>8 DEF Count
    <2>3. ASSUME NEW r \in rows', r.account = a, r.fresh
          PROVE  Covered(a, r)'
      <3>1. Covered(a, r)
        BY <2>2, <2>3 DEF PassInv, AttemptInv
      <3>2. ~Listed(a, r)
        BY <2>1 DEF Listed
      <3> QED BY <1>2, <2>1, <3>1, <3>2 DEF Covered
    <2> QED BY <2>1, <2>2, <2>3
  <1>9. ASSUME RunsAgain(a)
        PROVE  Fits
    <2>1. /\ DrainsInv'
          /\ \A b \in Account \ {a} : drain'[b] = drain[b]
          /\ drain'[a].pc = "reading"
          /\ drain'[a].callers = drain[a].callers
      BY <1>9, PassBegins DEF PassInv
    <2>2. rows' = rows
      BY <1>9 DEF RunsAgain
    <2> QED BY <2>1, <2>2 DEF Covered
  <1>10. Fits
    BY <1>3, <1>4, <1>5, <1>6, <1>7, <1>8, <1>9 DEF DrainStep
  <1> HIDE DEF Fits
  <1>11. CallersWait'
    BY <1>1, <1>10 DEF Fits, PassInv, CallersWait
  <1>12. ASSUME NEW b \in Account, NEW r \in rows', r.account = b, r.fresh
         PROVE  Covered(b, r)'
    <2>1. CASE b = a
      BY <1>10, <1>12, <2>1 DEF Fits
    <2>2. CASE b # a
      <3>1. r \in rows /\ drain'[b] = drain[b]
        BY <1>10, <1>12, <2>2 DEF Fits
      <3>2. Covered(b, r)
        BY <1>12, <3>1 DEF PassInv, AttemptInv
      <3> QED BY <1>2, <3>1, <3>2, CoverStays
    <2> QED BY <2>1, <2>2
  <1> QED BY <1>10, <1>11, <1>12 DEF AttemptInv, Fits

(* Who waits for a drain that ends moves on; nobody else does.             *)
LEMMA ReturnsCovers ==
  ASSUME PassInv, NEW a \in Account, Returns(a)
  PROVE  CallsInv' /\ DrainsInv' /\ CallersWait' /\ AttemptInv'
  <1>1. /\ DrainsInv'
        /\ \A b \in Account \ {a} : drain'[b] = drain[b]
        /\ drain'[a].pc = "idle" /\ drain'[a].callers = {}
    BY DrainEnds DEF PassInv
  <1>2. PICK cs, ss : /\ cs = drain[a].callers
                      /\ call' = [c \in Call |-> IF c \in cs
                           THEN [call[c] EXCEPT !.pc = "drained",
                                                !.settled = ss]
                           ELSE call[c]]
    BY DEF Returns
  <1>3. \A c \in Call : c \notin cs => call'[c] = call[c]
    BY <1>2
  <1>4. ASSUME NEW c \in Call, c \in cs
        PROVE  CallInv(call'[c])
    <2>1. PICK v : v = call[c] /\ CallInv(v) /\ v.account = a
      BY <1>2, <1>4 DEF PassInv, CallersWait, CallsInv
    <2>2. PICK w : w = [v EXCEPT !.pc = "drained", !.settled = ss]
      OBVIOUS
    <2>3. w = [pc |-> "drained", subject |-> v.subject,
               payload |-> v.payload, op |-> v.op, account |-> v.account,
               expected |-> v.expected, settled |-> ss]
      BY <2>1, <2>2 DEF CallInv
    <2>4. CallInv(w)
      BY <2>1, <2>3 DEF CallInv
    <2> QED BY <1>2, <1>4, <2>1, <2>2, <2>4
  <1>5. CallsInv'
    <2>1. \A c \in Call : CallInv(call'[c])
      BY <1>3, <1>4 DEF PassInv, CallsInv
    <2>2. \A c \in Call : CallInv(call[c])'
      BY <2>1 DEF CallInv
    <2>3. session' = session
      BY DEF Returns
    <2>4. call' = [c \in Call |-> call'[c]]
      BY <1>2
    <2> QED BY <2>2, <2>3, <2>4 DEF PassInv, CallsInv
  <1>6. \A c \in Call : c \in cs => call[c].account = a
                                    /\ call[c].pc = "draining"
    BY <1>2 DEF PassInv, CallersWait
  <1>7. CallersWait'
    BY <1>1, <1>3, <1>6 DEF PassInv, CallersWait
  <1>8. ASSUME NEW b \in Account, NEW r \in rows', r.account = b, r.fresh
        PROVE  Covered(b, r)'
    <2>1. CASE b = a
      BY <1>1, <2>1 DEF Covered
    <2>2. CASE b # a
      <3>1. Covered(b, r)
        BY <1>8 DEF PassInv, AttemptInv, Returns
      <3>2. Excused(b, r.subject) => Excused(b, r.subject)'
        BY <1>3, <1>6 DEF Excused
      <3> QED BY <1>1, <2>2, <3>1, <3>2, CoverStays
    <2> QED BY <2>1, <2>2
  <1> QED BY <1>1, <1>5, <1>7, <1>8 DEF AttemptInv

(* After a restart every row waits for the next drain.                     *)
LEMMA RestartCovers ==
  ASSUME PassInv, Restart
  PROVE  CallsInv' /\ DrainsInv' /\ CallersWait' /\ AttemptInv'
  <1>1. /\ call' = [c \in Call |-> Idle]
        /\ drain' = [a \in Account |-> NoDrain]
        /\ session' = session /\ rows' = rows
    BY DEF Restart
  <1>2. \A c \in Call : CallInv(call'[c])
    BY <1>1, CallsAtRest
  <1>3. \A c \in Call : CallInv(call[c])'
    BY <1>2 DEF CallInv
  <1>4. CallsInv'
    BY <1>1, <1>3 DEF PassInv, CallsInv
  <1>5. \A a \in Account : /\ DrainInv(drain'[a]) /\ drain'[a].pc = "idle"
                           /\ drain'[a].callers = {}
    BY <1>1, NoDrainIsIdle
  <1>6. \A a \in Account : DrainInv(drain[a])'
    BY <1>5 DEF DrainInv, IsSequence
  <1>7. DrainsInv'
    BY <1>1, <1>6 DEF PassInv, DrainsInv
  <1> QED BY <1>4, <1>5, <1>7 DEF CallersWait, AttemptInv, Covered

(* The invariant of passes is inductive.                                   *)
LEMMA PassInvHolds == Spec => []PassInv
  <1>1. Init => PassInv
    <2> SUFFICES ASSUME Init PROVE PassInv
      OBVIOUS
    <2>1. RowInv
      BY DEF Init, RowInv, Shaped, RowsDoNotContradict
    <2>2. CallsInv
      BY CallsAtRest DEF Init, CallsInv
    <2>3. DrainsInv
      <3>1. IsFiniteSet({})
        BY FS_EmptySet
      <3> QED BY <3>1, NoDrainIsIdle DEF Init, DrainsInv
    <2>4. CallersWait /\ AttemptInv
      BY NoDrainIsIdle DEF Init, CallersWait, AttemptInv
    <2> QED BY <2>1, <2>2, <2>3, <2>4 DEF PassInv
  <1>2. PassInv /\ [Next]_vars => PassInv'
    <2> SUFFICES ASSUME PassInv, [Next]_vars PROVE PassInv'
      OBVIOUS
    <2>1. RowInv' /\ IsFiniteSet(rows')
      BY RowInvIsInductive, RowsStayFinite DEF PassInv, DrainsInv
    <2>2. ASSUME NEW c \in Call,
                 (\E s \in Subject : Edit(c, s)) \/ CatchUp(c) \/ CallStep(c)
          PROVE  CallsInv' /\ DrainsInv' /\ CallersWait' /\ AttemptInv'
      BY <2>1, <2>2, CallsLeaveCover, MarkDirtyCovers, JoinCovers DEF CallStep
    <2>3. ASSUME NEW a \in Account, DrainStep(a)
          PROVE  CallsInv' /\ DrainsInv' /\ CallersWait' /\ AttemptInv'
      <3>1. CASE Returns(a)
        BY <3>1, ReturnsCovers
      <3>2. CASE ~Returns(a)
        <4>1. call' = call /\ session' = session
          BY <2>3, <3>2 DEF DrainStep, ReadTasks, Send, Accepted, Failed,
                            Refreshes, Rejected, Count, RunsAgain
        <4>2. CallsInv'
          BY <4>1 DEF PassInv, CallsInv, CallInv
        <4> QED BY <2>1, <2>3, <3>2, <4>2, DrainCovers
      <3> QED BY <3>1, <3>2
    <2>4. CASE Restart
      BY <2>1, <2>4, RestartCovers DEF PassInv
    <2>5. CASE (\E a \in Account : Login(a)) \/ Logout \/ UNCHANGED vars
      <3>1. /\ call' = call /\ drain' = drain /\ rows' = rows
            /\ session' \in Account \cup {None}
        BY <2>5 DEF Login, Logout, vars, PassInv, CallsInv
      <3>2. CallsInv' /\ DrainsInv'
        BY <3>1 DEF PassInv, CallsInv, CallInv, DrainsInv, DrainInv, IsSequence
      <3>3. CallersWait'
        BY <3>1 DEF PassInv, CallersWait
      <3>4. \A a, r : Covered(a, r) => Covered(a, r)'
        BY <3>1 DEF Covered, Excused, Listed
      <3>5. AttemptInv'
        BY <3>1, <3>4 DEF PassInv, AttemptInv
      <3> QED BY <2>1, <3>2, <3>3, <3>5 DEF PassInv
    <2> QED BY <2>1, <2>2, <2>3, <2>4, <2>5 DEF Next, PassInv
  <1> QED BY <1>1, <1>2, PTL DEF Spec

(* For any accounts, subjects and calls: whoever is told that a drain is   *)
(* over finds no row of the account that was queued, and its drain told,   *)
(* without a request for it since; unless the token was rejected.          *)
THEOREM DrainAttemptsEveryRow == Spec => AttemptedBeforeReturn
  <1>1. PassInv /\ [Next]_vars =>
          [\A a \in Account :
             Returns(a) /\ drain[a].answer # "unauthorized" =>
               \A r \in rows : r.account = a /\ r.fresh =>
                 \E c \in Call : /\ call[c].pc = "committed"
                                 /\ call[c].account = a
                                 /\ call[c].subject = r.subject]_vars
    <2> SUFFICES ASSUME PassInv, NEW a \in Account, Returns(a),
                        drain[a].answer # "unauthorized",
                        NEW r \in rows, r.account = a, r.fresh
                 PROVE  \E c \in Call : /\ call[c].pc = "committed"
                                        /\ call[c].account = a
                                        /\ call[c].subject = r.subject
      OBVIOUS
    <2>1. Covered(a, r)
      BY DEF PassInv, AttemptInv
    <2> QED BY <2>1 DEF Covered, Excused, Returns
  <1> QED BY <1>1, PassInvHolds, PTL DEF Spec, AttemptedBeforeReturn

-----------------------------------------------------------------------------
(* What is delivered.  A payload has two fields, None where it says        *)
(* nothing.                                                                *)
Field == {"type", "meta"}

IsPayload(p) == p = [type |-> p.type, meta |-> p.meta]

(* Rows are sound edits under ids of their own, all given out already.     *)
RowsSound ==
  /\ nextId \in Nat
  /\ \A r \in rows : /\ SoundEdit(r.op, r.payload)
                     /\ r.id \in Nat /\ r.id < nextId /\ r.subject \in Subject
  /\ \A p, q \in rows : p.id = q.id => p = q

(* One of them sets the status, the other one the metadata.                *)
Apart(p, q) == /\ p.op \in {"status", "metadata"}
               /\ q.op \in {"status", "metadata"} /\ p.op # q.op

RowsApart ==
  \A p, q \in rows :
    /\ p # q /\ p.account = q.account /\ p.subject = q.subject
    /\ <<p.account, p.subject>> \notin mixed
    => Apart(p, q)

(* A merge takes each field from the later edit if that sets it.           *)
LEMMA MergedFields ==
  ASSUME NEW old, NEW new
  PROVE  /\ IsPayload(MergedWith(old, new))
         /\ \A f \in Field : MergedWith(old, new)[f] =
              IF new[f] # None THEN new[f] ELSE old[f]
  BY DEF MergedWith, IsPayload, Field

(* Which fields an edit sets.                                              *)
LEMMA SoundFields ==
  ASSUME NEW op, NEW p, SoundEdit(op, p)
  PROVE  /\ IsPayload(p) /\ op \in {"status", "metadata", "upsert", "delete"}
         /\ op = "delete" <=> \A f \in Field : p[f] = None
         /\ op = "upsert" => p["type"] # None
         /\ op \in {"status", "metadata"} => \A f \in Field :
              p[f] # None <=> f = (IF op = "status" THEN "type" ELSE "meta")
  BY DEF SoundEdit, IsPayload, Field, Nothing

(* A payload says nothing if none of its fields does.                      *)
LEMMA NothingFields ==
  ASSUME NEW p, IsPayload(p)
  PROVE  p = Nothing <=> \A f \in Field : p[f] = None
  BY DEF IsPayload, Field, Nothing

(* Edits that are apart set different fields.                              *)
LEMMA ApartFields ==
  ASSUME NEW p, NEW q, SoundEdit(p.op, p.payload), SoundEdit(q.op, q.payload),
         Apart(p, q)
  PROVE  \A f \in Field : p.payload[f] # None => q.payload[f] = None
  BY SoundFields DEF Apart, SoundEdit, Field

(* A merge of sound edits is a sound edit of the row it is written to.     *)
LEMMA MergedIsSound ==
  ASSUME NEW op \in {"status", "metadata"}, NEW p, SoundEdit(op, p),
         NEW target \in {op, "upsert"}, NEW q, SoundEdit(target, q)
  PROVE  SoundEdit(target, MergedWith(q, p))
  BY DEF SoundEdit, MergedWith, Nothing

(* The transaction of an edit in terms of the rows it drops and the one it *)
(* leaves.                                                                 *)
LEMMA Enqueued ==
  ASSUME RowInv, RowsSound, NEW a \in Account, NEW s \in Subject, NEW op,
         NEW p, SoundEdit(op, p), Enqueue(a, s, op, p),
         NEW new, new = NewRow(a, s, op, p)
  PROVE  /\ rows' = (rows \ {r \in RowsOf(a, s) :
                       \/ r.op = new.op
                       \/ (op = "delete") # (r.op = "delete")}) \cup {new}
         /\ new.account = a /\ new.subject = s
         /\ new.op = FoldedOp(a, s, op) /\ SoundEdit(new.op, new.payload)
         /\ \/ /\ new.id = nextId /\ nextId' = nextId + 1
               /\ new.payload = p /\ TaskFor(a, s, new.op) = {}
            \/ /\ nextId' = nextId
               /\ \E o \in rows :
                    /\ TaskFor(a, s, new.op) = {o} /\ new.id = o.id
                    /\ new.payload = IF op \in {"status", "metadata"}
                                       THEN MergedWith(o.payload, p) ELSE p
  <1>1. new = NewRow(a, s, op, p)
    OBVIOUS
  <1>2. /\ new.account = a /\ new.subject = s
        /\ new.op = FoldedOp(a, s, op)
        /\ new.op = "delete" <=> op = "delete"
    BY <1>1, NewRowFields
  <1>3. PICK target : target = new.op
    OBVIOUS
  <1>4. PICK gone : gone = Superseded(a, s, op) \cup TaskFor(a, s, target)
    OBVIOUS
  <1>5. rows' = (rows \ gone) \cup {new}
    BY <1>1, <1>3, <1>4 DEF Enqueue
  <1>6. gone = {r \in RowsOf(a, s) :
                  \/ r.op = new.op
                  \/ (op = "delete") # (r.op = "delete")}
    BY <1>3, <1>4 DEF Superseded, TaskFor
  <1>7. target \in {op, "upsert"}
        /\ (target # op => op \in {"status", "metadata"})
    BY <1>2, <1>3 DEF FoldedOp
  <1>8. CASE TaskFor(a, s, target) = {}
    <2>1. new.id = nextId /\ new.payload = p
      BY <1>1, <1>2, <1>3, <1>8 DEF NewRow
    <2>2. nextId' = nextId + 1
      BY <1>1, <2>1 DEF Enqueue
    <2>3. target = op
      BY <1>2, <1>3, <1>8 DEF FoldedOp
    <2>4. SoundEdit(new.op, new.payload)
      BY <1>3, <2>1, <2>3
    <2> QED BY <1>2, <1>3, <1>5, <1>6, <1>8, <2>1, <2>2, <2>4
  <1>9. CASE TaskFor(a, s, target) # {}
    <2>1. PICK o : o = CHOOSE r \in TaskFor(a, s, target) : TRUE
      OBVIOUS
    <2>2. o \in TaskFor(a, s, target)
      BY <1>9, <2>1
    <2>3. o \in rows /\ o.op = target /\ o.account = a /\ o.subject = s
      BY <2>2 DEF TaskFor, RowsOf
    <2>4. TaskFor(a, s, target) = {o}
      BY <2>2, <2>3 DEF RowInv, RowsDoNotContradict, TaskFor, RowsOf
    <2>5. /\ new.id = o.id
          /\ new.payload = IF op \in {"status", "metadata"}
                             THEN MergedWith(o.payload, p) ELSE p
      BY <1>1, <1>2, <1>3, <1>9, <2>1 DEF NewRow
    <2>6. nextId' = nextId
      <3>1. new.id # nextId
        BY <2>3, <2>5 DEF RowsSound
      <3> QED BY <1>1, <3>1 DEF Enqueue
    <2>7. SoundEdit(new.op, new.payload)
      <3>1. SoundEdit(target, o.payload)
        BY <2>3 DEF RowsSound
      <3>2. CASE op \in {"status", "metadata"}
        BY <1>3, <1>7, <2>5, <3>1, <3>2, MergedIsSound
      <3>3. CASE op \notin {"status", "metadata"}
        BY <1>3, <1>7, <2>5, <3>3
      <3> QED BY <3>2, <3>3
    <2> QED BY <1>2, <1>3, <1>5, <1>6, <2>3, <2>4, <2>5, <2>6, <2>7
  <1> QED BY <1>8, <1>9

(* Rows stay sound through an edit.                                        *)
LEMMA EnqueueKeepsSound ==
  ASSUME RowInv, RowsSound, NEW a \in Account, NEW s \in Subject, NEW op,
         NEW p, SoundEdit(op, p), Enqueue(a, s, op, p)
  PROVE  /\ RowsSound' /\ nextId' >= nextId
         /\ \A r \in rows' : r.id < nextId =>
              \E q \in rows : /\ q.id = r.id /\ q.account = r.account
                              /\ q.subject = r.subject
  <1>1. PICK new, gone :
           /\ rows' = (rows \ gone) \cup {new}
           /\ new.account = a /\ new.subject = s
           /\ SoundEdit(new.op, new.payload)
           /\ \/ new.id = nextId /\ nextId' = nextId + 1
              \/ /\ nextId' = nextId
                 /\ \E o \in rows : /\ o \in gone /\ new.id = o.id
                                    /\ o.account = a /\ o.subject = s
    <2>1. PICK new, gone :
            /\ new = NewRow(a, s, op, p)
            /\ gone = {r \in RowsOf(a, s) :
                         \/ r.op = new.op
                         \/ (op = "delete") # (r.op = "delete")}
      OBVIOUS
    <2>2. \A o \in TaskFor(a, s, new.op) :
            o \in gone /\ o.account = a /\ o.subject = s
      BY <2>1 DEF TaskFor, RowsOf
    <2>3. /\ rows' = (rows \ gone) \cup {new}
          /\ new.account = a /\ new.subject = s
          /\ SoundEdit(new.op, new.payload)
          /\ \/ new.id = nextId /\ nextId' = nextId + 1
             \/ /\ nextId' = nextId
                /\ \E o \in rows :
                     TaskFor(a, s, new.op) = {o} /\ new.id = o.id
      BY <2>1, Enqueued
    <2> QED BY <2>2, <2>3
  <1>2. new.id \in Nat /\ new.id < nextId' /\ nextId' \in Nat
        /\ nextId' >= nextId
    BY <1>1 DEF RowsSound
  <1>3. \A r \in rows' : /\ SoundEdit(r.op, r.payload)
                         /\ r.id \in Nat /\ r.id < nextId'
                         /\ r.subject \in Subject
    BY <1>1, <1>2 DEF RowsSound
  <1>4. ASSUME NEW q \in rows', NEW r \in rows', q.id = r.id
        PROVE  q = r
    BY <1>1, <1>4 DEF RowsSound
  <1>5. \A r \in rows' : r.id < nextId =>
          \E q \in rows : /\ q.id = r.id /\ q.account = r.account
                          /\ q.subject = r.subject
    BY <1>1 DEF RowsSound
  <1>6. RowsSound'
    BY <1>2, <1>3, <1>4 DEF RowsSound, SoundEdit, Nothing
  <1> QED BY <1>2, <1>5, <1>6

(* Unless a create was queued across older rows, what lies beside the row  *)
(* of an edit is of the other kind.                                        *)
LEMMA EnqueueBeside ==
  ASSUME RowInv, RowsSound, RowsApart, NEW a \in Account, NEW s \in Subject,
         NEW op, NEW p, SoundEdit(op, p), Enqueue(a, s, op, p),
         <<a, s>> \notin mixed', NEW new, new = NewRow(a, s, op, p),
         NEW q \in rows', q # new, q.account = a, q.subject = s
  PROVE  q \in rows /\ Apart(q, new) /\ new.op = op
  <1>1. /\ new.account = a /\ new.subject = s
        /\ new.op = FoldedOp(a, s, op)
        /\ rows' = (rows \ {r \in RowsOf(a, s) :
                      \/ r.op = new.op
                      \/ (op = "delete") # (r.op = "delete")}) \cup {new}
    BY Enqueued
  <1>2. /\ q \in RowsOf(a, s) /\ q \in rows
        /\ q.op # new.op /\ ((op = "delete") <=> (q.op = "delete"))
    BY <1>1 DEF RowsOf
  <1>3. /\ q.op \in {"status", "metadata", "upsert", "delete"}
        /\ op \in {"status", "metadata", "upsert", "delete"}
    BY <1>2 DEF RowsSound, SoundEdit
  <1>4. CASE op = "delete"
    BY <1>1, <1>2, <1>4 DEF FoldedOp
  <1>5. CASE op = "upsert"
    <2>1. new.op = "upsert"
      BY <1>1, <1>5 DEF FoldedOp
    <2>2. q \in Crossing(a, s, p)
      BY <1>2, <1>3, <1>5, <2>1 DEF Crossing
    <2>3. mixed' = mixed \cup {<<a, s>>}
      BY <1>5, <2>2 DEF Enqueue
    <2> QED BY <2>3
  <1>6. CASE op \in {"status", "metadata"}
    <2>1. <<a, s>> \notin mixed
      BY <1>6 DEF Enqueue
    <2>2. CASE TaskFor(a, s, "upsert") # {}
      <3>1. PICK o \in rows : /\ o.account = a /\ o.subject = s
                              /\ o.op = "upsert"
        BY <2>2 DEF TaskFor, RowsOf
      <3>2. new.op = "upsert"
        BY <1>1, <1>6, <2>2 DEF FoldedOp
      <3>3. q # o /\ ~Apart(q, o)
        BY <1>2, <3>1, <3>2 DEF Apart
      <3> QED BY <1>2, <2>1, <3>1, <3>3 DEF RowsApart, RowsOf
    <2>3. CASE TaskFor(a, s, "upsert") = {}
      <3>1. new.op = op
        BY <1>1, <1>6, <2>3 DEF FoldedOp
      <3>2. q.op # "upsert"
        BY <1>2, <2>3 DEF TaskFor
      <3> QED BY <1>2, <1>3, <1>6, <3>1, <3>2 DEF Apart
    <2> QED BY <2>2, <2>3
  <1> QED BY <1>3, <1>4, <1>5, <1>6

(* So the rows stay apart.                                                 *)
LEMMA EnqueueKeepsApart ==
  ASSUME RowInv, RowsSound, RowsApart, NEW a \in Account, NEW s \in Subject,
         NEW op, NEW p, SoundEdit(op, p), Enqueue(a, s, op, p)
  PROVE  RowsApart'
  <1>1. PICK new : new = NewRow(a, s, op, p)
    OBVIOUS
  <1>2. new.account = a /\ new.subject = s
        /\ \A q \in rows' : q # new => q \in rows
    BY <1>1, Enqueued
  <1>3. mixed \subseteq mixed'
    BY DEF Enqueue
  <1>4. SUFFICES ASSUME NEW q \in rows', NEW r \in rows', q # r,
                        q.account = r.account, q.subject = r.subject,
                        <<q.account, q.subject>> \notin mixed'
                 PROVE  Apart(q, r)
    BY DEF RowsApart, Apart
  <1>5. CASE q = new
    <2>1. Apart(r, new)
      BY <1>1, <1>2, <1>4, <1>5, EnqueueBeside
    <2> QED BY <1>5, <2>1 DEF Apart
  <1>6. CASE r = new
    BY <1>1, <1>2, <1>4, <1>6, EnqueueBeside
  <1>7. CASE q # new /\ r # new
    BY <1>2, <1>3, <1>4, <1>7 DEF RowsApart
  <1> QED BY <1>5, <1>6, <1>7

-----------------------------------------------------------------------------
(* The tasks of a pass are rows as they were when it was read: sound, of a *)
(* row that is still of their subject if it is there at all, and apart.    *)
TaskSound(a, t) ==
  /\ SoundEdit(t.op, t.payload)
  /\ t.id \in Nat /\ t.id < nextId /\ t.subject \in Subject
  /\ \A r \in rows : r.id = t.id => r.account = a /\ r.subject = t.subject

TasksSound ==
  \A a \in Account : \A i \in DOMAIN drain[a].tasks :
    i \in Nat /\ TaskSound(a, drain[a].tasks[i])

TasksApart ==
  \A a \in Account : \A i, j \in DOMAIN drain[a].tasks :
    /\ i # j /\ drain[a].tasks[i].subject = drain[a].tasks[j].subject
    /\ <<a, drain[a].tasks[i].subject>> \notin mixed
    => Apart(drain[a].tasks[i], drain[a].tasks[j])

(* What an answer says of the collection, until the next request.          *)
Answered(answer, t, m) ==
  /\ answer = "ok" =>
       IF t.op = "delete" THEN m = Nothing
       ELSE \A f \in Field : t.payload[f] # None => m[f] = t.payload[f]
  /\ answer = "missing" => m = Nothing

AnswersInv ==
  \A a \in Account : drain[a].pc = "answered" =>
    Answered(drain[a].answer, drain[a].tasks[1],
             remote[<<a, drain[a].tasks[1].subject>>])

(* Collections and what is wanted of them.                                 *)
CollectionsInv ==
  /\ wanted = [at \in Account \X Subject |-> wanted[at]]
  /\ remote = [at \in Account \X Subject |-> remote[at]]
  /\ \A at \in Account \X Subject : IsPayload(wanted[at])
                                    /\ IsPayload(remote[at])

(* A subject that is to be gone: only deletes are queued, and with none    *)
(* queued it is gone and no request for it is to come.                     *)
Gone(a, s) ==
  /\ \A r \in RowsOf(a, s) : r.op = "delete"
  /\ RowsOf(a, s) = {} =>
       /\ remote[<<a, s>>] = Nothing
       /\ \A i \in DOMAIN drain[a].tasks : drain[a].tasks[i].subject # s

(* A task leaves the wanted value of a field alone.                        *)
Harmless(t, s, f, value) ==
  t.subject = s => t.op # "delete" /\ t.payload[f] \in {None, value}

(* The wanted value of a field is queued, or it is there and no request    *)
(* that is to come takes it away.                                          *)
Coming(a, s, f, value) ==
  \/ value = None
  \/ \E r \in RowsOf(a, s) : r.payload[f] = value
  \/ /\ remote[<<a, s>>][f] = value
     /\ \A i \in DOMAIN drain[a].tasks :
          Harmless(drain[a].tasks[i], s, f, value)

(* Otherwise: no delete is queued, nor a value that is not wanted.         *)
Kept(a, s) ==
  /\ \A r \in RowsOf(a, s) :
       /\ r.op # "delete"
       /\ \A f \in Field : r.payload[f] \in {None, wanted[<<a, s>>][f]}
  /\ \A f \in Field : Coming(a, s, f, wanted[<<a, s>>][f])

Delivers(a, s) ==
  /\ wanted[<<a, s>>] = Nothing => Gone(a, s)
  /\ wanted[<<a, s>>] # Nothing => Kept(a, s)

DeliverInv ==
  \A a \in Account, s \in Subject : <<a, s>> \notin mixed => Delivers(a, s)

QueueInv == /\ RowsSound /\ RowsApart /\ TasksSound /\ TasksApart
            /\ AnswersInv /\ CollectionsInv /\ DeliverInv

(* What is delivered to a subject rests on its rows, its collection, what  *)
(* is wanted, and the tasks of its account.                                *)
LEMMA DeliversStays ==
  ASSUME NEW a \in Account, NEW s \in Subject, Delivers(a, s),
         RowsOf(a, s)' = RowsOf(a, s),
         wanted'[<<a, s>>] = wanted[<<a, s>>],
         remote'[<<a, s>>] = remote[<<a, s>>],
         drain'[a].tasks = drain[a].tasks \/ drain'[a].tasks = <<>>
  PROVE  Delivers(a, s)'
  <1>1. \A i \in DOMAIN drain'[a].tasks :
          i \in DOMAIN drain[a].tasks /\ drain'[a].tasks[i] = drain[a].tasks[i]
    OBVIOUS
  <1>2. Gone(a, s) => Gone(a, s)'
    BY <1>1 DEF Gone
  <1>3. ASSUME NEW f, NEW value, Coming(a, s, f, value)
        PROVE  Coming(a, s, f, value)'
    BY <1>1, <1>3 DEF Coming, Harmless
  <1>4. Kept(a, s) => Kept(a, s)'
    <2> SUFFICES ASSUME Kept(a, s) PROVE Kept(a, s)'
      OBVIOUS
    <2>1. \A f \in Field : Coming(a, s, f, wanted[<<a, s>>][f])'
      <3> SUFFICES ASSUME NEW f \in Field
                   PROVE  Coming(a, s, f, wanted[<<a, s>>][f])'
        OBVIOUS
      <3>1. PICK value : value = wanted[<<a, s>>][f]
        OBVIOUS
      <3>2. Coming(a, s, f, value)
        BY <3>1 DEF Kept
      <3>3. Coming(a, s, f, value)'
        BY <1>3, <3>2
      <3> QED BY <3>1, <3>3 DEF Coming, Harmless
    <2> QED BY <2>1 DEF Kept, Field
  <1> QED BY <1>2, <1>4 DEF Delivers, Nothing

(* An edit of a subject that is to be kept: its row says what is wanted    *)
(* now, and so do the rows beside it.                                      *)
LEMMA EnqueueKeeps ==
  ASSUME RowInv, QueueInv, NEW a \in Account, NEW s \in Subject, NEW op,
         NEW p, SoundEdit(op, p), Enqueue(a, s, op, p), op # "delete",
         UNCHANGED <<drain, remote>>, <<a, s>> \notin mixed'
  PROVE  wanted'[<<a, s>>] # Nothing /\ Kept(a, s)'
  <1>1. PICK w, v : /\ w = wanted[<<a, s>>] /\ v = MergedWith(w, p)
                    /\ IsPayload(w)
    BY DEF QueueInv, CollectionsInv
  <1>2. wanted'[<<a, s>>] = v
    BY <1>1 DEF Enqueue, QueueInv, CollectionsInv
  <1>3. /\ \A f \in Field : v[f] = IF p[f] # None THEN p[f] ELSE w[f]
        /\ IsPayload(v)
    BY <1>1, MergedFields
  <1>4. v # Nothing
    BY <1>3, SoundFields, NothingFields
  <1>5. PICK new : new = NewRow(a, s, op, p)
    OBVIOUS
  <1>6. /\ rows' = (rows \ {r \in RowsOf(a, s) :
                      \/ r.op = new.op
                      \/ (op = "delete") # (r.op = "delete")}) \cup {new}
        /\ new.account = a /\ new.subject = s /\ new.op = FoldedOp(a, s, op)
        /\ SoundEdit(new.op, new.payload)
        /\ \/ new.payload = p /\ TaskFor(a, s, new.op) = {}
           \/ \E o \in rows :
                /\ TaskFor(a, s, new.op) = {o}
                /\ new.payload = IF op \in {"status", "metadata"}
                                   THEN MergedWith(o.payload, p) ELSE p
    BY <1>5, Enqueued DEF QueueInv
  <1>7. new.op # "delete"
    BY <1>6 DEF FoldedOp
  <1>8. <<a, s>> \notin mixed
    BY DEF Enqueue
  <1>9. w # Nothing => Kept(a, s)
    BY <1>1, <1>8 DEF QueueInv, DeliverInv, Delivers
  <1>10. w = Nothing => \A r \in RowsOf(a, s) : r.op = "delete"
    BY <1>1, <1>8 DEF QueueInv, DeliverInv, Delivers, Gone
  <1>11. \A r \in RowsOf(a, s) : r.op # "delete" =>
           w # Nothing /\ \A f \in Field : r.payload[f] \in {None, w[f]}
    BY <1>1, <1>9, <1>10 DEF Kept
  <1>12. \A f \in Field : /\ new.payload[f] \in {None, v[f]}
                          /\ p[f] # None => new.payload[f] = v[f]
    <2>1. CASE new.payload = p
      BY <1>3, <2>1
    <2>2. CASE new.payload # p
      <3>1. PICK o \in rows : /\ TaskFor(a, s, new.op) = {o}
                              /\ new.payload = MergedWith(o.payload, p)
        BY <1>6, <2>2
      <3>2. o \in RowsOf(a, s) /\ o.op # "delete"
        BY <1>7, <3>1 DEF TaskFor
      <3>3. \A f \in Field : new.payload[f] =
              IF p[f] # None THEN p[f] ELSE o.payload[f]
        BY <3>1, MergedFields
      <3> QED BY <1>3, <1>11, <3>2, <3>3
    <2> QED BY <2>1, <2>2
  <1>13. new \in RowsOf(a, s)'
    BY <1>6 DEF RowsOf
  <1>14. ASSUME NEW q \in RowsOf(a, s)'
         PROVE  /\ q.op # "delete"
                /\ \A f \in Field : q.payload[f] \in {None, v[f]}
    <2>1. CASE q = new
      BY <1>7, <1>12, <2>1
    <2>2. CASE q # new
      <3>1. q \in rows' /\ q.account = a /\ q.subject = s
        BY <1>14 DEF RowsOf
      <3>2. q \in rows /\ Apart(q, new) /\ new.op = op
        BY <1>5, <2>2, <3>1, EnqueueBeside DEF QueueInv
      <3>3. q \in RowsOf(a, s) /\ q.op # "delete"
        BY <3>1, <3>2 DEF RowsOf, Apart
      <3>4. SoundEdit(q.op, q.payload)
        BY <3>2 DEF QueueInv, RowsSound
      <3>5. \A f \in Field : p[f] # None => q.payload[f] = None
        <4>1. \A f \in Field : q.payload[f] # None => new.payload[f] = None
          BY <1>6, <3>2, <3>4, ApartFields
        <4>2. \A f \in Field : p[f] # None => new.payload[f] # None
          BY <1>3, <1>12
        <4> QED BY <4>1, <4>2
      <3> QED BY <1>3, <1>11, <3>3, <3>5
    <2> QED BY <2>1, <2>2
  <1>15. ASSUME NEW f \in Field
         PROVE  Coming(a, s, f, v[f])'
    <2>1. CASE p[f] # None
      BY <1>12, <1>13, <2>1 DEF Coming
    <2>2. CASE v[f] = None
      BY <2>2 DEF Coming
    <2>3. CASE p[f] = None /\ v[f] # None
      <3>1. w[f] = v[f]
        BY <1>3, <2>3
      <3>2. w # Nothing
        BY <1>1, <2>3, <3>1, NothingFields
      <3>3. Coming(a, s, f, w[f])
        BY <1>1, <1>9, <3>2 DEF Kept
      <3>4. CASE \E r \in RowsOf(a, s) : r.payload[f] = w[f]
        <4>1. PICK r \in RowsOf(a, s) : r.payload[f] = w[f]
          BY <3>4
        <4>2. r.op # "delete" /\ r \in rows
          BY <1>1, <1>9, <3>2, <4>1 DEF Kept, RowsOf
        <4>3. CASE r.op # new.op
          <5>1. r \in RowsOf(a, s)'
            BY <1>6, <4>2, <4>3 DEF RowsOf
          <5> QED BY <3>1, <4>1, <5>1 DEF Coming
        <4>4. CASE r.op = new.op
          <5>1. r \in TaskFor(a, s, new.op)
            BY <4>1, <4>4 DEF TaskFor
          <5>2. CASE op \in {"status", "metadata"}
            <6>1. new.payload = MergedWith(r.payload, p)
              BY <1>6, <5>1, <5>2
            <6>2. new.payload[f] = w[f]
              BY <2>3, <4>1, <6>1, MergedFields
            <6> QED BY <1>13, <3>1, <6>2 DEF Coming
          <5>3. CASE op = "upsert"
            <6>1. new.op = "upsert"
              BY <1>6, <5>3 DEF FoldedOp
            <6>2. MergedWith(r.payload, p)[f] # p[f]
              BY <2>3, <3>1, <4>1, MergedFields
            <6>3. r \in Crossing(a, s, p)
              BY <4>1, <4>4, <6>1, <6>2 DEF Crossing
            <6>4. mixed' = mixed \cup {<<a, s>>}
              BY <5>3, <6>3 DEF Enqueue
            <6> QED BY <6>4
          <5> QED BY <5>2, <5>3, SoundFields
        <4> QED BY <4>3, <4>4
      <3>5. CASE /\ remote[<<a, s>>][f] = w[f]
                 /\ \A i \in DOMAIN drain[a].tasks :
                      Harmless(drain[a].tasks[i], s, f, w[f])
        BY <3>1, <3>5 DEF Coming, Harmless
      <3> QED BY <2>3, <3>1, <3>3, <3>4, <3>5 DEF Coming
    <2> QED BY <2>1, <2>2, <2>3
  <1>16. \A f \in Field : Coming(a, s, f, wanted[<<a, s>>][f])'
    BY <1>2, <1>15 DEF Coming, Harmless
  <1> QED BY <1>2, <1>4, <1>14, <1>16 DEF Kept, Field

(* The transaction of an edit keeps the invariant of the queue.            *)
LEMMA EnqueueDelivers ==
  ASSUME RowInv, QueueInv, DrainsInv, NEW a \in Account, NEW s \in Subject,
         NEW op, NEW p, SoundEdit(op, p), Enqueue(a, s, op, p),
         UNCHANGED <<drain, remote>>
  PROVE  QueueInv'
  <1>1. /\ RowsSound' /\ nextId' >= nextId
        /\ \A r \in rows' : r.id < nextId =>
             \E q \in rows : /\ q.id = r.id /\ q.account = r.account
                             /\ q.subject = r.subject
    BY EnqueueKeepsSound DEF QueueInv
  <1>2. RowsApart'
    BY EnqueueKeepsApart DEF QueueInv
  <1>3. mixed \subseteq mixed'
    BY DEF Enqueue
  <1>4. TasksSound'
    <2>1. ASSUME NEW b \in Account, NEW t, TaskSound(b, t)
          PROVE  TaskSound(b, t)'
      <3>1. SoundEdit(t.op, t.payload)'
        BY <2>1 DEF TaskSound, SoundEdit, Nothing
      <3>2. t.id \in Nat /\ t.id < nextId' /\ t.subject \in Subject
        BY <1>1, <2>1 DEF TaskSound, RowsSound, QueueInv
      <3>3. \A r \in rows' : r.id = t.id =>
              r.account = b /\ r.subject = t.subject
        BY <1>1, <2>1 DEF TaskSound
      <3> QED BY <3>1, <3>2, <3>3 DEF TaskSound
    <2>2. ASSUME NEW b \in Account, NEW i \in DOMAIN drain[b].tasks
          PROVE  i \in Nat /\ TaskSound(b, drain[b].tasks[i])'
      <3>1. PICK t : t = drain[b].tasks[i] /\ TaskSound(b, t)
        BY DEF QueueInv, TasksSound
      <3>2. TaskSound(b, t)'
        BY <2>1, <3>1
      <3>3. i \in Nat
        BY DEF QueueInv, TasksSound
      <3> QED BY <3>1, <3>2, <3>3 DEF TaskSound, SoundEdit
    <2> QED BY <2>2 DEF TasksSound
  <1>5. TasksApart'
    BY <1>3 DEF QueueInv, TasksApart, Apart
  <1>6. AnswersInv'
    BY DEF QueueInv, AnswersInv, Answered
  <1>7. CollectionsInv'
    <2>1. PICK v : v = IF op = "delete" THEN Nothing
                       ELSE MergedWith(wanted[<<a, s>>], p)
      OBVIOUS
    <2>2. IsPayload(v)
      BY <2>1, MergedFields DEF IsPayload, Nothing
    <2>3. wanted' = [wanted EXCEPT ![<<a, s>>] = v]
      BY <2>1 DEF Enqueue
    <2>4. /\ wanted' = [at \in Account \X Subject |-> wanted'[at]]
          /\ \A at \in Account \X Subject : IsPayload(wanted'[at])
      BY <2>2, <2>3 DEF QueueInv, CollectionsInv
    <2> QED BY <2>4 DEF QueueInv, CollectionsInv, IsPayload
  <1>8. ASSUME NEW b \in Account, NEW z \in Subject, <<b, z>> \notin mixed'
        PROVE  Delivers(b, z)'
    <2>1. PICK new : new = NewRow(a, s, op, p)
      OBVIOUS
    <2>2. /\ rows' = (rows \ {r \in RowsOf(a, s) :
                        \/ r.op = new.op
                        \/ (op = "delete") # (r.op = "delete")}) \cup {new}
          /\ new.account = a /\ new.subject = s /\ new.op = FoldedOp(a, s, op)
          /\ SoundEdit(new.op, new.payload)
      BY <2>1, Enqueued DEF QueueInv
    <2>3. CASE b = a /\ z = s
      <3>1. CASE op # "delete"
        BY <1>8, <2>3, <3>1, EnqueueKeeps DEF Delivers, Nothing
      <3>2. CASE op = "delete"
        <4>1. wanted'[<<a, s>>] = Nothing
          BY <3>2 DEF Enqueue, QueueInv, CollectionsInv
        <4>2. new.op = "delete"
          BY <2>2, <3>2 DEF FoldedOp
        <4>3. new \in RowsOf(a, s)'
          BY <2>2 DEF RowsOf
        <4>4. \A r \in RowsOf(a, s)' : r.op = "delete"
          BY <2>2, <3>2, <4>2 DEF RowsOf
        <4>5. Gone(a, s)'
          BY <4>3, <4>4 DEF Gone
        <4> QED BY <2>3, <4>1, <4>5 DEF Delivers, Nothing
      <3> QED BY <3>1, <3>2
    <2>4. CASE b # a \/ z # s
      <3>1. RowsOf(b, z)' = RowsOf(b, z)
        BY <2>2, <2>4 DEF RowsOf
      <3>2. wanted'[<<b, z>>] = wanted[<<b, z>>]
        BY <2>4 DEF Enqueue, QueueInv, CollectionsInv
      <3>3. Delivers(b, z)
        BY <1>3, <1>8 DEF QueueInv, DeliverInv
      <3> QED BY <3>1, <3>2, <3>3, DeliversStays
    <2> QED BY <2>3, <2>4
  <1> QED BY <1>1, <1>2, <1>4, <1>5, <1>6, <1>7, <1>8 DEF QueueInv, DeliverInv

(* Steps that leave the rows and the collections alone, and no list but    *)
(* as it was or empty.                                                     *)
LEMMA QuietStep ==
  ASSUME QueueInv, UNCHANGED <<rows, nextId, remote, wanted, mixed>>,
         \A a \in Account :
           /\ drain'[a].tasks = drain[a].tasks \/ drain'[a].tasks = <<>>
           /\ drain'[a].pc = "answered" =>
                /\ drain[a].pc = "answered"
                /\ drain'[a].answer = drain[a].answer
                /\ drain'[a].tasks = drain[a].tasks
  PROVE  QueueInv'
  <1>1. RowsSound' /\ RowsApart'
    BY DEF QueueInv, RowsSound, RowsApart, SoundEdit, Apart, Nothing
  <1>2. \A a \in Account : \A i \in DOMAIN drain'[a].tasks :
          /\ i \in DOMAIN drain[a].tasks
          /\ drain'[a].tasks[i] = drain[a].tasks[i]
    OBVIOUS
  <1>3. TasksSound'
    <2>1. ASSUME NEW a \in Account, NEW i \in DOMAIN drain'[a].tasks
          PROVE  i \in Nat /\ TaskSound(a, drain[a].tasks[i])'
      <3>1. PICK t : t = drain[a].tasks[i] /\ t = drain'[a].tasks[i]
        BY <1>2
      <3>2. i \in Nat /\ TaskSound(a, t)
        BY <1>2, <3>1 DEF QueueInv, TasksSound
      <3>3. TaskSound(a, t)'
        BY <3>2 DEF TaskSound, SoundEdit, Nothing
      <3> QED BY <3>1, <3>2, <3>3 DEF TaskSound, SoundEdit
    <2> QED BY <2>1 DEF TasksSound
  <1>4. TasksApart'
    BY <1>2 DEF QueueInv, TasksApart, Apart
  <1>5. AnswersInv'
    BY DEF QueueInv, AnswersInv, Answered, Nothing
  <1>6. CollectionsInv'
    BY DEF QueueInv, CollectionsInv, IsPayload
  <1>7. \A a, s : RowsOf(a, s)' = RowsOf(a, s)
    BY DEF RowsOf
  <1>8. DeliverInv'
    BY <1>7, DeliversStays DEF QueueInv, DeliverInv
  <1> QED BY <1>1, <1>3, <1>4, <1>5, <1>6, <1>8 DEF QueueInv

(* A pass reads its list: the tasks are the rows of the moment.            *)
LEMMA ReadTasksDelivers ==
  ASSUME QueueInv, DrainsInv, NEW a \in Account, ReadTasks(a)
  PROVE  QueueInv'
  <1>1. /\ \A b \in Account \ {a} : drain'[b] = drain[b]
        /\ drain'[a].pc # "answered"
        /\ UNCHANGED <<rows, nextId, remote, wanted, mixed>>
    <2>1. drain'[a].pc # "answered"
      BY TasksRead
    <2> QED BY <2>1, TasksRead DEF ReadTasks
  <1>2. PICK list : /\ list = drain'[a].tasks
                    /\ \A i \in DOMAIN list :
                         /\ i \in Nat /\ list[i] \in rows
                         /\ list[i].account = a
                    /\ \A i, j \in DOMAIN list :
                         i < j => list[i].id < list[j].id
    <2>1. PICK due \in SUBSET {r \in rows : r.account = a} :
            IsFiniteSet(due) /\ drain'[a].tasks \in InOrder(due)
      BY TasksRead
    <2>2. PICK list : list = drain'[a].tasks /\ list \in InOrder(due)
      BY <2>1
    <2>3. /\ \A i \in DOMAIN list : i \in Nat /\ list[i] \in due
          /\ \A i, j \in DOMAIN list : i < j => list[i].id < list[j].id
      BY <2>1, <2>2, ListOfRows
    <2> QED BY <2>1, <2>2, <2>3
  <1>3. RowsSound' /\ RowsApart'
    BY <1>1 DEF QueueInv, RowsSound, RowsApart, SoundEdit, Apart, Nothing
  <1>4. \A i, j \in DOMAIN list : i # j => list[i] # list[j]
    <2> SUFFICES ASSUME NEW i \in DOMAIN list, NEW j \in DOMAIN list, i # j
                 PROVE  list[i] # list[j]
      OBVIOUS
    <2>1. /\ i \in Nat /\ j \in Nat
          /\ list[i].id \in Nat /\ list[j].id \in Nat
      BY <1>2 DEF QueueInv, RowsSound
    <2>2. i < j \/ j < i
      BY <2>1
    <2> QED BY <1>2, <2>1, <2>2
  <1>5. TasksSound'
    <2>1. ASSUME NEW b \in Account, NEW t, TaskSound(b, t)
          PROVE  TaskSound(b, t)'
      BY <1>1, <2>1 DEF TaskSound, SoundEdit, Nothing
    <2>2. \A r \in rows : r.account = a => TaskSound(a, r)
      BY DEF QueueInv, RowsSound, TaskSound
    <2>3. ASSUME NEW b \in Account, NEW i \in DOMAIN drain'[b].tasks
          PROVE  i \in Nat /\ TaskSound(b, drain[b].tasks[i])'
      <3>1. PICK t : t = drain'[b].tasks[i]
        OBVIOUS
      <3>2. i \in Nat /\ TaskSound(b, t)
        BY <1>1, <1>2, <2>2, <3>1 DEF QueueInv, TasksSound
      <3>3. TaskSound(b, t)'
        BY <2>1, <3>2
      <3> QED BY <3>1, <3>2, <3>3 DEF TaskSound, SoundEdit
    <2> QED BY <2>3 DEF TasksSound
  <1>6. TasksApart'
    <2>1. ASSUME NEW b \in Account, NEW i \in DOMAIN drain'[b].tasks,
                 NEW j \in DOMAIN drain'[b].tasks, i # j,
                 drain'[b].tasks[i].subject = drain'[b].tasks[j].subject,
                 <<b, drain'[b].tasks[i].subject>> \notin mixed
          PROVE  Apart(drain'[b].tasks[i], drain'[b].tasks[j])
      <3>1. CASE b = a
        BY <1>2, <1>4, <2>1, <3>1 DEF QueueInv, RowsApart
      <3>2. CASE b # a
        BY <1>1, <2>1, <3>2 DEF QueueInv, TasksApart
      <3> QED BY <3>1, <3>2
    <2> QED BY <1>1, <2>1 DEF TasksApart, Apart
  <1>7. AnswersInv'
    BY <1>1 DEF QueueInv, AnswersInv, Answered, Nothing
  <1>8. CollectionsInv'
    BY <1>1 DEF QueueInv, CollectionsInv, IsPayload
  <1>9. \A b, s : RowsOf(b, s)' = RowsOf(b, s)
    BY <1>1 DEF RowsOf
  <1>10. ASSUME NEW b \in Account, NEW s \in Subject, <<b, s>> \notin mixed'
         PROVE  Delivers(b, s)'
    <2>1. Delivers(b, s)
      BY <1>1, <1>10 DEF QueueInv, DeliverInv
    <2>2. CASE b # a
      BY <1>1, <1>9, <2>1, <2>2, DeliversStays
    <2>3. CASE b = a
      <3>1. \A i \in DOMAIN list : list[i].subject = s =>
              list[i] \in RowsOf(a, s)
        BY <1>2 DEF RowsOf
      <3>2. ASSUME Gone(a, s)
            PROVE  Gone(a, s)'
        BY <1>1, <1>2, <1>9, <3>1, <3>2 DEF Gone, Nothing
      <3>3. ASSUME Kept(a, s)
            PROVE  Kept(a, s)'
        <4>1. ASSUME NEW f \in Field
              PROVE  Coming(a, s, f, wanted[<<a, s>>][f])'
          <5>1. PICK value : value = wanted[<<a, s>>][f]
            OBVIOUS
          <5>2. Coming(a, s, f, value)
            BY <3>3, <5>1 DEF Kept
          <5>3. \A i \in DOMAIN list : Harmless(list[i], s, f, value)
            BY <3>1, <3>3, <5>1 DEF Kept, Harmless
          <5>4. \A i \in DOMAIN drain'[a].tasks :
                  Harmless(drain[a].tasks[i], s, f, value)'
            BY <1>2, <5>3 DEF Harmless
          <5>5. Coming(a, s, f, value)'
            BY <1>1, <1>9, <5>2, <5>4 DEF Coming
          <5> QED BY <1>1, <5>1, <5>5 DEF Coming, Harmless
        <4> QED BY <1>1, <1>9, <3>3, <4>1 DEF Kept, Field
      <3> QED BY <1>1, <2>1, <2>3, <3>2, <3>3 DEF Delivers, Nothing
    <2> QED BY <2>2, <2>3
  <1> QED BY <1>3, <1>5, <1>6, <1>7, <1>8, <1>10 DEF QueueInv, DeliverInv

(* The list of one account loses its first tasks, the others stay.         *)
Shortened(a, k) ==
  /\ k \in Nat
  /\ \A b \in Account \ {a} : drain'[b] = drain[b]
  /\ drain'[a].pc # "answered"
  /\ \A i \in DOMAIN drain'[a].tasks :
       /\ i \in Nat /\ i + k \in DOMAIN drain[a].tasks
       /\ drain'[a].tasks[i] = drain[a].tasks[i + k]

(* What holds of the tasks holds of those that are left.                   *)
LEMMA ShortenedTasks ==
  ASSUME QueueInv, NEW a \in Account, NEW k, Shortened(a, k),
         UNCHANGED <<nextId, mixed, remote>>,
         \A r \in rows' : \E q \in rows : /\ q.id = r.id
                                          /\ q.account = r.account
                                          /\ q.subject = r.subject
  PROVE  TasksSound' /\ TasksApart' /\ AnswersInv'
  <1>1. TasksSound'
    <2>1. ASSUME NEW b \in Account, NEW t, TaskSound(b, t)
          PROVE  TaskSound(b, t)'
      BY <2>1 DEF TaskSound, SoundEdit, Nothing
    <2>2. ASSUME NEW b \in Account, NEW i \in DOMAIN drain'[b].tasks
          PROVE  i \in Nat /\ TaskSound(b, drain[b].tasks[i])'
      <3>1. PICK t : t = drain'[b].tasks[i]
        OBVIOUS
      <3>2. i \in Nat /\ TaskSound(b, t)
        BY <3>1 DEF Shortened, QueueInv, TasksSound
      <3>3. TaskSound(b, t)'
        BY <2>1, <3>2
      <3> QED BY <3>1, <3>2, <3>3 DEF TaskSound, SoundEdit
    <2> QED BY <2>2 DEF TasksSound
  <1>2. TasksApart'
    <2>1. ASSUME NEW b \in Account, NEW i \in DOMAIN drain'[b].tasks,
                 NEW j \in DOMAIN drain'[b].tasks, i # j,
                 drain'[b].tasks[i].subject = drain'[b].tasks[j].subject,
                 <<b, drain'[b].tasks[i].subject>> \notin mixed
          PROVE  Apart(drain'[b].tasks[i], drain'[b].tasks[j])
      <3>1. CASE b = a
        <4>1. i + k # j + k
          BY <2>1, <3>1 DEF Shortened
        <4> QED BY <2>1, <3>1, <4>1 DEF Shortened, QueueInv, TasksApart
      <3>2. CASE b # a
        BY <2>1, <3>2 DEF Shortened, QueueInv, TasksApart
      <3> QED BY <3>1, <3>2
    <2> QED BY <2>1 DEF TasksApart, Apart
  <1>3. AnswersInv'
    BY DEF Shortened, QueueInv, AnswersInv, Answered, Nothing
  <1> QED BY <1>1, <1>2, <1>3

(* Two rows with the same columns, except for the time of the next try.    *)
Copies(r, q) == /\ r.id = q.id /\ r.account = q.account
                /\ r.subject = q.subject /\ r.op = q.op
                /\ r.payload = q.payload

(* A row that failed keeps its columns, and so do the others.              *)
LEMMA BackedOffCopies ==
  ASSUME RowInv, RowsSound, NEW task, rows' = BackedOff(task)
  PROVE  /\ \A r \in rows' : \E q \in rows : Copies(r, q)
         /\ \A q \in rows : \E r \in rows' : Copies(r, q)
         /\ \A p, r \in rows' : p.id = r.id => p = r
  <1> DEFINE late(r) == [r EXCEPT !.fresh = FALSE]
  <1>1. \A r \in rows : Copies(late(r), r) /\ Copies(r, r)
    BY DEF RowInv, Shaped, HasColumns, Copies
  <1>2. /\ \A p \in rows' : \E r \in rows :
             \/ p = r /\ r \notin Unchanged(task)
             \/ p = late(r) /\ r \in Unchanged(task)
        /\ \A r \in rows : IF r \in Unchanged(task) THEN late(r) \in rows'
                           ELSE r \in rows'
    BY DEF BackedOff, Unchanged
  <1> HIDE DEF late
  <1>3. ASSUME NEW p \in rows', NEW r \in rows', p.id = r.id
        PROVE  p = r
    <2>1. PICK x \in rows : \/ p = x /\ x \notin Unchanged(task)
                            \/ p = late(x) /\ x \in Unchanged(task)
      BY <1>2
    <2>2. PICK y \in rows : \/ r = y /\ y \notin Unchanged(task)
                            \/ r = late(y) /\ y \in Unchanged(task)
      BY <1>2
    <2>3. x.id = y.id
      BY <1>1, <1>3, <2>1, <2>2 DEF Copies
    <2>4. x = y
      BY <2>3 DEF RowsSound
    <2> QED BY <2>1, <2>2, <2>4
  <1> QED BY <1>1, <1>2, <1>3

(* A failure keeps the invariant of the queue: no row is lost, and fewer   *)
(* requests are to come.                                                   *)
LEMMA FailureDelivers ==
  ASSUME RowInv, QueueInv, NEW a \in Account, NEW k, Shortened(a, k),
         NEW task, rows' = BackedOff(task),
         UNCHANGED <<nextId, remote, wanted, mixed>>
  PROVE  QueueInv'
  <1>1. /\ \A r \in rows' : \E q \in rows : Copies(r, q)
        /\ \A q \in rows : \E r \in rows' : Copies(r, q)
        /\ \A p, r \in rows' : p.id = r.id => p = r
    BY BackedOffCopies DEF QueueInv
  <1>2. RowsSound'
    <2>1. \A r \in rows' : /\ SoundEdit(r.op, r.payload) /\ r.id \in Nat
                           /\ r.id < nextId' /\ r.subject \in Subject
      BY <1>1 DEF QueueInv, RowsSound, Copies
    <2> QED BY <1>1, <2>1 DEF QueueInv, RowsSound, SoundEdit, Nothing
  <1>3. RowsApart'
    <2> SUFFICES ASSUME NEW p \in rows', NEW r \in rows', p # r,
                        p.account = r.account, p.subject = r.subject,
                        <<p.account, p.subject>> \notin mixed
                 PROVE  Apart(p, r)
      BY DEF RowsApart, Apart
    <2>1. PICK x \in rows : Copies(p, x)
      BY <1>1
    <2>2. PICK y \in rows : Copies(r, y)
      BY <1>1
    <2>3. x # y
      BY <1>1, <2>1, <2>2 DEF Copies
    <2>4. /\ x.account = p.account /\ x.subject = p.subject
          /\ y.account = p.account /\ y.subject = p.subject
          /\ x.op = p.op /\ y.op = r.op
      BY <2>1, <2>2 DEF Copies
    <2>5. Apart(x, y)
      BY <2>3, <2>4 DEF QueueInv, RowsApart
    <2> QED BY <2>4, <2>5 DEF Apart
  <1>4. TasksSound' /\ TasksApart' /\ AnswersInv'
    <2>1. \A r \in rows' : \E q \in rows : /\ q.id = r.id
                                           /\ q.account = r.account
                                           /\ q.subject = r.subject
      BY <1>1 DEF Copies
    <2> QED BY <2>1, ShortenedTasks
  <1>5. CollectionsInv'
    BY DEF QueueInv, CollectionsInv, IsPayload
  <1>6. ASSUME NEW b \in Account, NEW s \in Subject, <<b, s>> \notin mixed'
        PROVE  Delivers(b, s)'
    <2>1. Delivers(b, s)
      BY <1>6 DEF QueueInv, DeliverInv
    <2>2. /\ \A r \in RowsOf(b, s)' : \E q \in RowsOf(b, s) : Copies(r, q)
          /\ \A q \in RowsOf(b, s) : \E r \in RowsOf(b, s)' : Copies(r, q)
      BY <1>1 DEF RowsOf, Copies
    <2>3. \A i \in DOMAIN drain'[b].tasks : \E j \in DOMAIN drain[b].tasks :
            drain'[b].tasks[i] = drain[b].tasks[j]
      BY DEF Shortened
    <2>4. ASSUME Gone(b, s)
          PROVE  Gone(b, s)'
      BY <2>2, <2>3, <2>4 DEF Gone, Nothing, Copies
    <2>5. ASSUME Kept(b, s)
          PROVE  Kept(b, s)'
      <3>1. ASSUME NEW f \in Field
            PROVE  Coming(b, s, f, wanted[<<b, s>>][f])'
        <4>1. PICK value : value = wanted[<<b, s>>][f]
          OBVIOUS
        <4>2. Coming(b, s, f, value)
          BY <2>5, <4>1 DEF Kept
        <4>3. Coming(b, s, f, value)'
          BY <2>2, <2>3, <4>2 DEF Coming, Harmless, Copies
        <4> QED BY <4>1, <4>3 DEF Coming, Harmless
      <3> QED BY <2>2, <2>5, <3>1 DEF Kept, Field, Copies
    <2> QED BY <2>1, <2>4, <2>5 DEF Delivers, Nothing
  <1> QED BY <1>2, <1>3, <1>4, <1>5, <1>6 DEF QueueInv, DeliverInv

(* A write that was accepted: either its row is dropped and the collection *)
(* shows it, or the row has been edited since and stays.                   *)
LEMMA AcceptedDelivers ==
  ASSUME RowInv, QueueInv, DrainsInv, NEW a \in Account, Accepted(a)
  PROVE  QueueInv'
  <1>1. PICK ts, t : /\ ts = drain[a].tasks /\ t = Head(ts)
                     /\ IsSequence(ts) /\ ts # <<>>
    BY DEF DrainsInv, DrainInv, Accepted
  <1>2. 1 \in DOMAIN ts /\ t = ts[1]
    BY <1>1, HeadAndTail
  <1>3. /\ rows' = rows \ Unchanged(t) /\ drain[a].pc = "answered"
        /\ \/ drain[a].answer = "ok"
           \/ drain[a].answer = "missing" /\ t.op = "delete"
        /\ \E sent : NextTask(a, sent)
        /\ UNCHANGED <<nextId, remote, wanted, mixed>>
    <2>1. t = Task(a)
      BY <1>1 DEF Task
    <2>2. \E sent : NextTask(a, sent)
      BY DEF Accepted
    <2> QED BY <2>1, <2>2 DEF Accepted
  <1>4. TaskSound(a, t) /\ SoundEdit(t.op, t.payload)
    BY <1>1, <1>2 DEF QueueInv, TasksSound, TaskSound
  <1>5. /\ Shortened(a, 1) /\ drain'[a].tasks = Tail(ts)
        /\ \A i \in DOMAIN Tail(ts) : i \in Nat /\ i # 0
    <2>1. rows' \subseteq rows
      BY <1>3
    <2>2. IsFiniteSet(rows')
      BY <2>1, FS_Subset DEF DrainsInv
    <2>3. /\ \A b \in Account \ {a} : drain'[b] = drain[b]
          /\ drain'[a].pc = "sending" /\ drain'[a].tasks = Tail(ts)
      BY <1>1, <1>3, <2>2, TaskLeaves
    <2>4. \A i \in DOMAIN Tail(ts) : /\ i \in Nat /\ i # 0
                                     /\ i + 1 \in DOMAIN ts
                                     /\ Tail(ts)[i] = ts[i + 1]
      BY <1>1, HeadAndTail
    <2> QED BY <1>1, <2>3, <2>4 DEF Shortened
  <1>6. RowsSound' /\ RowsApart'
    BY <1>3 DEF QueueInv, RowsSound, RowsApart, SoundEdit, Apart, Nothing
  <1>7. TasksSound' /\ TasksApart' /\ AnswersInv'
    <2>1. \A r \in rows' : \E q \in rows : /\ q.id = r.id
                                           /\ q.account = r.account
                                           /\ q.subject = r.subject
      BY <1>3
    <2> QED BY <1>3, <1>5, <2>1, ShortenedTasks
  <1>8. CollectionsInv'
    BY <1>3 DEF QueueInv, CollectionsInv, IsPayload
  <1>9. Answered(drain[a].answer, t, remote[<<a, t.subject>>])
    BY <1>1, <1>2, <1>3 DEF QueueInv, AnswersInv
  <1>10. \A b, s : \A r \in RowsOf(b, s) : r \notin RowsOf(b, s)' =>
           /\ b = a /\ s = t.subject /\ r.payload = t.payload
    BY <1>3, <1>4 DEF RowsOf, Unchanged, TaskSound
  <1>11. \A b, s : RowsOf(b, s)' \subseteq RowsOf(b, s)
    BY <1>3 DEF RowsOf
  <1>12. \A b \in Account : \A i \in DOMAIN drain'[b].tasks :
           \E j \in DOMAIN drain[b].tasks :
             drain'[b].tasks[i] = drain[b].tasks[j]
    BY <1>5 DEF Shortened
  <1>13. <<a, t.subject>> \notin mixed =>
           \A i \in DOMAIN drain'[a].tasks :
             drain'[a].tasks[i].subject = t.subject =>
               Apart(t, drain'[a].tasks[i])
    <2> SUFFICES ASSUME <<a, t.subject>> \notin mixed,
                        NEW i \in DOMAIN drain'[a].tasks,
                        drain'[a].tasks[i].subject = t.subject
                 PROVE  Apart(t, drain'[a].tasks[i])
      OBVIOUS
    <2>1. /\ i \in Nat /\ i + 1 \in DOMAIN ts /\ i + 1 # 1
          /\ drain'[a].tasks[i] = ts[i + 1]
      BY <1>1, <1>5 DEF Shortened
    <2> QED BY <1>1, <1>2, <2>1 DEF QueueInv, TasksApart
  <1>14. ASSUME NEW b \in Account, NEW s \in Subject, <<b, s>> \notin mixed'
         PROVE  Delivers(b, s)'
    <2>1. Delivers(b, s) /\ <<b, s>> \notin mixed
      BY <1>3, <1>14 DEF QueueInv, DeliverInv
    <2>2. ASSUME Gone(b, s)
          PROVE  Gone(b, s)'
      <3>1. \A r \in RowsOf(b, s)' : r.op = "delete"
        BY <1>11, <2>2 DEF Gone
      <3>2. CASE RowsOf(b, s)' # {}
        BY <3>1, <3>2 DEF Gone
      <3>3. CASE RowsOf(b, s) = {}
        BY <1>3, <1>12, <2>2, <3>1, <3>3 DEF Gone, Nothing
      <3>4. CASE RowsOf(b, s) # {} /\ RowsOf(b, s)' = {}
        <4>1. PICK r \in RowsOf(b, s) : r.op = "delete"
          BY <2>2, <3>4 DEF Gone
        <4>2. b = a /\ s = t.subject /\ r.payload = t.payload
          BY <1>10, <3>4
        <4>3. r \in rows
          BY DEF RowsOf
        <4>4. r.payload = Nothing
          BY <4>1, <4>3 DEF QueueInv, RowsSound, SoundEdit
        <4>5. t.op = "delete"
          BY <1>4, <4>2, <4>4 DEF SoundEdit
        <4>6. remote[<<b, s>>] = Nothing
          BY <1>3, <1>9, <4>2, <4>5 DEF Answered
        <4>7. \A i \in DOMAIN drain'[b].tasks : drain'[b].tasks[i].subject # s
          BY <1>13, <2>1, <4>2, <4>5 DEF Apart
        <4> QED BY <1>3, <3>1, <4>6, <4>7 DEF Gone, Nothing
      <3> QED BY <3>2, <3>3, <3>4
    <2>3. ASSUME Kept(b, s)
          PROVE  Kept(b, s)'
      <3>1. ASSUME NEW f \in Field
            PROVE  Coming(b, s, f, wanted[<<b, s>>][f])'
        <4>1. PICK value : value = wanted[<<b, s>>][f]
          OBVIOUS
        <4>2. Coming(b, s, f, value)
          BY <2>3, <4>1 DEF Kept
        <4>3. ASSUME value = None
              PROVE  Coming(b, s, f, value)'
          BY <4>3 DEF Coming
        <4>4. ASSUME \E r \in RowsOf(b, s)' : r.payload[f] = value
              PROVE  Coming(b, s, f, value)'
          BY <4>4 DEF Coming
        <4>5. ASSUME /\ remote[<<b, s>>][f] = value
                     /\ \A i \in DOMAIN drain[b].tasks :
                          Harmless(drain[b].tasks[i], s, f, value)
              PROVE  Coming(b, s, f, value)'
          BY <1>3, <1>12, <4>5 DEF Coming, Harmless
        <4>6. ASSUME /\ value # None
                     /\ \E r \in RowsOf(b, s) : /\ r.payload[f] = value
                                                /\ r \notin RowsOf(b, s)'
              PROVE  Coming(b, s, f, value)'
          <5>1. b = a /\ s = t.subject /\ t.payload[f] = value
            BY <1>10, <4>6
          <5>2. t.op # "delete"
            BY <1>4, <4>6, <5>1, SoundFields
          <5>3. remote[<<b, s>>][f] = value
            BY <1>3, <1>9, <4>6, <5>1, <5>2 DEF Answered
          <5>4. ASSUME NEW i \in DOMAIN drain'[b].tasks
                PROVE  Harmless(drain'[b].tasks[i], s, f, value)
            <6>1. PICK u : u = drain'[b].tasks[i] /\ SoundEdit(u.op, u.payload)
              BY <1>12 DEF QueueInv, TasksSound, TaskSound
            <6>2. u.subject = s => Apart(t, u)
              BY <1>13, <2>1, <5>1, <6>1
            <6>3. u.subject = s => u.payload[f] = None
              BY <1>4, <4>6, <5>1, <6>1, <6>2, ApartFields
            <6> QED BY <6>1, <6>2, <6>3 DEF Harmless, Apart
          <5>5. \A i \in DOMAIN drain'[b].tasks :
                  Harmless(drain[b].tasks[i], s, f, value)'
            BY <5>4 DEF Harmless
          <5> QED BY <1>3, <5>3, <5>5 DEF Coming
        <4>7. Coming(b, s, f, value)'
          BY <4>2, <4>3, <4>4, <4>5, <4>6 DEF Coming
        <4> QED BY <1>3, <4>1, <4>7 DEF Coming, Harmless
      <3> QED BY <1>3, <1>11, <2>3, <3>1 DEF Kept, Field
    <2> QED BY <1>3, <2>1, <2>2, <2>3 DEF Delivers, Nothing
  <1> QED BY <1>6, <1>7, <1>8, <1>14 DEF QueueInv, DeliverInv

(* No request of an account goes out while another account's token is in   *)
(* place: nobody logs out and in as somebody else during a drain.          *)
OwnToken ==
  \A a \in Account : drain[a].pc = "sending" => session \in {a, None}

(* What a request makes of the collection.                                 *)
LEMMA SendReaches ==
  ASSUME QueueInv, OwnToken, NEW a \in Account, NEW answer, Send(a, answer),
         NEW t, t = Head(drain[a].tasks), TaskSound(a, t)
  PROVE  /\ \A b \in Account, s \in Subject :
              b # a \/ s # t.subject =>
                remote'[<<b, s>>] = remote[<<b, s>>]
         /\ \/ /\ remote' = remote /\ answer # "ok"
               /\ answer = "missing" => remote[<<a, t.subject>>] = Nothing
            \/ /\ remote'[<<a, t.subject>>] =
                    Effect(remote[<<a, t.subject>>], t)
               /\ answer # "missing"
         /\ CollectionsInv'
  <1>1. /\ drain[a].pc = "sending" /\ t = Task(a) /\ t.subject \in Subject
        /\ wanted' = wanted
    BY DEF Send, Task, TaskSound
  <1>2. session \in {a, None}
    BY <1>1 DEF OwnToken
  <1>3. PICK at \in Account \X Subject : at = <<a, t.subject>>
    BY <1>1
  <1>4. \/ remote' = remote /\ answer = "error"
        \/ remote' = remote /\ answer = "unauthorized"
        \/ remote' = remote /\ answer = "missing" /\ remote[at] = Nothing
        \/ /\ remote' = [remote EXCEPT ![at] = Effect(remote[at], t)]
           /\ answer \in {"ok", "error"}
    <2>1. CASE session = None
      BY <2>1 DEF Send
    <2>2. CASE session = a
      BY <1>1, <1>3, <2>2 DEF Send
    <2> QED BY <1>2, <2>1, <2>2
  <1>5. CASE remote' = remote
    BY <1>1, <1>3, <1>4, <1>5 DEF QueueInv, CollectionsInv, IsPayload
  <1>6. CASE remote' # remote
    <2>1. PICK m : m = Effect(remote[at], t) /\ IsPayload(m)
      <3>1. IsPayload(Nothing)
        BY DEF IsPayload, Nothing
      <3>2. IsPayload(MergedWith(remote[at], t.payload))
        BY MergedFields
      <3> QED BY <3>1, <3>2 DEF Effect
    <2>2. remote' = [remote EXCEPT ![at] = m] /\ answer \in {"ok", "error"}
      BY <1>4, <1>6, <2>1
    <2>3. /\ remote' = [p \in Account \X Subject |-> remote'[p]]
          /\ \A p \in Account \X Subject :
               remote'[p] = IF p = at THEN m ELSE remote[p]
      BY <1>3, <2>2 DEF QueueInv, CollectionsInv
    <2>4. CollectionsInv'
      BY <1>1, <2>1, <2>3 DEF QueueInv, CollectionsInv, IsPayload
    <2> QED BY <1>3, <2>1, <2>2, <2>3, <2>4
  <1> QED BY <1>5, <1>6

(* A request keeps the invariant: what it writes is wanted still, or there *)
(* is a row that will be sent after it.                                    *)
LEMMA SendDelivers ==
  ASSUME QueueInv, DrainsInv, OwnToken, NEW a \in Account, NEW answer,
         Send(a, answer)
  PROVE  QueueInv'
  <1>1. PICK ts, t : /\ ts = drain[a].tasks /\ t = Head(ts)
                     /\ IsSequence(ts) /\ ts # <<>>
    BY DEF DrainsInv, DrainInv, Send
  <1>2. 1 \in DOMAIN ts /\ t = ts[1]
    BY <1>1, HeadAndTail
  <1>3. TaskSound(a, t) /\ SoundEdit(t.op, t.payload) /\ t.subject \in Subject
    BY <1>1, <1>2 DEF QueueInv, TasksSound, TaskSound
  <1>4. PICK m, n : /\ m = remote[<<a, t.subject>>]
                    /\ n = remote'[<<a, t.subject>>]
    OBVIOUS
  <1>5. /\ \A b \in Account, s \in Subject : b # a \/ s # t.subject =>
             remote'[<<b, s>>] = remote[<<b, s>>]
        /\ \/ n = m /\ answer # "ok" /\ (answer = "missing" => m = Nothing)
           \/ n = Effect(m, t) /\ answer # "missing"
        /\ CollectionsInv'
    BY <1>1, <1>3, <1>4, SendReaches
  <1>6. /\ \A b \in Account \ {a} : drain'[b] = drain[b]
        /\ drain'[a].pc = "answered" /\ drain'[a].answer = answer
        /\ drain'[a].tasks = ts
        /\ UNCHANGED <<rows, nextId, wanted, mixed>>
    BY <1>1, RequestMade DEF Send
  <1>7. t.op # "delete" => \A f \in Field : n[f] \in {m[f], t.payload[f]}
                             /\ (t.payload[f] = None => n[f] = m[f])
    <2>1. t.op # "delete" => Effect(m, t) = MergedWith(m, t.payload)
      BY DEF Effect
    <2>2. \A f \in Field : MergedWith(m, t.payload)[f] =
            IF t.payload[f] # None THEN t.payload[f] ELSE m[f]
      BY MergedFields
    <2> QED BY <1>5, <2>1, <2>2
  <1>8. RowsSound' /\ RowsApart'
    BY <1>6 DEF QueueInv, RowsSound, RowsApart, SoundEdit, Apart, Nothing
  <1>9. \A b \in Account : drain'[b].tasks = drain[b].tasks
    BY <1>1, <1>6
  <1>10. TasksSound'
    <2>1. ASSUME NEW b \in Account, NEW u, TaskSound(b, u)
          PROVE  TaskSound(b, u)'
      BY <1>6, <2>1 DEF TaskSound, SoundEdit, Nothing
    <2>2. ASSUME NEW b \in Account, NEW i \in DOMAIN drain'[b].tasks
          PROVE  i \in Nat /\ TaskSound(b, drain[b].tasks[i])'
      <3>1. PICK u : u = drain'[b].tasks[i] /\ u = drain[b].tasks[i]
        BY <1>9
      <3>2. i \in Nat /\ TaskSound(b, u)
        BY <1>9, <3>1 DEF QueueInv, TasksSound
      <3>3. TaskSound(b, u)'
        BY <2>1, <3>2
      <3> QED BY <3>1, <3>2, <3>3 DEF TaskSound, SoundEdit
    <2> QED BY <2>2 DEF TasksSound
  <1>11. TasksApart'
    BY <1>6, <1>9 DEF QueueInv, TasksApart, Apart
  <1>12. AnswersInv'
    <2>1. Answered(answer, t, n)
      <3>1. CASE answer = "ok"
        BY <1>5, <3>1, MergedFields DEF Answered, Effect
      <3>2. CASE answer # "ok"
        BY <1>5, <3>2 DEF Answered
      <3> QED BY <3>1, <3>2
    <2>2. ASSUME NEW b \in Account, drain'[b].pc = "answered"
          PROVE  Answered(drain'[b].answer, drain'[b].tasks[1],
                          remote'[<<b, drain'[b].tasks[1].subject>>])
      <3>1. CASE b = a
        BY <1>2, <1>4, <1>6, <2>1, <3>1
      <3>2. CASE b # a
        <4>1. PICK d : d = drain[b] /\ d = drain'[b] /\ DrainInv(d)
          BY <1>6, <3>2 DEF DrainsInv
        <4>2. d.tasks # <<>> /\ IsSequence(d.tasks)
          BY <2>2, <4>1 DEF DrainInv
        <4>3. 1 \in DOMAIN d.tasks
          BY <4>2, HeadAndTail
        <4>4. d.tasks[1].subject \in Subject
          BY <4>1, <4>3 DEF QueueInv, TasksSound, TaskSound
        <4> QED BY <1>5, <2>2, <3>2, <4>1, <4>4 DEF QueueInv, AnswersInv
      <3> QED BY <3>1, <3>2
    <2> QED BY <2>2 DEF AnswersInv, Answered, Nothing
  <1>13. \A b, s : RowsOf(b, s)' = RowsOf(b, s)
    BY <1>6 DEF RowsOf
  <1>14. ASSUME NEW b \in Account, NEW s \in Subject, <<b, s>> \notin mixed'
         PROVE  Delivers(b, s)'
    <2>1. Delivers(b, s)
      BY <1>6, <1>14 DEF QueueInv, DeliverInv
    <2>2. CASE b # a \/ s # t.subject
      BY <1>5, <1>6, <1>9, <1>13, <2>1, <2>2, DeliversStays
    <2>3. CASE b = a /\ s = t.subject
      <3>1. ASSUME Gone(a, s)
            PROVE  Gone(a, s)'
        <4>1. RowsOf(a, s) # {} /\ \A r \in RowsOf(a, s) : r.op = "delete"
          BY <1>1, <1>2, <2>3, <3>1 DEF Gone
        <4> QED BY <1>13, <4>1 DEF Gone
      <3>2. ASSUME Kept(a, s)
            PROVE  Kept(a, s)'
        <4>1. ASSUME NEW f \in Field
              PROVE  Coming(a, s, f, wanted[<<a, s>>][f])'
          <5>1. PICK value : value = wanted[<<a, s>>][f]
            OBVIOUS
          <5>2. Coming(a, s, f, value)
            BY <3>2, <5>1 DEF Kept
          <5>3. ASSUME value = None
                       \/ \E r \in RowsOf(a, s) : r.payload[f] = value
                PROVE  Coming(a, s, f, value)'
            BY <1>13, <5>3 DEF Coming
          <5>4. ASSUME m[f] = value,
                       \A i \in DOMAIN ts : Harmless(ts[i], s, f, value)
                PROVE  Coming(a, s, f, value)'
            <6>1. t.op # "delete" /\ t.payload[f] \in {None, value}
              BY <1>2, <2>3, <5>4 DEF Harmless
            <6>2. n[f] = value
              BY <1>7, <5>4, <6>1
            <6>3. \A i \in DOMAIN drain'[a].tasks :
                    Harmless(drain[a].tasks[i], s, f, value)'
              BY <1>6, <5>4 DEF Harmless
            <6> QED BY <1>4, <2>3, <6>2, <6>3 DEF Coming
          <5>5. Coming(a, s, f, value)'
            BY <1>1, <1>4, <2>3, <5>2, <5>3, <5>4 DEF Coming
          <5> QED BY <1>6, <5>1, <5>5 DEF Coming, Harmless
        <4> QED BY <1>6, <1>13, <3>2, <4>1 DEF Kept, Field
      <3> QED BY <1>6, <2>1, <2>3, <3>1, <3>2 DEF Delivers, Nothing
    <2> QED BY <2>2, <2>3
  <1> QED BY <1>5, <1>8, <1>10, <1>11, <1>12, <1>14 DEF QueueInv, DeliverInv

(* The invariant of the queue is kept by every step of a system in which   *)
(* the token is a drain's own.                                             *)
LEMMA QueueInvIsInductive ==
  ASSUME PassInv, QueueInv, OwnToken, [Next]_vars
  PROVE  QueueInv'
  <1>1. RowInv /\ DrainsInv /\ CallsInv
    BY DEF PassInv
  <1>2. ASSUME NEW c \in Call, Commit(c)
        PROVE  QueueInv'
    <2>1. PICK v : v = call[c] /\ CallInv(v) /\ v.pc = "queueing"
      BY <1>1, <1>2 DEF CallsInv, Commit
    <2>2. PICK a, s, op, p :
            /\ a \in Account /\ s \in Subject
            /\ SoundEdit(op, p) /\ Enqueue(a, s, op, p)
            /\ UNCHANGED <<drain, remote>>
      BY <1>2, <2>1 DEF CallInv, Commit
    <2> QED BY <1>1, <2>2, EnqueueDelivers
  <1>3. ASSUME NEW c \in Call,
               (\E s \in Subject : Edit(c, s)) \/ CatchUp(c) \/ Settle(c)
        PROVE  QueueInv'
    <2>1. drain' = drain /\ UNCHANGED <<rows, nextId, remote, wanted, mixed>>
      BY <1>3 DEF Edit, SetStatus, SaveMetadata, RemoveFavorite, Edits,
                  CatchUp, Settle
    <2> QED BY <2>1, QuietStep
  <1>4. ASSUME NEW c \in Call, MarkDirty(c)
        PROVE  QueueInv'
    <2>1. PICK a \in Account : a = call[c].account
      BY <1>1, <1>4 DEF MarkDirty, CallsInv, CallInv
    <2>2. /\ \A b \in Account \ {a} : drain'[b] = drain[b]
          /\ drain'[a].pc = drain[a].pc /\ drain'[a].answer = drain[a].answer
          /\ drain'[a].tasks = drain[a].tasks
      BY <1>1, <1>4, <2>1, DrainIsTold
    <2>3. UNCHANGED <<rows, nextId, remote, wanted, mixed>>
      BY <1>4 DEF MarkDirty
    <2> QED BY <2>2, <2>3, QuietStep
  <1>5. ASSUME NEW c \in Call, Join(c)
        PROVE  QueueInv'
    <2>1. PICK a \in Account : a = call[c].account
      BY <1>1, <1>5 DEF Join, CallsInv, CallInv
    <2>2. /\ \A b \in Account \ {a} : drain'[b] = drain[b]
          /\ \/ drain'[a].pc = "reading" /\ drain'[a].tasks = <<>>
             \/ /\ drain'[a].pc = drain[a].pc
                /\ drain'[a].tasks = drain[a].tasks
                /\ drain'[a].answer = drain[a].answer
      BY <1>1, <1>5, <2>1, DrainIsJoined
    <2>3. UNCHANGED <<rows, nextId, remote, wanted, mixed>>
      BY <1>5 DEF Join
    <2> QED BY <2>2, <2>3, QuietStep
  <1>6. ASSUME NEW a \in Account, Refreshes(a)
        PROVE  QueueInv'
    <2>1. /\ \A b \in Account \ {a} : drain'[b] = drain[b]
          /\ drain'[a].pc = "sending" /\ drain'[a].tasks = drain[a].tasks
      BY <1>1, <1>6, RequestRepeated
    <2>2. UNCHANGED <<rows, nextId, remote, wanted, mixed>>
      BY <1>6 DEF Refreshes
    <2> QED BY <2>1, <2>2, QuietStep
  <1>7. ASSUME NEW a \in Account, Count(a) \/ RunsAgain(a) \/ Returns(a)
        PROVE  QueueInv'
    <2>1. /\ \A b \in Account \ {a} : drain'[b] = drain[b]
          /\ drain'[a].pc \in {"counted", "reading", "idle"}
          /\ drain'[a].tasks = <<>>
      BY <1>1, <1>7, PassCounted, PassBegins, DrainEnds
    <2>2. UNCHANGED <<rows, nextId, remote, wanted, mixed>>
      BY <1>7 DEF Count, RunsAgain, Returns
    <2> QED BY <2>1, <2>2, QuietStep
  <1>8. ASSUME NEW a \in Account, Failed(a)
        PROVE  QueueInv'
    <2>1. PICK ts, task : /\ ts = drain[a].tasks /\ task = Task(a)
                          /\ IsSequence(ts) /\ ts # <<>>
      BY <1>1, <1>8 DEF DrainsInv, DrainInv, Failed
    <2>2. IsFiniteSet(rows') /\ \E sent : NextTask(a, sent)
      BY <1>1, <1>8, RowsStayFinite DEF DrainsInv, Failed
    <2>3. /\ \A b \in Account \ {a} : drain'[b] = drain[b]
          /\ drain'[a].pc = "sending" /\ drain'[a].tasks = Tail(ts)
      BY <1>1, <2>1, <2>2, TaskLeaves
    <2>4. Shortened(a, 1)
      BY <2>1, <2>3, HeadAndTail DEF Shortened
    <2>5. /\ rows' = BackedOff(task)
          /\ UNCHANGED <<nextId, remote, wanted, mixed>>
      BY <1>8, <2>1 DEF Failed
    <2> QED BY <1>1, <2>4, <2>5, FailureDelivers
  <1>9. ASSUME NEW a \in Account, Rejected(a)
        PROVE  QueueInv'
    <2>1. PICK task : task = Task(a)
      OBVIOUS
    <2>2. /\ \A b \in Account \ {a} : drain'[b] = drain[b]
          /\ drain'[a].pc = "counted" /\ drain'[a].tasks = <<>>
      BY <1>1, <1>9, RowsStayFinite, PassGivenUp DEF DrainsInv
    <2>3. Shortened(a, 0)
      BY <2>2 DEF Shortened
    <2>4. /\ rows' = BackedOff(task)
          /\ UNCHANGED <<nextId, remote, wanted, mixed>>
      BY <1>9, <2>1 DEF Rejected
    <2> QED BY <1>1, <2>3, <2>4, FailureDelivers
  <1>10. ASSUME NEW a \in Account, DrainStep(a)
         PROVE  QueueInv'
    BY <1>1, <1>6, <1>7, <1>8, <1>9, <1>10, ReadTasksDelivers, SendDelivers,
       AcceptedDelivers DEF DrainStep
  <1>11. CASE (\E a \in Account : Login(a)) \/ Logout \/ UNCHANGED vars
    <2>1. drain' = drain /\ UNCHANGED <<rows, nextId, remote, wanted, mixed>>
      BY <1>11 DEF Login, Logout, vars
    <2> QED BY <2>1, QuietStep
  <1>12. CASE Restart
    <2>1. /\ \A a \in Account : /\ drain'[a].pc = "idle"
                                /\ drain'[a].tasks = <<>>
          /\ UNCHANGED <<rows, nextId, remote, wanted, mixed>>
      BY <1>12, NoDrainIsIdle DEF Restart
    <2> QED BY <2>1, QuietStep
  <1>13. \A c \in Call : CallStep(c) => QueueInv'
    BY <1>2, <1>3, <1>4, <1>5 DEF CallStep
  <1> QED BY <1>3, <1>10, <1>11, <1>12, <1>13 DEF Next

(* In the beginning the collections are what is wanted.                    *)
LEMMA QueueInvAtFirst == Init => QueueInv
  <1> SUFFICES ASSUME Init PROVE QueueInv
    OBVIOUS
  <1>1. \A a \in Account : drain[a].tasks = <<>> /\ drain[a].pc = "idle"
    BY NoDrainIsIdle DEF Init
  <1>2. rows = {} /\ nextId = 1 /\ wanted = remote
    BY DEF Init
  <1>3. /\ remote = [at \in Account \X Subject |-> remote[at]]
        /\ \A at \in Account \X Subject : IsPayload(remote[at])
    <2>1. PICK known \in SUBSET Subject, t \in Type :
            /\ local = [s \in Subject |->
                 IF s \in known
                   THEN [type |-> t, meta |-> None, edited |-> FALSE,
                         owner |-> session]
                   ELSE None]
            /\ remote = [at \in Account \X Subject |->
                 IF at[1] = session /\ at[2] \in known
                   THEN [type |-> t, meta |-> None] ELSE Nothing]
      BY Zenon DEF Init
    <2> QED BY <2>1 DEF IsPayload, Nothing
  <1>4. RowsSound /\ RowsApart /\ TasksSound /\ TasksApart /\ AnswersInv
    BY <1>1, <1>2 DEF RowsSound, RowsApart, TasksSound, TasksApart, AnswersInv
  <1>5. CollectionsInv
    BY <1>2, <1>3 DEF CollectionsInv
  <1>6. DeliverInv
    BY <1>1, <1>2 DEF DeliverInv, Delivers, Gone, Kept, Coming, RowsOf
  <1> QED BY <1>4, <1>5, <1>6 DEF QueueInv

(* What the invariant says once nothing is queued and no drain under way.  *)
LEMMA QueueInvShows == QueueInv => DeliveredWhenEmpty
  <1> SUFFICES ASSUME QueueInv, NEW a \in Account, NEW s \in Subject,
                      RowsOf(a, s) = {}, <<a, s>> \notin mixed
               PROVE  Shows(remote[<<a, s>>], wanted[<<a, s>>])
    BY DEF DeliveredWhenEmpty
  <1>1. PICK m, w : m = remote[<<a, s>>] /\ w = wanted[<<a, s>>]
    OBVIOUS
  <1>2. Delivers(a, s)
    BY DEF QueueInv, DeliverInv
  <1>3. w = Nothing => m = Nothing
    BY <1>1, <1>2 DEF Delivers, Gone
  <1>4. w # Nothing => \A f \in Field : w[f] \in {None, m[f]}
    BY <1>1, <1>2 DEF Delivers, Kept, Coming
  <1>5. w # Nothing => w.type \in {None, m.type} /\ w.meta \in {None, m.meta}
    BY <1>4 DEF Field
  <1> QED BY <1>1, <1>3, <1>5 DEF Shows

(* For any accounts, subjects and calls, and any number of edits: where a  *)
(* drain only ever sends under its own account, an empty queue means that  *)
(* Bangumi shows the last edits, whatever was lost or rejected on the way. *)
THEOREM EditsAreDelivered == Spec /\ []OwnToken => []DeliveredWhenEmpty
  <1>1. PassInv /\ QueueInv /\ OwnToken /\ [Next]_vars => QueueInv'
    BY QueueInvIsInductive
  <1> QED BY <1>1, QueueInvAtFirst, QueueInvShows, PassInvHolds, PTL DEF Spec

(* That is so where there is one account, as in the run of the model.      *)
COROLLARY OneAccountDelivers ==
  ASSUME \A a, b \in Account : a = b
  PROVE  Spec => []DeliveredWhenEmpty
  <1>1. PassInv => OwnToken
    BY DEF PassInv, CallsInv, OwnToken
  <1> QED BY <1>1, PassInvHolds, EditsAreDelivered, PTL
=============================================================================
