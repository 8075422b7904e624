-------------------------- MODULE CorePartsProofs --------------------------
(***************************************************************************)
(* Proofs about the parts of the Rust core that have few steps each: the   *)
(* torrent engine, the details of a timetable, the dates of a ranking, the *)
(* playback sources and the searches of them, the lookups of torrents and  *)
(* comments, and the reading of captchas.  RustCoreProofs carries the      *)
(* results over to the core.                                               *)
(***************************************************************************)
EXTENDS TorrentEngine, SubjectDetails, AirDates, SourceStore, SourceSearch,
        EpisodeResources, CaptchaReading, ListLemmas, FiniteSetTheorems, TLAPS

-----------------------------------------------------------------------------
(* The torrent engine.                                                     *)
Looked == {"stop", "pause", "resume"}
Known == {"metadata"} \cup Looked
Torrent == [hash : Magnet, engine : Nat, there : BOOLEAN, paused : BOOLEAN,
            state : {"initializing", "ready", "error"}]

View == [pc : {"idle", "engine", "creating", "adding", "looking"} \cup Known,
         op : Ops \cup {"none"}, hash : Magnet \cup {Unheld}, engine : Nat,
         id : Nat, stream : Nat]
ViewTypes == viewer \in [Viewer -> View]

(* A call that creates the engine holds the lock, and there is none yet;   *)
(* so there is at most one, and it is the one every later call has.  A     *)
(* torrent goes only after a call to stop has found it, and one that was   *)
(* read stays so.                                                          *)
ViewerInv(v) ==
  LET w == viewer[v] IN
  /\ w.pc \in {"engine", "creating"} => w.op \in Ops /\ w.hash \in Magnet
  /\ w.pc \in {"adding", "looking"} => w.engine = engine /\ engine # 0
                                       /\ w.hash \in Magnet
  /\ w.pc = "looking" => w.op \in Looked
  /\ w.pc = "creating" => guard = v /\ engine = 0
  /\ w.pc \in Known => w.id \in DOMAIN torrents
  /\ w.pc = "stop" => w.id \in stops
  /\ w.stream # 0 => /\ w.stream \in DOMAIN torrents
                     /\ torrents[w.stream].state = "ready"

EngineInv ==
  /\ ViewTypes /\ torrents \in Seq(Torrent)
  /\ engine \in Nat /\ engines = engine
  /\ \A i \in DOMAIN torrents :
       /\ torrents[i].engine = engine /\ engine # 0
       /\ torrents[i].there \/ i \in stops
  /\ \A v \in Viewer : ViewerInv(v)

EngineNext == EngineCalls \/ EngineSteps

(* Nothing is there at first.                                              *)
LEMMA EngineInitHolds == EngineInit => EngineInv
<1> SUFFICES ASSUME EngineInit PROVE EngineInv
  OBVIOUS
<1>1. ViewTypes
  BY DEF EngineInit, AtRest, Nothing, ViewTypes, View, Ops
<1>2. torrents \in Seq(Torrent) /\ DOMAIN torrents = {}
  BY DEF EngineInit
<1>3. \A v \in Viewer : ViewerInv(v)
  BY DEF EngineInit, AtRest, Nothing, ViewerInv, Known, Looked
<1>4. QED
  BY <1>1, <1>2, <1>3 DEF EngineInit, EngineInv

(* A call that does not touch the torrents keeps the invariant if its own  *)
(* locals are right and it does not take the lock from another.            *)
LEMMA ViewerMoves ==
  ASSUME EngineInv, NEW v \in Viewer, NEW w,
         viewer' = [viewer EXCEPT ![v] = w],
         ViewTypes', ViewerInv(v)',
         UNCHANGED <<engine, engines, torrents>>, stops \subseteq stops',
         guard' = guard \/ \A u \in Viewer \ {v} : viewer[u].pc # "creating"
  PROVE  EngineInv'
<1>1. ASSUME NEW u \in Viewer, u # v PROVE ViewerInv(u)'
  <2>1. viewer'[u] = viewer[u] /\ ViewerInv(u)
    BY <1>1 DEF EngineInv, ViewTypes, View
  <2>2. QED
    BY <1>1, <2>1 DEF ViewerInv
<1>2. QED
  BY <1>1 DEF EngineInv

(* Once the engine is there, the call that wanted it has it.               *)
LEMMA HasEngineLeads ==
  ASSUME ViewTypes, NEW v \in Viewer, NEW e \in Nat, HasEngine(v, e),
         viewer[v].op \in Ops
  PROVE  \E w : /\ viewer' = [viewer EXCEPT ![v] = w]
                /\ \/ w = AtRest
                   \/ /\ w = [viewer[v] EXCEPT !.engine = e, !.pc = "adding"]
                      /\ w.op = "start"
                   \/ /\ w = [viewer[v] EXCEPT !.engine = e, !.pc = "looking"]
                      /\ w.op \in Looked
<1>1. CASE ReadsOnly(viewer[v].op)
  BY <1>1 DEF HasEngine, Settles
<1>2. CASE ~ReadsOnly(viewer[v].op)
  <2>1. viewer[v].op \in {"start"} \cup Looked
    BY <1>2 DEF ReadsOnly, Ops, Looked
  <2>2. PICK pc : /\ viewer' = [viewer EXCEPT ![v].engine = e, ![v].pc = pc]
                  /\ pc = IF viewer[v].op = "start" THEN "adding"
                                                    ELSE "looking"
    BY <1>2, <2>1 DEF HasEngine, Looked
  <2>3. viewer' = [viewer EXCEPT ![v] = [viewer[v] EXCEPT !.engine = e,
                                                         !.pc = pc]]
    BY <2>2 DEF ViewTypes, View
  <2>4. [viewer[v] EXCEPT !.engine = e, !.pc = pc].op = viewer[v].op
    BY DEF ViewTypes, View
  <2>5. QED
    BY <2>1, <2>2, <2>3, <2>4 DEF Looked
<1>3. QED
  BY <1>1, <1>2

(* A call that ends, or begins to look or to add, keeps the invariant.     *)
LEMMA ViewerEnds ==
  ASSUME EngineInv, NEW v \in Viewer, viewer' = [viewer EXCEPT ![v] = AtRest],
         UNCHANGED <<engine, engines, torrents>>, stops \subseteq stops',
         guard' = guard \/ \A u \in Viewer \ {v} : viewer[u].pc # "creating"
  PROVE  EngineInv'
<1>1. AtRest \in [pc : {"idle"}, op : {"none"}, hash : {Unheld}, engine : {0},
                  id : {0}, stream : {0}]
  BY DEF AtRest, Nothing
<1>2. ViewTypes'
  BY <1>1 DEF EngineInv, ViewTypes, View
<1>3. ViewerInv(v)'
  BY <1>1 DEF EngineInv, ViewTypes, View, ViewerInv, Known, Looked
<1>4. QED
  BY <1>2, <1>3, ViewerMoves

(* Nobody else creates an engine while this call holds the lock or finds   *)
(* it free.                                                                *)
LEMMA OneCreator ==
  ASSUME EngineInv, NEW v \in Viewer,
         guard = Unheld \/ viewer[v].pc = "creating"
  PROVE  \A u \in Viewer \ {v} : viewer[u].pc # "creating"
BY EngineAssumption DEF EngineInv, ViewerInv

(* A new call.                                                             *)
LEMMA PlayKeeps ==
  ASSUME EngineInv, NEW v \in Viewer, NEW op \in Ops, NEW h \in Magnet,
         Play(v, op, h)
  PROVE  EngineInv'
<1>1. PICK w : /\ viewer' = [viewer EXCEPT ![v] = w]
               /\ w = [AtRest EXCEPT !.pc = "engine", !.op = op, !.hash = h]
  BY DEF Play
<1>2. w \in [pc : {"engine"}, op : {op}, hash : {h}, engine : {0}, id : {0},
             stream : {0}]
  BY <1>1 DEF AtRest, Nothing
<1>3. ViewTypes'
  BY <1>1, <1>2 DEF EngineInv, ViewTypes, View
<1>4. ViewerInv(v)'
  BY <1>1, <1>2 DEF EngineInv, ViewTypes, View, ViewerInv, Known, Looked
<1>5. QED
  BY <1>1, <1>3, <1>4, ViewerMoves DEF Play

(* A call takes the lock, or has the engine at once.                       *)
LEMMA EnsureKeeps ==
  ASSUME EngineInv, NEW v \in Viewer, EnsureInitialized(v) PROVE EngineInv'
<1>1. viewer[v].op \in Ops /\ viewer[v].hash \in Magnet /\ engine \in Nat
  BY DEF EngineInv, ViewerInv, EnsureInitialized
<1>2. CASE engine # 0
  <2>1. PICK w : /\ viewer' = [viewer EXCEPT ![v] = w]
                 /\ \/ w = AtRest
                    \/ /\ w = [viewer[v] EXCEPT !.engine = engine,
                                                !.pc = "adding"]
                       /\ w.op = "start"
                    \/ /\ w = [viewer[v] EXCEPT !.engine = engine,
                                                !.pc = "looking"]
                       /\ w.op \in Looked
    BY <1>1, <1>2, HasEngineLeads DEF EnsureInitialized, EngineInv
  <2>2. CASE w = AtRest
    BY <1>2, <2>1, <2>2, ViewerEnds DEF EnsureInitialized
  <2>3. CASE w # AtRest
    <3>1. ViewTypes'
      <4>1. viewer \in [Viewer -> View] /\ viewer[v] \in View
        BY DEF EngineInv, ViewTypes
      <4>2. w \in View
        BY <1>1, <2>1, <2>3, <4>1 DEF View
      <4>3. QED
        BY <2>1, <4>1, <4>2 DEF ViewTypes
    <3>2. ViewerInv(v)'
      BY <1>1, <1>2, <2>1, <2>3
         DEF EngineInv, ViewTypes, View, ViewerInv, Known, Looked,
             EnsureInitialized
    <3>3. QED
      BY <1>2, <2>1, <3>1, <3>2, ViewerMoves DEF EnsureInitialized
  <2>4. QED
    BY <2>2, <2>3
<1>3. CASE engine = 0
  <2>1. /\ viewer' = [viewer EXCEPT ![v] = [viewer[v] EXCEPT !.pc = "creating"]]
        /\ guard' = v
    BY <1>3 DEF EnsureInitialized, Goes, EngineInv, ViewTypes, View
  <2>2. ViewTypes'
    BY <2>1 DEF EngineInv, ViewTypes, View
  <2>3. ViewerInv(v)'
    BY <1>1, <1>3, <2>1
       DEF EngineInv, ViewTypes, View, ViewerInv, Known, Looked,
           EnsureInitialized
  <2>4. QED
    BY <2>1, <2>2, <2>3, ViewerMoves, OneCreator DEF EnsureInitialized
<1>4. QED
  BY <1>2, <1>3

(* The first engine of the process: no call knows one before.              *)
LEMMA EngineUpKeeps ==
  ASSUME EngineInv, NEW v \in Viewer, EngineUp(v) PROVE EngineInv'
<1>1. /\ viewer[v].op \in Ops /\ viewer[v].hash \in Magnet
      /\ engine = 0 /\ engine' = 1 /\ engines' = 1
  BY DEF EngineInv, ViewerInv, EngineUp
<1>2. PICK w : /\ viewer' = [viewer EXCEPT ![v] = w]
               /\ \/ w = AtRest
                  \/ /\ w = [viewer[v] EXCEPT !.engine = 1, !.pc = "adding"]
                     /\ w.op = "start"
                  \/ /\ w = [viewer[v] EXCEPT !.engine = 1, !.pc = "looking"]
                     /\ w.op \in Looked
  <2>1. ViewTypes /\ HasEngine(v, engines + 1) /\ engines + 1 = 1
    BY <1>1 DEF EngineUp, EngineInv
  <2>2. HasEngine(v, 1)
    BY <2>1
  <2>3. QED
    BY <1>1, <2>1, <2>2, HasEngineLeads
<1>3. ViewTypes' /\ ViewerInv(v)'
  <2>1. CASE w = AtRest
    <3>1. w \in [pc : {"idle"}, op : {"none"}, hash : {Unheld}, engine : {0},
                 id : {0}, stream : {0}]
      BY <2>1 DEF AtRest, Nothing
    <3>2. QED
      BY <1>2, <3>1 DEF EngineInv, ViewTypes, View, ViewerInv, Known, Looked
  <2>2. CASE w # AtRest
    <3>0. w \in View /\ w.pc \in {"adding", "looking"} /\ w.engine = 1
          /\ w.hash = viewer[v].hash /\ w.stream = viewer[v].stream
          /\ (w.pc = "looking" => w.op \in Looked)
      <4>1. viewer[v] \in View /\ 1 \in Nat
        BY DEF EngineInv, ViewTypes
      <4>2. CASE w = [viewer[v] EXCEPT !.engine = 1, !.pc = "adding"]
        BY <4>1, <4>2 DEF View
      <4>3. CASE /\ w = [viewer[v] EXCEPT !.engine = 1, !.pc = "looking"]
                 /\ w.op \in Looked
        BY <4>1, <4>3 DEF View
      <4>4. QED
        BY <1>2, <2>2, <4>2, <4>3
    <3>1. ViewTypes' /\ viewer'[v] = w
      BY <1>2, <3>0 DEF EngineInv, ViewTypes, View
    <3>2. ViewerInv(v)'
      BY <1>1, <3>0, <3>1 DEF EngineInv, ViewerInv, Known, Looked, EngineUp
    <3>3. QED
      BY <3>1, <3>2
  <2>3. QED
    BY <2>1, <2>2
<1>5. ASSUME NEW u \in Viewer, u # v PROVE ViewerInv(u)'
  <2>1. /\ viewer'[u] = viewer[u] /\ ViewerInv(u) /\ viewer[u].pc # "creating"
    BY <1>2, <1>5, OneCreator DEF EngineInv, ViewTypes, View, EngineUp
  <2>2. QED
    BY <1>1, <2>1 DEF ViewerInv, EngineUp
<1>6. QED
  BY <1>1, <1>3, <1>5 DEF EngineInv, EngineUp

(* A torrent is managed once: a new one gets a number of its own.          *)
LEMMA AddedKeeps ==
  ASSUME EngineInv, NEW v \in Viewer, Added(v) PROVE EngineInv'
<1>1. /\ viewer[v].engine = engine /\ engine # 0 /\ engine \in Nat
      /\ viewer[v].hash \in Magnet
  BY DEF EngineInv, ViewerInv, Added
<1>2. PICK id : /\ id \in DOMAIN torrents'
                /\ viewer' = [viewer EXCEPT ![v] =
                                [viewer[v] EXCEPT !.pc = "metadata", !.id = id]]
                /\ torrents' \in Seq(Torrent)
                /\ DOMAIN torrents \subseteq DOMAIN torrents'
                /\ \A i \in DOMAIN torrents : torrents'[i] = torrents[i]
                /\ \A i \in DOMAIN torrents' \ DOMAIN torrents :
                     torrents'[i].engine = engine /\ torrents'[i].there
  <2> DEFINE old == Managed(viewer[v].engine, viewer[v].hash)
             new == [hash |-> viewer[v].hash, engine |-> viewer[v].engine,
                     there |-> TRUE, paused |-> FALSE,
                     state |-> "initializing"]
             given == IF old = {} THEN Len(torrents) + 1
                                  ELSE CHOOSE i \in old : TRUE
  <2>1. /\ torrents' = IF old = {} THEN Append(torrents, new) ELSE torrents
        /\ viewer' = [viewer EXCEPT ![v].pc = "metadata", ![v].id = given]
    BY DEF Added
  <2>2. viewer' = [viewer EXCEPT ![v] =
                     [viewer[v] EXCEPT !.pc = "metadata", !.id = given]]
    <3> HIDE DEF given
    <3> QED
      BY <2>1 DEF EngineInv, ViewTypes, View
  <2>3. CASE old = {}
    <3>1. new \in Torrent /\ new.engine = engine /\ new.there = TRUE
      BY <1>1 DEF Torrent
    <3>2. torrents' = Append(torrents, new) /\ given = Len(torrents) + 1
      BY <2>1, <2>3
    <3> HIDE DEF new, given, old
    <3>3. torrents \in Seq(Torrent)
      BY DEF EngineInv
    <3>4. /\ torrents' \in Seq(Torrent) /\ Len(torrents') = Len(torrents) + 1
          /\ given \in DOMAIN torrents'
          /\ DOMAIN torrents \subseteq DOMAIN torrents'
          /\ \A i \in DOMAIN torrents : torrents'[i] = torrents[i]
          /\ \A i \in DOMAIN torrents' \ DOMAIN torrents : torrents'[i] = new
      BY <3>1, <3>2, <3>3
    <3>5. QED
      BY <2>2, <3>1, <3>4
  <2>4. CASE old # {}
    <3>1. given \in DOMAIN torrents /\ torrents' = torrents
      BY <2>1, <2>4 DEF Managed
    <3> HIDE DEF new, given, old
    <3>2. QED
      BY <2>2, <3>1 DEF EngineInv
  <2>5. QED
    BY <2>3, <2>4
<1>3. DOMAIN torrents' \subseteq Nat
  BY <1>2
<1>4. ViewTypes'
  <2>0. viewer[v] \in View /\ id \in Nat
    BY <1>2, <1>3 DEF EngineInv, ViewTypes
  <2>1. [viewer[v] EXCEPT !.pc = "metadata", !.id = id] \in View
    BY <2>0 DEF View, Known
  <2>2. QED
    BY <1>2, <2>1 DEF EngineInv, ViewTypes, View
<1>5. ASSUME NEW u \in Viewer PROVE ViewerInv(u)'
  <2>1. CASE u = v
    <3>1. /\ viewer'[v].pc = "metadata" /\ viewer'[v].id \in DOMAIN torrents'
          /\ viewer'[v].stream = viewer[v].stream
      BY <1>2 DEF EngineInv, ViewTypes, View
    <3>2. QED
      BY <1>2, <2>1, <3>1 DEF EngineInv, ViewerInv, Known, Looked
  <2>2. CASE u # v
    <3>1. viewer'[u] = viewer[u] /\ ViewerInv(u)
      BY <1>2, <2>2 DEF EngineInv, ViewTypes, View
    <3>2. QED
      BY <1>2, <3>1 DEF ViewerInv, Added
  <2>3. QED
    BY <2>1, <2>2
<1>6. \A i \in DOMAIN torrents' : /\ torrents'[i].engine = engine'
                                  /\ engine' # 0
                                  /\ torrents'[i].there \/ i \in stops'
  BY <1>1, <1>2 DEF EngineInv, Added
<1>7. QED
  BY <1>2, <1>4, <1>5, <1>6 DEF EngineInv, Added

(* The session and the calls change one field of one torrent: what was     *)
(* read stays read, what goes was found by a call to stop.                 *)
LEMMA TorrentChanges ==
  ASSUME EngineInv, NEW i \in DOMAIN torrents, NEW t \in Torrent,
         torrents' = [torrents EXCEPT ![i] = t],
         t.engine = torrents[i].engine,
         torrents[i].state = "ready" => t.state = "ready",
         t.there \/ i \in stops,
         \/ UNCHANGED viewer
         \/ \E v \in Viewer : viewer' = [viewer EXCEPT ![v] = AtRest],
         UNCHANGED <<engine, engines, guard, stops>>
  PROVE  EngineInv'
<1>1. /\ torrents' \in Seq(Torrent) /\ DOMAIN torrents' = DOMAIN torrents
      /\ torrents'[i] = t
      /\ \A j \in DOMAIN torrents : j # i => torrents'[j] = torrents[j]
  BY DEF EngineInv
<1>2. AtRest \in View /\ AtRest.pc = "idle" /\ AtRest.stream = 0
  BY DEF AtRest, Nothing, View
<1>3. ViewTypes'
  BY <1>2 DEF EngineInv, ViewTypes
<1>4. ASSUME NEW v \in Viewer PROVE ViewerInv(v)'
  <2>1. viewer'[v] = viewer[v] \/ viewer'[v] = AtRest
    BY DEF EngineInv, ViewTypes
  <2>2. CASE viewer'[v] = viewer[v]
    BY <1>1, <2>2 DEF EngineInv, ViewerInv
  <2>3. CASE viewer'[v] = AtRest
    BY <1>2, <2>3 DEF ViewerInv, Known, Looked
  <2>4. QED
    BY <2>1, <2>2, <2>3
<1>5. QED
  BY <1>1, <1>3, <1>4 DEF EngineInv

(* The session reads a torrent; a call deletes, pauses or resumes one, and *)
(* it was found by a call to stop before it is deleted.                    *)
LEMMA SessionKeeps ==
  ASSUME EngineInv,
         \/ \E i \in DOMAIN torrents : Initialized(i)
         \/ \E v \in Viewer : Delete(v) \/ Toggle(v)
  PROVE  EngineInv'
<1>1. ASSUME NEW i \in DOMAIN torrents, Initialized(i) PROVE EngineInv'
  <2>1. PICK s \in {"ready", "error"} :
          torrents' = [torrents EXCEPT ![i] = [torrents[i] EXCEPT !.state = s]]
    BY <1>1 DEF Initialized, EngineInv
  <2>2. torrents[i] \in Torrent /\ torrents[i].state = "initializing"
        /\ (torrents[i].there \/ i \in stops)
    BY <1>1 DEF EngineInv, Initialized
  <2>3. PICK t \in Torrent : t = [torrents[i] EXCEPT !.state = s]
    BY <2>2 DEF Torrent
  <2>4. t.engine = torrents[i].engine /\ (t.there \/ i \in stops)
    BY <2>2, <2>3 DEF Torrent
  <2>5. QED
    BY <1>1, <2>1, <2>2, <2>3, <2>4, TorrentChanges DEF Initialized
<1>2. ASSUME NEW v \in Viewer, Delete(v) \/ Toggle(v) PROVE EngineInv'
  <2>1. PICK i \in DOMAIN torrents : i = viewer[v].id
    BY <1>2 DEF EngineInv, ViewerInv, Known, Looked, Delete, Toggle
  <2>2. torrents[i] \in Torrent
    BY DEF EngineInv
  <2>3. PICK t \in Torrent :
          /\ torrents' = [torrents EXCEPT ![i] = t]
          /\ t.engine = torrents[i].engine /\ t.state = torrents[i].state
          /\ t.there \/ i \in stops
    <3>1. CASE Delete(v)
      <4>1. PICK t : t = [torrents[i] EXCEPT !.there = FALSE]
        OBVIOUS
      <4>2. t \in Torrent /\ t.engine = torrents[i].engine
            /\ t.state = torrents[i].state
        BY <2>2, <4>1 DEF Torrent
      <4>3. torrents' = [torrents EXCEPT ![i] = t] /\ i \in stops
        BY <2>1, <3>1, <4>1 DEF Delete, EngineInv, ViewerInv
      <4>4. QED
        BY <4>2, <4>3
    <3>2. CASE Toggle(v)
      <4>1. PICK t : t = [torrents[i] EXCEPT !.paused = viewer[v].pc = "pause"]
        OBVIOUS
      <4>2. t \in Torrent /\ t.engine = torrents[i].engine
            /\ t.state = torrents[i].state /\ t.there = torrents[i].there
        BY <2>2, <4>1 DEF Torrent
      <4>3. torrents' = [torrents EXCEPT ![i] = t]
            /\ (torrents[i].there \/ i \in stops)
        BY <2>1, <3>2, <4>1 DEF Toggle, EngineInv
      <4>4. QED
        BY <4>2, <4>3
    <3>3. QED
      BY <1>2, <3>1, <3>2
  <2>4. viewer' = [viewer EXCEPT ![v] = AtRest]
        /\ UNCHANGED <<engine, engines, guard, stops>>
    BY <1>2 DEF Delete, Toggle, Settles
  <2>5. QED
    BY <2>3, <2>4, TorrentChanges
<1>3. QED
  BY <1>1, <1>2

(* A call to start is answered once the session has read the torrent.      *)
LEMMA StreamsKeep ==
  ASSUME EngineInv, NEW v \in Viewer, Streams(v) PROVE EngineInv'
<1>1. CASE Settles(v)
  BY <1>1, ViewerEnds DEF Streams, Settles
<1>2. CASE ~Settles(v)
  <2>1. viewer[v].id \in DOMAIN torrents /\ viewer[v] \in View
        /\ torrents[viewer[v].id].state = "ready"
    BY DEF EngineInv, ViewTypes, ViewerInv, Known, Streams
  <2>2. PICK w : /\ viewer' = [viewer EXCEPT ![v] = w]
                 /\ w = [viewer[v] EXCEPT !.pc = "idle",
                                           !.stream = viewer[v].id]
    BY <1>2 DEF Streams, EngineInv, ViewTypes
  <2>3. w \in View /\ w.pc = "idle" /\ w.stream = viewer[v].id
    BY <2>1, <2>2 DEF View
  <2>4. ViewTypes' /\ viewer'[v] = w
    BY <2>2, <2>3 DEF EngineInv, ViewTypes
  <2>5. ViewerInv(v)'
    BY <2>1, <2>3, <2>4 DEF ViewerInv, Known, Looked, Streams
  <2>6. QED
    BY <2>2, <2>4, <2>5, ViewerMoves DEF Streams
<1>3. QED
  BY <1>1, <1>2

(* A torrent that is looked for and found is one of the session's.         *)
LEMMA LookKeeps ==
  ASSUME EngineInv, NEW v \in Viewer, Look(v) PROVE EngineInv'
<1> DEFINE found == Managed(viewer[v].engine, viewer[v].hash)
           id == CHOOSE i \in found : TRUE
<1>1. CASE Settles(v) /\ UNCHANGED stops
  BY <1>1, ViewerEnds DEF Look, Settles
<1>2. CASE ~(Settles(v) /\ UNCHANGED stops)
  <2>1. found # {}
    BY <1>2 DEF Look
  <2>2. id \in DOMAIN torrents
    BY <2>1 DEF Managed
  <2>3. /\ viewer' = [viewer EXCEPT ![v].pc = viewer[v].op, ![v].id = id]
        /\ stops' = IF viewer[v].op = "stop" THEN stops \cup {id} ELSE stops
    BY <1>2 DEF Look
  <2> HIDE DEF found, id
  <2>4. viewer[v].op \in Looked /\ viewer[v] \in View /\ ViewerInv(v)
        /\ viewer[v].pc = "looking"
    BY DEF EngineInv, ViewTypes, ViewerInv, Look
  <2>5. PICK w : /\ viewer' = [viewer EXCEPT ![v] = w]
                 /\ w = [viewer[v] EXCEPT !.pc = viewer[v].op, !.id = id]
    BY <2>3 DEF EngineInv, ViewTypes
  <2>6. id \in Nat
    BY <2>2 DEF EngineInv
  <2>7. w \in View /\ w.pc = viewer[v].op /\ w.id = id
        /\ w.stream = viewer[v].stream
    BY <2>4, <2>5, <2>6 DEF View, Known, Looked
  <2>8. ViewTypes' /\ viewer'[v] = w
    BY <2>5, <2>7 DEF EngineInv, ViewTypes
  <2>9. ViewerInv(v)'
    BY <2>2, <2>3, <2>4, <2>7, <2>8 DEF ViewerInv, Known, Looked, Look
  <2>10. stops \subseteq stops'
    BY <2>3
  <2>11. QED
    BY <2>5, <2>8, <2>9, <2>10, ViewerMoves DEF Look
<1>3. QED
  BY <1>1, <1>2

(* Every step of the engine keeps the invariant.                           *)
LEMMA EngineStep == EngineInv /\ [EngineNext]_engineVars => EngineInv'
<1> SUFFICES ASSUME EngineInv, [EngineNext]_engineVars PROVE EngineInv'
  OBVIOUS
<1>1. CASE UNCHANGED engineVars
  BY <1>1 DEF engineVars, EngineInv, ViewTypes, ViewerInv
<1>2. CASE EngineCalls
  BY <1>2, PlayKeeps DEF EngineCalls
<1>3. ASSUME NEW v \in Viewer, ViewerSteps(v) PROVE EngineInv'
  <2>1. CASE EngineFails(v)
    BY <2>1, ViewerEnds, OneCreator DEF EngineFails, Settles
  <2>2. CASE AddFails(v) \/ WaitFails(v) \/ ActionFails(v)
    BY <2>2, ViewerEnds DEF AddFails, WaitFails, ActionFails, Settles
  <2>3. QED
    BY <1>3, <2>1, <2>2, EnsureKeeps, EngineUpKeeps, AddedKeeps, StreamsKeep,
       LookKeeps, SessionKeeps DEF ViewerSteps
<1>4. QED
  BY <1>1, <1>2, <1>3, SessionKeeps DEF EngineNext, EngineSteps

(* A stream that was answered is served: by the one engine there is, from  *)
(* a torrent that is there and read, unless a stop has found it.           *)
LEMMA EngineServes == EngineInv => StreamIsServed
BY DEF EngineInv, StreamIsServed, ViewTypes, View, ViewerInv, Nothing

-----------------------------------------------------------------------------
(* The dates of a ranking: what is sent is what the filter makes of the    *)
(* choice.                                                                 *)
DatesInv ==
  \/ chosen = AllYears /\ dates = NoDates
  \/ chosen \in Choice /\ dates = AirDateFilter(chosen)

(* The order of months, and the month that follows one.                    *)
LEMMA MonthsInOrder ==
  ASSUME NEW y \in Int, NEW m \in 1..12, NEW a \in Int, NEW b \in 1..12
  PROVE  /\ NotAfter(NextYearMonth(<<y, m>>), <<a, b>>)
              <=> ~NotAfter(<<a, b>>, <<y, m>>)
         /\ NotAfter(<<y, m>>, <<a, b>>) /\ NotAfter(<<a, b>>, <<y, m>>)
              <=> <<a, b>> = <<y, m>>
<1>1. CASE m = 12
  BY <1>1 DEF NotAfter, NextYearMonth
<1>2. CASE m # 12
  BY <1>2 DEF NotAfter, NextYearMonth
<1>3. QED
  BY <1>1, <1>2

(* The months among which the interval is looked for.                      *)
YearsWritten == Written \cup {y + 1 : y \in Written}
Months == {<<y, m>> : y \in YearsWritten, m \in 1..12}

(* The first month of a year and the first month after it.                 *)
LEMMA MonthsOfYear ==
  ASSUME NEW y \in Int, NEW a \in Int, NEW b \in 1..12
  PROVE  NotAfter(<<y, 1>>, <<a, b>>) /\ ~NotAfter(<<y + 1, 1>>, <<a, b>>)
           <=> a = y
BY DEF NotAfter

(* The month after one of a year that is written is of a year that is, or  *)
(* of the next.                                                            *)
LEMMA NextMonthIsThere ==
  ASSUME NEW y \in Written, NEW m \in 1..12
  PROVE  <<y, m>> \in Months /\ NextYearMonth(<<y, m>>) \in Months
<1>1. y \in YearsWritten /\ y + 1 \in YearsWritten /\ y \in Int
  BY AirDatesAssumption DEF YearsWritten
<1>2. CASE m = 12
  <2>1. NextYearMonth(<<y, m>>) = <<y + 1, 1>>
    BY <1>2 DEF NextYearMonth
  <2>2. QED
    BY <1>1, <2>1 DEF Months
<1>3. CASE m # 12
  <2>1. NextYearMonth(<<y, m>>) = <<y, m + 1>> /\ m + 1 \in 1..12
    BY <1>3 DEF NextYearMonth
  <2>2. QED
    BY <1>1, <2>1 DEF Months
<1>4. QED
  BY <1>2, <1>3

(* A month is a year and its number in it.                                 *)
LEMMA MonthsArePairs ==
  \A d \in Months : \E a \in Int, b \in 1..12 : d = <<a, b>>
BY AirDatesAssumption DEF Months, YearsWritten

(* So the interval holds the months that were chosen and no other.         *)
LEMMA DatesFollow == DatesInv => DatesAsChosen
<1> SUFFICES ASSUME DatesInv PROVE DatesAsChosen
  OBVIOUS
<1>1. CASE chosen = AllYears /\ dates = NoDates
  BY <1>1 DEF DatesAsChosen, AllYears
<1>2. CASE chosen \in Choice /\ dates = AirDateFilter(chosen)
  <2> DEFINE valid(d) == d[1] \in 1..LastYear /\ d[2] \in 1..12
  <2>1. PICK y \in Written, m \in Written, z \in Written, n \in Written :
          chosen.start = <<y, m>> /\ chosen.end = <<z, n>>
    BY <1>2 DEF Choice
  <2>2. Written \subseteq Int /\ y \in Int /\ z \in Int
    BY AirDatesAssumption
  <2>3. \A d \in Written \X Written : d \in YearMonth <=> valid(d)
    BY DEF YearMonth
  <2>4. CASE chosen.form = "year"
    <3>1. dates = IF y \in 1..LastYear THEN <<<<y, 1>>, <<y + 1, 1>>>>
                                       ELSE NoDates
      BY <1>2, <2>1, <2>4 DEF AirDateFilter
    <3>2. CASE y \in 1..LastYear
      <4>1. dates[1] = <<y, 1>> /\ dates[2] = <<y + 1, 1>>
        BY <3>1, <3>2
      <4>2. dates[1] \in Months /\ dates[2] \in Months
        BY <4>1, <2>1 DEF Months, YearsWritten
      <4>3. \A d \in Months :
              NotAfter(dates[1], d) /\ ~NotAfter(dates[2], d) <=> d[1] = y
        <5>1. ASSUME NEW a \in Int, NEW b \in 1..12
             PROVE  (NotAfter(dates[1], <<a, b>>)
                     /\ ~NotAfter(dates[2], <<a, b>>)) <=> a = y
          <6>1. /\ NotAfter(dates[1], <<a, b>>) <=> NotAfter(<<y, 1>>, <<a, b>>)
                /\ NotAfter(dates[2], <<a, b>>)
                     <=> NotAfter(<<y + 1, 1>>, <<a, b>>)
            BY <4>1, Zenon
          <6>2. QED
            BY <2>2, <6>1, MonthsOfYear
        <5>2. ASSUME NEW d \in Months
              PROVE  (NotAfter(dates[1], d) /\ ~NotAfter(dates[2], d))
                       <=> d[1] = y
          <6>1. PICK a \in Int, b \in 1..12 : d = <<a, b>>
            BY MonthsArePairs
          <6>2. d[1] = a
            BY <6>1
          <6>3. QED
            BY <5>1, <6>1, <6>2, Zenon
        <5>3. QED
          BY <5>2, Zenon
      <4>4. QED
        BY <2>1, <2>4, <3>2, <4>2, <4>3 DEF DatesAsChosen, Months, YearsWritten
    <3>3. CASE y \notin 1..LastYear
      BY <2>1, <2>4, <3>1, <3>3 DEF DatesAsChosen
    <3>4. QED
      BY <3>2, <3>3
  <2>5. CASE chosen.form = "month"
    <3>1. dates = IF valid(<<y, m>>)
                    THEN <<<<y, m>>, NextYearMonth(<<y, m>>)>> ELSE NoDates
      BY <1>2, <2>1, <2>3, <2>5 DEF AirDateFilter
    <3>2. CASE valid(<<y, m>>)
      <4>1. dates[1] = <<y, m>> /\ dates[2] = NextYearMonth(<<y, m>>)
        BY <3>1, <3>2
      <4>2. dates[1] \in Months /\ dates[2] \in Months
        <5>1. m \in 1..12
          BY <3>2
        <5>2. <<y, m>> \in Months /\ NextYearMonth(<<y, m>>) \in Months
          BY <2>1, <5>1, NextMonthIsThere
        <5>3. QED
          BY <4>1, <5>1, <5>2
      <4>3. \A d \in Months :
              NotAfter(dates[1], d) /\ ~NotAfter(dates[2], d) <=> d = <<y, m>>
        <5>1. m \in 1..12
          BY <3>2
        <5>2. ASSUME NEW a \in Int, NEW b \in 1..12
             PROVE  (NotAfter(dates[1], <<a, b>>)
                     /\ ~NotAfter(dates[2], <<a, b>>)) <=> <<a, b>> = <<y, m>>
          <6>1. /\ NotAfter(dates[1], <<a, b>>) <=> NotAfter(<<y, m>>, <<a, b>>)
                /\ NotAfter(dates[2], <<a, b>>)
                     <=> NotAfter(NextYearMonth(<<y, m>>), <<a, b>>)
            BY <4>1, Zenon
          <6>2. QED
            BY <2>2, <5>1, <6>1, MonthsInOrder
        <5>3. ASSUME NEW d \in Months
              PROVE  (NotAfter(dates[1], d) /\ ~NotAfter(dates[2], d))
                       <=> d = <<y, m>>
          <6>1. PICK a \in Int, b \in 1..12 : d = <<a, b>>
            BY MonthsArePairs
          <6>2. QED
            BY <5>2, <6>1, Zenon
        <5>4. QED
          BY <5>3, Zenon
      <4>4. QED
        BY <2>1, <2>5, <3>2, <4>2, <4>3 DEF DatesAsChosen, Months, YearsWritten
    <3>3. CASE ~valid(<<y, m>>)
      BY <2>1, <2>5, <3>1, <3>3 DEF DatesAsChosen
    <3>4. QED
      BY <3>2, <3>3
  <2>6. CASE chosen.form = "range"
    <3> DEFINE sound == /\ valid(<<y, m>>) /\ valid(<<z, n>>)
                        /\ NotAfter(<<y, m>>, <<z, n>>)
    <3>1. dates = IF sound THEN <<<<y, m>>, NextYearMonth(<<z, n>>)>>
                           ELSE NoDates
      BY <1>2, <2>1, <2>3, <2>6 DEF AirDateFilter
    <3>2. CASE sound
      <4>1. dates[1] = <<y, m>> /\ dates[2] = NextYearMonth(<<z, n>>)
        BY <3>1, <3>2
      <4>2. dates[1] \in Months /\ dates[2] \in Months
        <5>1. m \in 1..12 /\ n \in 1..12
          BY <3>2
        <5>2. <<y, m>> \in Months /\ NextYearMonth(<<z, n>>) \in Months
          BY <2>1, <5>1, NextMonthIsThere
        <5>3. QED
          BY <4>1, <5>1, <5>2
      <4>3. \A d \in Months :
              NotAfter(dates[1], d) /\ ~NotAfter(dates[2], d)
                <=> NotAfter(<<y, m>>, d) /\ NotAfter(d, <<z, n>>)
        <5>1. n \in 1..12
          BY <3>2
        <5>2. ASSUME NEW a \in Int, NEW b \in 1..12
             PROVE  (NotAfter(dates[1], <<a, b>>)
                     /\ ~NotAfter(dates[2], <<a, b>>))
                    <=> (/\ NotAfter(<<y, m>>, <<a, b>>)
                         /\ NotAfter(<<a, b>>, <<z, n>>))
          <6>1. /\ NotAfter(dates[1], <<a, b>>) <=> NotAfter(<<y, m>>, <<a, b>>)
                /\ NotAfter(dates[2], <<a, b>>)
                     <=> NotAfter(NextYearMonth(<<z, n>>), <<a, b>>)
            BY <4>1, Zenon
          <6>2. QED
            BY <2>2, <5>1, <6>1, MonthsInOrder
        <5>3. ASSUME NEW d \in Months
              PROVE  (NotAfter(dates[1], d) /\ ~NotAfter(dates[2], d))
                       <=> (NotAfter(<<y, m>>, d) /\ NotAfter(d, <<z, n>>))
          <6>1. PICK a \in Int, b \in 1..12 : d = <<a, b>>
            BY MonthsArePairs
          <6>2. QED
            BY <5>2, <6>1, Zenon
        <5>4. QED
          BY <5>3, Zenon
      <4>4. QED
        BY <2>1, <2>6, <3>2, <4>2, <4>3 DEF DatesAsChosen, Months, YearsWritten
    <3>3. CASE ~sound
      BY <2>1, <2>6, <3>1, <3>3 DEF DatesAsChosen
    <3>4. QED
      BY <3>2, <3>3
  <2>7. QED
    BY <1>2, <2>4, <2>5, <2>6 DEF Choice
<1>3. QED
  BY <1>1, <1>2 DEF DatesInv

(* The filter is made of the choice in one step, and the choice stays.     *)
LEMMA DatesKept ==
  /\ AirInit => DatesInv
  /\ DatesInv /\ (Limit \/ UNCHANGED airVars) => DatesInv'
<1>1. AirInit => DatesInv
  BY DEF AirInit, DatesInv
<1>2. ASSUME DatesInv, Limit PROVE DatesInv'
  BY <1>2 DEF Limit, DatesInv
<1>3. ASSUME DatesInv, UNCHANGED airVars PROVE DatesInv'
  BY <1>3 DEF airVars, DatesInv
<1>4. QED
  BY <1>1, <1>2, <1>3

-----------------------------------------------------------------------------
(* The details of a timetable.  Until the batch is over nothing is filled  *)
(* in; from then on each entry has what has become known of its anime.     *)
Told(anime) ==
  IF job.pc \in {"fallback", "done"} /\ anime.id \in job.known
    THEN Offered[anime.id] \ anime.own ELSE {}

HasDetails(anime) ==
  anime = [id |-> anime.id, own |-> anime.own, filled |-> Told(anime)]

DetailsInv ==
  /\ job = [pc |-> job.pc, modern |-> job.modern, animes |-> job.animes,
            left |-> job.left, known |-> job.known, pending |-> job.pending,
            pages |-> job.pages, arrived |-> job.arrived,
            extras |-> job.extras]
  /\ \A i \in DOMAIN job.animes : HasDetails(job.animes[i])
  /\ job.pc \in {"idle", "total", "pages"} => job.known = {}

DetailsNext == DetailCalls \/ DetailSteps

(* The entries of a timetable at first.                                    *)
LEMMA QuarterPlain ==
  ASSUME NEW animes \in Quarter, NEW i \in DOMAIN animes
  PROVE  animes[i] = [id |-> animes[i].id, own |-> animes[i].own,
                      filled |-> {}]
BY DetailsAssumption

(* What is applied to one entry.                                           *)
LEMMA AppliedFills ==
  ASSUME NEW id, NEW own, NEW f, NEW ids
  PROVE  Applied([id |-> id, own |-> own, filled |-> f], ids) =
           [id |-> id, own |-> own,
            filled |-> IF id \in ids THEN f \cup (Offered[id] \ own) ELSE f]
BY DEF Applied

(* Filling in reaches every entry whose anime is known, with what is not   *)
(* its own, and no other; the entries keep their places.                   *)
LEMMA FillReaches ==
  ASSUME NEW animes, NEW ids, NEW i \in DOMAIN animes,
         NEW id, NEW own, NEW f,
         animes[i] = [id |-> id, own |-> own, filled |-> f]
  PROVE  Fill(animes, ids)[i] =
           [id |-> id, own |-> own,
            filled |-> IF id \in ids THEN f \cup (Offered[id] \ own) ELSE f]
<1>1. Fill(animes, ids)[i] = Applied(animes[i], ids)
  BY DEF Fill
<1>2. QED
  BY <1>1, AppliedFills

(* A batch that is over is applied as a whole.                             *)
LEMMA FallsKeeps ==
  ASSUME NEW w, job' = Falls(w),
         w = [pc |-> w.pc, modern |-> w.modern, animes |-> w.animes,
              left |-> w.left, known |-> w.known, pending |-> w.pending,
              pages |-> w.pages, arrived |-> w.arrived, extras |-> w.extras],
         \A i \in DOMAIN w.animes :
           w.animes[i] = [id |-> w.animes[i].id, own |-> w.animes[i].own,
                          filled |-> {}]
  PROVE  DetailsInv'
<1>1. job' = [pc |-> "fallback", modern |-> w.modern,
              animes |-> Fill(w.animes, w.known), left |-> <<>>,
              known |-> w.known, pending |-> Ids(w.animes) \ w.known,
              pages |-> w.pages, arrived |-> w.arrived, extras |-> w.extras]
  BY DEF Falls
<1>2. /\ job'.animes = Fill(w.animes, w.known) /\ job'.known = w.known
      /\ job'.pc = "fallback"
  BY <1>1
<1>3. ASSUME NEW i \in DOMAIN job'.animes PROVE HasDetails(job.animes[i])'
  <2>1. i \in DOMAIN w.animes
    BY <1>2, <1>3 DEF Fill
  <2>2. PICK animes, known, a :
          animes = w.animes /\ known = w.known /\ a = animes[i]
    OBVIOUS
  <2>3. PICK id, own, f : id = a.id /\ own = a.own /\ f = {}
    OBVIOUS
  <2>4. i \in DOMAIN animes
        /\ animes[i] = [id |-> id, own |-> own, filled |-> f]
    BY <2>1, <2>2, <2>3
  <2>5. Fill(animes, known)[i] =
          [id |-> id, own |-> own,
           filled |-> IF id \in known THEN f \cup (Offered[id] \ own)
                                     ELSE f]
    BY <2>4, FillReaches
  <2>6. QED
    BY <1>2, <2>2, <2>3, <2>5 DEF HasDetails, Told
<1>4. QED
  BY <1>1, <1>2, <1>3 DEF DetailsInv

(* A call begins with a timetable in which nothing is filled in.           *)
LEMMA DetailCallsKeep == ASSUME DetailsInv, DetailCalls PROVE DetailsInv'
<1>1. ASSUME NEW animes \in Quarter, NEW w,
             w = [Idling EXCEPT !.pc = "batch", !.animes = animes,
                    !.left = DistinctIds(animes),
                    !.modern = mode = "modern"],
             job' = w \/ job' = Falls(w)
      PROVE  DetailsInv'
  <2>1. w = [pc |-> "batch", modern |-> mode = "modern", animes |-> animes,
             left |-> DistinctIds(animes), known |-> {}, pending |-> {},
             pages |-> <<>>, arrived |-> {}, extras |-> <<>>]
    BY <1>1 DEF Idling
  <2>2. w.animes = animes /\ w.pc = "batch" /\ w.known = {}
    BY <2>1
  <2>3. \A i \in DOMAIN w.animes :
          w.animes[i] = [id |-> w.animes[i].id, own |-> w.animes[i].own,
                         filled |-> {}]
    BY <2>2, QuarterPlain
  <2>4. w = [pc |-> w.pc, modern |-> w.modern, animes |-> w.animes,
             left |-> w.left, known |-> w.known, pending |-> w.pending,
             pages |-> w.pages, arrived |-> w.arrived, extras |-> w.extras]
    BY <2>1
  <2>5. CASE job' = Falls(w)
    BY <2>3, <2>4, <2>5, FallsKeeps
  <2>6. CASE job' = w
    BY <2>2, <2>3, <2>4, <2>6 DEF DetailsInv, HasDetails, Told
  <2>7. QED
    BY <1>1, <2>5, <2>6
<1>2. CASE FillDetails
  BY <1>1, <1>2 DEF FillDetails
<1>3. CASE FetchExtra
  <2>1. PICK animes \in Quarter, pages \in Season :
          job' = [Idling EXCEPT !.pc = "total", !.animes = animes,
                                !.pages = pages]
    BY <1>3 DEF FetchExtra
  <2>2. job' = [pc |-> "total", modern |-> FALSE, animes |-> animes,
                left |-> <<>>, known |-> {}, pending |-> {},
                pages |-> pages, arrived |-> {}, extras |-> <<>>]
    BY <2>1 DEF Idling
  <2>3. job'.animes = animes /\ job'.pc = "total" /\ job'.known = {}
    BY <2>2
  <2>4. QED
    BY <2>2, <2>3, QuarterPlain DEF DetailsInv, HasDetails, Told
<1>4. QED
  BY <1>2, <1>3 DEF DetailCalls

(* The batch: what a chunk brings becomes known, and is filled in when all *)
(* chunks were answered or have failed.                                    *)
LEMMA ChunkKeeps ==
  ASSUME DetailsInv, job.pc = "batch", NEW known, AfterChunk(known)
  PROVE  DetailsInv'
<1>1. PICK left :
        \E w : /\ w = [job EXCEPT !.left = left, !.known = @ \cup known]
               /\ job' = Falls(w) \/ job' = w
  BY DEF AfterChunk
<1>2. PICK w : /\ w = [job EXCEPT !.left = left, !.known = @ \cup known]
               /\ job' = Falls(w) \/ job' = w
  BY <1>1
<1>3. w = [pc |-> job.pc, modern |-> job.modern, animes |-> job.animes,
           left |-> left, known |-> job.known \cup known,
           pending |-> job.pending, pages |-> job.pages,
           arrived |-> job.arrived, extras |-> job.extras]
  BY <1>2 DEF DetailsInv
<1>4. w.animes = job.animes /\ w.pc = "batch"
      /\ w = [pc |-> w.pc, modern |-> w.modern, animes |-> w.animes,
              left |-> w.left, known |-> w.known, pending |-> w.pending,
              pages |-> w.pages, arrived |-> w.arrived, extras |-> w.extras]
  BY <1>3
<1>5. \A i \in DOMAIN w.animes :
        w.animes[i] = [id |-> w.animes[i].id, own |-> w.animes[i].own,
                       filled |-> {}]
  BY <1>4 DEF DetailsInv, HasDetails, Told
<1>6. CASE job' = Falls(w)
  BY <1>4, <1>5, <1>6, FallsKeeps
<1>7. CASE job' = w
  BY <1>4, <1>5, <1>7 DEF DetailsInv, HasDetails, Told
<1>8. QED
  BY <1>2, <1>6, <1>7

(* A request of its own fills in the entries of one more anime.            *)
LEMMA FallbackKeeps ==
  ASSUME DetailsInv, FallbackAnswered PROVE DetailsInv'
<1>1. PICK id : job' = [job EXCEPT !.pending = @ \ {id},
                                   !.known = @ \cup {id},
                                   !.animes = Fill(@, {id})]
  BY DEF FallbackAnswered
<1>2. job' = [pc |-> job.pc, modern |-> job.modern,
              animes |-> Fill(job.animes, {id}), left |-> job.left,
              known |-> job.known \cup {id}, pending |-> job.pending \ {id},
              pages |-> job.pages, arrived |-> job.arrived,
              extras |-> job.extras]
  BY <1>1 DEF DetailsInv
<1>3. /\ job'.animes = Fill(job.animes, {id}) /\ job'.pc = "fallback"
      /\ job'.known = job.known \cup {id} /\ job.pc = "fallback"
  BY <1>2 DEF FallbackAnswered
<1>4. ASSUME NEW i \in DOMAIN job'.animes PROVE HasDetails(job.animes[i])'
  <2>1. PICK animes, a : animes = job.animes /\ a = animes[i]
    OBVIOUS
  <2>2. i \in DOMAIN animes
    BY <1>3, <1>4, <2>1 DEF Fill
  <2>3. PICK x, own : x = a.id /\ own = a.own
    OBVIOUS
  <2>4. Fill(animes, {id})[i] =
          [id |-> x, own |-> own,
           filled |-> IF x \in {id} THEN Told(a) \cup (Offered[x] \ own)
                                   ELSE Told(a)]
    <3>1. animes[i] = [id |-> x, own |-> own, filled |-> Told(a)]
      BY <2>1, <2>2, <2>3 DEF DetailsInv, HasDetails
    <3>2. QED
      BY <2>2, <3>1, FillReaches
  <2>5. PICK b : b = job'.animes[i]
    OBVIOUS
  <2>6. b = [id |-> a.id, own |-> a.own,
             filled |-> IF a.id = id
                          THEN Told(a) \cup (Offered[a.id] \ a.own)
                          ELSE Told(a)]
    BY <1>3, <2>1, <2>3, <2>4, <2>5
  <2>7. b.id = a.id /\ b.own = a.own
    BY <2>6
  <2>8. Told(b)' = IF a.id \in job.known \cup {id}
                     THEN Offered[a.id] \ a.own ELSE {}
    BY <1>3, <2>7 DEF Told
  <2>9. Told(a) = IF a.id \in job.known THEN Offered[a.id] \ a.own ELSE {}
    BY <1>3 DEF Told
  <2>10. b = [id |-> b.id, own |-> b.own, filled |-> Told(b)']
    <3>1. CASE a.id = id
      BY <2>6, <2>7, <2>8, <2>9, <3>1
    <3>2. CASE a.id # id
      BY <2>6, <2>7, <2>8, <2>9, <3>2
    <3>3. QED
      BY <3>1, <3>2
  <2>11. QED
    BY <2>5, <2>10 DEF HasDetails
<1>5. QED
  BY <1>2, <1>3, <1>4 DEF DetailsInv

(* All other steps leave the entries and what is known alone, and the ends *)
(* come with nothing known or after the fallback.                          *)
LEMMA OtherDetailsKeep ==
  ASSUME DetailsInv,
         \/ FallbackFailed \/ Filled \/ TotalAnswered \/ TotalFailed
         \/ PageArrives \/ PageFails \/ Merge
  PROVE  DetailsInv'
<1>1. /\ job' = [pc |-> job'.pc, modern |-> job'.modern,
                 animes |-> job'.animes, left |-> job'.left,
                 known |-> job'.known, pending |-> job'.pending,
                 pages |-> job'.pages, arrived |-> job'.arrived,
                 extras |-> job'.extras]
      /\ job'.animes = job.animes /\ job'.known = job.known
      /\ \/ job.pc = "fallback" /\ job'.pc \in {"fallback", "done"}
         \/ job.pc \in {"total", "pages"}
            /\ job'.pc \in {"total", "pages", "done"}
  <2>1. PICK j : j = job
    OBVIOUS
  <2>2. j = [pc |-> j.pc, modern |-> j.modern, animes |-> j.animes,
             left |-> j.left, known |-> j.known, pending |-> j.pending,
             pages |-> j.pages, arrived |-> j.arrived, extras |-> j.extras]
    BY <2>1 DEF DetailsInv
  <2>3. CASE FallbackFailed
    BY <2>1, <2>2, <2>3 DEF FallbackFailed
  <2>4. CASE Filled
    BY <2>1, <2>2, <2>4 DEF Filled
  <2>5. CASE TotalAnswered
    <3>1. CASE job.pages = <<>>
      BY <2>1, <2>2, <2>5, <3>1 DEF TotalAnswered
    <3>2. CASE job.pages # <<>>
      BY <2>1, <2>2, <2>5, <3>2 DEF TotalAnswered
    <3>3. QED
      BY <3>1, <3>2
  <2>6. CASE TotalFailed
    BY <2>1, <2>2, <2>6 DEF TotalFailed
  <2>7. CASE PageArrives
    BY <2>1, <2>2, <2>7 DEF PageArrives
  <2>8. CASE PageFails
    BY <2>1, <2>2, <2>8 DEF PageFails
  <2>9. CASE Merge
    <3>1. PICK out : job' = [job EXCEPT !.pc = "done", !.extras = out]
      BY <2>9 DEF Merge
    <3>2. job.pc = "pages"
      BY <2>9 DEF Merge
    <3>3. QED
      BY <2>1, <2>2, <3>1, <3>2
  <2>10. QED
    BY <2>3, <2>4, <2>5, <2>6, <2>7, <2>8, <2>9
<1>2. ASSUME NEW i \in DOMAIN job'.animes PROVE HasDetails(job.animes[i])'
  <2>1. PICK a : a = job.animes[i] /\ a = job'.animes[i] /\ HasDetails(a)
    BY <1>1, <1>2 DEF DetailsInv
  <2>2. Told(a)' = Told(a)
    BY <1>1 DEF DetailsInv, Told
  <2>3. QED
    BY <2>1, <2>2 DEF HasDetails
<1>3. job'.pc \in {"idle", "total", "pages"} => job'.known = {}
  BY <1>1 DEF DetailsInv
<1>4. QED
  BY <1>1, <1>2, <1>3 DEF DetailsInv

(* So every step keeps it.                                                 *)
LEMMA DetailsStep == DetailsInv /\ [DetailsNext]_detailVars => DetailsInv'
<1> SUFFICES ASSUME DetailsInv, [DetailsNext]_detailVars PROVE DetailsInv'
  OBVIOUS
<1>1. CASE UNCHANGED detailVars
  BY <1>1 DEF detailVars, DetailsInv, HasDetails, Told
<1>2. CASE DetailSteps
  <2>1. CASE ChunkAnswered \/ ChunkFailed
    BY <2>1, ChunkKeeps DEF ChunkAnswered, ChunkFailed
  <2>2. QED
    BY <1>2, <2>1, FallbackKeeps, OtherDetailsKeep DEF DetailSteps
<1>3. QED
  BY <1>1, <1>2, DetailCallsKeep DEF DetailsNext

(* Nothing is filled in before the first call; and the invariant gives     *)
(* every entry what is known of it.                                        *)
LEMMA DetailsReach ==
  /\ DetailsInit => DetailsInv
  /\ DetailsInv => DetailsReachEveryEntry
<1>1. DetailsInit => DetailsInv
  BY DEF DetailsInit, Idling, DetailsInv
<1>2. ASSUME DetailsInv, job.pc \in {"fallback", "done"},
             NEW i \in DOMAIN job.animes
      PROVE  job.animes[i].filled =
               IF job.animes[i].id \in job.known
                 THEN Offered[job.animes[i].id] \ job.animes[i].own ELSE {}
  <2>1. PICK a : a = job.animes[i] /\ HasDetails(a)
    BY <1>2 DEF DetailsInv
  <2>2. a.filled = Told(a)
    BY <2>1 DEF HasDetails
  <2>3. QED
    BY <1>2, <2>1, <2>2 DEF Told
<1>3. QED
  BY <1>1, <1>2 DEF DetailsReachEveryEntry

(* What a quarter is completed with.                                       *)
Collected == [seen : SUBSET Nat, out : Seq(BangumiRow)]
Afresh(c, row) == NewRow(c.seen, c.out, row)

(* A row leaves a collection of rows.                                      *)
LEMMA AfreshIs ==
  ASSUME NEW c \in Collected, NEW row \in BangumiRow
  PROVE  /\ Afresh(c, row) \in Collected
         /\ Titled(row) /\ row.id \notin c.seen =>
              /\ Afresh(c, row).seen = c.seen \cup {row.id}
              /\ Afresh(c, row).out = Append(c.out, row)
         /\ ~ (Titled(row) /\ row.id \notin c.seen) => Afresh(c, row) = c
<1>1. row.id \in Nat
  BY DEF BangumiRow, RowsOver
<1>2. c.seen \in SUBSET Nat /\ c.out \in Seq(BangumiRow)
      /\ c = [seen |-> c.seen, out |-> c.out]
  BY DEF Collected
<1>3. PICK out \in Seq(BangumiRow) : out = Append(c.out, row)
  <2>1. PICK list \in Seq(BangumiRow) : list = c.out
    BY <1>2
  <2>2. Append(list, row) \in Seq(BangumiRow)
    OBVIOUS
  <2>3. QED
    BY <2>1, <2>2
<1>4. PICK seen \in SUBSET Nat : seen = c.seen \cup {row.id}
  BY <1>1, <1>2
<1>5. CASE Titled(row) /\ row.id \notin c.seen
  <2>1. Afresh(c, row) = [seen |-> seen, out |-> out]
    BY <1>3, <1>4, <1>5 DEF Afresh, NewRow
  <2>2. QED
    BY <1>3, <1>4, <1>5, <2>1 DEF Collected
<1>6. CASE ~ (Titled(row) /\ row.id \notin c.seen)
  BY <1>2, <1>6 DEF Afresh, NewRow
<1>7. QED
  BY <1>5, <1>6

(* The fold that collects them, as the list of what it holds after each.   *)
LEMMA NewRowsSteps ==
  ASSUME NEW rows \in Seq(BangumiRow), NEW old \in SUBSET Nat
  PROVE  \E acc \in [0..Len(rows) -> Collected] :
           /\ acc[0] = [seen |-> old, out |-> <<>>]
           /\ acc[Len(rows)] = NewRows(old, rows)
           /\ \A n \in 0..(Len(rows) - 1) :
                acc[n + 1] = Afresh(acc[n], rows[n + 1])
<1>1. PICK N \in Nat : N = Len(rows) /\ DOMAIN rows = 1..N
  OBVIOUS
<1>2. PICK Acc : Acc = Collected
  OBVIOUS
<1>3. \A d \in Acc, i \in 1..N : Afresh(d, rows[i]) \in Acc
  <2> TAKE d \in Acc, i \in 1..N
  <2>1. rows[i] \in BangumiRow
    BY <1>1
  <2>2. QED
    BY <1>2, <2>1, AfreshIs
<1>4. PICK step \in StepOn(N, Acc) :
        \A d \in Acc, i \in 1..N : step[<<d, i>>] = Afresh(d, rows[i])
  <2> DEFINE f == [p \in Acc \X (1..N) |-> Afresh(p[1], rows[p[2]])]
  <2>1. f \in StepOn(N, Acc)
    <3>1. \A p \in Acc \X (1..N) : p[1] \in Acc /\ p[2] \in 1..N
      OBVIOUS
    <3>2. QED
      BY <1>3, <3>1 DEF StepOn
  <2>2. \A d \in Acc, i \in 1..N : f[<<d, i>>] = Afresh(d, rows[i])
    OBVIOUS
  <2>3. QED
    BY <2>1, <2>2
<1>5. PICK base \in Acc : base = [seen |-> old, out |-> <<>>]
  <2>1. <<>> \in Seq(BangumiRow)
    OBVIOUS
  <2>2. QED
    BY <1>2, <2>1 DEF Collected
<1>6. PICK h \in [SUBSET (1..N) -> Acc] : FoldsBy(h, N, base, step)
  BY FoldExists
<1>7. \A U \in SUBSET (1..N) :
        U # {} => Max(U) \in 1..N /\ U \ {Max(U)} \in SUBSET (1..N)
  BY MaxIs
<1>8. PICK it : /\ NewRows(old, rows) = it[DOMAIN rows] /\ it[{}] = base
                /\ \A U \in SUBSET (1..N) : U # {} =>
                     it[U] = Afresh(it[U \ {Max(U)}], rows[Max(U)])
  <2> DEFINE Rec(f) == [U \in SUBSET DOMAIN rows |->
                         IF U = {} THEN [seen |-> old, out |-> <<>>]
                         ELSE Afresh(f[U \ {Max(U)}], rows[Max(U)])]
  <2>1. PICK it : /\ it = (CHOOSE f : f = Rec(f))
                  /\ NewRows(old, rows) = it[DOMAIN rows]
    BY Zenon DEF NewRows, FoldLeft, MapThenFoldSet, Afresh
  <2>2. \A U \in SUBSET (1..N) : U # {} =>
          step[<<h[U \ {Max(U)}], Max(U)>>]
            = Afresh(h[U \ {Max(U)}], rows[Max(U)])
    BY <1>4, <1>7
  <2>3. \A U \in SUBSET (1..N) :
          h[U] = IF U = {} THEN [seen |-> old, out |-> <<>>]
                 ELSE Afresh(h[U \ {Max(U)}], rows[Max(U)])
    BY <1>5, <1>6, <2>2 DEF FoldsBy
  <2>4. h = Rec(h)
    BY <1>1, <2>3
  <2>5. it = Rec(it)
    BY <2>1, <2>4, Zenon
  <2>6. {} \in SUBSET DOMAIN rows
    OBVIOUS
  <2>7. QED
    BY <1>1, <1>5, <2>1, <2>5, <2>6
<1>9. FoldsWithin(it, N, Acc, base, step)
  BY <1>4, <1>7, <1>8 DEF FoldsWithin
<1>10. PICK acc \in [0..N -> Acc] :
         acc[N] = it[1..N] /\ GoesBy(acc, N, base, step)
  BY <1>9, FoldSteps
<1>11. \A n \in 0..(N - 1) : acc[n + 1] = Afresh(acc[n], rows[n + 1])
  <2> TAKE n \in 0..(N - 1)
  <2>1. acc[n] \in Acc /\ n + 1 \in 1..N
    BY <1>10
  <2>2. acc[n + 1] = step[<<acc[n], n + 1>>]
    BY <1>10 DEF GoesBy
  <2>3. PICK d \in Acc, i \in 1..N : d = acc[n] /\ i = n + 1
    BY <2>1
  <2>4. QED
    BY <1>4, <2>2, <2>3
<1>12. QED
  BY <1>1, <1>2, <1>5, <1>8, <1>10, <1>11 DEF GoesBy

(* What is there after so many rows: each id with a title that is new.     *)
NewUpTo(c, old, rows, n) ==
  /\ \A i, j \in DOMAIN c.out : c.out[i].id = c.out[j].id => i = j
  /\ \A i \in DOMAIN c.out : \E k \in 1..n :
       Titled(rows[k]) /\ c.out[i].id = rows[k].id /\ rows[k].id \notin old
  /\ \A k \in 1..n : Titled(rows[k]) /\ rows[k].id \notin old =>
       \E i \in DOMAIN c.out : c.out[i].id = rows[k].id
  /\ \A x : x \in c.seen <=>
              x \in old \/ \E i \in DOMAIN c.out : c.out[i].id = x

(* A row more.                                                             *)
LEMMA NewGoesOn ==
  ASSUME NEW old, NEW rows \in Seq(BangumiRow), NEW n \in 0..(Len(rows) - 1),
         NEW c \in Collected, NewUpTo(c, old, rows, n)
  PROVE  NewUpTo(Afresh(c, rows[n + 1]), old, rows, n + 1)
<1>1. PICK m \in 1..Len(rows), r \in BangumiRow : m = n + 1 /\ r = rows[m]
  OBVIOUS
<1>2. \A k \in 1..m : k \in 1..n \/ k = m
  BY <1>1
<1>3. \A k \in 1..n : k \in 1..m
  BY <1>1
<1>4. CASE ~ (Titled(r) /\ r.id \notin c.seen)
  <2>1. Afresh(c, r) = c
    BY <1>4, AfreshIs
  <2>2. Titled(r) /\ r.id \notin old =>
          \E i \in DOMAIN c.out : c.out[i].id = r.id
    BY <1>4 DEF NewUpTo
  <2>3. NewUpTo(c, old, rows, m)
    BY <1>1, <1>2, <1>3, <2>2 DEF NewUpTo
  <2>4. QED
    BY <1>1, <2>1, <2>3
<1>5. CASE Titled(r) /\ r.id \notin c.seen
  <2>1. PICK more, out, next : /\ more = Append(c.out, r) /\ out = c.out
                               /\ next = Afresh(c, r)
    OBVIOUS
  <2>2. next.seen = c.seen \cup {r.id} /\ next.out = more
    BY <1>5, <2>1, AfreshIs
  <2>3. PICK N \in Nat : N = Len(out) /\ DOMAIN out = 1..N
    BY <2>1 DEF Collected
  <2>4. /\ DOMAIN more = 1..(N + 1) /\ more[N + 1] = r
        /\ \A i \in 1..N : more[i] = out[i]
    BY <2>1, <2>3 DEF Collected
  <2>5. \A i \in 1..(N + 1) : i \in 1..N \/ i = N + 1
    BY <2>3
  <2>6. \A i \in 1..N : i \in 1..(N + 1)
    BY <2>3
  <2>7. \A i \in DOMAIN out : out[i].id # r.id
    BY <1>5, <2>1 DEF NewUpTo
  <2>8. r.id \notin old
    BY <1>5 DEF NewUpTo
  <2>9. \A i, j \in DOMAIN more : more[i].id = more[j].id => i = j
    BY <2>1, <2>3, <2>4, <2>5, <2>7 DEF NewUpTo
  <2>10. \A i \in DOMAIN more : \E k \in 1..m :
           Titled(rows[k]) /\ more[i].id = rows[k].id /\ rows[k].id \notin old
    <3> TAKE i \in DOMAIN more
    <3>1. CASE i \in 1..N
      <4>1. PICK k \in 1..n : Titled(rows[k]) /\ out[i].id = rows[k].id
                              /\ rows[k].id \notin old
        BY <2>1, <2>3, <3>1 DEF NewUpTo
      <4>2. QED
        BY <1>3, <2>4, <3>1, <4>1
    <3>2. CASE i = N + 1
      <4>1. m \in 1..m
        OBVIOUS
      <4>2. QED
        BY <1>1, <1>5, <2>4, <2>8, <3>2, <4>1
    <3>3. QED
      BY <2>4, <2>5, <3>1, <3>2
  <2>11. \A k \in 1..m : Titled(rows[k]) /\ rows[k].id \notin old =>
           \E i \in DOMAIN more : more[i].id = rows[k].id
    <3> TAKE k \in 1..m
    <3> HAVE Titled(rows[k]) /\ rows[k].id \notin old
    <3>1. CASE k \in 1..n
      <4>1. PICK i \in DOMAIN out : out[i].id = rows[k].id
        BY <2>1, <3>1 DEF NewUpTo
      <4>2. QED
        BY <2>3, <2>4, <2>6, <4>1
    <3>2. CASE k = m
      <4>1. N + 1 \in DOMAIN more
        BY <2>3, <2>4
      <4>2. QED
        BY <1>1, <2>4, <3>2, <4>1
    <3>3. QED
      BY <1>2, <3>1, <3>2
  <2>12. \A x : x \in next.seen <=>
                  x \in old \/ \E i \in DOMAIN more : more[i].id = x
    <3> TAKE x
    <3>1. x \in next.seen <=> x \in c.seen \/ x = r.id
      BY <2>2
    <3>2. (\E i \in DOMAIN more : more[i].id = x)
            <=> (\E i \in DOMAIN out : out[i].id = x) \/ x = r.id
      <4>1. N + 1 \in DOMAIN more
        BY <2>3, <2>4
      <4>2. QED
        BY <2>3, <2>4, <2>5, <2>6, <4>1
    <3>3. QED
      BY <2>1, <3>1, <3>2 DEF NewUpTo
  <2>13. NewUpTo(next, old, rows, m)
    BY <2>2, <2>9, <2>10, <2>11, <2>12 DEF NewUpTo
  <2>14. QED
    BY <1>1, <2>1, <2>13
<1>6. QED
  BY <1>4, <1>5

(* What a list of rows adds to some ids: each id once, and all new ones.   *)
Completes(out, old, rows) ==
  /\ IsInjective([i \in DOMAIN out |-> out[i].id])
  /\ {out[i].id : i \in DOMAIN out} =
       {r.id : r \in {q \in rows : Titled(q)}} \ old

(* So what a quarter is completed with is new, there once, and all of it.  *)
LEMMA NewRowsAre ==
  ASSUME NEW rows \in Seq(BangumiRow), NEW old \in SUBSET Nat,
         NEW out, out = NewRows(old, rows).out
  PROVE  Completes(out, old, ToSet(rows))
<1>1. PICK acc \in [0..Len(rows) -> Collected] :
        /\ acc[0] = [seen |-> old, out |-> <<>>]
        /\ acc[Len(rows)] = NewRows(old, rows)
        /\ \A n \in 0..(Len(rows) - 1) :
             acc[n + 1] = Afresh(acc[n], rows[n + 1])
  BY NewRowsSteps
<1>2. PICK N \in Nat : N = Len(rows) /\ DOMAIN rows = 1..N
  OBVIOUS
<1>3. PICK T : T = {n \in 0..N : NewUpTo(acc[n], old, rows, n)}
  OBVIOUS
<1>4. 0 \in T
  <2>1. acc[0].seen = old /\ acc[0].out = <<>>
    BY <1>1
  <2>2. NewUpTo(acc[0], old, rows, 0)
    BY <2>1 DEF NewUpTo
  <2>3. QED
    BY <1>3, <2>2
<1>5. \A n \in 0..(N - 1) : n \in T => n + 1 \in T
  <2> SUFFICES ASSUME NEW n \in 0..(N - 1), n \in T PROVE n + 1 \in T
    OBVIOUS
  <2>1. acc[n] \in Collected /\ NewUpTo(acc[n], old, rows, n)
    BY <1>1, <1>2, <1>3
  <2>2. NewUpTo(Afresh(acc[n], rows[n + 1]), old, rows, n + 1)
    BY <1>2, <2>1, NewGoesOn
  <2>3. QED
    BY <1>1, <1>2, <1>3, <2>2
<1>6. PICK end : end = NewRows(old, rows) /\ NewUpTo(end, old, rows, N)
  <2>1. \A n \in 0..N : n \in T
    BY <1>4, <1>5, Induct
  <2>2. N \in T
    BY <2>1
  <2>3. QED
    BY <1>1, <1>2, <1>3, <2>2
<1>7. \A x : x \in {r.id : r \in {q \in ToSet(rows) : Titled(q)}}
             <=> \E k \in 1..N : Titled(rows[k]) /\ x = rows[k].id
  BY <1>2 DEF ToSet
<1>8. end.out = out
  BY <1>6
<1>9. IsInjective([i \in DOMAIN out |-> out[i].id])
  BY <1>6, <1>8 DEF NewUpTo, IsInjective
<1>10. ASSUME NEW x, x \in {out[i].id : i \in DOMAIN out}
       PROVE  x \in {r.id : r \in {q \in ToSet(rows) : Titled(q)}} \ old
  <2>1. PICK i \in DOMAIN out : x = out[i].id
    BY <1>10
  <2>2. PICK k \in 1..N : Titled(rows[k]) /\ out[i].id = rows[k].id
                          /\ rows[k].id \notin old
    BY <1>6, <1>8 DEF NewUpTo
  <2>3. QED
    BY <1>7, <2>1, <2>2
<1>11. ASSUME NEW x,
              x \in {r.id : r \in {q \in ToSet(rows) : Titled(q)}} \ old
       PROVE  x \in {out[i].id : i \in DOMAIN out}
  <2>1. PICK k \in 1..N : Titled(rows[k]) /\ x = rows[k].id
    BY <1>7, <1>11
  <2>2. PICK i \in DOMAIN out : out[i].id = rows[k].id
    BY <1>6, <1>8, <1>11, <2>1 DEF NewUpTo
  <2>3. QED
    BY <2>1, <2>2
<1>12. QED
  BY <1>9, <1>10, <1>11 DEF Completes

(* The pages of a search that arrived, in their places, and what they have.*)
ReadOf(pages, arrived) ==
  [p \in DOMAIN pages |-> IF p \in arrived THEN pages[p] ELSE <<>>]
AllOf(pages, arrived) == UNION {ToSet(pages[p]) : p \in arrived}

(* One after the other they have just that.                                *)
LEMMA ArrivedFlat ==
  ASSUME NEW R, NEW pages \in Seq(Seq(R)), NEW arrived, NEW rows,
         arrived \subseteq DOMAIN pages,
         rows = FlattenSeq(ReadOf(pages, arrived))
  PROVE  rows \in Seq(R) /\ ToSet(rows) = AllOf(pages, arrived)
<1>0. PICK read : read = ReadOf(pages, arrived)
  OBVIOUS
<1>1. read = [p \in DOMAIN pages |->
                IF p \in arrived THEN pages[p] ELSE <<>>]
  BY <1>0 DEF ReadOf
<1>2. PICK N \in Nat : DOMAIN pages = 1..N
  OBVIOUS
<1>3. \A p \in 1..N : read[p] \in Seq(R)
  <2> TAKE p \in 1..N
  <2>1. pages[p] \in Seq(R) /\ <<>> \in Seq(R)
    BY <1>2
  <2>2. QED
    BY <1>1, <1>2, <2>1
<1>4. read \in Seq(Seq(R)) /\ DOMAIN read = DOMAIN pages
  BY <1>1, <1>2, <1>3
<1>5. /\ rows \in Seq(R)
      /\ ToSet(rows) = UNION {ToSet(read[p]) : p \in DOMAIN read}
  <2>1. rows = FlattenSeq(read)
    BY <1>0
  <2>2. QED
    BY <1>4, <2>1, FlattenIs
<1>6. ToSet(<<>>) = {}
  BY DEF ToSet
<1>7. \A p \in DOMAIN pages :
        ToSet(read[p]) = IF p \in arrived THEN ToSet(pages[p]) ELSE {}
  BY <1>1, <1>6
<1> DEFINE A(p) == ToSet(read[p])
           B(p) == ToSet(pages[p])
<1> HIDE DEF A, B
<1>8. \A p \in DOMAIN pages : A(p) = IF p \in arrived THEN B(p) ELSE {}
  BY <1>7 DEF A, B
<1>9. UNION {A(p) : p \in DOMAIN pages} = UNION {B(p) : p \in arrived}
  <2>1. ASSUME NEW x, x \in UNION {A(p) : p \in DOMAIN pages}
        PROVE  x \in UNION {B(p) : p \in arrived}
    <3>1. PICK p \in DOMAIN pages : x \in A(p)
      BY <2>1
    <3>2. QED
      BY <1>8, <3>1
  <2>2. ASSUME NEW x, x \in UNION {B(p) : p \in arrived}
        PROVE  x \in UNION {A(p) : p \in DOMAIN pages}
    <3>1. PICK p \in arrived : x \in B(p)
      BY <2>2
    <3>2. p \in DOMAIN pages /\ x \in A(p)
      BY <1>8, <3>1
    <3>3. QED
      BY <3>2
  <2>3. QED
    BY <2>1, <2>2
<1>10. QED
  BY <1>4, <1>5, <1>9 DEF A, B, AllOf

(* The pages of a search are all that was fetched; until some arrive there *)
(* is nothing to complete a quarter with.                                  *)
ExtrasInv ==
  /\ job.pc \in {"total", "pages"} =>
       /\ job.pages \in Seq(Seq(BangumiRow))
       /\ job.arrived \subseteq DOMAIN job.pages
  /\ job.pc \in {"total", "pages"} => Ids(job.animes) \subseteq Nat
  /\ job.pc \in {"idle", "batch", "fallback", "total"} => job.arrived = {}
  /\ job.pc = "pages" => job.pending \subseteq DOMAIN job.pages
  /\ ExtrasAreNew

(* The ids of a timetable.                                                 *)
LEMMA QuarterIds ==
  ASSUME NEW animes \in Quarter PROVE Ids(animes) \subseteq Nat
BY DetailsAssumption DEF Ids

(* The promise in these terms.                                             *)
LEMMA NewExtras ==
  /\ ExtrasAreNew <=>
       (job.pc = "done" /\ job.arrived # {} =>
          Completes(job.extras, Ids(job.animes),
                    AllOf(job.pages, job.arrived)))
  /\ ExtrasAreNew' <=>
       (job'.pc = "done" /\ job'.arrived # {} =>
          Completes(job'.extras, Ids(job'.animes),
                    AllOf(job'.pages, job'.arrived)))
BY Zenon DEF ExtrasAreNew, Completes, AllOf, Ids

(* A quarter is completed.                                                 *)
LEMMA MergeKeepsExtras ==
  ASSUME DetailsInv, ExtrasInv, Merge PROVE ExtrasInv'
<1> PICK arrived : arrived = job.arrived
  OBVIOUS
<1>1. PICK pages \in Seq(Seq(BangumiRow)) :
        pages = job.pages /\ arrived = job.arrived
  BY DEF Merge, ExtrasInv
<1>2. PICK rows : rows = FlattenSeq(ReadOf(pages, arrived))
  OBVIOUS
<1>3. rows \in Seq(BangumiRow) /\ ToSet(rows) = AllOf(pages, arrived)
  <2>1. arrived \subseteq DOMAIN pages
    BY <1>1 DEF Merge, ExtrasInv
  <2>2. QED
    BY <1>2, <2>1, ArrivedFlat
<1>4. PICK old \in SUBSET Nat : old = Ids(job.animes)
  BY DEF Merge, ExtrasInv
<1>5. PICK out : out = NewRows(old, rows).out
  OBVIOUS
<1>6. job' = [job EXCEPT !.pc = "done", !.extras = out]
  BY <1>1, <1>2, <1>4, <1>5, Zenon DEF Merge, ReadOf
<1>7. /\ job'.pc = "done" /\ job'.extras = out /\ job'.animes = job.animes
      /\ job'.pages = pages /\ job'.arrived = arrived
  BY <1>1, <1>6 DEF DetailsInv
<1>8. Completes(out, old, ToSet(rows))
  BY <1>3, <1>5, NewRowsAre
<1>9. Ids(job'.animes) = old
  BY <1>4, <1>7
<1>10. ExtrasAreNew'
  BY <1>3, <1>7, <1>8, <1>9, NewExtras
<1>11. QED
  BY <1>7, <1>10 DEF ExtrasInv

(* All that is not about pages.                                            *)
LEMMA FillingKeepsExtras ==
  ASSUME DetailsInv, ExtrasInv,
         \/ ChunkAnswered \/ ChunkFailed \/ FallbackAnswered
         \/ FallbackFailed \/ Filled
  PROVE  ExtrasInv'
<1>1. PICK j : j = job /\ j.arrived = {}
  BY DEF ExtrasInv, ChunkAnswered, ChunkFailed, FallbackAnswered,
         FallbackFailed, Filled
<1>2. j = [pc |-> j.pc, modern |-> j.modern, animes |-> j.animes,
           left |-> j.left, known |-> j.known, pending |-> j.pending,
           pages |-> j.pages, arrived |-> j.arrived, extras |-> j.extras]
  BY <1>1 DEF DetailsInv
<1>3. /\ job'.arrived = {} /\ job'.pc \in {"batch", "fallback", "done"}
  <2>1. CASE ChunkAnswered \/ ChunkFailed
    <3>1. PICK known : j.pc = "batch" /\ AfterChunk(known)
      BY <1>1, <2>1 DEF ChunkAnswered, ChunkFailed
    <3>2. PICK left, w : /\ w = [j EXCEPT !.left = left,
                                          !.known = j.known \cup known]
                         /\ job' = Falls(w) \/ job' = w
      BY <1>1, <3>1 DEF AfterChunk
    <3>3. w.arrived = {} /\ w.pc = "batch"
          /\ w = [pc |-> w.pc, modern |-> w.modern, animes |-> w.animes,
                  left |-> w.left, known |-> w.known,
                  pending |-> w.pending, pages |-> w.pages,
                  arrived |-> w.arrived, extras |-> w.extras]
      BY <1>1, <1>2, <3>1, <3>2
    <3>4. QED
      BY <3>2, <3>3 DEF Falls
  <2>2. CASE FallbackAnswered
    BY <1>1, <1>2, <2>2 DEF FallbackAnswered
  <2>3. CASE FallbackFailed \/ Filled
    BY <1>1, <1>2, <2>3 DEF FallbackFailed, Filled
  <2>4. QED
    BY <2>1, <2>2, <2>3
<1>4. QED
  BY <1>3 DEF ExtrasInv, ExtrasAreNew

(* Calls and the arrival of pages.                                         *)
LEMMA PagesKeepExtras ==
  ASSUME DetailsInv, ExtrasInv,
         \/ TotalAnswered \/ TotalFailed \/ PageArrives \/ PageFails
  PROVE  ExtrasInv'
<1>1. PICK j : j = job
  OBVIOUS
<1>2. j = [pc |-> j.pc, modern |-> j.modern, animes |-> j.animes,
           left |-> j.left, known |-> j.known, pending |-> j.pending,
           pages |-> j.pages, arrived |-> j.arrived, extras |-> j.extras]
  BY <1>1 DEF DetailsInv
<1>3. CASE TotalAnswered /\ job.pages # <<>>
  <2>1. /\ job'.pc = "pages" /\ job'.pages = j.pages
        /\ job'.arrived = j.arrived /\ job'.animes = j.animes
        /\ job'.pending = DOMAIN j.pages
    BY <1>1, <1>2, <1>3 DEF TotalAnswered
  <2>2. QED
    BY <1>1, <1>3, <2>1 DEF ExtrasInv, ExtrasAreNew, TotalAnswered, Ids
<1>4. CASE TotalFailed \/ (TotalAnswered /\ job.pages = <<>>)
  <2>1. job'.pc = "done" /\ job'.arrived = {}
    BY <1>1, <1>2, <1>4 DEF TotalAnswered, TotalFailed, ExtrasInv
  <2>2. QED
    BY <2>1 DEF ExtrasInv, ExtrasAreNew
<1>5. CASE PageArrives \/ PageFails
  <2>1. PICK p \in j.pending :
          /\ job'.pc = "pages" /\ job'.pages = j.pages
          /\ job'.arrived \in {j.arrived, j.arrived \cup {p}}
          /\ job'.animes = j.animes /\ job'.pending = j.pending \ {p}
    <3>1. CASE PageArrives
      BY <1>1, <1>2, <3>1 DEF PageArrives
    <3>2. CASE PageFails
      BY <1>1, <1>2, <3>2 DEF PageFails
    <3>3. QED
      BY <1>5, <3>1, <3>2
  <2>2. job.pc = "pages"
    BY <1>5 DEF PageArrives, PageFails
  <2>3. QED
    BY <1>1, <2>1, <2>2 DEF ExtrasInv, ExtrasAreNew, Ids
<1>6. QED
  BY <1>3, <1>4, <1>5

(* A call begins.                                                          *)
LEMMA CallsKeepExtras ==
  ASSUME DetailCalls PROVE ExtrasInv'
<1>1. ASSUME NEW animes \in Quarter, NEW w,
             w = [Idling EXCEPT !.pc = "batch", !.animes = animes,
                    !.left = DistinctIds(animes),
                    !.modern = mode = "modern"],
             job' = w \/ job' = Falls(w)
      PROVE  ExtrasInv'
  <2>1. w = [pc |-> "batch", modern |-> mode = "modern", animes |-> animes,
             left |-> DistinctIds(animes), known |-> {}, pending |-> {},
             pages |-> <<>>, arrived |-> {}, extras |-> <<>>]
    BY <1>1 DEF Idling
  <2>2. job'.arrived = {} /\ job'.pc \in {"batch", "fallback"}
    <3>1. w.arrived = {} /\ w.pc = "batch"
          /\ w = [pc |-> w.pc, modern |-> w.modern, animes |-> w.animes,
                  left |-> w.left, known |-> w.known,
                  pending |-> w.pending, pages |-> w.pages,
                  arrived |-> w.arrived, extras |-> w.extras]
      BY <2>1
    <3>2. QED
      BY <1>1, <3>1 DEF Falls
  <2>3. QED
    BY <2>2 DEF ExtrasInv, ExtrasAreNew
<1>2. CASE FillDetails
  BY <1>1, <1>2 DEF FillDetails
<1>3. CASE FetchExtra
  <2>1. PICK animes \in Quarter, pages \in Season :
          job' = [Idling EXCEPT !.pc = "total", !.animes = animes,
                                !.pages = pages]
    BY <1>3 DEF FetchExtra
  <2>2. /\ job'.pc = "total" /\ job'.arrived = {} /\ job'.pages = pages
        /\ job'.animes = animes
    BY <2>1 DEF Idling
  <2>3. pages \in Seq(Seq(BangumiRow)) /\ Ids(animes) \subseteq Nat
    BY DetailsAssumption, QuarterIds
  <2>4. Ids(job'.animes) \subseteq Nat
    BY <2>2, <2>3
  <2>5. QED
    BY <2>2, <2>3, <2>4 DEF ExtrasInv, ExtrasAreNew, Ids
<1>4. QED
  BY <1>2, <1>3 DEF DetailCalls

(* So the details and the completion keep it.                              *)
LEMMA ExtrasStep ==
  /\ DetailsInit => ExtrasInv
  /\ DetailsInv /\ ExtrasInv /\ [DetailsNext]_detailVars => ExtrasInv'
<1>1. DetailsInit => ExtrasInv
  BY DEF DetailsInit, Idling, ExtrasInv, ExtrasAreNew
<1>2. ASSUME ExtrasInv, UNCHANGED detailVars PROVE ExtrasInv'
  <2>1. job' = job
    BY <1>2 DEF detailVars
  <2>2. Ids(job'.animes) = Ids(job.animes)
    BY <2>1
  <2>3. ExtrasAreNew'
    BY <1>2, <2>1, <2>2, NewExtras DEF ExtrasInv
  <2>4. QED
    BY <1>2, <2>1, <2>2, <2>3 DEF ExtrasInv, Ids
<1>3. QED
  BY <1>1, <1>2, MergeKeepsExtras, FillingKeepsExtras, PagesKeepExtras,
     CallsKeepExtras DEF DetailsNext, DetailSteps

-----------------------------------------------------------------------------
(* The playback sources.  A load that began after the last change of the   *)
(* file, of a switch or of the region has read what is there now: the file *)
(* before it asks for the region, and the region before it filters.        *)
LoadInv(w) ==
  /\ w = [pc |-> w.pc, op |-> w.op, local |-> w.local, new |-> w.new,
          now |-> w.now, tries |-> w.tries, known |-> w.known, id |-> w.id]
  /\ w.now \in Nat /\ w.now <= clock
  /\ w.op = "search" /\ changed < w.now =>
       /\ w.pc \in {"region", "attempted", "lock", "detect", "detected",
                    "filter"} => w.local = disk
       /\ w.pc = "attempted" => ~region
       /\ w.pc = "filter" => w.known = region

StoreInv ==
  /\ editor = [e \in Editor |-> editor[e]]
  /\ \A e \in Editor : LoadInv(editor[e])
  /\ clock \in Nat /\ changed \in Int /\ changed <= clock
  /\ region \in BOOLEAN
  /\ memory # Free =>
       /\ memory.loadedAt \in Nat /\ memory.loadedAt <= clock
       /\ changed < memory.loadedAt =>
            memory.sources = Shown(disk.list, region)

SourceCalls == (\E e \in Editor : EditorCalls(e)) \/ Tick \/ Restart
StoreNext == SourceCalls \/ \E e \in Editor : EditorSteps(e)

(* At rest a call has read nothing.                                        *)
LEMMA RestingLoads ==
  ASSUME clock \in Nat
  PROVE  LoadInv(Resting) /\ Resting.pc = "idle"
BY DEF LoadInv, Resting

(* Before the first load there is nothing in memory.                       *)
LEMMA StoreInitHolds == SourceInit => StoreInv
<1> SUFFICES ASSUME SourceInit PROVE StoreInv
  OBVIOUS
<1>1. clock \in Nat /\ \A e \in Editor : editor[e] = Resting
  BY DEF SourceInit
<1>2. \A e \in Editor : LoadInv(editor[e])
  BY <1>1, RestingLoads
<1>3. editor = [e \in Editor |-> editor[e]]
  BY DEF SourceInit
<1>4. /\ clock = 0 /\ changed = -1 /\ region = FALSE /\ memory = Free
      /\ 0 \in Nat /\ -1 \in Int /\ -1 <= 0
  BY DEF SourceInit
<1>5. QED
  BY <1>2, <1>3, <1>4 DEF StoreInv

(* A call goes on, and changes nothing that a list shows.                  *)
LEMMA EditorMoves ==
  ASSUME StoreInv, NEW e \in Editor, NEW w,
         editor' = [editor EXCEPT ![e] = w], LoadInv(w),
         UNCHANGED <<disk, memory, disabled, region, clock, changed>>
  PROVE  StoreInv'
<1>1. LoadInv(w)'
  BY DEF LoadInv
<1>2. ASSUME NEW d \in Editor PROVE LoadInv(editor[d])'
  <2>1. editor'[d] = w \/ editor'[d] = editor[d]
    BY DEF StoreInv
  <2>2. PICK x : x = editor'[d] /\ LoadInv(x)'
    <3>1. CASE editor'[d] = w
      BY <1>1, <3>1
    <3>2. CASE editor'[d] = editor[d]
      BY <3>2 DEF StoreInv, LoadInv
    <3>3. QED
      BY <2>1, <3>1, <3>2
  <2>3. QED
    BY <2>2 DEF LoadInv
<1>3. Shown(disk.list, region)' = Shown(disk.list, region)
  BY DEF Shown
<1>4. QED
  BY <1>2, <1>3 DEF StoreInv

(* A change of what a list shows is later than every load that began.      *)
LEMMA ChangeKeeps ==
  ASSUME StoreInv, NEW e \in Editor, NEW w,
         editor' = [editor EXCEPT ![e] = w],
         w = [pc |-> w.pc, op |-> w.op, local |-> w.local, new |-> w.new,
              now |-> w.now, tries |-> w.tries, known |-> w.known,
              id |-> w.id],
         w.now \in Nat, w.now <= clock,
         changed' = clock, region' \in BOOLEAN, UNCHANGED <<memory, clock>>
  PROVE  StoreInv'
<1>1. ASSUME NEW d \in Editor PROVE LoadInv(editor[d])'
  <2>1. editor'[d] = w \/ (editor'[d] = editor[d] /\ LoadInv(editor[d]))
    BY DEF StoreInv
  <2>2. PICK x : /\ x = editor'[d] /\ x.now \in Nat /\ x.now <= clock
                 /\ x = [pc |-> x.pc, op |-> x.op, local |-> x.local,
                         new |-> x.new, now |-> x.now, tries |-> x.tries,
                         known |-> x.known, id |-> x.id]
    BY <2>1 DEF LoadInv
  <2>3. QED
    BY <2>2 DEF LoadInv, StoreInv
<1>2. QED
  BY <1>1 DEF StoreInv

(* What a step makes of the locals of its call.                            *)
LEMMA EditorFields ==
  ASSUME StoreInv, NEW e \in Editor
  PROVE  /\ \A pc : Move(e, pc) =>
              editor' = [editor EXCEPT ![e] = [editor[e] EXCEPT !.pc = pc]]
         /\ \A known : Answered(e, known) =>
              editor' = [editor EXCEPT ![e] =
                [editor[e] EXCEPT !.pc = AfterRegion(e), !.known = known]]
BY DEF StoreInv, Move, Answered

(* The calls: a search notes the time, all others read no list or nothing. *)
LEMMA CallsKeep ==
  ASSUME StoreInv, NEW e \in Editor, EditorCalls(e) PROVE StoreInv'
<1>1. ASSUME NEW op, NEW where, Starts(e, op, where),
             where \notin {"region", "attempted", "lock", "detect",
                           "detected", "filter"} \/ op # "search"
      PROVE  \E w : /\ editor' = [editor EXCEPT ![e] = w] /\ LoadInv(w)
                    /\ w = [pc |-> w.pc, op |-> w.op, local |-> w.local,
                            new |-> w.new, now |-> w.now, tries |-> w.tries,
                            known |-> w.known, id |-> w.id]
                    /\ w.now \in Nat /\ w.now <= clock
  <2>1. PICK n : n = IF op = "search" THEN clock ELSE 0
    OBVIOUS
  <2>2. n \in Nat /\ n <= clock
    BY <2>1 DEF StoreInv
  <2>3. PICK w : /\ w = [Resting EXCEPT !.op = op, !.pc = where, !.now = n]
                 /\ editor' = [editor EXCEPT ![e] = w]
    BY <1>1, <2>1 DEF Starts
  <2>4. w = [pc |-> where, op |-> op, local |-> Missing, new |-> <<>>,
             now |-> n, tries |-> 0, known |-> FALSE, id |-> 0]
    BY <2>3 DEF Resting
  <2>5. /\ w = [pc |-> w.pc, op |-> w.op, local |-> w.local, new |-> w.new,
                now |-> w.now, tries |-> w.tries, known |-> w.known,
                id |-> w.id]
        /\ w.pc = where /\ w.op = op /\ w.now = n
    BY <2>4
  <2>6. LoadInv(w)
    BY <1>1, <2>2, <2>5 DEF LoadInv
  <2>7. QED
    BY <2>2, <2>3, <2>5, <2>6
<1>2. CASE Search(e) \/ List(e) \/ Preload(e) \/ Refetch(e)
  <2>1. PICK w : editor' = [editor EXCEPT ![e] = w] /\ LoadInv(w)
    BY <1>1, <1>2 DEF Search, List, Preload, Refetch
  <2>2. QED
    BY <1>2, <2>1, EditorMoves DEF Search, List, Preload, Refetch
<1>3. CASE Switch(e)
  <2>1. PICK w : /\ editor' = [editor EXCEPT ![e] = w]
                 /\ w = [pc |-> w.pc, op |-> w.op, local |-> w.local,
                         new |-> w.new, now |-> w.now, tries |-> w.tries,
                         known |-> w.known, id |-> w.id]
                 /\ w.now \in Nat /\ w.now <= clock
    BY <1>1, <1>3 DEF Switch
  <2>2. region' \in BOOLEAN
    BY <1>3 DEF Switch, StoreInv
  <2>3. QED
    BY <1>3, <2>1, <2>2, ChangeKeeps DEF Switch
<1>4. ASSUME NEW w, NEW new, NEW id, NEW op, op # "search",
             w = [pc |-> "truncate", op |-> op, local |-> Missing,
                  new |-> new, now |-> 0, tries |-> 0, known |-> FALSE,
                  id |-> id],
             editor' = [editor EXCEPT ![e] = w],
             UNCHANGED <<disk, memory, disabled, region, clock, changed>>
      PROVE  StoreInv'
  <2>1. LoadInv(w)
    BY <1>4 DEF LoadInv, StoreInv
  <2>2. QED
    BY <1>4, <2>1, EditorMoves
<1>5. CASE Add(e)
  <2>1. PICK new, w : /\ editor' = [editor EXCEPT ![e] = w]
                      /\ w = [Resting EXCEPT !.op = "add", !.pc = "truncate",
                                !.id = NewId, !.new = new]
    BY <1>5 DEF Add
  <2>2. w = [pc |-> "truncate", op |-> "add", local |-> Missing, new |-> new,
             now |-> 0, tries |-> 0, known |-> FALSE, id |-> NewId]
    BY <2>1 DEF Resting
  <2>3. QED
    BY <1>4, <1>5, <2>1, <2>2 DEF Add
<1>6. CASE Update(e)
  <2>1. PICK new, w : /\ editor' = [editor EXCEPT ![e] = w]
                      /\ w = [Resting EXCEPT !.op = "update",
                                !.pc = "truncate", !.new = new]
    BY <1>6 DEF Update
  <2>2. w = [pc |-> "truncate", op |-> "update", local |-> Missing,
             new |-> new, now |-> 0, tries |-> 0, known |-> FALSE, id |-> 0]
    BY <2>1 DEF Resting
  <2>3. QED
    BY <1>4, <1>6, <2>1, <2>2 DEF Update
<1>7. QED
  BY <1>2, <1>3, <1>5, <1>6 DEF EditorCalls

(* The steps of a load, up to the region.                                  *)
LEMMA LoadStepsKeep ==
  ASSUME StoreInv, NEW e \in Editor,
         \/ ReadList(e) \/ ReadRegion(e) \/ ReadAttempted(e) \/ LockRegion(e)
         \/ MarkAttempted(e)
  PROVE  StoreInv'
<1>0. PICK v : v = editor[e] /\ LoadInv(v) /\ region \in BOOLEAN
               /\ clock \in Nat
  BY DEF StoreInv
<1>1. UNCHANGED <<disk, memory, disabled, region, clock, changed>>
  BY DEF ReadList, ReadRegion, ReadAttempted, LockRegion, MarkAttempted
<1>2. ASSUME NEW w, editor' = [editor EXCEPT ![e] = w], LoadInv(w)
      PROVE  StoreInv'
  BY <1>1, <1>2, EditorMoves
<1>3. ASSUME Rest(e) PROVE StoreInv'
  BY <1>0, <1>2, <1>3, RestingLoads DEF Rest
<1>4. ASSUME NEW pc, Move(e, pc),
             v.op = "search" =>
               \/ pc \in {"lock", "detect"}
                  /\ v.pc \in {"region", "attempted", "lock"}
               \/ pc = "attempted" /\ v.pc = "region" /\ ~region
      PROVE  StoreInv'
  <2>1. PICK w : /\ w = [v EXCEPT !.pc = pc]
                 /\ editor' = [editor EXCEPT ![e] = w]
    <3>1. editor' = [editor EXCEPT ![e] = [editor[e] EXCEPT !.pc = pc]]
      BY <1>4, EditorFields
    <3>2. QED
      BY ONLY <1>0, <3>1
  <2>2. LoadInv(w)
    BY <1>0, <1>4, <2>1 DEF LoadInv
  <2>3. QED
    BY <1>2, <2>1, <2>2
<1>5. ASSUME NEW known, Answered(e, known),
             v.op = "search" /\ changed < v.now =>
               /\ v.pc \in {"region", "attempted", "lock", "detected"}
               /\ known = region
      PROVE  StoreInv'
  <2>1. PICK w : /\ w = [v EXCEPT !.pc = AfterRegion(e), !.known = known]
                 /\ editor' = [editor EXCEPT ![e] = w]
    BY <1>0, <1>5, EditorFields
  <2>2. AfterRegion(e) \in {"check", "filter"}
    BY DEF AfterRegion
  <2>3. LoadInv(w)
    BY <1>0, <1>5, <2>1, <2>2 DEF LoadInv
  <2>4. QED
    BY <1>2, <2>1, <2>3
<1>6. CASE ReadList(e)
  <2>1. CASE Rest(e)
    BY <1>3, <2>1
  <2>2. CASE ~Rest(e)
    <3>1. PICK w : /\ w = [v EXCEPT !.local = disk, !.pc = "region"]
                   /\ editor' = [editor EXCEPT ![e] = w]
      BY <1>0, <1>6, <2>2 DEF ReadList, StoreInv
    <3>2. LoadInv(w)
      BY <1>0, <3>1 DEF LoadInv
    <3>3. QED
      BY <1>2, <3>1, <3>2
  <2>3. QED
    BY <2>1, <2>2
<1>7. CASE ReadRegion(e)
  <2>1. CASE region
    <3>1. Answered(e, TRUE) /\ region = TRUE
      BY <1>0, <1>7, <2>1 DEF ReadRegion
    <3>2. QED
      BY <1>0, <1>5, <1>7, <3>1 DEF ReadRegion
  <2>2. CASE ~region
    BY <1>0, <1>4, <1>7, <2>2 DEF ReadRegion
  <2>3. QED
    BY <2>1, <2>2
<1>8. CASE ReadAttempted(e)
  <2>1. CASE attempted
    <3>1. v.op = "search" /\ changed < v.now => region = FALSE
      BY <1>0, <1>8 DEF ReadAttempted, LoadInv
    <3>2. QED
      BY <1>0, <1>5, <1>8, <2>1, <3>1 DEF ReadAttempted
  <2>2. CASE ~attempted
    BY <1>0, <1>4, <1>8, <2>2 DEF ReadAttempted
  <2>3. QED
    BY <2>1, <2>2
<1>9. CASE LockRegion(e)
  <2>1. CASE region \/ attempted
    BY <1>0, <1>5, <1>9, <2>1 DEF LockRegion
  <2>2. CASE ~(region \/ attempted)
    BY <1>0, <1>4, <1>9, <2>2 DEF LockRegion
  <2>3. QED
    BY <2>1, <2>2
<1>10. CASE MarkAttempted(e)
  BY <1>0, <1>5, <1>10 DEF MarkAttempted
<1>11. QED
  BY <1>6, <1>7, <1>8, <1>9, <1>10

(* A region that is detected, and a file that is written, is a change.     *)
LEMMA ChangesKeep ==
  ASSUME StoreInv, NEW e \in Editor,
         Detect(e) \/ Truncate(e) \/ WriteFile(e)
  PROVE  StoreInv'
<1>0. PICK v : v = editor[e] /\ LoadInv(v) /\ region \in BOOLEAN
               /\ clock \in Nat
  BY DEF StoreInv
<1>1. ASSUME NEW pc, NEW n, NEW w,
             editor' = [editor EXCEPT ![e] = w],
             w = [v EXCEPT !.pc = pc] \/ w = [v EXCEPT !.tries = n]
                                      \/ w = [Resting EXCEPT !.pc = pc]
      PROVE  /\ w = [pc |-> w.pc, op |-> w.op, local |-> w.local,
                     new |-> w.new, now |-> w.now, tries |-> w.tries,
                     known |-> w.known, id |-> w.id]
             /\ w.now \in Nat /\ w.now <= clock
  <2>1. CASE w = [v EXCEPT !.pc = pc] \/ w = [v EXCEPT !.tries = n]
    BY <1>0, <2>1 DEF LoadInv
  <2>2. CASE w = [Resting EXCEPT !.pc = pc]
    <3>1. w = [pc |-> pc, op |-> "none", local |-> Missing, new |-> <<>>,
               now |-> 0, tries |-> 0, known |-> FALSE, id |-> 0]
      BY <2>2 DEF Resting
    <3>2. 0 \in Nat /\ 0 <= clock
      BY <1>0
    <3>3. QED
      BY <3>1, <3>2
  <2>3. QED
    BY <1>1, <2>1, <2>2
<1>2. CASE Truncate(e)
  <2>1. PICK w : /\ editor' = [editor EXCEPT ![e] = w]
                 /\ w = [v EXCEPT !.pc = "write"]
    BY <1>0, <1>2, EditorFields DEF Truncate
  <2>2. QED
    BY <1>0, <1>1, <1>2, <2>1, ChangeKeeps DEF Truncate
<1>3. CASE WriteFile(e)
  <2>1. PICK w, pc : /\ editor' = [editor EXCEPT ![e] = w]
                     /\ w = [Resting EXCEPT !.pc = pc]
    BY <1>3 DEF WriteFile
  <2>2. QED
    BY <1>0, <1>1, <1>3, <2>1, ChangeKeeps DEF WriteFile
<1>4. CASE Detect(e)
  <2>1. CASE region' = TRUE /\ changed' = clock /\ Move(e, "detected")
    <3>1. PICK w : /\ editor' = [editor EXCEPT ![e] = w]
                   /\ w = [v EXCEPT !.pc = "detected"]
      BY <1>0, <2>1, EditorFields
    <3>2. QED
      BY <1>0, <1>1, <1>4, <2>1, <3>1, ChangeKeeps DEF Detect
  <2>2. CASE UNCHANGED <<region, changed>>
    <3>1. PICK w : /\ editor' = [editor EXCEPT ![e] = w]
                   /\ \/ w = [v EXCEPT !.pc = "detected"]
                      \/ w = [v EXCEPT !.tries = 1]
      <4>1. CASE editor' = [editor EXCEPT ![e].tries = 1]
        BY <1>0, <4>1 DEF StoreInv
      <4>2. CASE Move(e, "detected")
        BY <1>0, <4>2, EditorFields
      <4>3. QED
        BY <1>4, <2>1, <4>1, <4>2 DEF Detect
    <3>2. v.pc = "detect"
      BY <1>0, <1>4 DEF Detect
    <3>3. LoadInv(w)
      BY <1>0, <3>1, <3>2 DEF LoadInv
    <3>4. QED
      BY <1>4, <2>2, <3>1, <3>3, EditorMoves DEF Detect
  <2>3. QED
    BY <1>4, <2>1, <2>2 DEF Detect
<1>5. QED
  BY <1>2, <1>3, <1>4

(* The other steps of writers do not change what a list shows.             *)
LEMMA WritersKeep ==
  ASSUME StoreInv, NEW e \in Editor,
         CheckCache(e) \/ FetchFails(e) \/ MergeFetched(e) \/ SaveMeta(e)
  PROVE  StoreInv'
<1>0. PICK v : v = editor[e] /\ LoadInv(v) /\ clock \in Nat
  BY DEF StoreInv
<1>1. PICK w : /\ editor' = [editor EXCEPT ![e] = w]
               /\ \/ w = Resting
                  \/ \E pc \in {"fetch", "invalidate"} :
                       w = [v EXCEPT !.pc = pc]
                  \/ \E new : w = [v EXCEPT !.pc = "truncate", !.new = new]
  <2>1. CASE Rest(e)
    BY <2>1 DEF Rest
  <2>2. CASE Move(e, "fetch") \/ Move(e, "invalidate")
    BY <1>0, <2>2, EditorFields
  <2>3. CASE MergeFetched(e)
    <3>1. PICK new : editor' = [editor EXCEPT ![e].pc = "truncate",
                                              ![e].new = new]
      BY <2>3 DEF MergeFetched
    <3>2. editor' = [editor EXCEPT ![e] =
                       [v EXCEPT !.pc = "truncate", !.new = new]]
      BY <1>0, <3>1 DEF StoreInv
    <3>3. QED
      BY <3>2
  <2>4. QED
    BY <2>1, <2>2, <2>3 DEF CheckCache, FetchFails, SaveMeta
<1>2. LoadInv(w)
  <2>1. CASE w = Resting
    BY <1>0, <2>1, RestingLoads
  <2>2. CASE \E pc \in {"fetch", "invalidate"} : w = [v EXCEPT !.pc = pc]
    BY <1>0, <2>2 DEF LoadInv
  <2>3. ASSUME NEW new, w = [v EXCEPT !.pc = "truncate", !.new = new]
        PROVE  LoadInv(w)
    BY <1>0, <2>3 DEF LoadInv
  <2>4. QED
    BY <1>1, <2>1, <2>2, <2>3
<1>3. QED
  BY <1>1, <1>2, EditorMoves DEF CheckCache, FetchFails, MergeFetched, SaveMeta

(* A list is put into memory with the time its load began; an invalidation *)
(* takes out whatever is there.                                            *)
LEMMA MemoryKeeps ==
  ASSUME StoreInv, NEW e \in Editor, Show(e) \/ Invalidate(e)
  PROVE  StoreInv'
<1>0. LoadInv(editor[e]) /\ clock \in Nat
  BY DEF StoreInv
<1>1. /\ editor' = [editor EXCEPT ![e] = Resting]
      /\ UNCHANGED <<disk, disabled, region, clock, changed>>
  BY DEF Show, Invalidate, Rest
<1>2. ASSUME NEW d \in Editor PROVE LoadInv(editor[d])'
  <2>1. PICK x : x = editor'[d] /\ LoadInv(x)
    BY <1>0, <1>1, RestingLoads DEF StoreInv
  <2>2. QED
    BY <1>1, <2>1 DEF LoadInv
<1>3. memory' # Free =>
        /\ memory'.loadedAt \in Nat /\ memory'.loadedAt <= clock
        /\ changed < memory'.loadedAt =>
             memory'.sources = Shown(disk.list, region)
  <2>1. CASE UNCHANGED memory
    BY <2>1 DEF StoreInv
  <2>2. CASE Invalidate(e)
    BY <2>2 DEF Invalidate
  <2>3. CASE Show(e) /\ editor[e].op = "search"
    <3>1. /\ editor[e].pc = "filter"
          /\ memory' = [sources |-> Shown(editor[e].local.list,
                                          editor[e].known),
                        loadedAt |-> editor[e].now]
      BY <2>3 DEF Show, LoadedAt
    <3>2. changed < editor[e].now =>
            Shown(editor[e].local.list, editor[e].known)
              = Shown(disk.list, region)
      BY <1>0, <2>3, <3>1 DEF LoadInv
    <3>3. QED
      BY <1>0, <3>1, <3>2 DEF LoadInv
  <2>4. QED
    BY <2>1, <2>2, <2>3 DEF Show
<1>4. Shown(disk.list, region)' = Shown(disk.list, region)
  BY <1>1 DEF Shown
<1>5. QED
  BY <1>1, <1>2, <1>3, <1>4 DEF StoreInv

(* Every step of the sources keeps it.                                     *)
LEMMA StoreStep == StoreInv /\ [StoreNext]_sourceVars => StoreInv'
<1> SUFFICES ASSUME StoreInv, [StoreNext]_sourceVars PROVE StoreInv'
  OBVIOUS
<1>1. CASE UNCHANGED <<disk, memory, disabled, region, editor, changed>>
           /\ clock' \in {clock, clock + 1}
  <2>1. ASSUME NEW e \in Editor PROVE LoadInv(editor[e])'
    BY <1>1 DEF StoreInv, LoadInv
  <2>2. Shown(disk.list, region)' = Shown(disk.list, region)
    BY <1>1 DEF Shown
  <2>3. QED
    BY <1>1, <2>1, <2>2 DEF StoreInv
<1>2. CASE Restart
  <2>1. LoadInv(Resting)' /\ \A e \in Editor : editor'[e] = Resting
    BY <1>2, RestingLoads DEF Restart, StoreInv, LoadInv
  <2>2. \A e \in Editor : LoadInv(editor[e])'
    BY <2>1 DEF LoadInv
  <2>3. QED
    BY <1>2, <2>2 DEF Restart, StoreInv
<1>3. CASE Tick
  BY <1>1, <1>3 DEF Tick
<1>4. CASE UNCHANGED sourceVars
  BY <1>1, <1>4 DEF sourceVars
<1>5. ASSUME NEW e \in Editor, EditorSteps(e) PROVE StoreInv'
  BY <1>5, LoadStepsKeep, ChangesKeep, WritersKeep, MemoryKeeps
     DEF EditorSteps
<1>6. QED
  BY <1>2, <1>3, <1>4, <1>5, CallsKeep DEF StoreNext, SourceCalls

(* A list that is younger than a time-to-live began to load after a change *)
(* that is that old.                                                       *)
LEMMA SettledFollows == StoreInv => SettledListIsCurrent
BY SourceAssumption DEF StoreInv, SettledListIsCurrent, ListInMemory

(* The rows a file may hold: what is numbered is the user's, and has       *)
(* expressions that compile.                                               *)
KeptDraft == {NoDraft} \cup {x \in Draft : Valid(x)}
SourceRow ==
  {s \in [name : Name, origin : {"subscription", "manual"}, id : Nat,
          draft : KeptDraft] : s.id # 0 => s.origin = "manual"}

Holds(list) == saved \subseteq ManualIds(list)

(* A call that writes alone has taken up everything that was saved, and    *)
(* the file is torn only between its truncation and its write.             *)
WriterInv(w) ==
  /\ w.new \in Seq(SourceRow) /\ w.id \in Nat
  /\ w.pc \notin {"truncate", "write"} => w.id = 0
  /\ w.pc \in {"truncate", "write"} /\ ~ overlapped =>
       /\ Holds(w.new) /\ w.id \in ManualIds(w.new) \cup {0}
       /\ w.pc = "write" => disk = Torn
       /\ w.pc = "truncate" => disk # Torn /\ Holds(disk.list)

ManualInv ==
  /\ edits \in Nat
  /\ disk.list \in Seq(SourceRow)
  /\ disk = [kind |-> disk.kind, list |-> disk.list]
  /\ \A e \in Editor : WriterInv(editor[e])
  /\ ~ overlapped =>
       /\ \A d, e \in Writing : d = e
       /\ Writing = {} => disk # Torn /\ Holds(disk.list)

(* Nobody writes that did not, and nothing is written.                     *)
LEMMA OthersKeep ==
  ASSUME StoreInv, ManualInv, NEW e \in Editor, NEW w,
         editor' = [editor EXCEPT ![e] = w],
         UNCHANGED <<disk, saved, overlapped>>, edits' \in Nat,
         editor[e].pc \notin {"truncate", "write"},
         w.pc \notin {"truncate", "write"},
         w.new \in Seq(SourceRow), w.id = 0
  PROVE  ManualInv'
<1>1. \A d \in Editor : editor'[d] = IF d = e THEN w ELSE editor[d]
  BY DEF StoreInv
<1>2. Writing' = Writing
  BY <1>1 DEF Writing
<1>3. \A l : Holds(l)' <=> Holds(l)
  BY DEF Holds, ManualIds
<1>4. ASSUME NEW d \in Editor PROVE WriterInv(editor[d])'
  <2>1. PICK x : x = editor'[d]
    OBVIOUS
  <2>2. CASE d = e
    BY <1>1, <2>2 DEF WriterInv
  <2>3. CASE d # e
    <3>1. x = editor[d] /\ WriterInv(x)
      BY <1>1, <2>1, <2>3 DEF ManualInv
    <3>2. WriterInv(x)'
      BY <1>3, <3>1 DEF WriterInv
    <3>3. QED
      BY <1>3, <2>1, <3>1, <3>2 DEF WriterInv
  <2>4. QED
    BY <2>2, <2>3
<1>5. QED
  BY <1>2, <1>3, <1>4 DEF ManualInv

(* A call that takes up the file while nobody writes has what was saved.   *)
LEMMA TakeKeeps ==
  ASSUME StoreInv, ManualInv, NEW e \in Editor, NEW w,
         editor' = [editor EXCEPT ![e] = w], TakesUp(e),
         UNCHANGED <<disk, saved>>, edits' \in Nat,
         editor[e].pc \notin {"truncate", "write"}, w.pc = "truncate",
         w.new \in Seq(SourceRow), w.id \in Nat,
         w.id \in ManualIds(w.new) \cup {0},
         ManualIds(disk.list) \subseteq ManualIds(w.new)
  PROVE  ManualInv'
<1>1. \A d \in Editor : editor'[d] = IF d = e THEN w ELSE editor[d]
  BY DEF StoreInv
<1>2. ~ overlapped' => ~ overlapped /\ Writing = {} /\ Writing' = {e}
  BY <1>1 DEF Writing, TakesUp
<1>3. \A l : Holds(l)' <=> Holds(l)
  BY DEF Holds, ManualIds
<1>4. ~ overlapped' => disk # Torn /\ Holds(disk.list) /\ Holds(w.new)
  BY <1>2 DEF ManualInv, Holds
<1>5. ASSUME NEW d \in Editor PROVE WriterInv(editor[d])'
  <2>1. PICK x : x = editor'[d]
    OBVIOUS
  <2>2. CASE d = e
    <3>1. x = w
      BY <1>1, <2>1, <2>2
    <3>2. WriterInv(x)'
      BY <1>3, <1>4, <3>1 DEF WriterInv
    <3>3. QED
      BY <2>1, <3>2 DEF WriterInv
  <2>3. CASE d # e
    <3>1. x = editor[d] /\ WriterInv(x)
      BY <1>1, <2>1, <2>3 DEF ManualInv
    <3>2. ~ overlapped' => x.pc \notin {"truncate", "write"}
      BY <1>2, <3>1 DEF Writing
    <3>3. WriterInv(x)'
      BY <3>1, <3>2 DEF WriterInv
    <3>4. QED
      BY <2>1, <3>3 DEF WriterInv
  <2>4. QED
    BY <2>2, <2>3
<1>6. QED
  BY <1>2, <1>3, <1>4, <1>5 DEF ManualInv

(* A rewrite by one alone puts what was saved into the file, and his own.  *)
LEMMA WritesKeep ==
  ASSUME StoreInv, ManualInv, NEW e \in Editor, Truncate(e) \/ WriteFile(e)
  PROVE  ManualInv'
<1>1. PICK v : v = editor[e] /\ LoadInv(v) /\ WriterInv(v)
  BY DEF StoreInv, ManualInv
<1>2. overlapped' = overlapped /\ edits' = edits
  BY DEF Truncate, WriteFile
<1>3. PICK w : editor' = [editor EXCEPT ![e] = w]
               /\ \/ Truncate(e) /\ w = [v EXCEPT !.pc = "write"]
                  \/ \E pc \in {"meta", "invalidate"} :
                       WriteFile(e) /\ w = [Resting EXCEPT !.pc = pc]
  BY <1>1, EditorFields DEF Truncate, WriteFile
<1>4. \A d \in Editor : editor'[d] = IF d = e THEN w ELSE editor[d]
  BY <1>3 DEF StoreInv
<1>5. e \in Writing /\ v.pc \in {"truncate", "write"}
  BY <1>1 DEF Truncate, WriteFile, Writing
<1>6. ~ overlapped => Writing = {e}
  BY <1>5 DEF ManualInv
<1>7. ASSUME NEW d \in Editor, NEW x, x = editor'[d], WriterInv(x)'
      PROVE  WriterInv(editor[d])'
  BY <1>7 DEF WriterInv
<1>8. ASSUME NEW d \in Editor, d # e PROVE WriterInv(editor[d])'
  <2>1. PICK x : x = editor'[d] /\ WriterInv(x) /\ x = editor[d]
    BY <1>4, <1>8 DEF ManualInv
  <2>2. ~ overlapped => x.pc \notin {"truncate", "write"}
    BY <1>6, <1>8, <2>1 DEF Writing
  <2>3. WriterInv(x)'
    BY <1>2, <2>1, <2>2 DEF WriterInv
  <2>4. QED
    BY <1>7, <2>1, <2>3
<1>9. CASE Truncate(e)
  <2>1. w = [v EXCEPT !.pc = "write"] /\ disk' = Torn /\ saved' = saved
    BY <1>1, <1>3, <1>9 DEF Truncate, WriteFile
  <2>2. \A l : Holds(l)' <=> Holds(l)
    BY <2>1 DEF Holds, ManualIds
  <2>3. w.pc = "write" /\ w.new = v.new /\ w.id = v.id
    BY <1>1, <2>1 DEF LoadInv
  <2>4. WriterInv(w)'
    BY <1>1, <1>2, <1>5, <2>1, <2>2, <2>3 DEF WriterInv
  <2>5. WriterInv(editor[e])'
    BY <1>4, <1>7, <2>4
  <2>6. ~ overlapped => Writing' = {e}
    BY <1>4, <1>6, <2>3 DEF Writing
  <2>7. disk'.list \in Seq(SourceRow)
        /\ disk' = [kind |-> disk'.kind, list |-> disk'.list]
    BY <2>1 DEF Torn
  <2>8. QED
    BY <1>2, <1>8, <2>5, <2>6, <2>7 DEF ManualInv
<1>10. CASE WriteFile(e)
  <2>1. PICK pc \in {"meta", "invalidate"} : w = [Resting EXCEPT !.pc = pc]
    BY <1>1, <1>3, <1>10 DEF Truncate, WriteFile
  <2>2. w.pc = pc /\ w.new = <<>> /\ w.id = 0
    BY <2>1 DEF Resting
  <2>3. v.pc = "write" /\ disk' \in {File(v.new), Torn}
        /\ (disk = Torn => disk' = File(v.new))
        /\ saved' = saved \cup ({v.id} \ {0})
    BY <1>1, <1>10 DEF WriteFile
  <2>4. disk'.list \in Seq(SourceRow)
        /\ disk' = [kind |-> disk'.kind, list |-> disk'.list]
    <3>1. v.new \in Seq(SourceRow) /\ <<>> \in Seq(SourceRow)
      BY <1>1 DEF WriterInv
    <3>2. PICK u : u = v.new
      OBVIOUS
    <3>3. CASE disk' = File(u)
      BY <3>1, <3>2, <3>3 DEF File
    <3>4. CASE disk' = Torn
      BY <3>1, <3>4 DEF Torn
    <3>5. QED
      BY <2>3, <3>2, <3>3, <3>4
  <2>5. WriterInv(w)'
    BY <2>2 DEF WriterInv
  <2>6. WriterInv(editor[e])'
    BY <1>4, <1>7, <2>5
  <2>7. ~ overlapped => /\ Writing' = {} /\ disk' = File(v.new)
                        /\ saved' \subseteq ManualIds(v.new)
    BY <1>1, <1>4, <1>6, <2>2, <2>3 DEF Writing, WriterInv, Holds
  <2>8. disk' = File(v.new) => disk' # Torn /\ disk'.list = v.new
    BY DEF Torn, File
  <2>9. ~ overlapped => disk' # Torn /\ Holds(disk.list)'
    BY <2>7, <2>8 DEF Holds, ManualIds
  <2>10. QED
    BY <1>2, <1>8, <2>4, <2>6, <2>7, <2>9 DEF ManualInv
<1>11. QED
  BY <1>9, <1>10

(* A merge keeps what the user made.                                       *)
LEMMA MergeHolds ==
  ASSUME NEW remote \in Seq(SourceRow), NEW local \in Seq(SourceRow),
         NEW legacy, NEW m, m = Merged(remote, local, legacy)
  PROVE  m \in Seq(SourceRow) /\ ManualIds(local) \subseteq ManualIds(m)
<1>1. PICK a : a = {i \in DOMAIN local :
                      \/ IsManual(local[i])
                      \/ legacy /\ local[i].name \notin Names(remote)}
  OBVIOUS
<1>2. PICK kept : kept = PreservedLocal(remote, local, legacy)
  OBVIOUS
<1>3. kept = Sublist(local, a)
  BY <1>1, <1>2, Zenon DEF PreservedLocal, Filtered
<1>4. PICK mine : mine = Names(Filtered(kept, IsManual))
  OBVIOUS
<1>5. PICK c : c = {i \in DOMAIN remote : remote[i].name \notin mine}
  OBVIOUS
<1>6. m = Sublist(remote, c) \o kept
  BY <1>2, <1>4, <1>5, Zenon DEF Merged, Filtered
<1>7. a \in SUBSET (DOMAIN local) /\ c \in SUBSET (DOMAIN remote)
  BY <1>1, <1>5
<1>8. kept \in Seq(SourceRow) /\ ToSet(kept) = {local[i] : i \in a}
  BY <1>3, <1>7, SublistHolds
<1>9. PICK r : r = Sublist(remote, c) /\ r \in Seq(SourceRow)
  BY <1>7, SublistHolds
<1>10. m = r \o kept
  BY <1>6, <1>9
<1>11. /\ m \in Seq(SourceRow) /\ Len(r) \in Nat
       /\ \A k \in DOMAIN kept : Len(r) + k \in DOMAIN m
                                 /\ m[Len(r) + k] = kept[k]
  BY ONLY <1>8, <1>9, <1>10
<1>12. ASSUME NEW n \in ManualIds(local) PROVE n \in ManualIds(m)
  <2>1. PICK i \in DOMAIN local : n = local[i].id /\ n # 0
    BY DEF ManualIds
  <2>2. local[i] \in SourceRow
    BY <2>1
  <2>3. i \in a
    BY <1>1, <2>1, <2>2 DEF SourceRow, IsManual
  <2>4. PICK k \in DOMAIN kept : kept[k] = local[i]
    BY <1>8, <2>3 DEF ToSet
  <2>5. PICK j \in DOMAIN m : m[j] = local[i]
    BY <1>11, <2>4
  <2>6. QED
    BY <2>1, <2>5 DEF ManualIds
<1>13. QED
  BY <1>11, <1>12

(* What the subscription sends may be in a file, and so may an addition    *)
(* and an edit.                                                            *)
LEMMA RowsKept ==
  /\ \A n \in Name : Subscribed(n) \in SourceRow
  /\ \A n \in Name, k \in Nat, d \in KeptDraft :
       Manual(n, k, d) \in SourceRow /\ Manual(n, k, d).id = k
  /\ NoDraft \in KeptDraft
BY DEF Subscribed, Manual, SourceRow, KeptDraft

(* A call that reads the file and is about to write it keeps what it held. *)
LEMMA MergesKeep ==
  ASSUME StoreInv, ManualInv, NEW e \in Editor, MergeFetched(e)
  PROVE  ManualInv'
<1>1. PICK names \in SUBSET Name :
        editor' = [editor EXCEPT ![e].pc = "truncate",
          ![e].new = Merged([i \in 1..Cardinality(names) |->
                               Subscribed(SetToSeq(names)[i])],
                            disk.list, ~refreshed)]
  BY DEF MergeFetched
<1>2. PICK remote : remote = [i \in 1..Cardinality(names) |->
                                Subscribed(SetToSeq(names)[i])]
  OBVIOUS
<1>3. remote \in Seq(SourceRow)
  <2>1. IsFiniteSet(names)
    BY SourceAssumption, FS_Subset
  <2>2. SetToSeq(names) \in [1..Cardinality(names) -> names]
        /\ Cardinality(names) \in Nat
    BY <2>1, ListedIs
  <2>3. \A i \in 1..Cardinality(names) : remote[i] \in SourceRow
    BY <1>2, <2>2, RowsKept
  <2>4. remote \in [1..Cardinality(names) -> SourceRow]
    BY <1>2, <2>3
  <2>5. QED
    BY <2>2, <2>4
<1>4. PICK legacy : legacy = ~ refreshed
  OBVIOUS
<1>5. PICK l : l = disk.list
  OBVIOUS
<1>6. PICK m : m = Merged(remote, l, legacy)
  OBVIOUS
<1>7. editor' = [editor EXCEPT ![e].pc = "truncate", ![e].new = m]
  BY <1>1, <1>2, <1>4, <1>5, <1>6, Zenon
<1>8. m \in Seq(SourceRow) /\ ManualIds(l) \subseteq ManualIds(m)
  BY <1>3, <1>5, <1>6, MergeHolds DEF ManualInv
<1>9. PICK v : v = editor[e] /\ LoadInv(v) /\ WriterInv(v)
  BY DEF StoreInv, ManualInv
<1>10. PICK w : w = [v EXCEPT !.pc = "truncate", !.new = m]
  OBVIOUS
<1>11. editor' = [editor EXCEPT ![e] = w]
  BY <1>7, <1>9, <1>10 DEF StoreInv
<1>12. v.pc = "fetch" /\ v.id = 0
  BY <1>9 DEF MergeFetched, WriterInv
<1>13. w.pc = "truncate" /\ w.new = m /\ w.id = 0
  BY <1>9, <1>10, <1>12 DEF LoadInv
<1>14. TakesUp(e) /\ UNCHANGED <<disk, saved, edits>> /\ edits' \in Nat
  BY DEF MergeFetched, ManualInv
<1>15. /\ editor[e].pc \notin {"truncate", "write"}
       /\ w.new \in Seq(SourceRow) /\ w.id \in Nat
       /\ w.id \in ManualIds(w.new) \cup {0}
       /\ ManualIds(disk.list) \subseteq ManualIds(w.new)
  BY <1>5, <1>8, <1>9, <1>12, <1>13
<1>16. QED
  BY <1>11, <1>13, <1>14, <1>15, TakeKeeps

(* So does one that adds a source or changes one.                          *)
LEMMA EditsKeep ==
  ASSUME StoreInv, ManualInv, NEW e \in Editor, Add(e) \/ Update(e)
  PROVE  ManualInv'
<1>1. PICK l : l = disk.list /\ l \in Seq(SourceRow)
  BY DEF ManualInv
<1>2. /\ TakesUp(e) /\ UNCHANGED <<disk, saved>> /\ edits' \in Nat
      /\ editor[e].pc = "idle" /\ edits + 2 \in Nat \ {0}
  <2>1. edits \in Nat
    BY DEF ManualInv
  <2>2. /\ TakesUp(e) /\ UNCHANGED <<disk, saved>> /\ edits' = edits + 1
        /\ editor[e].pc = "idle"
    BY Zenon DEF Add, Update
  <2>3. QED
    BY <2>1, <2>2
<1>3. ASSUME NEW new \in Seq(SourceRow), NEW w,
             w.pc = "truncate", w.id \in Nat, w.new = new,
             w.id \in ManualIds(new) \cup {0},
             ManualIds(l) \subseteq ManualIds(new),
             editor' = [editor EXCEPT ![e] = w]
      PROVE  ManualInv'
  BY <1>1, <1>2, <1>3, TakeKeeps
<1>4. CASE Add(e)
  <2>1. PICK n \in Name, d \in {x \in Draft : Valid(x)} :
          editor' = [editor EXCEPT ![e] =
            [Resting EXCEPT !.op = "add", !.pc = "truncate", !.id = NewId,
                            !.new = Append(l, Manual(n, NewId, d))]]
    BY <1>1, <1>4 DEF Add
  <2>2. NewId \in Nat \ {0}
    BY <1>2 DEF NewId
  <2>3. PICK s : s = Manual(n, NewId, d) /\ s \in SourceRow /\ s.id = NewId
    BY <2>2, RowsKept DEF KeptDraft
  <2>4. PICK new : new = Append(l, s)
    OBVIOUS
  <2>5. /\ new \in Seq(SourceRow) /\ Len(l) + 1 \in DOMAIN new
        /\ new[Len(l) + 1] = s
        /\ \A i \in DOMAIN l : i \in DOMAIN new /\ new[i] = l[i]
    BY <1>1, <2>3, <2>4
  <2>6. ManualIds(l) \subseteq ManualIds(new) /\ NewId \in ManualIds(new)
    BY <2>2, <2>3, <2>5 DEF ManualIds
  <2>7. PICK w : w = [Resting EXCEPT !.op = "add", !.pc = "truncate",
                        !.id = NewId, !.new = new]
    OBVIOUS
  <2>8. w.pc = "truncate" /\ w.id = NewId /\ w.new = new
    BY <2>7 DEF Resting
  <2>9. editor' = [editor EXCEPT ![e] = w]
    BY <2>1, <2>3, <2>4, <2>7
  <2>10. QED
    BY <1>3, <2>2, <2>5, <2>6, <2>8, <2>9
<1>5. CASE Update(e)
  <2>1. PICK i, other, d :
          /\ other \in Name
          /\ d \in {l[i].draft} \cup {x \in Draft : Valid(x)}
          /\ IsManual(l[i])
          /\ editor' = [editor EXCEPT ![e] =
               [Resting EXCEPT !.op = "update", !.pc = "truncate",
                 !.new = Edited(l, i, other, d)]]
    <3>1. PICK n \in Names(disk.list), other \in Name :
            \E i \in {FirstNamed(disk.list, n)} :
            \E d \in {disk.list[i].draft} \cup {x \in Draft : Valid(x)} :
              /\ IsManual(disk.list[i])
              /\ editor' = [editor EXCEPT ![e] =
                  [Resting EXCEPT !.op = "update", !.pc = "truncate",
                    !.new = Edited(disk.list, i, other, d)]]
      BY <1>5, Zenon DEF Update
    <3>2. PICK i \in {FirstNamed(disk.list, n)} :
            \E d \in {disk.list[i].draft} \cup {x \in Draft : Valid(x)} :
              /\ IsManual(disk.list[i])
              /\ editor' = [editor EXCEPT ![e] =
                  [Resting EXCEPT !.op = "update", !.pc = "truncate",
                    !.new = Edited(disk.list, i, other, d)]]
      BY <3>1, Zenon
    <3>3. PICK d \in {disk.list[i].draft} \cup {x \in Draft : Valid(x)} :
              /\ IsManual(disk.list[i])
              /\ editor' = [editor EXCEPT ![e] =
                  [Resting EXCEPT !.op = "update", !.pc = "truncate",
                    !.new = Edited(disk.list, i, other, d)]]
      BY <3>2, Zenon
    <3>4. disk.list = l /\ other \in Name
      BY <1>1
    <3>5. QED
      BY <3>3, <3>4, Zenon
  <2>2. PICK new : new = Edited(l, i, other, d)
    OBVIOUS
  <2>3. new \in Seq(SourceRow) /\ ManualIds(l) \subseteq ManualIds(new)
    <3>1. CASE i \in DOMAIN l
      <4>1. PICK r : r = l[i] /\ r \in SourceRow
        BY <1>1, <3>1
      <4>2. PICK s : s = [r EXCEPT !.name = other, !.draft = d]
        OBVIOUS
      <4>3. d \in KeptDraft
        BY <2>1, <4>1 DEF SourceRow, KeptDraft
      <4>4. s \in SourceRow /\ s.id = r.id
        <5>1. s = [name |-> other, origin |-> r.origin, id |-> r.id,
                   draft |-> d]
          BY <4>1, <4>2 DEF SourceRow
        <5>2. QED
          BY <2>1, <4>1, <4>3, <5>1 DEF SourceRow
      <4>5. new = [l EXCEPT ![i] = s]
        BY <2>2, <4>1, <4>2, Zenon DEF Edited
      <4>6. /\ new \in Seq(SourceRow)
            /\ \A k \in DOMAIN l : k \in DOMAIN new /\ new[k].id = l[k].id
        BY <1>1, <3>1, <4>1, <4>4, <4>5
      <4>7. QED
        BY <4>6 DEF ManualIds
    <3>2. CASE i \notin DOMAIN l
      <4>1. new = l
        BY <1>1, <2>2, <3>2 DEF Edited
      <4>2. QED
        BY <1>1, <4>1
    <3>3. QED
      BY <3>1, <3>2
  <2>4. PICK w : w = [Resting EXCEPT !.op = "update", !.pc = "truncate",
                        !.new = new]
    OBVIOUS
  <2>5. w.pc = "truncate" /\ w.id = 0 /\ w.new = new
    BY <2>4 DEF Resting
  <2>6. editor' = [editor EXCEPT ![e] = w]
    BY <2>1, <2>2, <2>4
  <2>7. 0 \in Nat /\ w.id \in ManualIds(new) \cup {0}
    BY <2>5
  <2>8. QED
    BY <1>3, <2>3, <2>5, <2>6, <2>7
<1>6. QED
  BY <1>4, <1>5

(* A call that begins, or goes on, otherwise has nothing to write.         *)
LEMMA PassesKeep ==
  ASSUME StoreInv, ManualInv, NEW e \in Editor,
         \/ Search(e) \/ List(e) \/ Switch(e) \/ Preload(e) \/ Refetch(e)
         \/ ReadList(e) \/ Show(e) \/ Invalidate(e) \/ ReadRegion(e)
         \/ ReadAttempted(e) \/ LockRegion(e) \/ Detect(e)
         \/ MarkAttempted(e) \/ CheckCache(e) \/ FetchFails(e)
         \/ SaveMeta(e)
  PROVE  ManualInv'
<1>1. PICK v : v = editor[e] /\ LoadInv(v) /\ WriterInv(v)
  BY DEF StoreInv, ManualInv
<1>2. UNCHANGED <<disk, saved, overlapped>> /\ edits' \in Nat
  <2>1. UNCHANGED <<disk, saved, overlapped>>
        /\ (edits' = edits \/ edits' = edits + 1)
    BY DEF Search, List, Switch, Preload, Refetch, Starts, ReadList, Show,
       Invalidate, ReadRegion, ReadAttempted, LockRegion, Detect,
       MarkAttempted, CheckCache, FetchFails, SaveMeta
  <2>2. QED
    BY <2>1 DEF ManualInv
<1>3. v.pc \notin {"truncate", "write"} /\ v.id = 0
      /\ v.new \in Seq(SourceRow)
  <2>1. v.pc \notin {"truncate", "write"}
    BY <1>1 DEF Search, List, Switch, Preload, Refetch, Starts, ReadList, Show,
       Invalidate, ReadRegion, ReadAttempted, LockRegion, Detect,
       MarkAttempted, CheckCache, FetchFails, SaveMeta
  <2>2. QED
    BY <1>1, <2>1 DEF WriterInv
<1>4. ASSUME NEW w, editor' = [editor EXCEPT ![e] = w],
             w.pc \notin {"truncate", "write"}, w.new \in Seq(SourceRow),
             w.id = 0
      PROVE  ManualInv'
  BY <1>1, <1>2, <1>3, <1>4, OthersKeep
<1>5. ASSUME Rest(e) PROVE ManualInv'
  <2>1. Resting.pc = "idle" /\ Resting.new = <<>> /\ Resting.id = 0
    BY DEF Resting
  <2>2. <<>> \in Seq(SourceRow)
    OBVIOUS
  <2>3. QED
    BY <1>4, <1>5, <2>1, <2>2 DEF Rest
<1>6. ASSUME NEW pc, Move(e, pc), pc \notin {"truncate", "write"}
      PROVE  ManualInv'
  <2>1. PICK w : /\ w = [v EXCEPT !.pc = pc]
                 /\ editor' = [editor EXCEPT ![e] = w]
    BY <1>1, <1>6, EditorFields
  <2>2. w.pc = pc /\ w.new = v.new /\ w.id = v.id
    BY <1>1, <2>1 DEF LoadInv
  <2>3. QED
    BY <1>3, <1>4, <1>6, <2>1, <2>2
<1>7. ASSUME NEW known, Answered(e, known) PROVE ManualInv'
  <2>1. PICK w : /\ w = [v EXCEPT !.pc = AfterRegion(e), !.known = known]
                 /\ editor' = [editor EXCEPT ![e] = w]
    BY <1>1, <1>7, EditorFields
  <2>2. w.pc \in {"check", "filter"} /\ w.new = v.new /\ w.id = v.id
    BY <1>1, <2>1 DEF LoadInv, AfterRegion
  <2>3. QED
    BY <1>3, <1>4, <2>1, <2>2
<1>8. ASSUME NEW op, NEW where, Starts(e, op, where),
             where \notin {"truncate", "write"}
      PROVE  ManualInv'
  <2>1. PICK w : /\ w = [Resting EXCEPT !.op = op, !.pc = where,
                           !.now = IF op = "search" THEN clock ELSE 0]
                 /\ editor' = [editor EXCEPT ![e] = w]
    BY <1>8 DEF Starts
  <2>2. w.pc = where /\ w.new = <<>> /\ w.id = 0
    BY <2>1 DEF Resting
  <2>3. <<>> \in Seq(SourceRow)
    OBVIOUS
  <2>4. QED
    BY <1>4, <1>8, <2>1, <2>2, <2>3
<1>9. CASE Search(e) \/ List(e) \/ Switch(e) \/ Preload(e) \/ Refetch(e)
  BY <1>8, <1>9 DEF Search, List, Switch, Preload, Refetch
<1>10. CASE ReadList(e)
  <2>1. CASE Rest(e)
    BY <1>5, <2>1
  <2>2. CASE ~ Rest(e)
    <3>1. PICK w : /\ w = [v EXCEPT !.local = disk, !.pc = "region"]
                   /\ editor' = [editor EXCEPT ![e] = w]
      BY <1>1, <1>10, <2>2 DEF ReadList, StoreInv
    <3>2. w.pc = "region" /\ w.new = v.new /\ w.id = v.id
      BY <1>1, <3>1 DEF LoadInv
    <3>3. QED
      BY <1>3, <1>4, <3>1, <3>2
  <2>3. QED
    BY <2>1, <2>2
<1>11. CASE Show(e) \/ Invalidate(e) \/ FetchFails(e) \/ CheckCache(e)
  BY <1>5, <1>6, <1>11 DEF Show, Invalidate, FetchFails, CheckCache
<1>12. CASE ReadRegion(e) \/ ReadAttempted(e) \/ LockRegion(e)
            \/ MarkAttempted(e) \/ SaveMeta(e)
  <2>1. \/ \E known : Answered(e, known)
        \/ \E pc \in {"lock", "attempted", "detect", "invalidate"} :
             Move(e, pc)
    BY <1>12 DEF ReadRegion, ReadAttempted, LockRegion, MarkAttempted,
       SaveMeta
  <2>2. QED
    BY <1>6, <1>7, <2>1
<1>13. CASE Detect(e)
  <2>1. CASE Move(e, "detected")
    BY <1>6, <2>1
  <2>2. CASE ~ Move(e, "detected")
    <3>1. PICK w : /\ w = [v EXCEPT !.tries = 1]
                   /\ editor' = [editor EXCEPT ![e] = w]
      BY <1>1, <1>13, <2>2 DEF Detect, StoreInv
    <3>2. w.pc = v.pc /\ w.new = v.new /\ w.id = v.id
      BY <1>1, <3>1 DEF LoadInv
    <3>3. QED
      BY <1>3, <1>4, <3>1, <3>2
  <2>3. QED
    BY <2>1, <2>2
<1>14. QED
  BY <1>9, <1>10, <1>11, <1>12, <1>13

(* A file there is at first holds what the user made.                      *)
LEMMA ManualInitHolds == SourceInit => ManualInv
<1> SUFFICES ASSUME SourceInit PROVE ManualInv
  OBVIOUS
<1>1. \A e \in Editor : editor[e] = Resting
  BY DEF SourceInit
<1>2. Resting.pc = "idle" /\ Resting.new = <<>> /\ Resting.id = 0
  BY DEF Resting
<1>3. WriterInv(Resting)
  BY <1>2 DEF WriterInv
<1>4. ASSUME NEW e \in Editor PROVE WriterInv(editor[e])
  BY <1>1, <1>3
<1>5. Writing = {}
  BY <1>1, <1>2 DEF Writing
<1>6. /\ disk.list \in Seq(SourceRow) /\ disk # Torn /\ Holds(disk.list)
      /\ disk = [kind |-> disk.kind, list |-> disk.list]
  <2>1. CASE disk = Missing /\ saved = {}
    BY <2>1 DEF Missing, Torn, Holds
  <2>2. ASSUME NEW l \in Seq(SourceRow), disk = File(l),
               saved \subseteq ManualIds(l)
        PROVE  /\ disk.list \in Seq(SourceRow) /\ disk # Torn
               /\ Holds(disk.list)
               /\ disk = [kind |-> disk.kind, list |-> disk.list]
    BY <2>2 DEF File, Torn, Holds
  <2>3. ASSUME NEW n \in Name, disk = File(<<Subscribed(n)>>), saved = {}
        PROVE  /\ disk.list \in Seq(SourceRow) /\ disk # Torn
               /\ Holds(disk.list)
               /\ disk = [kind |-> disk.kind, list |-> disk.list]
    <3>1. PICK l : l = <<Subscribed(n)>>
      OBVIOUS
    <3>2. l \in Seq(SourceRow)
      BY <3>1, RowsKept
    <3>3. QED
      BY <2>2, <2>3, <3>1, <3>2
  <2>4. ASSUME NEW n \in Name, NEW m \in Name, saved = {1},
               disk = File(<<Subscribed(n), Manual(m, 1, NoDraft)>>)
        PROVE  /\ disk.list \in Seq(SourceRow) /\ disk # Torn
               /\ Holds(disk.list)
               /\ disk = [kind |-> disk.kind, list |-> disk.list]
    <3>1. PICK s : s = Subscribed(n) /\ s \in SourceRow
      BY RowsKept
    <3>2. PICK t : t = Manual(m, 1, NoDraft) /\ t \in SourceRow /\ t.id = 1
      BY RowsKept
    <3>3. PICK l : l = <<s, t>>
      OBVIOUS
    <3>4. l \in Seq(SourceRow) /\ 2 \in DOMAIN l /\ l[2] = t
      BY <3>1, <3>2, <3>3
    <3>5. 1 \in ManualIds(l)
      BY <3>2, <3>4 DEF ManualIds
    <3>6. QED
      BY <2>2, <2>4, <3>1, <3>2, <3>3, <3>4, <3>5
  <2>5. QED
    BY <2>1, <2>3, <2>4 DEF SourceInit
<1>7. edits = 0
  BY DEF SourceInit
<1>8. QED
  BY <1>4, <1>5, <1>6, <1>7 DEF ManualInv

(* Every step keeps what the user made.                                    *)
LEMMA ManualStep ==
  StoreInv /\ ManualInv /\ [StoreNext]_sourceVars => ManualInv'
<1> SUFFICES ASSUME StoreInv, ManualInv, [StoreNext]_sourceVars
             PROVE  ManualInv'
  OBVIOUS
<1>1. CASE UNCHANGED <<disk, saved, overlapped, editor, edits>>
  <2>1. \A l : Holds(l)' <=> Holds(l)
    BY <1>1 DEF Holds, ManualIds
  <2>2. ASSUME NEW e \in Editor PROVE WriterInv(editor[e])'
    <3>1. PICK x : x = editor[e] /\ WriterInv(x)
      BY DEF ManualInv
    <3>2. WriterInv(x)'
      BY <1>1, <2>1, <3>1 DEF WriterInv
    <3>3. QED
      BY <1>1, <2>1, <3>1, <3>2 DEF WriterInv
  <2>3. Writing' = Writing
    BY <1>1 DEF Writing
  <2>4. QED
    BY <1>1, <2>1, <2>2, <2>3 DEF ManualInv
<1>2. CASE Restart
  <2>1. /\ \A e \in Editor : editor'[e] = Resting
        /\ UNCHANGED <<disk, saved>> /\ edits' = edits + 1
        /\ ~ overlapped' =>
             ~ overlapped /\ \A e \in Editor : editor[e].pc # "write"
    BY <1>2 DEF Restart
  <2>2. Resting.pc = "idle" /\ Resting.new = <<>> /\ Resting.id = 0
    BY DEF Resting
  <2>3. \A e \in Editor : WriterInv(editor[e])'
    <3> SUFFICES ASSUME NEW e \in Editor PROVE WriterInv(editor[e])'
      OBVIOUS
    <3>1. PICK x : x = editor'[e] /\ x.pc = "idle" /\ x.new = <<>> /\ x.id = 0
      BY <2>1, <2>2
    <3>2. QED
      BY <3>1 DEF WriterInv
  <2>4. Writing' = {}
    BY <2>1, <2>2 DEF Writing
  <2>5. ~ overlapped' => disk # Torn /\ Holds(disk.list)
    <3> SUFFICES ASSUME ~ overlapped' PROVE disk # Torn /\ Holds(disk.list)
      OBVIOUS
    <3>1. CASE Writing = {}
      BY <2>1, <3>1 DEF ManualInv
    <3>2. CASE Writing # {}
      <4>1. PICK e \in Editor : editor[e].pc = "truncate"
        BY <2>1, <3>2 DEF Writing
      <4>2. QED
        BY <2>1, <4>1 DEF ManualInv, WriterInv
    <3>3. QED
      BY <3>1, <3>2
  <2>6. Holds(disk.list)' <=> Holds(disk.list)
    BY <2>1 DEF Holds, ManualIds
  <2>7. QED
    BY <2>1, <2>3, <2>4, <2>5, <2>6 DEF ManualInv
<1>3. CASE Tick
  BY <1>1, <1>3 DEF Tick
<1>4. CASE UNCHANGED sourceVars
  BY <1>1, <1>4 DEF sourceVars
<1>5. ASSUME NEW e \in Editor, EditorCalls(e) \/ EditorSteps(e)
      PROVE  ManualInv'
  BY <1>5, PassesKeep, EditsKeep, MergesKeep, WritesKeep
     DEF EditorCalls, EditorSteps
<1>6. QED
  BY <1>2, <1>3, <1>4, <1>5 DEF StoreNext, SourceCalls

(* An expression that is valid is none of the broken ones.                 *)
LEMMA DraftsCompile ==
  ASSUME NEW d \in KeptDraft, NEW f \in DOMAIN d
  PROVE  d[f] \notin {"broken"} \cup (IF f \in Needed THEN {""} ELSE {})
<1>1. CASE d = NoDraft
  <2>1. f = "videoUrl" /\ d[f] = "" /\ f \notin Needed
    <3>1. f = "videoUrl" /\ d["videoUrl"] = ""
      BY <1>1, Zenon DEF NoDraft
    <3>2. "videoUrl" \notin Needed
      BY DEF Needed
    <3>3. QED
      BY <3>1, <3>2, Zenon
  <2>2. QED
    BY <2>1, Zenon
<1>2. CASE d \in Draft /\ Valid(d)
  BY <1>2, DraftAssumption, Zenon DEF Valid, ValidSearch, ValidOptional
<1>3. QED
  BY <1>1, <1>2 DEF KeptDraft

(* So the user's sources survive.                                          *)
LEMMA ManualFollows == ManualInv => ManualsSurvive
<1> SUFFICES ASSUME ManualInv PROVE ManualsSurvive
  OBVIOUS
<1>1. ~ overlapped /\ Writing = {} =>
        disk # Torn /\ saved \subseteq ManualIds(disk.list)
  BY DEF ManualInv, Holds
<1>2. ASSUME NEW i \in DOMAIN disk.list PROVE disk.list[i].draft \in KeptDraft
  <2>1. disk.list[i] \in SourceRow
    BY DEF ManualInv
  <2>2. QED
    BY <2>1 DEF SourceRow
<1>3. QED
  BY <1>1, <1>2, DraftsCompile, Zenon DEF ManualsSurvive

-----------------------------------------------------------------------------
(* The searches.  What a worker has told so far: nothing final yet, or one *)
(* final word at the end.                                                  *)
Fields == {"pc", "alias", "answered", "ranked", "try", "lost", "override",
           "events", "end", "url", "cached"}
Words == {"Searching", "FetchingDetail", "FetchingEpisodes",
           "ExtractingVideo"} \cup Terminal

Quiet(told) ==
  told \in Seq(Words) /\ \A i \in DOMAIN told : told[i] \notin Terminal
LastWord(told, t) ==
  /\ told \in Seq(Words) /\ Len(told) # 0 /\ told[Len(told)] = t
  /\ \A i \in 1..(Len(told) - 1) : told[i] \notin Terminal

(* A worker of a search with progress is silent on its end until it ends,  *)
(* and ends without a word only when nobody listens.                       *)
SettledInv(w) ==
  /\ w.pc # "video"
  /\ w.pc # "done" => Quiet(w.events) /\ w.end # "ok"
  /\ w.pc = "done" => \/ LastWord(w.events, "Success") /\ w.end = "ok"
                      \/ LastWord(w.events, "Failed") /\ w.end # "ok"
                      \/ Quiet(w.events) /\ w.end # "ok" /\ ~open

Sound(w) == DOMAIN w = Fields /\ (kind = "progress" => SettledInv(w))
Working(w) == Sound(w) /\ w.pc # "done"

LimitKept ==
  limit # 0 => IsFiniteSet(Running) /\ Cardinality(Running) <= limit

WorkersInv ==
  /\ limit \in Nat /\ LimitKept
  /\ worker = [s \in Source |-> worker[s]]
  /\ \A s \in Source : Sound(worker[s])

(* One more word that is not final, and one that is.                       *)
LEMMA MoreWords ==
  ASSUME NEW told, Quiet(told)
  PROVE  /\ \A q \in Words \ Terminal : Quiet(told \o <<q>>)
         /\ \A t \in Terminal : LastWord(told \o <<t>>, t)
<1>1. told \in Seq(Words)
  BY DEF Quiet
<1>2. ASSUME NEW q \in Words
      PROVE  /\ told \o <<q>> \in Seq(Words)
             /\ Len(told \o <<q>>) = Len(told) + 1
             /\ \A i \in 1..Len(told) : (told \o <<q>>)[i] = told[i]
             /\ (told \o <<q>>)[Len(told) + 1] = q
  BY <1>1
<1>3. DOMAIN told = 1..Len(told) /\ Len(told) \in Nat
  BY <1>1
<1>4. ASSUME NEW q \in Words \ Terminal PROVE Quiet(told \o <<q>>)
  <2>1. DOMAIN (told \o <<q>>) = 1..(Len(told) + 1)
    BY <1>2
  <2>2. QED
    BY <1>2, <1>3, <2>1 DEF Quiet
<1>5. ASSUME NEW t \in Terminal PROVE LastWord(told \o <<t>>, t)
  <2>1. t \in Words
    BY DEF Words
  <2>2. QED
    BY <1>2, <1>3, <2>1 DEF Quiet, LastWord
<1>6. QED
  BY <1>4, <1>5

(* Words in a row are told one after the other.                            *)
LEMMA WordsInARow ==
  ASSUME NEW told, Quiet(told)
  PROVE  /\ told \o <<>> = told
         /\ LastWord(told \o <<"ExtractingVideo", "Success">>, "Success")
         /\ LastWord(told \o <<"FetchingEpisodes", "ExtractingVideo",
                               "Success">>, "Success")
<1>1. told \in Seq(Words) /\ {"ExtractingVideo", "FetchingEpisodes"}
        \subseteq Words \ Terminal /\ "Success" \in Terminal
  BY DEF Quiet, Words, Terminal
<1>2. told \o <<>> = told
  BY <1>1
<1>3. told \o <<"ExtractingVideo", "Success">>
        = (told \o <<"ExtractingVideo">>) \o <<"Success">>
  BY <1>1
<1>4. told \o <<"FetchingEpisodes", "ExtractingVideo", "Success">>
        = ((told \o <<"FetchingEpisodes">>) \o <<"ExtractingVideo">>)
            \o <<"Success">>
  BY <1>1
<1>5. QED
  BY <1>1, <1>2, <1>3, <1>4, MoreWords

(* A worker goes on with other locals.                                     *)
LEMMA GoesOnSound ==
  ASSUME NEW w, Working(w), NEW v, DOMAIN v = Fields,
         v.events = w.events, v.end = w.end, v.pc # "done",
         kind = "progress" => v.pc # "video"
  PROVE  Working(v)
BY DEF Working, Sound, SettledInv

(* It tells one more thing.                                                *)
LEMMA EmitsSound ==
  ASSUME NEW w, Working(w), NEW q \in Words \ Terminal
  PROVE  Working(Emits(w, <<q>>)) /\ Emits(w, <<q>>).pc = w.pc
<1>1. CASE kind = "progress"
  <2>1. PICK v : v = [w EXCEPT !.events = @ \o <<q>>] /\ v = Emits(w, <<q>>)
    BY <1>1 DEF Emits
  <2>2. /\ DOMAIN v = Fields /\ v.events = w.events \o <<q>>
        /\ v.pc = w.pc /\ v.end = w.end
    BY <2>1 DEF Working, Sound, Fields
  <2>3. QED
    BY <1>1, <2>1, <2>2, MoreWords DEF Working, Sound, SettledInv
<1>2. CASE kind # "progress"
  BY <1>2 DEF Emits
<1>3. QED
  BY <1>1, <1>2

(* It ends: without a word where there is no progress or no listener, with *)
(* a failure, or with a page to play.                                      *)
LEMMA EndedSound ==
  ASSUME NEW w, Working(w), NEW end, NEW url
  PROVE  /\ Ended(w, end, url).pc = "done"
         /\ end # "ok" /\ (kind = "progress" => ~open)
              => Sound(Ended(w, end, url))
         /\ kind # "progress" => Sound(Ended(w, end, url))
<1>1. PICK v : v = Ended(w, end, url)
  OBVIOUS
<1>2. /\ DOMAIN v = Fields /\ v.events = w.events
      /\ v.pc = "done" /\ v.end = end
  BY <1>1 DEF Ended, Working, Sound, Fields
<1>3. QED
  BY <1>1, <1>2 DEF Working, Sound, SettledInv

(* Its final word comes with its end.                                      *)
LEMMA FinalSound ==
  ASSUME NEW w, Working(w), NEW steps, NEW v, NEW end, NEW url,
         v = Emits(w, steps) \/ v = [Emits(w, steps) EXCEPT !.cached = TRUE],
         \/ steps = <<"Failed">> /\ end # "ok"
         \/ /\ end = "ok"
            /\ steps \in {<<"ExtractingVideo", "Success">>,
                          <<"FetchingEpisodes", "ExtractingVideo", "Success">>}
  PROVE  Sound(Ended(v, end, url)) /\ Ended(v, end, url).pc = "done"
<1>1. PICK u : u = Ended(v, end, url)
  OBVIOUS
<1>2. PICK x : x = Emits(w, steps)
  OBVIOUS
<1>3. /\ DOMAIN x = Fields
      /\ kind = "progress" => x.events = w.events \o steps
  BY <1>2 DEF Emits, Working, Sound, Fields
<1>4. DOMAIN v = Fields /\ v.events = x.events
  BY <1>2, <1>3 DEF Fields
<1>5. /\ DOMAIN u = Fields /\ u.events = v.events
      /\ u.pc = "done" /\ u.end = end
  BY <1>1, <1>4 DEF Ended, Fields
<1>6. CASE kind = "progress"
  <2>1. Quiet(w.events)
    BY <1>6 DEF Working, Sound, SettledInv
  <2>2. CASE steps = <<"Failed">> /\ end # "ok"
    <3>0. "Failed" \in Terminal /\ u.events = w.events \o <<"Failed">>
      BY <1>3, <1>4, <1>5, <1>6, <2>2 DEF Terminal
    <3>1. LastWord(u.events, "Failed")
      BY <2>1, <3>0, MoreWords
    <3>2. QED
      BY <1>1, <1>5, <2>2, <3>1 DEF Sound, SettledInv
  <2>3. CASE end = "ok" /\ steps \in {<<"ExtractingVideo", "Success">>,
                       <<"FetchingEpisodes", "ExtractingVideo", "Success">>}
    <3>0. u.events = w.events \o steps
      BY <1>3, <1>4, <1>5, <1>6
    <3>1. LastWord(u.events, "Success")
      <4>1. CASE steps = <<"ExtractingVideo", "Success">>
        BY <2>1, <3>0, <4>1, WordsInARow
      <4>2. CASE steps = <<"FetchingEpisodes", "ExtractingVideo", "Success">>
        BY <2>1, <3>0, <4>2, WordsInARow
      <4>3. QED
        BY <2>3, <4>1, <4>2
    <3>2. QED
      BY <1>1, <1>5, <2>3, <3>1 DEF Sound, SettledInv
  <2>4. QED
    BY <2>2, <2>3
<1>7. CASE kind # "progress"
  BY <1>1, <1>5, <1>7 DEF Sound
<1>8. QED
  BY <1>1, <1>5, <1>6, <1>7

(* It gives up: with a word if there is someone who listens.               *)
LEMMA GivesUpSound ==
  ASSUME NEW w, Working(w), NEW end, end # "ok"
  PROVE  LET last == IF Refused THEN <<>> ELSE <<"Failed">>
         IN Sound(Ended(Emits(w, last), end, <<>>))
<1>1. PICK url : url = <<>>
  OBVIOUS
<1>2. CASE Refused
  <2>1. Working(Emits(w, <<>>))
    <3>1. PICK v : v = [w EXCEPT !.events = @ \o <<>>]
                   /\ v = Emits(w, <<>>)
      BY <1>2 DEF Emits, Refused
    <3>2. /\ DOMAIN v = Fields /\ v.events = w.events \o <<>>
          /\ v.pc = w.pc /\ v.end = w.end
      BY <3>1 DEF Working, Sound, Fields
    <3>3. Quiet(w.events)
      BY <1>2 DEF Working, Sound, SettledInv, Refused
    <3>4. v.events = w.events
      BY <3>2, <3>3, WordsInARow
    <3>5. QED
      BY <1>2, <3>1, <3>2, <3>4 DEF Working, Sound, SettledInv, Refused
  <2>2. PICK x : x = Emits(w, <<>>)
    OBVIOUS
  <2>3. Sound(Ended(x, end, url))
    BY <1>2, <2>1, <2>2, EndedSound DEF Refused
  <2>4. QED
    BY <1>1, <1>2, <2>2, <2>3
<1>3. CASE ~Refused
  <2>1. PICK steps : steps = <<"Failed">>
    OBVIOUS
  <2>2. Sound(Ended(Emits(w, steps), end, url))
    <3>1. PICK v : v = Emits(w, steps)
      OBVIOUS
    <3>2. QED
      BY <2>1, <3>1, FinalSound
  <2>3. QED
    BY <1>1, <1>3, <2>1, <2>2
<1>4. QED
  BY <1>2, <1>3

(* It goes on to its candidates, or to the next of them.                   *)
LEMMA TriesSound ==
  ASSUME NEW w, Working(w)
  PROVE  Sound(Tries(w)) /\ Sound(NextTry(w))
<1>0. "FetchingDetail" \in Words \ Terminal
  BY DEF Words, Terminal
<1>1. Refused => Sound(Ended(w, "closed", <<>>))
  <2>1. PICK end, url : end = "closed" /\ url = <<>>
    OBVIOUS
  <2>2. Refused => Sound(Ended(w, end, url))
    BY <2>1, EndedSound DEF Refused
  <2>3. QED
    BY <2>1, <2>2
<1>2. Sound(Tries(w))
  <2>1. CASE Pinned(w) = <<>>
    <3>1. PICK end : end = IF kind = "progress" /\ ~w.answered THEN "network"
                           ELSE "unmatched"
      OBVIOUS
    <3>2. end # "ok"
      BY <3>1
    <3>3. Tries(w) = Ended(Emits(w, IF Refused THEN <<>> ELSE <<"Failed">>),
                           end, <<>>)
      BY <2>1, <3>1 DEF Tries
    <3>4. QED
      BY <3>2, <3>3, GivesUpSound
  <2>2. CASE Pinned(w) # <<>> /\ Refused
    BY <1>1, <2>2 DEF Tries
  <2>3. CASE Pinned(w) # <<>> /\ ~Refused
    <3>1. PICK all : all = [w EXCEPT !.ranked = Pinned(w), !.pc = "detail",
                                     !.try = 1]
      OBVIOUS
    <3>2. /\ DOMAIN all = Fields /\ all.events = w.events
          /\ all.end = w.end /\ all.pc = "detail"
      BY <3>1 DEF Working, Sound, Fields
    <3>3. Working(all)
      BY <3>2, GoesOnSound
    <3>4. Tries(w) = Emits(all, <<"FetchingDetail">>)
      BY <2>3, <3>1 DEF Tries
    <3>5. QED
      BY <1>0, <3>3, <3>4, EmitsSound DEF Working
  <2>4. QED
    BY <2>1, <2>2, <2>3
<1>3. Sound(NextTry(w))
  <2>1. CASE kind = "first" \/ w.try = RetryLimit(Len(w.ranked))
    <3>1. PICK end : end = "unplayable"
      OBVIOUS
    <3>2. NextTry(w) = Ended(Emits(w, IF Refused THEN <<>>
                                      ELSE <<"Failed">>), "unplayable", <<>>)
      BY <2>1 DEF NextTry
    <3>3. QED
      BY <3>1, <3>2, GivesUpSound, Zenon
  <2>2. CASE /\ ~(kind = "first" \/ w.try = RetryLimit(Len(w.ranked)))
             /\ Refused
    BY <1>1, <2>2 DEF NextTry
  <2>3. CASE /\ ~(kind = "first" \/ w.try = RetryLimit(Len(w.ranked)))
             /\ ~Refused
    <3>1. PICK next : next = [w EXCEPT !.try = @ + 1]
      OBVIOUS
    <3>2. /\ DOMAIN next = Fields /\ next.events = w.events
          /\ next.end = w.end /\ next.pc = w.pc
      BY <3>1 DEF Working, Sound, Fields
    <3>3. Working(next)
      BY <3>2, GoesOnSound DEF Working, Sound, SettledInv
    <3>4. NextTry(w) = Emits(next, <<"FetchingDetail">>)
      BY <2>3, <3>1 DEF NextTry
    <3>5. QED
      BY <1>0, <3>3, <3>4, EmitsSound DEF Working
  <2>4. QED
    BY <2>1, <2>2, <2>3
<1>4. QED
  BY <1>2, <1>3

-----------------------------------------------------------------------------
(* Workers that run go on or end; no other begins.                         *)
LEMMA WorkersMove ==
  ASSUME WorkersInv, UNCHANGED <<limit, kind, open>>,
         worker' = [r \in Source |-> worker'[r]],
         \A r \in Source :
           \/ worker'[r] = worker[r]
           \/ /\ Sound(worker'[r])
              /\ r \in Running \/ worker'[r].pc \in {"out", "waiting", "done"}
  PROVE  WorkersInv'
<1>1. \A r \in Source : Sound(worker'[r])
  BY DEF WorkersInv
<1>2. \A r \in Source : Sound(worker[r])'
  BY <1>1 DEF Sound, SettledInv
<1>3. Running' \subseteq Running
  BY DEF Running
<1>4. LimitKept'
  <2>1. SUFFICES ASSUME limit # 0
                 PROVE  IsFiniteSet(Running') /\ Cardinality(Running') <= limit
    BY DEF LimitKept
  <2>2. IsFiniteSet(Running) /\ Cardinality(Running) <= limit
    BY <2>1 DEF WorkersInv, LimitKept
  <2>3. IsFiniteSet(Running') /\ Cardinality(Running') <= Cardinality(Running)
    BY <1>3, <2>2, FS_Subset
  <2>4. Cardinality(Running) \in Nat /\ Cardinality(Running') \in Nat
        /\ limit \in Nat
    BY <2>2, <2>3, FS_CardinalityType DEF WorkersInv
  <2>5. QED
    BY <2>2, <2>3, <2>4
<1>5. QED
  BY <1>2, <1>4 DEF WorkersInv

(* One worker that runs goes on or ends.                                   *)
LEMMA WorkerMoves ==
  ASSUME WorkersInv, UNCHANGED <<limit, kind, open>>,
         NEW s \in Running, NEW w, Sound(w), Becomes(s, w)
  PROVE  WorkersInv'
<1>1. s \in Source /\ worker = [r \in Source |-> worker[r]]
  BY DEF Running, WorkersInv
<1>2. /\ worker' = [r \in Source |-> worker'[r]]
      /\ \A r \in Source : worker'[r] = IF r = s THEN w ELSE worker[r]
  BY <1>1 DEF Becomes
<1>3. QED
  BY <1>2, WorkersMove

(* A worker that waits begins where there is room: alone where sources are *)
(* tried one after the other.                                              *)
LEMMA WorkerBegins ==
  ASSUME WorkersInv, UNCHANGED <<limit, kind, open>>, NEW s \in Source,
         \/ \A r \in Source : worker[r].pc \in {"waiting", "done"}
         \/ Room,
         NEW w, Sound(w), Becomes(s, w)
  PROVE  WorkersInv'
<1>1. worker = [r \in Source |-> worker[r]]
  BY DEF WorkersInv
<1>2. /\ worker' = [r \in Source |-> worker'[r]]
      /\ \A r \in Source : worker'[r] = IF r = s THEN w ELSE worker[r]
  BY <1>1 DEF Becomes
<1>3. \A r \in Source : Sound(worker'[r])
  BY <1>2 DEF WorkersInv
<1>4. \A r \in Source : Sound(worker[r])'
  BY <1>3 DEF Sound, SettledInv
<1>5. Running' \subseteq Running \cup {s}
  BY <1>2 DEF Running
<1>6. LimitKept'
  <2>1. SUFFICES ASSUME limit # 0
                 PROVE  IsFiniteSet(Running') /\ Cardinality(Running') <= limit
    BY DEF LimitKept
  <2>2. IsFiniteSet(Running) /\ Cardinality(Running) < limit
    <3>1. CASE \A r \in Source : worker[r].pc \in {"waiting", "done"}
      <4>1. Running = {}
        BY <3>1 DEF Running
      <4>2. QED
        BY <2>1, <4>1, FS_EmptySet DEF WorkersInv
    <3>2. CASE Room
      BY <2>1, <3>2 DEF Room, WorkersInv, LimitKept
    <3>3. QED
      BY <3>1, <3>2
  <2>3. PICK more : more = Running \cup {s}
    OBVIOUS
  <2>4. /\ IsFiniteSet(more) /\ Cardinality(Running) \in Nat
        /\ \/ Cardinality(more) = Cardinality(Running)
           \/ Cardinality(more) = Cardinality(Running) + 1
    BY <2>2, <2>3, FS_AddElement, FS_CardinalityType
  <2>5. /\ IsFiniteSet(Running') /\ Cardinality(Running') \in Nat
        /\ Cardinality(Running') <= Cardinality(more)
    BY <1>5, <2>3, <2>4, FS_Subset, FS_CardinalityType
  <2>6. limit \in Nat
    BY DEF WorkersInv
  <2>7. QED
    BY <2>2, <2>4, <2>5, <2>6
<1>7. QED
  BY <1>2, <1>4, <1>6 DEF WorkersInv

(* Whatever it begins with, it is told as it should be.                    *)
LEMMA BeginSound ==
  ASSUME NEW w, Working(w), NEW cached
  PROVE  LET first == [Emits(w, <<"Searching">>) EXCEPT !.pc = "search",
                                                        !.alias = 1]
         IN /\ Refused => Sound(Ended(w, "closed", <<>>))
            /\ Sound(first)
            /\ Sound(Ended(Emits(first, <<"Failed">>), "skipped", <<>>))
            /\ Sound(Ended([Emits(first,
                 <<"FetchingEpisodes", "ExtractingVideo", "Success">>)
                   EXCEPT !.cached = TRUE], "ok", cached))
<1>1. PICK told : told = Emits(w, <<"Searching">>)
  OBVIOUS
<1>2. Working(told)
  BY <1>1, EmitsSound DEF Words, Terminal
<1>3. PICK first : first = [told EXCEPT !.pc = "search", !.alias = 1]
  OBVIOUS
<1>4. Working(first)
  <2>1. /\ DOMAIN first = Fields /\ first.events = told.events
        /\ first.end = told.end /\ first.pc = "search"
    BY <1>2, <1>3 DEF Working, Sound, Fields
  <2>2. QED
    BY <1>2, <2>1, GoesOnSound
<1>5. Refused => Sound(Ended(w, "closed", <<>>))
  <2>1. PICK end, url : end = "closed" /\ url = <<>>
    OBVIOUS
  <2>2. Refused => Sound(Ended(w, end, url))
    BY <2>1, EndedSound DEF Refused
  <2>3. QED
    BY <2>1, <2>2
<1>6. Sound(Ended(Emits(first, <<"Failed">>), "skipped", <<>>))
  <2>1. PICK steps, v, end, url :
          /\ steps = <<"Failed">> /\ v = Emits(first, steps)
          /\ end = "skipped" /\ url = <<>>
    OBVIOUS
  <2>2. Sound(Ended(v, end, url))
    BY <1>4, <2>1, FinalSound
  <2>3. QED
    BY <2>1, <2>2
<1>7. Sound(Ended([Emits(first,
              <<"FetchingEpisodes", "ExtractingVideo", "Success">>)
                EXCEPT !.cached = TRUE], "ok", cached))
  <2>1. PICK steps, v, end :
          /\ steps = <<"FetchingEpisodes", "ExtractingVideo", "Success">>
          /\ v = [Emits(first, steps) EXCEPT !.cached = TRUE] /\ end = "ok"
    OBVIOUS
  <2>2. Sound(Ended(v, end, cached))
    BY <1>4, <2>1, FinalSound
  <2>3. QED
    BY <2>1, <2>2
<1>8. QED
  BY <1>1, <1>3, <1>4, <1>5, <1>6, <1>7 DEF Working

(* So it may begin.                                                        *)
LEMMA BeginKeeps ==
  ASSUME WorkersInv, NEW s \in Source, Begin(s) PROVE WorkersInv'
<1>1. PICK w : w = worker[s]
  OBVIOUS
<1>2. Working(w)
  BY <1>1 DEF Begin, WorkersInv, Working
<1>3. PICK cached : cached = IF MayUseTable(s) THEN Chosen(s) ELSE <<>>
  OBVIOUS
<1>4. PICK first : first = [Emits(w, <<"Searching">>) EXCEPT !.pc = "search",
                                                            !.alias = 1]
  OBVIOUS
<1>5. \/ Refused /\ Becomes(s, Ended(w, "closed", <<>>))
      \/ Becomes(s, first)
      \/ Becomes(s, Ended(Emits(first, <<"Failed">>), "skipped", <<>>))
      \/ Becomes(s, Ended([Emits(first,
           <<"FetchingEpisodes", "ExtractingVideo", "Success">>)
             EXCEPT !.cached = TRUE], "ok", cached))
  BY <1>1, <1>3, <1>4 DEF Begin
<1>6. \E v : Sound(v) /\ Becomes(s, v)
  BY <1>2, <1>4, <1>5, BeginSound
<1>7. QED
  BY <1>6, WorkerBegins DEF Begin

-----------------------------------------------------------------------------
(* The search of a site was answered, or failed.                           *)
LEMMA SearchKeeps ==
  ASSUME WorkersInv, NEW s \in Source, SearchAnswered(s) \/ SearchFailed(s)
  PROVE  WorkersInv'
<1>1. /\ s \in Running /\ worker[s].pc = "search"
      /\ UNCHANGED <<limit, kind, open>>
  BY DEF SearchAnswered, SearchFailed, Running
<1>2. PICK w : w = worker[s]
  OBVIOUS
<1>3. Working(w) /\ w.pc = "search"
  BY <1>1, <1>2 DEF WorkersInv, Working, Running
<1>4. ASSUME NEW v, Working(v), v.pc = "search"
      PROVE  Sound([v EXCEPT !.alias = @ + 1])
  <2>1. PICK next : next = [v EXCEPT !.alias = @ + 1]
    OBVIOUS
  <2>2. /\ DOMAIN next = Fields /\ next.events = v.events
        /\ next.end = v.end /\ next.pc = v.pc
    BY <1>4, <2>1 DEF Working, Sound, Fields
  <2>3. QED
    BY <1>4, <2>1, <2>2, GoesOnSound DEF Working
<1>5. CASE SearchAnswered(s)
  <2>1. PICK ranked : ranked = Candidates[site[s]][kind][worker[s].alias]
    OBVIOUS
  <2>2. PICK v : v = [w EXCEPT !.answered = TRUE, !.ranked = ranked]
    OBVIOUS
  <2>3. /\ DOMAIN v = Fields /\ v.events = w.events
        /\ v.end = w.end /\ v.pc = w.pc
    BY <1>3, <2>2 DEF Working, Sound, Fields
  <2>4. Working(v)
    BY <1>3, <2>3, GoesOnSound
  <2>5. \/ Becomes(s, [v EXCEPT !.alias = @ + 1])
        \/ Becomes(s, Tries(v))
    BY <1>2, <1>5, <2>1, <2>2 DEF SearchAnswered
  <2>6. \E u : Sound(u) /\ Becomes(s, u)
    BY <1>3, <1>4, <2>3, <2>4, <2>5, TriesSound
  <2>7. QED
    BY <1>1, <2>6, WorkerMoves
<1>6. CASE SearchFailed(s)
  <2>1. \/ kind # "progress" /\ Becomes(s, Ended(w, "network", <<>>))
        \/ Becomes(s, [w EXCEPT !.alias = @ + 1])
        \/ Becomes(s, Tries(w))
    BY <1>2, <1>6 DEF SearchFailed
  <2>2. PICK end, url : end = "network" /\ url = <<>>
    OBVIOUS
  <2>3. kind # "progress" => Sound(Ended(w, end, url))
    BY <1>3, EndedSound
  <2>4. \E u : Sound(u) /\ Becomes(s, u)
    BY <1>3, <1>4, <2>1, <2>2, <2>3, TriesSound
  <2>5. QED
    BY <1>1, <2>4, WorkerMoves
<1>7. QED
  BY <1>5, <1>6

(* The result of a play page reaches Dart, or ends the workers of a search *)
(* nobody listens to any more.                                             *)
LEMMA DeliversKeeps ==
  ASSUME WorkersInv, UNCHANGED <<limit, kind, open>>,
         NEW s \in Running, NEW w, Sound(w), Delivers(s, w)
  PROVE  WorkersInv'
<1>1. CASE kind \in {"channels", "play"} /\ ~open /\ w.end = "ok"
  <2>1. worker' = [r \in Source |->
                     IF worker[r].pc = "done" THEN worker[r]
                     ELSE Ended(worker[r], "dropped", <<>>)]
    BY <1>1 DEF Delivers
  <2>2. ASSUME NEW r \in Source, worker[r].pc # "done"
        PROVE  /\ Sound(Ended(worker[r], "dropped", <<>>))
               /\ Ended(worker[r], "dropped", <<>>).pc = "done"
    <3>1. PICK v, end, url : v = worker[r] /\ end = "dropped" /\ url = <<>>
      OBVIOUS
    <3>2. Working(v)
      BY <2>2, <3>1 DEF WorkersInv, Working
    <3>3. Sound(Ended(v, end, url)) /\ Ended(v, end, url).pc = "done"
      BY <1>1, <3>2, EndedSound
    <3>4. QED
      BY <3>1, <3>3
  <2>3. QED
    BY <2>1, <2>2, WorkersMove
<1>2. CASE ~(kind \in {"channels", "play"} /\ ~open /\ w.end = "ok")
  BY <1>2, WorkerMoves DEF Delivers, Becomes
<1>3. QED
  BY <1>1, <1>2

(* A detail page arrived, or did not.                                      *)
LEMMA DetailKeeps ==
  ASSUME WorkersInv, NEW s \in Source, DetailFailed(s) \/ DetailAnswered(s)
  PROVE  WorkersInv'
<1>1. /\ s \in Running /\ worker[s].pc = "detail"
      /\ UNCHANGED <<limit, kind, open>>
  BY DEF DetailFailed, DetailAnswered, Running
<1>2. PICK w : w = worker[s]
  OBVIOUS
<1>3. Working(w)
  BY <1>1, <1>2 DEF WorkersInv, Working, Running
<1>4. CASE DetailFailed(s)
  <2>1. PICK v : v = [w EXCEPT !.lost = @ \cup {w.try}]
    OBVIOUS
  <2>2. /\ DOMAIN v = Fields /\ v.events = w.events
        /\ v.end = w.end /\ v.pc = "detail"
    BY <1>1, <1>2, <1>3, <2>1 DEF Working, Sound, Fields
  <2>3. Working(v)
    BY <1>3, <2>2, GoesOnSound
  <2>4. Becomes(s, NextTry(v))
    BY <1>2, <1>4, <2>1 DEF DetailFailed
  <2>5. QED
    BY <1>1, <2>3, <2>4, TriesSound, WorkerMoves
<1>5. CASE DetailAnswered(s)
  <2>1. PICK seen : seen = Emits(w, <<"FetchingEpisodes">>)
    OBVIOUS
  <2>2. Working(seen)
    BY <1>3, <2>1, EmitsSound DEF Words, Terminal
  <2>3. PICK steps : steps = <<"ExtractingVideo", "Success">>
    OBVIOUS
  <2>4. PICK shown : shown = Emits(seen, steps)
    OBVIOUS
  <2>5. PICK play : play = Found(s, worker[s].ranked[worker[s].try])
    OBVIOUS
  <2>6. \/ Refused /\ Becomes(s, Ended(w, "closed", <<>>))
        \/ Becomes(s, NextTry(seen))
        \/ kind = "first"
             /\ Becomes(s, [w EXCEPT !.pc = "video", !.url = play])
        \/ kind = "episode" /\ Becomes(s, Ended(w, "unplayable", <<>>))
        \/ Delivers(s, Ended(shown, "ok", play))
    BY <1>2, <1>5, <2>1, <2>3, <2>4, <2>5 DEF DetailAnswered
  <2>7. CASE Refused /\ Becomes(s, Ended(w, "closed", <<>>))
    <3>1. PICK end, url : end = "closed" /\ url = <<>>
      OBVIOUS
    <3>2. Sound(Ended(w, end, url))
      BY <1>3, <2>7, <3>1, EndedSound DEF Refused
    <3>3. QED
      BY <1>1, <2>7, <3>1, <3>2, WorkerMoves
  <2>8. CASE Becomes(s, NextTry(seen))
    BY <1>1, <2>2, <2>8, TriesSound, WorkerMoves
  <2>9. CASE kind = "first"
              /\ Becomes(s, [w EXCEPT !.pc = "video", !.url = play])
    <3>1. PICK v : v = [w EXCEPT !.pc = "video", !.url = play]
      OBVIOUS
    <3>2. Sound(v)
      BY <1>3, <2>9, <3>1 DEF Working, Sound, Fields
    <3>3. QED
      BY <1>1, <2>9, <3>1, <3>2, WorkerMoves
  <2>10. CASE kind = "episode" /\ Becomes(s, Ended(w, "unplayable", <<>>))
    <3>1. PICK end, url : end = "unplayable" /\ url = <<>>
      OBVIOUS
    <3>2. Sound(Ended(w, end, url))
      BY <1>3, <2>10, EndedSound
    <3>3. QED
      BY <1>1, <2>10, <3>1, <3>2, WorkerMoves
  <2>11. CASE Delivers(s, Ended(shown, "ok", play))
    <3>1. PICK end : end = "ok"
      OBVIOUS
    <3>2. Sound(Ended(shown, end, play))
      BY <2>2, <2>3, <2>4, <3>1, FinalSound
    <3>3. QED
      BY <1>1, <2>11, <3>1, <3>2, DeliversKeeps
  <2>12. QED
    BY <2>6, <2>7, <2>8, <2>9, <2>10, <2>11
<1>6. QED
  BY <1>4, <1>5

(* The video of a source is found or not, or a body breaks off: no search  *)
(* with progress gets there.                                               *)
LEMMA VideoKeeps ==
  ASSUME WorkersInv, NEW s \in Source,
         VideoFound(s) \/ VideoMissing(s) \/ BodyBreaks(s)
  PROVE  WorkersInv'
<1>1. UNCHANGED <<limit, kind, open>>
  BY DEF VideoFound, VideoMissing, BodyBreaks
<1>2. kind # "progress"
  BY DEF VideoFound, VideoMissing, BodyBreaks, WorkersInv, Sound, SettledInv
<1>3. ASSUME NEW r \in Source, worker[r].pc # "done", NEW end, NEW url
      PROVE  /\ Sound(Ended(worker[r], end, url))
             /\ Ended(worker[r], end, url).pc = "done"
  <2>1. PICK v : v = worker[r]
    OBVIOUS
  <2>2. Working(v)
    BY <1>3, <2>1 DEF WorkersInv, Working
  <2>3. QED
    BY <1>2, <2>1, <2>2, EndedSound
<1>4. Sound(Out) /\ Out.pc = "out"
  BY <1>2 DEF Out, Sound, Fields
<1>5. CASE VideoFound(s)
  <2>1. PICK found : found = Ended(worker[s], "ok", worker[s].url)
    OBVIOUS
  <2>2. worker[s].pc = "video"
        /\ worker' = [r \in Source |->
             IF r = s THEN found
             ELSE IF worker[r].pc = "waiting" THEN Out ELSE worker[r]]
    BY <1>5, <2>1 DEF VideoFound
  <2>3. Sound(found) /\ found.pc = "done"
    <3>1. PICK end, url : end = "ok" /\ url = worker[s].url
      OBVIOUS
    <3>2. QED
      BY <1>3, <2>1, <2>2, <3>1
  <2>4. QED
    BY <1>1, <1>4, <2>2, <2>3, WorkersMove
<1>6. CASE VideoMissing(s)
  <2>1. PICK end, url : end = "unplayable" /\ url = <<>>
    OBVIOUS
  <2>2. worker[s].pc = "video" /\ Becomes(s, Ended(worker[s], end, url))
    BY <1>6, <2>1 DEF VideoMissing
  <2>3. s \in Running
    BY <2>2 DEF Running
  <2>4. QED
    BY <1>1, <1>3, <2>2, <2>3, WorkerMoves
<1>7. CASE BodyBreaks(s)
  <2>1. PICK end, url : end = "network" /\ url = <<>>
    OBVIOUS
  <2>2. worker' = [r \in Source |-> IF worker[r].pc = "done" THEN worker[r]
                                    ELSE Ended(worker[r], end, url)]
    BY <1>7, <2>1 DEF BodyBreaks
  <2>3. QED
    BY <1>1, <1>3, <2>2, WorkersMove
<1>8. QED
  BY <1>5, <1>6, <1>7

-----------------------------------------------------------------------------
(* Dart asks, stops to listen, or lets a table grow old; the stream of a   *)
(* search ends.  No worker runs before it begins.                          *)
LEMMA NobodyRuns ==
  ASSUME limit' \in Nat, worker' = [s \in Source |-> worker'[s]],
         \A s \in Source :
           /\ worker'[s].pc \in {"out", "waiting"} /\ worker'[s].end = "none"
           /\ DOMAIN worker'[s] = Fields /\ worker'[s].events = <<>>
  PROVE  WorkersInv'
<1>1. PICK told : told = <<>>
  OBVIOUS
<1>2. Quiet(told)
  BY <1>1 DEF Quiet
<1>3. \A s \in Source : Sound(worker[s])'
  <2>1. TAKE s \in Source
  <2>2. worker'[s].events = told
    BY <1>1
  <2>3. QED
    BY <1>2, <2>2 DEF Sound, SettledInv
<1>4. Running' = {}
  BY DEF Running
<1>5. LimitKept'
  BY <1>4, FS_EmptySet DEF LimitKept
<1>6. QED
  BY <1>3, <1>5 DEF WorkersInv

(* A worker that was not asked for.                                        *)
LEMMA OutIsSilent ==
  /\ DOMAIN Out = Fields /\ Out.pc = "out" /\ Out.end = "none"
  /\ Out.events = <<>>
  /\ \A o : LET w == [Out EXCEPT !.pc = "waiting", !.override = o]
            IN /\ DOMAIN w = Fields /\ w.pc = "waiting" /\ w.end = "none"
               /\ w.events = <<>>
BY DEF Out, Fields

(* A call of Dart.                                                         *)
LEMMA SearchCallsKeep == WorkersInv /\ SearchCalls => WorkersInv'
<1> SUFFICES ASSUME WorkersInv, SearchCalls PROVE WorkersInv'
  OBVIOUS
<1>1. ASSUME NEW k, NEW targets, NEW overrides, Listen(k, targets, overrides)
      PROVE  WorkersInv'
  <2>1. /\ limit' \in Nat /\ worker' = [s \in Source |->
             IF s \in targets THEN [Out EXCEPT !.pc = "waiting",
                                               !.override = overrides[s]]
             ELSE Out]
    BY <1>1 DEF Listen, WorkersInv
  <2>2. worker' = [s \in Source |-> worker'[s]]
    BY <2>1
  <2>3. ASSUME NEW s \in Source
        PROVE  /\ worker'[s].pc \in {"out", "waiting"}
               /\ worker'[s].end = "none"
               /\ DOMAIN worker'[s] = Fields /\ worker'[s].events = <<>>
    <3>1. CASE s \in targets
      <4>1. PICK o : o = overrides[s]
        OBVIOUS
      <4>2. worker'[s] = [Out EXCEPT !.pc = "waiting", !.override = o]
        BY <2>1, <3>1, <4>1
      <4>3. QED
        BY <4>2, OutIsSilent
    <3>2. CASE s \notin targets
      BY <2>1, <3>2, OutIsSilent
    <3>3. QED
      BY <3>1, <3>2
  <2>4. QED
    BY <2>1, <2>2, <2>3, NobodyRuns
<1>2. CASE CloseSink
  <2>1. /\ UNCHANGED <<limit, kind, worker>> /\ open' = FALSE
    BY <1>2 DEF CloseSink
  <2>2. QED
    BY <2>1 DEF WorkersInv, LimitKept, Running, Sound, SettledInv
<1>3. ASSUME NEW s \in Source, Expire(s) PROVE WorkersInv'
  <2>1. UNCHANGED <<limit, kind, worker, open>>
    BY <1>3 DEF Expire
  <2>2. QED
    BY <2>1 DEF WorkersInv, LimitKept, Running, Sound, SettledInv
<1>4. QED
  BY <1>1, <1>2, <1>3 DEF SearchCalls, SearchProgress, DebugSearch,
     ListenWith, SearchChannels, SearchPlay, SearchFirst, EpisodeUrl

SearchNext ==
  SearchCalls \/ Drained \/ \E s \in Source : SearchSteps(s)

(* The searches keep their invariant.                                      *)
LEMMA SearchInitHolds == SearchInit => WorkersInv
<1> SUFFICES ASSUME SearchInit PROVE WorkersInv
  OBVIOUS
<1>1. /\ limit \in Nat /\ worker = [s \in Source |-> worker[s]]
      /\ \A s \in Source : worker[s] = Out
  <2>1. limit \in 0..1 /\ worker = [s \in Source |-> Out]
    BY DEF SearchInit
  <2>2. PICK out : out = Out
    OBVIOUS
  <2>3. QED
    BY <2>1, <2>2
<1>2. Quiet(Out.events)
  <2>1. PICK told : told = <<>>
    OBVIOUS
  <2>2. Quiet(told)
    BY <2>1 DEF Quiet
  <2>3. QED
    BY <2>1, <2>2, OutIsSilent
<1>3. \A s \in Source : Sound(worker[s])
  BY <1>1, <1>2, OutIsSilent DEF Sound, SettledInv
<1>4. Running = {}
  BY <1>1, OutIsSilent DEF Running
<1>5. LimitKept
  BY <1>1, <1>4, FS_EmptySet DEF LimitKept
<1>6. QED
  BY <1>1, <1>3, <1>5 DEF WorkersInv

(* Calls and steps of workers keep it.                                     *)
LEMMA SearchStep == WorkersInv /\ [SearchNext]_searchVars => WorkersInv'
<1> SUFFICES ASSUME WorkersInv, [SearchNext]_searchVars PROVE WorkersInv'
  OBVIOUS
<1>1. CASE SearchCalls
  BY <1>1, SearchCallsKeep
<1>2. CASE Drained
  <2>1. limit' \in Nat /\ worker' = [s \in Source |-> Out]
    BY <1>2 DEF Drained, WorkersInv
  <2>2. QED
    BY <2>1, OutIsSilent, NobodyRuns
<1>3. ASSUME NEW s \in Source, SearchSteps(s) PROVE WorkersInv'
  BY <1>3, BeginKeeps, SearchKeeps, DetailKeeps, VideoKeeps DEF SearchSteps
<1>4. CASE UNCHANGED searchVars
  BY <1>4 DEF searchVars, WorkersInv, LimitKept, Running, Sound, SettledInv
<1>5. QED
  BY <1>1, <1>2, <1>3, <1>4 DEF SearchNext

(* What a worker has told then is what the search promises.                *)
LEMMA SettledAtTheEnd == WorkersInv => EverySourceSettled
<1> SUFFICES ASSUME WorkersInv PROVE EverySourceSettled
  OBVIOUS
<1>1. limit # 0 => Cardinality(Running) <= limit
  BY DEF WorkersInv, LimitKept
<1>2. ASSUME NEW s \in Source, kind = "progress"
      PROVE  LET w == worker[s] IN
             /\ Ends(w) \subseteq {Len(w.events)}
             /\ w.pc = "done" /\ open => Ends(w) # {}
             /\ w.end = "ok" <=>
                  Ends(w) # {} /\ w.events[Len(w.events)] = "Success"
  <2>1. PICK w : w = worker[s]
    OBVIOUS
  <2>2. SettledInv(w)
    BY <1>2, <2>1 DEF WorkersInv, Sound
  <2>3. ASSUME Quiet(w.events) PROVE Ends(w) = {}
    BY <2>3 DEF Quiet, Ends
  <2>4. ASSUME NEW t \in Terminal, LastWord(w.events, t)
        PROVE  Ends(w) = {Len(w.events)} /\ w.events[Len(w.events)] = t
    <3>1. DOMAIN w.events = 1..Len(w.events) /\ Len(w.events) \in Nat \ {0}
      BY <2>4 DEF LastWord
    <3>2. \A i \in DOMAIN w.events :
            w.events[i] \in Terminal <=> i = Len(w.events)
      BY <2>4, <3>1 DEF LastWord
    <3>3. QED
      BY <2>4, <3>1, <3>2 DEF Ends, LastWord
  <2>5. "Success" \in Terminal /\ "Failed" \in Terminal
    BY DEF Terminal
  <2>6. QED
    BY <2>1, <2>2, <2>3, <2>4, <2>5 DEF SettledInv
<1>3. QED
  BY <1>1, <1>2 DEF EverySourceSettled

-----------------------------------------------------------------------------
(* What the searches find.                                                 *)

(* What a page answers whose list counts its episodes from one.            *)
LinkOf(links, url, abs, rel) ==
  Absolute(url, links[IF abs # None THEN abs
                      ELSE IF rel \in DOMAIN links THEN rel ELSE 1].href)
Counted(links) ==
  /\ AList(links) /\ links # <<>>
  /\ \A i \in DOMAIN links : EpisodeNumber(links[i].name) = i
                             /\ links[i].href # ""
Links(format, page) ==
  IF format = "plain" THEN page.items ELSE FirstList(page)

(* A search of such a page answers with the link of the number.            *)
LEMMA LiveIs ==
  ASSUME NEW format, NEW url, NEW page, NEW links,
         links = Links(format, page), Counted(links),
         NEW abs \in {None} \cup DOMAIN links, NEW rel \in {None} \cup Nat
  PROVE  LivePick(format, url, page, abs, rel) = LinkOf(links, url, abs, rel)
<1>1. PICK N \in Nat : DOMAIN links = 1..N /\ N >= 1 /\ Head(links) = links[1]
  <2>1. PICK S : S = ToSet(links)
    OBVIOUS
  <2>2. links \in Seq(S) /\ links # <<>>
    BY <2>1 DEF Counted, AList
  <2>3. QED
    BY <2>2
<1>2. None \notin 1..N
  BY DEF None
<1> DEFINE at(n) == {i \in DOMAIN links : EpisodeNumber(links[i].name) = n}
           latest(n) == links[CHOOSE i \in at(n) : \A j \in at(n) : j <= i].href
<1>3. \A n : at(n) = IF n \in 1..N THEN {n} ELSE {}
  BY <1>1 DEF Counted
<1>4. \A n \in 1..N : latest(n) = links[n].href
  <2> TAKE n \in 1..N
  <2>1. at(n) = {n}
    BY <1>3
  <2> HIDE DEF at
  <2>2. QED
    BY <2>1
<1> HIDE DEF at, latest
<1>5. SelectByNumber(links, abs, rel) =
        IF abs # None /\ at(abs) # {} THEN latest(abs)
        ELSE IF rel # None /\ at(rel) # {} THEN latest(rel)
        ELSE Head(links).href
  BY Zenon DEF SelectByNumber, Counted, at, latest
<1>6. PICK n \in 1..N :
        n = IF abs # None THEN abs ELSE IF rel \in DOMAIN links THEN rel ELSE 1
  BY <1>1
<1>7. SelectByNumber(links, abs, rel) = links[n].href
  BY <1>1, <1>2, <1>3, <1>4, <1>5, <1>6
<1>8. LiveHref(format, page, abs, rel) = SelectByNumber(links, abs, rel)
  BY Zenon DEF LiveHref, Links
<1>9. links[n].href # ""
  BY <1>1 DEF Counted
<1>10. QED
  BY <1>6, <1>7, <1>8, <1>9, Zenon DEF LivePick, LinkOf

(* The rows of such a list, and a table that begins with them.             *)
RowAt(url, links, channel, i) ==
  [number |-> EpisodeNumber(links[i].name), channel |-> channel,
   href |-> links[i].href, url |-> Absolute(url, links[i].href)]

(* Each of its links is a row.                                             *)
LEMMA RowsMade ==
  ASSUME NEW url, NEW links, Counted(links), NEW channel
  PROVE  RowsOf(url, links, channel)
           = [i \in DOMAIN links |-> RowAt(url, links, channel, i)]
<1>1. PICK N \in Nat : DOMAIN links = 1..N
  <2>1. PICK S : S = ToSet(links)
    OBVIOUS
  <2>2. links \in Seq(S)
    BY <2>1 DEF Counted, AList
  <2>3. QED
    BY <2>2
<1>2. PICK row : row = [i \in 1..N |-> RowAt(url, links, channel, i)]
  OBVIOUS
<1>3. PICK R : R = {row[i] : i \in 1..N}
  OBVIOUS
<1>4. row \in Seq(R) /\ DOMAIN row = 1..N
  BY <1>2, <1>3
<1>5. {i \in DOMAIN row : row[i].href # ""} = DOMAIN row
  <2>1. \A i \in 1..N : row[i].href = links[i].href
    BY <1>2 DEF RowAt
  <2>2. QED
    BY <1>1, <1>4, <2>1 DEF Counted
<1>6. RowsOf(url, links, channel)
        = Sublist(row, {i \in DOMAIN row : row[i].href # ""})
  BY <1>1, <1>2, Zenon DEF RowsOf, Filtered, RowAt
<1>7. QED
  BY <1>1, <1>2, <1>4, <1>5, <1>6, SublistAll

(* A list is one of its members.                                           *)
LEMMA ToSetHolds == ASSUME NEW R, NEW s \in Seq(R) PROVE s \in Seq(ToSet(s))
<1>1. PICK S : S = ToSet(s)
  OBVIOUS
<1>2. \A i \in 1..Len(s) : s[i] \in S
  BY <1>1 DEF ToSet
<1>3. s \in Seq(S)
  BY <1>2
<1>4. QED
  BY <1>1, <1>3

(* The first list has the first channel.                                   *)
LEMMA FirstIndex == ASSUME NEW page PROVE TableIndex(page, 1) = 0
<1> DEFINE named == [k \in DOMAIN page.names |->
                  <<HeaderName(page.names[k]),
                    IF ChannelName(page.names[k]) = "" THEN k ELSE 0>>]
           first == CHOOSE j \in 1..1 :
                      /\ named[j] = named[1]
                      /\ \A l \in 1..(j - 1) : named[l] # named[1]
<1>1. first = 1
  <2> HIDE DEF named
  <2>1. 1..1 = {1} /\ 1..(1 - 1) = {}
    OBVIOUS
  <2>2. QED
    BY <2>1
<1>2. TableIndex(page, 1)
        = IF 1 \in DOMAIN named
            THEN Cardinality({named[j] : j \in 1..(first - 1)}) ELSE 1 - 1
  BY Zenon DEF TableIndex, named, first
<1> HIDE DEF named, first
<1>3. {named[j] : j \in 1..(first - 1)} = {}
  <2>1. 1..(first - 1) = {}
    BY <1>1
  <2>2. QED
    BY <2>1
<1>4. Cardinality({named[j] : j \in 1..(first - 1)}) = 0
  BY <1>3, FS_EmptySet
<1>5. QED
  BY <1>2, <1>4

(* They are a list in any case.                                            *)
LEMMA RowsHold ==
  ASSUME NEW url, NEW links, AList(links), NEW channel
  PROVE  AList(RowsOf(url, links, channel))
<1>1. PICK N \in Nat : DOMAIN links = 1..N
  <2>1. PICK S : S = ToSet(links)
    OBVIOUS
  <2>2. links \in Seq(S)
    BY <2>1 DEF AList
  <2>3. QED
    BY <2>2
<1>2. PICK row : row = [i \in 1..N |-> RowAt(url, links, channel, i)]
  OBVIOUS
<1>3. PICK R : R = {row[i] : i \in 1..N}
  OBVIOUS
<1>4. row \in Seq(R) /\ DOMAIN row = 1..N
  BY <1>2, <1>3
<1>5. PICK at \in SUBSET (DOMAIN row) :
        at = {i \in DOMAIN row : row[i].href # ""}
  OBVIOUS
<1>6. RowsOf(url, links, channel) = Sublist(row, at)
  BY <1>1, <1>2, <1>5, Zenon DEF RowsOf, Filtered, RowAt
<1>7. Sublist(row, at) \in Seq(R)
  BY <1>4, SublistHolds
<1>8. PICK out \in Seq(R) : out = RowsOf(url, links, channel)
  BY <1>6, <1>7
<1>9. out \in Seq(ToSet(out))
  BY ToSetHolds
<1>10. QED
  BY <1>8, <1>9, Zenon DEF AList

(* The table of such a page begins with the rows of its first list.        *)
LEMMA TableBegins ==
  ASSUME NEW format, NEW url, NEW page, NEW links,
         links = Links(format, page), Counted(links),
         AList(page.lists), \A i \in DOMAIN page.lists : AList(page.lists[i])
  PROVE  \E R : /\ RowsOf(url, links, 0) \in Seq(R)
                /\ BeginsWith(Table(format, url, page),
                              RowsOf(url, links, 0), R)
<1> PICK head : head = RowsOf(url, links, 0)
  OBVIOUS
<1>1. AList(head)
  BY RowsHold DEF Counted
<1>2. CASE format # "grouped"
  <2>1. Table(format, url, page) = head
    BY <1>2, Zenon DEF Table, Links
  <2>2. PICK R : R = ToSet(head)
    OBVIOUS
  <2>3. head \in Seq(R)
    BY <1>1, <2>2 DEF AList
  <2>4. PICK none \in Seq(R) : none = <<>>
    <3>1. <<>> \in Seq(R)
      OBVIOUS
    <3>2. QED
      BY <3>1
  <2>5. head = head \o none
    BY <2>3, <2>4
  <2>6. QED
    BY <2>1, <2>3, <2>5 DEF BeginsWith
<1>3. CASE format = "grouped"
  <2>1. PICK lists : lists = page.lists
    OBVIOUS
  <2>2. lists # <<>> /\ links = Head(lists)
    BY <1>3, <2>1 DEF Links, FirstList, Counted
  <2>3. PICK N \in Nat : N >= 1 /\ DOMAIN lists = 1..N /\ links = lists[1]
    <3>1. PICK S : S = ToSet(lists)
      OBVIOUS
    <3>2. lists \in Seq(S)
      BY <2>1, <3>1 DEF AList
    <3>3. QED
      BY <2>2, <3>2
  <2>4. PICK seqs : seqs = [i \in 1..N |-> RowsOf(url, lists[i],
                                                 TableIndex(page, i))]
    OBVIOUS
  <2>5. PICK R : R = UNION {ToSet(seqs[i]) : i \in 1..N}
    OBVIOUS
  <2>6. ASSUME NEW i \in 1..N PROVE seqs[i] \in Seq(R)
    <3>1. AList(seqs[i])
      BY <2>1, <2>3, <2>4, RowsHold
    <3>2. PICK S : S = ToSet(seqs[i])
      OBVIOUS
    <3>3. seqs[i] \in Seq(S) /\ S \subseteq R
      BY <2>5, <3>1, <3>2 DEF AList
    <3>4. QED
      BY <3>3
  <2>7. seqs \in Seq(Seq(R)) /\ seqs # <<>>
    BY <2>3, <2>4, <2>6
  <2>8. BeginsWith(FlattenSeq(seqs), seqs[1], R)
    BY <2>7, FlattenBegins
  <2>9. Table(format, url, page) = FlattenSeq(seqs)
    BY <1>3, <2>1, <2>3, <2>4, Zenon DEF Table
  <2>10. TableIndex(page, 1) = 0
    BY FirstIndex
  <2>11. seqs[1] = head
    BY <2>3, <2>4, <2>10
  <2>12. head \in Seq(R)
    BY <2>3, <2>6, <2>11
  <2>13. BeginsWith(Table(format, url, page), head, R)
    BY <2>8, <2>9, <2>11
  <2>14. QED
    BY <2>12, <2>13
<1>4. QED
  BY <1>2, <1>3

(* So does what is left of a table that begins with the rows of its first  *)
(* list, when the channel of the list is asked for.                        *)
LEMMA OwnBegins ==
  ASSUME NEW R, NEW head \in Seq(R), NEW rows, BeginsWith(rows, head, R),
         head # <<>>, \A i \in DOMAIN head : head[i].channel = 0
  PROVE  /\ InChannel(rows, 0) \in Seq(R)
         /\ BeginsWith(InChannel(rows, 0), head, R)
<1>1. PICK rest \in Seq(R) : rows = head \o rest
  BY DEF BeginsWith
<1>2. PICK L \in Nat, M \in Nat :
        /\ L = Len(head) /\ DOMAIN head = 1..L /\ L >= 1
        /\ M = Len(rest) /\ DOMAIN rest = 1..M
  OBVIOUS
<1>3. /\ rows \in Seq(R) /\ DOMAIN rows = 1..(L + M)
      /\ \A i \in 1..L : rows[i] = head[i]
      /\ \A i \in 1..M : rows[L + i] = rest[i]
  BY <1>1, <1>2
<1>4. PICK at \in SUBSET (DOMAIN rows) :
        at = {i \in DOMAIN rows : rows[i].channel = 0}
  OBVIOUS
<1>5. PICK c \in SUBSET (DOMAIN rest) :
        c = {i \in DOMAIN rest : rest[i].channel = 0}
  OBVIOUS
<1>6. at = (DOMAIN head) \cup Beyond(Len(head), c)
  <2>1. Beyond(L, c) = {L + i : i \in c}
    BY DEF Beyond
  <2>2. \A i \in 1..(L + M) : i \in 1..L \/ (i - L \in 1..M /\ i = L + (i - L))
    OBVIOUS
  <2>3. \A i \in 1..M : L + i \in 1..(L + M)
    OBVIOUS
  <2>4. ASSUME NEW i \in at PROVE i \in 1..L \cup Beyond(L, c)
    <3>1. CASE i \in 1..L
      BY <3>1
    <3>2. CASE i - L \in 1..M /\ i = L + (i - L)
      <4>1. rest[i - L].channel = 0
        BY <1>3, <1>4, <3>2
      <4>2. i - L \in c
        BY <1>2, <1>5, <3>2, <4>1
      <4>3. QED
        BY <2>1, <3>2, <4>2
    <3>3. QED
      BY <1>3, <2>2, <3>1, <3>2
  <2>5. ASSUME NEW i \in 1..L PROVE i \in at
    BY <1>2, <1>3, <1>4, <2>5
  <2>6. ASSUME NEW i \in c PROVE L + i \in at
    BY <1>2, <1>3, <1>4, <1>5, <2>3
  <2>7. QED
    BY <1>2, <2>1, <2>4, <2>5, <2>6
<1>7. PICK own : own = Sublist(rows, at)
  OBVIOUS
<1>8. BeginsWith(own, head, R)
  BY <1>1, <1>6, <1>7, SublistBegins
<1>9. own \in Seq(R) /\ (own = <<>> <=> at = {})
  BY <1>3, <1>7, SublistHolds
<1>10. 1 \in at
  BY <1>2, <1>6
<1>11. InChannel(rows, 0) = IF own = <<>> THEN rows ELSE own
  BY <1>4, <1>7, Zenon DEF InChannel, Filtered
<1>12. InChannel(rows, 0) = own
  BY <1>9, <1>10, <1>11
<1>13. QED
  BY <1>8, <1>9, <1>12

(* No row has no number.                                                   *)
LEMMA NumberedNone ==
  ASSUME NEW R, NEW rows \in Seq(R) PROVE Numbered(rows, None) = <<>>
<1>1. PICK at \in SUBSET (DOMAIN rows) :
        at = {i \in DOMAIN rows : None # None /\ rows[i].number = None}
  OBVIOUS
<1>2. Numbered(rows, None) = Sublist(rows, at)
  BY <1>1, Zenon DEF Numbered, Filtered
<1>3. Sublist(rows, at) = <<>> <=> at = {}
  BY SublistHolds
<1>4. QED
  BY <1>1, <1>2, <1>3

(* The first of a number, in a list that counts from one to begin with.    *)
LEMMA NumberedHead ==
  ASSUME NEW R, NEW rows \in Seq(R), NEW n \in DOMAIN rows, n # None,
         \A i \in 1..n : rows[i].number = i
  PROVE  Numbered(rows, n) # <<>> /\ Head(Numbered(rows, n)) = rows[n]
<1>1. PICK at \in SUBSET (DOMAIN rows) :
        at = {i \in DOMAIN rows : n # None /\ rows[i].number = n}
  OBVIOUS
<1>2. Numbered(rows, n) = Sublist(rows, at)
  BY <1>1, Zenon DEF Numbered, Filtered
<1>3. PICK L \in Nat : DOMAIN rows = 1..L
  OBVIOUS
<1>4. n \in at
  BY <1>1, <1>3
<1>5. \A j \in at : n <= j
  <2> SUFFICES ASSUME NEW j \in at, j < n PROVE FALSE
    BY <1>3
  <2>1. j \in 1..n /\ j \in DOMAIN rows
    BY <1>3
  <2>2. QED
    BY <1>1, <2>1
<1>6. PICK k \in at : k = n
  BY <1>4
<1>7. \A j \in at : k <= j
  BY <1>5, <1>6
<1>8. Head(Sublist(rows, at)) = rows[k]
  BY <1>7, SublistHead
<1>9. Sublist(rows, at) = <<>> <=> at = {}
  BY SublistHolds
<1>10. QED
  BY <1>2, <1>4, <1>6, <1>8, <1>9

(* So a table answers as its page does.                                    *)
LEMMA SelectIs ==
  ASSUME NEW url, NEW links, Counted(links),
         NEW R, NEW head \in Seq(R), head = RowsOf(url, links, 0),
         NEW rows, BeginsWith(rows, head, R),
         NEW abs \in {None} \cup DOMAIN links, NEW rel \in {None} \cup Nat,
         \/ abs # None \/ rel \in {None} \cup DOMAIN links
         \/ Len(InChannel(rows, 0)) = Len(links)
  PROVE  SelectFromTable(rows, 0, abs, rel) = LinkOf(links, url, abs, rel)
<1>1. PICK L \in Nat : L = Len(links) /\ DOMAIN links = 1..L /\ L >= 1
  <2>1. PICK S : S = ToSet(links)
    OBVIOUS
  <2>2. links \in Seq(S) /\ links # <<>>
    BY <2>1 DEF Counted, AList
  <2>3. QED
    BY <2>2
<1>2. None \notin Nat /\ None \notin 1..L
  BY DEF None
<1>3. head = [i \in 1..L |-> RowAt(url, links, 0, i)]
  BY <1>1, RowsMade
<1>4. /\ DOMAIN head = 1..L /\ head # <<>> /\ Len(head) = L
      /\ \A i \in 1..L : /\ head[i].channel = 0 /\ head[i].number = i
                        /\ head[i].url = Absolute(url, links[i].href)
  <2>1. \A i \in 1..L : EpisodeNumber(links[i].name) = i
    BY <1>1 DEF Counted
  <2>2. \A i \in 1..L : head[i] = RowAt(url, links, 0, i)
    BY <1>3
  <2>3. \A i \in 1..L : /\ head[i].channel = 0 /\ head[i].number = i
                      /\ head[i].url = Absolute(url, links[i].href)
    <3> TAKE i \in 1..L
    <3>1. PICK r : r = RowAt(url, links, 0, i)
      OBVIOUS
    <3>2. /\ r.channel = 0 /\ r.number = EpisodeNumber(links[i].name)
          /\ r.url = Absolute(url, links[i].href)
      BY <3>1 DEF RowAt
    <3>3. QED
      BY <2>1, <2>2, <3>1, <3>2
  <2>4. DOMAIN head = 1..L
    BY <1>3
  <2>5. QED
    BY <1>1, <2>3, <2>4
<1>5. PICK own \in Seq(R) : own = InChannel(rows, 0) /\ BeginsWith(own, head, R)
  BY <1>4, OwnBegins
<1>6. PICK M \in Nat : M = Len(own) /\ DOMAIN own = 1..M /\ M >= L
                      /\ \A i \in 1..L : own[i] = head[i]
  <2>1. PICK rest \in Seq(R) : own = head \o rest
    BY <1>5 DEF BeginsWith
  <2>2. QED
    BY <1>4, <2>1
<1>7. PICK more \in Seq(R) : rows = head \o more
  BY DEF BeginsWith
<1>8. rows \in Seq(R) /\ rows # <<>>
  BY <1>1, <1>4, <1>7
<1>9. PICK n \in 1..L :
        n = IF abs # None THEN abs ELSE IF rel \in DOMAIN links THEN rel ELSE 1
  BY <1>1, <1>2
<1>10. SelectFromTable(rows, 0, abs, rel)
         = IF Numbered(own, abs) # <<>> THEN Head(Numbered(own, abs)).url
           ELSE IF Numbered(rows, abs) # <<>> THEN Head(Numbered(rows, abs)).url
           ELSE IF rel \in DOMAIN own THEN own[rel].url
           ELSE Head(own).url
  BY <1>5, <1>8, Zenon DEF SelectFromTable
<1>11. SelectFromTable(rows, 0, abs, rel) = own[n].url
  <2>1. CASE abs # None
    <3>1. abs = n /\ n \in DOMAIN own /\ n # None
      BY <1>2, <1>6, <1>9, <2>1
    <3>2. \A i \in 1..n : own[i].number = i
      BY <1>4, <1>6
    <3>3. Numbered(own, n) # <<>> /\ Head(Numbered(own, n)) = own[n]
      BY <3>1, <3>2, NumberedHead
    <3>4. QED
      BY <1>10, <3>1, <3>3
  <2>2. CASE abs = None
    <3>1. Numbered(own, None) = <<>> /\ Numbered(rows, None) = <<>>
      BY <1>8, NumberedNone
    <3>2. Head(own) = own[1]
      BY <1>1, <1>6
    <3>3. SelectFromTable(rows, 0, abs, rel)
            = IF rel \in 1..M THEN own[rel].url ELSE own[1].url
      BY <1>6, <1>10, <2>2, <3>1, <3>2
    <3>4. rel \in 1..M <=> rel \in 1..L
      BY <1>1, <1>2, <1>5, <1>6, <2>2
    <3>5. QED
      BY <1>1, <1>9, <2>2, <3>3, <3>4
  <2>3. QED
    BY <2>1, <2>2
<1>12. own[n].url = Absolute(url, links[n].href)
  BY <1>4, <1>6
<1>13. QED
  BY <1>9, <1>11, <1>12, Zenon DEF LinkOf

(* A search and a saved table agree on the number asked for.               *)
Headed(rows, url, links) ==
  \E R : /\ RowsOf(url, links, 0) \in Seq(R)
         /\ BeginsWith(rows, RowsOf(url, links, 0), R)
Reached(links, rows, abs, rel) ==
  /\ abs \in {None} \cup DOMAIN links /\ rel \in {None} \cup Nat
  /\ \/ abs # None \/ rel \in {None} \cup DOMAIN links
     \/ Len(InChannel(rows, 0)) = Len(links)

(* They do, whatever else the table holds.                                 *)
LEMMA SelectAgrees ==
  ASSUME NEW url, NEW links, Counted(links), NEW rows, Headed(rows, url, links),
         NEW abs, NEW rel, Reached(links, rows, abs, rel)
  PROVE  SelectFromTable(rows, 0, abs, rel) = LinkOf(links, url, abs, rel)
<1>1. PICK head, R : /\ head = RowsOf(url, links, 0) /\ head \in Seq(R)
                     /\ BeginsWith(rows, head, R)
  BY DEF Headed
<1>2. PICK a \in {None} \cup DOMAIN links, r \in {None} \cup Nat :
        a = abs /\ r = rel
  BY DEF Reached
<1>3. \/ a # None \/ r \in {None} \cup DOMAIN links
      \/ Len(InChannel(rows, 0)) = Len(links)
  BY <1>2 DEF Reached
<1>4. SelectFromTable(rows, 0, a, r) = LinkOf(links, url, a, r)
  BY <1>1, <1>3, SelectIs
<1>5. QED
  BY <1>2, <1>4

(* A list of finitely many.                                                *)
LEMMA ListFinite == ASSUME NEW s, AList(s) PROVE IsFiniteSet(ToSet(s))
<1>1. PICK S : S = ToSet(s)
  OBVIOUS
<1>2. s \in Seq(S)
  BY <1>1 DEF AList
<1>3. PICK N \in Nat : DOMAIN s = 1..N
  BY <1>2
<1>4. IsFiniteSet(1..N)
  BY FS_Interval
<1>5. PICK I : I = 1..N
  OBVIOUS
<1>6. s \in Surjection(I, S)
  <2>1. S = {s[i] : i \in I}
    BY <1>1, <1>3, <1>5 DEF ToSet
  <2>2. s \in [I -> S]
    BY <1>2, <1>3, <1>5
  <2>3. QED
    BY <2>1, <2>2 DEF Surjection
<1>7. QED
  BY <1>1, <1>4, <1>5, <1>6, FS_Surjection

(* The core of a title is finite.                                          *)
LEMMA CoreFinite ==
  ASSUME NEW title, Worded(title) PROVE IsFiniteSet(CoreName(title))
<1> DEFINE words == title.words
           long == {i \in DOMAIN words : Len(words[i]) >= 3}
           longest == {i \in DOMAIN words :
                         \A j \in DOMAIN words : Len(words[j]) <= Len(words[i])}
           k == CHOOSE i \in long : \A j \in long : i <= j
           m == CHOOSE i \in longest : \A j \in longest : j <= i
<1>1. CoreName(title) = IF long # {} THEN ToSet(words[k])
                        ELSE IF longest # {} THEN ToSet(words[m])
                        ELSE title.letters
  BY Zenon DEF CoreName
<1>2. \A i \in DOMAIN words : IsFiniteSet(ToSet(words[i]))
  BY ListFinite DEF Worded
<1> PICK N \in Nat : DOMAIN words = 1..N
  <2>1. PICK S : S = ToSet(words)
    OBVIOUS
  <2>2. words \in Seq(S)
    BY <2>1 DEF Worded, AList
  <2> HIDE DEF words
  <2>3. QED
    BY <2>2
<1> HIDE DEF words
<1>3. long \in SUBSET Nat /\ long \subseteq DOMAIN words
      /\ longest \in SUBSET (1..N)
  OBVIOUS
<1> HIDE DEF long, longest
<1>4. long # {} => k \in DOMAIN words
  <2>1. long # {} => \E i \in long : \A j \in long : i <= j
    BY <1>3, LeastNat
  <2>2. QED
    BY <1>3, <2>1
<1>5. longest # {} => m \in DOMAIN words
  <2>1. longest # {} => Max(longest) \in longest
                        /\ \A n \in longest : n <= Max(longest)
    BY <1>3, MaxIs
  <2>2. QED
    BY <1>3, <2>1
<1> HIDE DEF k, m
<1>6. IsFiniteSet(title.letters)
  BY DEF Worded
<1>7. QED
  BY <1>1, <1>2, <1>4, <1>5, <1>6

(* A score is a number.                                                    *)
LEMMA ScoreIs ==
  ASSUME NEW query, Worded(query), NEW hit, Worded(hit.title)
  PROVE  Score(query, hit) \in Int
<1>1. PICK t, f, c : /\ t = hit.title.letters /\ f = query.letters
                     /\ c = CoreName(query)
  OBVIOUS
<1>2. IsFiniteSet(t) /\ IsFiniteSet(f) /\ IsFiniteSet(c)
  BY <1>1, CoreFinite DEF Worded
<1> DEFINE joined(a) == IF t \cup a = {} THEN 1 ELSE Cardinality(t \cup a)
           shared(a) == Cardinality(t \cap a)
<1>3. ASSUME NEW a, IsFiniteSet(a)
      PROVE  joined(a) \in Nat \ {0} /\ shared(a) \in Nat
  <2>1. PICK u : u = t \cup a
    OBVIOUS
  <2>2. PICK v : v = t \cap a
    OBVIOUS
  <2>3. IsFiniteSet(u) /\ IsFiniteSet(v)
    BY <1>2, <1>3, <2>1, <2>2, FS_Union, FS_Intersection
  <2>4. /\ Cardinality(u) \in Nat /\ Cardinality(v) \in Nat
        /\ (Cardinality(u) = 0 <=> u = {})
    BY <2>3, FS_CardinalityType, FS_EmptySet
  <2>5. QED
    BY <2>1, <2>2, <2>4
<1>4. PICK jf \in Nat \ {0}, jc \in Nat \ {0}, sf \in Nat, sc \in Nat :
        jf = joined(f) /\ jc = joined(c) /\ sf = shared(f) /\ sc = shared(c)
  BY <1>2, <1>3
<1>5. Score(query, hit) = (70 * sf * jc + 30 * sc * jf) \div (jf * jc)
  BY <1>1, <1>4, Zenon DEF Score, MatchScore, joined, shared
<1>6. QED
  <2>1. PICK a \in Nat, b \in Nat \ {0} :
          a = 70 * sf * jc + 30 * sc * jf /\ b = jf * jc
    OBVIOUS
  <2>2. a \div b \in Int
    OBVIOUS
  <2>3. QED
    BY <1>5, <2>1, <2>2

(* Results are put by score, those of one score as they came.              *)
Better(score, M) ==
  {p \in (1..M) \X (1..M) :
     \/ score[p[1]] > score[p[2]]
     \/ score[p[1]] = score[p[2]] /\ p[1] < p[2]}

(* That puts any two of them one before the other.                         *)
LEMMA BetterInARow ==
  ASSUME NEW M \in Nat, NEW score \in [1..M -> Int], NEW S \in SUBSET (1..M)
  PROVE  InARow(S, Better(score, M))
<1>1. \A i, j \in 1..M : <<i, j>> \in Better(score, M) <=>
        score[i] > score[j] \/ (score[i] = score[j] /\ i < j)
  BY DEF Better
<1>2. /\ \A i \in S : ~ (score[i] > score[i] \/ (score[i] = score[i] /\ i < i))
      /\ \A i, j, k \in S :
           /\ score[i] > score[j] \/ (score[i] = score[j] /\ i < j)
           /\ score[j] > score[k] \/ (score[j] = score[k] /\ j < k)
           => score[i] > score[k] \/ (score[i] = score[k] /\ i < k)
      /\ \A i, j \in S : i # j =>
           \/ score[i] > score[j] \/ (score[i] = score[j] /\ i < j)
           \/ score[j] > score[i] \/ (score[j] = score[i] /\ j < i)
  OBVIOUS
<1>3. \A i \in S : i \in 1..M
  OBVIOUS
<1>4. QED
  BY <1>1, <1>2, <1>3, Zenon DEF InARow

(* Results that lead somewhere.                                            *)
Leads(ranked) == \A i \in DOMAIN ranked : ranked[i].url # ""

(* Of the results, those that lead somewhere are tried: the best one, and  *)
(* those of its address or its kin.                                        *)
Kin(query, ranked) ==
  \A i \in DOMAIN ranked :
    /\ ranked[i].url # ""
    /\ \/ ranked[i].url = ranked[1].url
       \/ Compatible(Identity(query), Identity(ranked[1].title),
                     Identity(ranked[i].title))

(* What is tried of a ranking is the best and its kin.                     *)
LEMMA RetriesKin ==
  ASSUME NEW query, NEW R, NEW ranked \in Seq(R), Leads(ranked)
  PROVE  Retries(query, ranked) \in Seq(R) /\ Kin(query, Retries(query, ranked))
<1>1. CASE ranked = <<>>
  BY <1>1 DEF Retries, Kin
<1>2. CASE ranked # <<>>
  <2> PICK N \in Nat : /\ N >= 1 /\ DOMAIN ranked = 1..N
                       /\ Head(ranked) = ranked[1]
    BY <1>2
  <2> DEFINE head == Head(ranked)
             fits(hit) == \/ hit.url = head.url
                          \/ Compatible(Identity(query), Identity(head.title),
                                        Identity(hit.title))
  <2>1. PICK at : at = {i \in DOMAIN ranked : fits(ranked[i])}
    OBVIOUS
  <2>2. Retries(query, ranked) = Sublist(ranked, at)
    BY <1>2, <2>1, Zenon DEF Retries, Filtered, fits, head
  <2>3. fits(ranked[1]) /\ head = ranked[1]
    OBVIOUS
  <2> HIDE DEF head, fits
  <2>4. at \in SUBSET (DOMAIN ranked) /\ \A i \in at : fits(ranked[i])
    BY <2>1
  <2>5. PICK one \in at : one = 1
    <3>1. 1 \in DOMAIN ranked
      OBVIOUS
    <3>2. 1 \in at
      BY <2>1, <2>3, <3>1, Zenon
    <3>3. QED
      BY <3>2
  <2>6. \A j \in at : one <= j
    BY <2>4, <2>5
  <2>7. PICK out : out = Sublist(ranked, at)
    OBVIOUS
  <2>8. /\ out \in Seq(R) /\ ToSet(out) = {ranked[i] : i \in at}
        /\ out = <<>> <=> at = {}
    BY <2>4, <2>7, SublistHolds
  <2>9. Head(out) = ranked[one]
    BY <2>4, <2>6, <2>7, SublistHead
  <2>10. out[1] = head
    <3>1. out # <<>> => Head(out) = out[1]
      BY <2>8
    <3>2. QED
      BY <2>3, <2>5, <2>8, <2>9, <3>1
  <2>11. ASSUME NEW i \in DOMAIN out PROVE fits(out[i]) /\ out[i].url # ""
    <3>1. out[i] \in ToSet(out)
      BY DEF ToSet
    <3>2. PICK j \in at : out[i] = ranked[j]
      BY <2>8, <3>1
    <3>3. QED
      BY <2>4, <3>2 DEF Leads
  <2>12. Kin(query, out)
    BY <2>10, <2>11, Zenon DEF Kin, fits
  <2>13. QED
    BY <2>2, <2>7, <2>8, <2>12
<1>3. QED
  BY <1>1, <1>2

AllWorded(hits) == \A i \in DOMAIN hits : Worded(hits[i].title)

(* Ranked puts the best first, and keeps to it and its kin.                *)
LEMMA RankedKin ==
  ASSUME NEW query, Worded(query), NEW R, NEW hits \in Seq(R), AllWorded(hits)
  PROVE  Ranked(query, hits) \in Seq(R) /\ Kin(query, Ranked(query, hits))
<1> PICK N \in Nat : DOMAIN hits = 1..N
  OBVIOUS
<1>1. PICK score \in [1..N -> Int] :
        \A i \in 1..N : score[i] = Score(query, hits[i])
  <2>1. \A i \in 1..N : Score(query, hits[i]) \in Int
    BY ScoreIs DEF AllWorded
  <2>2. [i \in 1..N |-> Score(query, hits[i])] \in [1..N -> Int]
    BY <2>1
  <2>3. QED
    BY <2>2
<1>2. PICK b : b = Better(score, N)
  OBVIOUS
<1> DEFINE kept == {i \in DOMAIN hits : hits[i].url # ""
                                   /\ Score(query, hits[i]) >= Threshold}
           before(i, j) ==
             \/ Score(query, hits[i]) > Score(query, hits[j])
             \/ Score(query, hits[i]) = Score(query, hits[j]) /\ i < j
           once == {i \in kept : \A j \in kept :
                      before(j, i) => hits[j].url # hits[i].url}
           order == Arranged(once, before)
           list == [k \in DOMAIN order |-> hits[order[k]]]
<1>3. Ranked(query, hits) = Retries(query, list)
  BY Zenon DEF Ranked
<1>4. \A i, j \in 1..N : before(i, j) <=> <<i, j>> \in b
  BY <1>1, <1>2 DEF Better
<1>5. once \subseteq kept
  OBVIOUS
<1>6. kept \subseteq 1..N /\ \A i \in kept : hits[i].url # ""
  OBVIOUS
<1>7. order = [n \in 1..Cardinality(once) |-> CHOOSE i \in once :
                 Cardinality({j \in once : before(j, i)}) = n - 1]
  BY Zenon DEF Arranged
<1> HIDE DEF kept, once, before
<1>8. PICK S \in SUBSET (1..N) : S = once
  BY <1>5, <1>6
<1>9. IsFiniteSet(S) /\ InARow(S, b)
  <2>1. IsFiniteSet(1..N)
    BY FS_Interval
  <2>2. IsFiniteSet(S)
    BY <2>1, FS_Subset
  <2>3. InARow(S, Better(score, N))
    BY BetterInARow
  <2>4. QED
    BY <1>2, <2>2, <2>3
<1> HIDE DEF order
<1>10. order = ByRank(S, b)
  <2>1. \A i \in S : {j \in S : before(j, i)} = {j \in S : <<j, i>> \in b}
    BY <1>4
  <2> DEFINE A(n) == CHOOSE i \in S :
                       Cardinality({j \in S : before(j, i)}) = n - 1
             B(n) == CHOOSE i \in S :
                       Cardinality({j \in S : <<j, i>> \in b}) = n - 1
  <2>2. \A n : A(n) = B(n)
    BY <2>1
  <2>3. order = [n \in 1..Cardinality(S) |-> A(n)]
    BY <1>7, <1>8
  <2>4. ByRank(S, b) = [n \in 1..Cardinality(S) |-> B(n)]
    BY DEF ByRank, Rank
  <2> HIDE DEF A, B
  <2>5. QED
    BY <2>2, <2>3, <2>4
<1>11. PICK M \in Nat : order \in [1..M -> S]
  BY ONLY <1>9, <1>10, InOrder
<1>12. list \in Seq(R) /\ DOMAIN list = 1..M
       /\ \A k \in 1..M : order[k] \in S /\ list[k] = hits[order[k]]
  <2>1. DOMAIN order = 1..M /\ \A k \in 1..M : order[k] \in S
    BY <1>11
  <2>2. list = [k \in 1..M |-> hits[order[k]]]
    BY <2>1
  <2>3. \A k \in 1..M : hits[order[k]] \in R
    <3>1. \A i \in 1..N : hits[i] \in R
      OBVIOUS
    <3>2. \A k \in 1..M : order[k] \in 1..N
      BY <2>1
    <3>3. QED
      BY <3>1, <3>2
  <2> HIDE DEF list
  <2>4. QED
    BY <2>1, <2>2, <2>3
<1>13. Leads(list)
  BY <1>5, <1>6, <1>8, <1>12 DEF Leads
<1> HIDE DEF list
<1>14. QED
  BY <1>3, <1>12, <1>13, RetriesKin

(* What is asked for: names of the query, at least one.                    *)
LEMMA AskedIs ==
  /\ AList(Asked) /\ 1 \in DOMAIN Asked /\ DOMAIN Asked = 1..Len(Asked)
  /\ Len(Asked) \in Nat /\ \A a \in DOMAIN Asked : Worded(Asked[a])
<1> PICK R : R = ToSet(Query)
  OBVIOUS
<1>1. /\ Query \in Seq(R) /\ \E i \in DOMAIN Query : Query[i].letters # {}
      /\ \A i \in DOMAIN Query : Worded(Query[i])
  BY WebAssumption DEF Searchable, AList
<1>2. PICK N \in Nat : DOMAIN Query = 1..N
  BY <1>1
<1>3. PICK named : named = {i \in 1..N : Query[i].letters # {}}
  OBVIOUS
<1>4. PICK i \in named : \A j \in named : i <= j
  <2>1. named \in SUBSET Nat /\ named # {}
    BY <1>1, <1>2, <1>3
  <2>2. QED
    BY <2>1, LeastNat
<1>5. PICK at \in SUBSET (DOMAIN Query) :
        at = {k \in DOMAIN Query : /\ Query[k].letters # {}
                                   /\ \A j \in 1..(k - 1) : Query[j] # Query[k]}
  OBVIOUS
<1>6. i \in at
  <2>1. i \in 1..N /\ Query[i].letters # {}
    BY <1>3
  <2>2. ASSUME NEW j \in 1..(i - 1) PROVE Query[j] # Query[i]
    <3>1. j \in 1..N /\ ~(i <= j)
      BY <2>1
    <3>2. j \notin named
      BY <1>4, <3>1
    <3>3. QED
      BY <1>3, <2>1, <3>1, <3>2
  <2>3. QED
    BY <1>2, <1>5, <2>1, <2>2
<1>7. PICK out : out = Sublist(Query, at)
  OBVIOUS
<1>8. Asked = out
  BY <1>5, <1>7, Zenon DEF Asked, Aliases
<1>9. /\ out \in Seq(R) /\ ToSet(out) = {Query[k] : k \in at}
      /\ out = <<>> <=> at = {}
  BY <1>1, <1>7, SublistHolds
<1>10. /\ 1 \in DOMAIN out /\ DOMAIN out = 1..Len(out) /\ Len(out) \in Nat
  BY <1>6, <1>9
<1>11. AList(out)
  BY <1>9, ToSetHolds DEF AList
<1>12. ASSUME NEW a \in DOMAIN out PROVE Worded(out[a])
  <2>1. out[a] \in ToSet(out)
    BY DEF ToSet
  <2>2. PICK k \in at : out[a] = Query[k]
    BY <1>9, <2>1
  <2>3. QED
    BY <1>1, <2>2
<1>13. QED
  BY <1>8, <1>10, <1>11, <1>12

(* What its results are.                                                   *)
LEMMA ResultsAre ==
  ASSUME NEW n \in DOMAIN Web, NEW a \in DOMAIN Asked
  PROVE  /\ AList(Web[n].results[a])
         /\ \A h \in ToSet(Web[n].results[a]) :
              h.url \in {""} \cup DOMAIN Web[n].page /\ Worded(h.title)
BY WebAssumption DEF Searchable, Asked

(* The candidates of a site, of which each is like the first.              *)
KinUrls(n, a, urls) ==
  \E hits :
    /\ DOMAIN hits = DOMAIN urls /\ Kin(Asked[a], hits)
    /\ \A i \in DOMAIN urls : /\ hits[i] \in ToSet(Web[n].results[a])
                             /\ hits[i].url = urls[i]

(* What a site is tried for are some of its results, ranked.               *)
LEMMA HitsAre ==
  ASSUME NEW n \in DOMAIN Web, NEW k \in Kind, NEW a \in DOMAIN Asked
  PROVE  /\ Hits(n, k, a) \in Seq(ToSet(Web[n].results[a]))
         /\ k # "first" => Kin(Asked[a], Hits(n, k, a))
<1> PICK hits, R : hits = Web[n].results[a] /\ R = ToSet(hits)
  OBVIOUS
<1>1. hits \in Seq(R) /\ \A h \in R : Worded(h.title)
  BY ResultsAre DEF AList
<1>2. CASE k # "first"
  <2>1. Hits(n, k, a) = Ranked(Asked[a], hits)
    BY <1>2, Zenon DEF Hits
  <2>2. AllWorded(hits)
    <3>1. \A i \in DOMAIN hits : hits[i] \in R
      BY DEF ToSet
    <3>2. QED
      BY <1>1, <3>1 DEF AllWorded
  <2>3. Worded(Asked[a])
    BY AskedIs
  <2>4. QED
    BY <1>1, <2>1, <2>2, <2>3, RankedKin
<1>3. CASE k = "first"
  <2>1. PICK at \in SUBSET (DOMAIN hits) :
          at = {i \in DOMAIN hits : hits[i].title.core = Asked[a].core}
    OBVIOUS
  <2>2. PICK named : named = Sublist(hits, at)
    OBVIOUS
  <2>3. Hits(n, k, a) = IF named = <<>> THEN named ELSE <<Head(named)>>
    BY <1>3, <2>1, <2>2, Zenon DEF Hits, Filtered
  <2>4. named \in Seq(R)
    BY <1>1, <2>2, SublistHolds
  <2>5. named # <<>> => <<Head(named)>> \in Seq(R)
    BY <2>4
  <2>6. QED
    BY <1>3, <2>3, <2>4, <2>5
<1>4. QED
  BY <1>2, <1>3

(* So are its candidates.                                                  *)
LEMMA CandidatesAre ==
  ASSUME NEW n \in DOMAIN Web, NEW k \in Kind, NEW a \in DOMAIN Asked
  PROVE  /\ AList(Candidates[n][k][a])
         /\ k # "first" =>
              /\ KinUrls(n, a, Candidates[n][k][a])
              /\ \A i \in DOMAIN Candidates[n][k][a] :
                   Candidates[n][k][a][i] \in DOMAIN Web[n].page
<1> PICK hits, R : hits = Hits(n, k, a) /\ R = ToSet(Web[n].results[a])
  OBVIOUS
<1>1. hits \in Seq(R) /\ (k # "first" => Kin(Asked[a], hits))
  BY HitsAre
<1>2. PICK urls : urls = [i \in DOMAIN hits |-> hits[i].url]
  OBVIOUS
<1>3. Candidates[n][k][a] = urls
  <2>1. Candidates[n][k][a]
          = [i \in DOMAIN Hits(n, k, a) |-> Hits(n, k, a)[i].url]
    BY DEF Candidates
  <2>2. QED
    BY <1>2, <2>1
<1>4. PICK N \in Nat : DOMAIN hits = 1..N /\ \A i \in 1..N : hits[i] \in R
  BY <1>1
<1>5. DOMAIN urls = 1..N /\ \A i \in 1..N : urls[i] = hits[i].url
  BY <1>2, <1>4
<1>6. AList(urls)
  <2>1. PICK U : U = {hits[i].url : i \in 1..N}
    OBVIOUS
  <2>2. urls \in Seq(U)
    BY <1>2, <1>4, <2>1
  <2>3. QED
    BY <2>2, ToSetHolds DEF AList
<1>7. ASSUME k # "first"
      PROVE  /\ KinUrls(n, a, urls)
             /\ \A i \in 1..N : urls[i] \in DOMAIN Web[n].page
  <2>1. KinUrls(n, a, urls)
    BY <1>1, <1>4, <1>5, <1>7 DEF KinUrls
  <2>2. \A i \in 1..N : urls[i] # ""
    BY <1>1, <1>4, <1>5, <1>7 DEF Kin
  <2>3. \A h \in R : h.url \in {""} \cup DOMAIN Web[n].page
    BY ResultsAre
  <2>4. QED
    BY <1>4, <1>5, <2>1, <2>2, <2>3
<1>8. QED
  BY <1>3, <1>5, <1>6, <1>7

(* A title as good as another for a query: the same, or of its work with   *)
(* what the query says of the season, the part and the kind.               *)
AsGood(query, t, b) ==
  \/ t = b
  \/ /\ t.core = b.core
     /\ t.season = Expected(query.season, b.season)
     /\ t.part = Expected(query.part, b.part)
     /\ t.variant = IF query.variant = "normal" THEN b.variant
                                               ELSE query.variant

(* Two that are compatible with a third are as good as each other.         *)
LEMMA CompatibleAsGood ==
  ASSUME NEW q, NEW head, NEW t, Compatible(q, head, t)
  PROVE  /\ AsGood(q, t, head)
         /\ \A b : Compatible(q, head, b) => AsGood(q, t, b)
<1>1. AsGood(q, t, head)
  BY DEF Compatible, AsGood
<1>2. ASSUME NEW b, Compatible(q, head, b) PROVE AsGood(q, t, b)
  <2>1. t.core = b.core
    BY <1>2 DEF Compatible
  <2>2. t.season = Expected(q.season, b.season)
    BY <1>2 DEF Compatible, Expected
  <2>3. t.part = Expected(q.part, b.part)
    BY <1>2 DEF Compatible, Expected
  <2>4. t.variant = IF q.variant = "normal" THEN b.variant ELSE q.variant
    BY <1>2 DEF Compatible
  <2>5. QED
    BY <2>1, <2>2, <2>3, <2>4 DEF AsGood
<1>3. QED
  BY <1>1, <1>2

(* Among candidates, those of two addresses are, unless the second is not  *)
(* that of the first and the first is.                                     *)
MayServe(n, a, u, v) ==
  \E g, h \in ToSet(Web[n].results[a]) :
    /\ g.url = u /\ h.url = v
    /\ AsGood(Identity(Asked[a]), Identity(g.title), Identity(h.title))

(* Of two like the first, either may serve for the other.                  *)
LEMMA KinServe ==
  ASSUME NEW n, NEW a, NEW urls, KinUrls(n, a, urls), 1 \in DOMAIN urls,
         NEW i \in DOMAIN urls, NEW j \in DOMAIN urls,
         urls[i] = urls[1] => urls[j] = urls[1]
  PROVE  MayServe(n, a, urls[i], urls[j])
<1>1. PICK hits :
        /\ DOMAIN hits = DOMAIN urls /\ Kin(Asked[a], hits)
        /\ \A k \in DOMAIN urls : /\ hits[k] \in ToSet(Web[n].results[a])
                                 /\ hits[k].url = urls[k]
  BY DEF KinUrls
<1> PICK q, head : q = Identity(Asked[a]) /\ head = Identity(hits[1].title)
  OBVIOUS
<1>2. \A k \in DOMAIN urls : \/ urls[k] = urls[1]
                            \/ Compatible(q, head, Identity(hits[k].title))
  BY <1>1 DEF Kin
<1>3. CASE urls[i] = urls[1]
  <2>1. AsGood(q, head, head)
    BY DEF AsGood
  <2>2. QED
    BY <1>1, <1>3, <2>1 DEF MayServe
<1>4. CASE urls[i] # urls[1] /\ urls[j] = urls[1]
  <2>1. AsGood(q, Identity(hits[i].title), head)
    BY <1>2, <1>4, CompatibleAsGood
  <2>2. QED
    BY <1>1, <1>4, <2>1 DEF MayServe
<1>5. CASE urls[i] # urls[1] /\ urls[j] # urls[1]
  <2>1. AsGood(q, Identity(hits[i].title), Identity(hits[j].title))
    BY <1>2, <1>5, CompatibleAsGood
  <2>2. QED
    BY <1>1, <2>1 DEF MayServe
<1>6. QED
  BY <1>3, <1>4, <1>5

(* The page the WebView named comes first, the rest as they are ranked.    *)
Without(base, pin) == Filtered(base, LAMBDA u : u # pin)
PinFirst(pin, base) ==
  IF pin = "" THEN base ELSE <<pin>> \o Without(base, pin)
FirstRanked(pin) == IF pin = "" THEN 1 ELSE 2

(* What the search of a site gave, if it gave anything.                    *)
Basis(n, k, a, base) == base = <<>> \/ base = Candidates[n][k][a]

(* What the WebView names, if anything, is a page of the site.             *)
Pins(n, pin) == pin # "" => pin \in DOMAIN Web[n].page

(* A list of pages of a site, in which whatever was not named is as good   *)
(* as the first that was not.                                              *)
Serves(n, k, a, pin, out) ==
  /\ AList(out)
  /\ k # "first" => \A i \in DOMAIN out :
       /\ out[i] \in DOMAIN Web[n].page
       /\ out[i] # pin => MayServe(n, a, out[i], out[FirstRanked(pin)])

(* The candidates are pages, of which each serves for the first.           *)
LEMMA CandidatesServe ==
  ASSUME NEW n \in DOMAIN Web, NEW k \in Kind, NEW a \in DOMAIN Asked,
         NEW base, Basis(n, k, a, base)
  PROVE  /\ AList(base)
         /\ k # "first" => \A i \in DOMAIN base : base[i] \in DOMAIN Web[n].page
         /\ k # "first" => \A i, j \in DOMAIN base :
              (base[i] = base[1] => base[j] = base[1])
                => MayServe(n, a, base[i], base[j])
<1>1. CASE base = <<>>
  BY <1>1, ToSetHolds DEF AList
<1>2. CASE base # <<>>
  <2>0. base = Candidates[n][k][a]
    BY <1>2 DEF Basis
  <2>1. /\ AList(base)
        /\ k # "first" =>
             /\ KinUrls(n, a, base)
             /\ \A i \in DOMAIN base : base[i] \in DOMAIN Web[n].page
    BY <2>0, CandidatesAre
  <2>2. ASSUME NEW i \in DOMAIN base PROVE 1 \in DOMAIN base
    <3>1. PICK S : S = ToSet(base)
      OBVIOUS
    <3>2. base \in Seq(S)
      BY <2>1, <3>1 DEF AList
    <3>3. QED
      BY <3>2
  <2>3. QED
    BY <2>1, <2>2, KinServe
<1>3. QED
  BY <1>1, <1>2

(* The rest of a list without one entry: all others, and the first of them *)
(* first.                                                                  *)
Others(base, pin, rest) ==
  /\ \A i \in DOMAIN rest : /\ rest[i] # pin /\ 1 \in DOMAIN rest
                           /\ \E j \in DOMAIN base : base[j] = rest[i]
  /\ 1 \in DOMAIN base /\ base[1] # pin
       => 1 \in DOMAIN rest /\ rest[1] = base[1]

(* Without the page that is named, the first of the rest stays first.      *)
LEMMA WithoutIs ==
  ASSUME NEW base, AList(base), NEW pin
  PROVE  AList(Without(base, pin)) /\ Others(base, pin, Without(base, pin))
<1> PICK S : S = ToSet(base)
  OBVIOUS
<1>1. base \in Seq(S)
  BY DEF AList
<1> PICK N \in Nat : DOMAIN base = 1..N
  BY <1>1
<1>2. PICK at : at = {i \in DOMAIN base : base[i] # pin}
  OBVIOUS
<1>3. Without(base, pin) = Sublist(base, at)
  BY <1>2, Zenon DEF Filtered, Without
<1>4. at \in SUBSET (DOMAIN base)
  BY <1>2
<1>5. PICK out : out = Sublist(base, at)
  OBVIOUS
<1>6. /\ out \in Seq(S) /\ ToSet(out) = {base[i] : i \in at}
      /\ out = <<>> <=> at = {}
  BY <1>1, <1>4, <1>5, SublistHolds
<1>7. AList(out)
  BY <1>6, ToSetHolds DEF AList
<1>8. ASSUME NEW i \in DOMAIN out
      PROVE  /\ out[i] # pin /\ 1 \in DOMAIN out
             /\ \E j \in DOMAIN base : base[j] = out[i]
  <2>1. out[i] \in ToSet(out)
    BY DEF ToSet
  <2>2. PICK j \in at : out[i] = base[j]
    BY <1>6, <2>1
  <2>3. 1 \in DOMAIN out
    BY <1>6
  <2>4. QED
    BY <1>2, <2>2, <2>3
<1>9. ASSUME 1 \in DOMAIN base, base[1] # pin
      PROVE  1 \in DOMAIN out /\ out[1] = base[1]
  <2>1. PICK one \in at : one = 1
    BY <1>2, <1>9
  <2>2. \A j \in at : one <= j
    BY <1>4, <2>1
  <2>3. Head(out) = base[one]
    BY <1>1, <1>4, <1>5, <2>2, SublistHead
  <2>4. out # <<>>
    BY <1>6, <2>1
  <2>5. 1 \in DOMAIN out /\ Head(out) = out[1]
    BY <1>6, <2>4
  <2>6. QED
    BY <2>1, <2>3, <2>5
<1>10. Others(base, pin, out)
  BY <1>8, <1>9 DEF Others
<1>11. QED
  BY <1>3, <1>5, <1>7, <1>10

(* The page that is named comes first, and the rest serve as before.       *)
LEMMA PinnedServe ==
  ASSUME NEW n \in DOMAIN Web, NEW k \in Kind, NEW a \in DOMAIN Asked,
         NEW base, Basis(n, k, a, base),
         NEW pin, Pins(n, pin)
  PROVE  Serves(n, k, a, pin, PinFirst(pin, base))
<1>1. /\ AList(base)
      /\ k # "first" => \A i \in DOMAIN base : base[i] \in DOMAIN Web[n].page
      /\ k # "first" => \A i, j \in DOMAIN base :
           (base[i] = base[1] => base[j] = base[1])
             => MayServe(n, a, base[i], base[j])
  BY CandidatesServe
<1>2. PICK L \in Nat : DOMAIN base = 1..L
  <2>1. PICK S : S = ToSet(base)
    OBVIOUS
  <2>2. base \in Seq(S)
    BY <1>1, <2>1 DEF AList
  <2>3. QED
    BY <2>2
<1>3. CASE pin = ""
  <2>1. PinFirst(pin, base) = base /\ FirstRanked(pin) = 1
    BY <1>3, Zenon DEF PinFirst, FirstRanked
  <2>2. ASSUME k # "first", NEW i \in DOMAIN base
        PROVE  MayServe(n, a, base[i], base[1])
    <3>1. 1 \in DOMAIN base
      BY <1>2
    <3>2. QED
      BY <1>1, <2>2, <3>1
  <2>3. QED
    BY <1>1, <2>1, <2>2 DEF Serves
<1>4. CASE pin # ""
  <2>1. PICK rest : rest = Without(base, pin)
    OBVIOUS
  <2>2. /\ AList(rest)
        /\ \A i \in DOMAIN rest :
             /\ rest[i] # pin /\ 1 \in DOMAIN rest
             /\ \E j \in DOMAIN base : base[j] = rest[i]
        /\ 1 \in DOMAIN base /\ base[1] # pin
             => 1 \in DOMAIN rest /\ rest[1] = base[1]
    BY <1>1, <2>1, WithoutIs DEF Others
  <2>3. PICK T : T = ToSet(rest) \cup {pin}
    OBVIOUS
  <2>4. PICK M \in Nat : rest \in Seq(T) /\ M = Len(rest) /\ DOMAIN rest = 1..M
    <3>1. PICK S : S = ToSet(rest)
      OBVIOUS
    <3>2. rest \in Seq(S) /\ S \subseteq T
      BY <2>2, <2>3, <3>1 DEF AList
    <3>3. QED
      BY <3>2
  <2>5. PICK out : out = <<pin>> \o rest
    OBVIOUS
  <2>6. PinFirst(pin, base) = out /\ FirstRanked(pin) = 2
    BY <1>4, <2>1, <2>5, Zenon DEF PinFirst, FirstRanked
  <2>7. /\ out \in Seq(T) /\ DOMAIN out = 1..(M + 1) /\ out[1] = pin
        /\ \A i \in 1..M : out[i + 1] = rest[i]
    BY <2>3, <2>4, <2>5
  <2>8. AList(out)
    BY <2>7, ToSetHolds DEF AList
  <2>9. ASSUME k # "first", NEW i \in DOMAIN out
        PROVE  /\ out[i] \in DOMAIN Web[n].page
               /\ out[i] # pin => MayServe(n, a, out[i], out[2])
    <3>1. CASE i = 1
      BY <1>4, <2>7, <3>1 DEF Pins
    <3>2. CASE i # 1
      <4>1. PICK m \in 1..M : i = m + 1
        <5>1. i - 1 \in 1..M /\ i = (i - 1) + 1
          BY <2>7, <3>2
        <5>2. QED
          BY <5>1
      <4>2. out[i] = rest[m] /\ 1 \in 1..M /\ rest[m] # pin
        BY <2>2, <2>4, <2>7, <4>1
      <4>3. out[2] = rest[1] /\ rest[1] # pin
        <5>1. PICK one \in 1..M : one = 1
          BY <4>2
        <5>2. out[one + 1] = rest[one] /\ one + 1 = 2
          BY <2>7, <5>1
        <5>3. QED
          BY <2>2, <2>4, <5>1, <5>2
      <4>4. PICK p \in DOMAIN base : base[p] = rest[m]
        BY <2>2, <2>4
      <4>5. PICK q \in DOMAIN base : base[q] = rest[1]
        BY <2>2, <2>4, <4>2
      <4>6. base[p] = base[1] => base[q] = base[1]
        <5>1. 1 \in DOMAIN base
          BY <1>2
        <5>2. QED
          BY <2>2, <4>2, <4>4, <4>5, <5>1
      <4>7. MayServe(n, a, base[p], base[q])
        BY <1>1, <2>9, <4>6
      <4>8. QED
        BY <1>1, <2>9, <4>2, <4>3, <4>4, <4>5, <4>7
    <3>3. QED
      BY <3>1, <3>2
  <2>10. QED
    BY <2>6, <2>8, <2>9 DEF Serves
<1>5. QED
  BY <1>3, <1>4

(* What a worker knows of a site it searches.                              *)
PlayableAt(n, k, r, url) ==
  (IF k = "episode" THEN Tables[n][url] ELSE Plays[n][url][k][r]) # <<>>
Passed(w, n, k, r, m) ==
  \A i \in 1..m : i \in w.lost \/ ~PlayableAt(n, k, r, w.ranked[i])
Lineup(w, n, k) ==
  \E base : Basis(n, k, w.alias, base)
            /\ w.ranked = PinFirst(w.override.pin, base)
Trying(w, n, k, r) ==
  /\ w.alias \in DOMAIN Asked /\ Lineup(w, n, k)
  /\ w.try \in 1..RetryLimit(Len(w.ranked)) /\ Passed(w, n, k, r, w.try - 1)
ChosenFrom(n, k, r, table) ==
  IF table = "" THEN <<>>
  ELSE SelectFromTable(Tables[n][table], 0, r.abs,
                       IF k = "episode" THEN r.abs ELSE r.rel)

Fits(w, n, k, r, table) ==
  /\ DOMAIN w = Fields /\ Pins(n, w.override.pin)
  /\ w.pc # "out" => k \in Kind
  /\ w.pc # "done" => w.end = "none" /\ ~w.cached
  /\ w.pc \in {"waiting", "search"} => w.ranked = <<>>
  /\ w.pc = "search" => w.alias \in DOMAIN Asked
  /\ w.pc \in {"detail", "video"} \/ (w.end = "ok" /\ ~w.cached)
       => Trying(w, n, k, r)
  /\ w.pc = "video" => k = "first"
  /\ w.cached /\ k = "progress" => w.url = ChosenFrom(n, k, r, table)
  /\ w.end = "unplayable" /\ k = "progress"
       => Passed(w, n, k, r, RetryLimit(Len(w.ranked)))
  /\ w.end = "network" /\ k = "progress" => ~w.answered

(* The same worker, whatever it has told.                                  *)
SameAs(v, w) ==
  /\ DOMAIN v = Fields /\ v.pc = w.pc /\ v.alias = w.alias
  /\ v.answered = w.answered /\ v.ranked = w.ranked /\ v.try = w.try
  /\ v.lost = w.lost /\ v.override = w.override /\ v.end = w.end
  /\ v.url = w.url /\ v.cached = w.cached

(* A worker that tells something is the same.                              *)
LEMMA EmitsSame ==
  ASSUME NEW w, DOMAIN w = Fields, NEW steps PROVE SameAs(Emits(w, steps), w)
<1>1. CASE kind = "progress"
  <2>1. PICK v : v = [w EXCEPT !.events = @ \o steps] /\ v = Emits(w, steps)
    BY <1>1 DEF Emits
  <2>2. SameAs(v, w)
    BY <2>1 DEF SameAs, Fields
  <2>3. QED
    BY <2>1, <2>2
<1>2. CASE kind # "progress"
  BY <1>2 DEF Emits, SameAs
<1>3. QED
  BY <1>1, <1>2

(* What it knows is then as true as before.                                *)
LEMMA SameFits ==
  ASSUME NEW n, NEW k, NEW r, NEW table, NEW w, Fits(w, n, k, r, table),
         NEW v, SameAs(v, w)
  PROVE  Fits(v, n, k, r, table)
<1>1. Trying(w, n, k, r) => Trying(v, n, k, r)
  BY DEF SameAs, Trying, Lineup, Passed
<1>2. \A m : Passed(w, n, k, r, m) => Passed(v, n, k, r, m)
  BY DEF SameAs, Passed
<1>3. QED
  BY <1>1, <1>2 DEF SameAs, Fits

(* A worker that is not yet done ends.                                     *)
LEMMA EndedFits ==
  ASSUME NEW n, NEW k, NEW r, NEW table, NEW w, Fits(w, n, k, r, table),
         w.pc # "done", k \in Kind, NEW end, NEW url,
         end = "ok" => Trying(w, n, k, r),
         end = "unplayable" /\ k = "progress"
           => Passed(w, n, k, r, RetryLimit(Len(w.ranked))),
         end = "network" /\ k = "progress" => ~w.answered
  PROVE  /\ Fits(Ended(w, end, url), n, k, r, table)
         /\ ~Ended(w, end, url).cached
<1>1. PICK v : v = Ended(w, end, url)
  OBVIOUS
<1>2. /\ DOMAIN v = Fields /\ v.pc = "done" /\ v.alias = w.alias
      /\ v.answered = w.answered /\ v.ranked = w.ranked /\ v.try = w.try
      /\ v.lost = w.lost /\ v.override = w.override /\ v.end = end
      /\ v.url = url /\ v.cached = w.cached
  BY <1>1 DEF Ended, Fits, Fields
<1>3. Trying(w, n, k, r) => Trying(v, n, k, r)
  BY <1>2 DEF Trying, Lineup, Passed
<1>4. \A m : Passed(w, n, k, r, m) => Passed(v, n, k, r, m)
  BY <1>2 DEF Passed
<1>5. ~v.cached /\ Pins(n, v.override.pin)
  BY <1>2 DEF Fits
<1>6. Fits(v, n, k, r, table)
  BY <1>2, <1>3, <1>4, <1>5 DEF Fits
<1>7. QED
  BY <1>1, <1>5, <1>6

(* The list of a worker is one.                                            *)
LEMMA ListedServe ==
  ASSUME NEW n \in DOMAIN Web, NEW k \in Kind, NEW w, Lineup(w, n, k),
         w.alias \in DOMAIN Asked, Pins(n, w.override.pin)
  PROVE  Serves(n, k, w.alias, w.override.pin, w.ranked)
<1>1. PICK base : Basis(n, k, w.alias, base)
                  /\ w.ranked = PinFirst(w.override.pin, base)
  BY DEF Lineup
<1>2. PICK a, pin : /\ a \in DOMAIN Asked /\ a = w.alias
                    /\ pin = w.override.pin
  OBVIOUS
<1>3. Serves(n, k, a, pin, PinFirst(pin, base))
  BY <1>1, <1>2, PinnedServe
<1>4. QED
  BY <1>1, <1>2, <1>3

(* A list has as many members as places.                                   *)
LEMMA LengthIs == ASSUME NEW s, AList(s)
                  PROVE  /\ Len(s) \in Nat /\ DOMAIN s = 1..Len(s)
                         /\ (s # <<>> => Len(s) # 0)
<1>1. PICK S : S = ToSet(s)
  OBVIOUS
<1>2. s \in Seq(S)
  BY <1>1 DEF AList
<1>3. QED
  BY <1>2

(* A candidate more is behind it.                                          *)
Spent(w, n, k, r) ==
  w.try \in w.lost \/ ~PlayableAt(n, k, r, w.ranked[w.try])

(* Some are tried, if there are any, and no more than there are.           *)
LEMMA LimitIs == \A m \in Nat : RetryLimit(m) \in Nat /\ RetryLimit(m) <= m
                                /\ (m # 0 => RetryLimit(m) # 0)
BY DEF RetryLimit, MaxRetries

(* So it goes on to the next, or gives up.                                 *)
LEMMA NextTryFits ==
  ASSUME NEW n \in DOMAIN Web, NEW r, NEW table, NEW w,
         Fits(w, n, kind, r, table), w.pc = "detail", Spent(w, n, kind, r)
  PROVE  Fits(NextTry(w), n, kind, r, table) /\ ~NextTry(w).cached
<1>1. kind \in Kind /\ Trying(w, n, kind, r) /\ Pins(n, w.override.pin)
      /\ DOMAIN w = Fields /\ ~w.cached /\ w.end = "none"
  BY DEF Fits
<1>2. PICK m \in Nat : m = RetryLimit(Len(w.ranked))
  <2>1. AList(w.ranked)
    BY <1>1, ListedServe DEF Trying, Serves
  <2>2. QED
    BY <2>1, LengthIs, LimitIs
<1>3. PICK t \in 1..m : t = w.try
  BY <1>1, <1>2 DEF Trying
<1>4. Passed(w, n, kind, r, t)
  <2>1. \A i \in 1..t : i \in 1..(t - 1) \/ i = t
    OBVIOUS
  <2>2. Passed(w, n, kind, r, t - 1)
    BY <1>1, <1>3 DEF Trying
  <2>3. QED
    BY <1>3, <2>1, <2>2 DEF Passed, Spent
<1>5. CASE kind = "first" \/ t = m
  <2>1. PICK u : u = Emits(w, IF Refused THEN <<>> ELSE <<"Failed">>)
    OBVIOUS
  <2>2. SameAs(u, w)
    BY <1>1, <2>1, EmitsSame
  <2>3. Fits(u, n, kind, r, table) /\ u.pc # "done"
    BY <2>2, SameFits DEF SameAs
  <2>4. kind = "progress" => Passed(u, n, kind, r, RetryLimit(Len(u.ranked)))
    BY <1>2, <1>4, <1>5, <2>2 DEF SameAs, Passed
  <2>5. PICK end, url : end = "unplayable" /\ url = <<>>
    OBVIOUS
  <2>6. NextTry(w) = Ended(u, end, url)
    BY <1>2, <1>3, <1>5, <2>1, <2>5, Zenon DEF NextTry
  <2>7. /\ Fits(Ended(u, end, url), n, kind, r, table)
        /\ ~Ended(u, end, url).cached
    BY <1>1, <2>3, <2>4, <2>5, EndedFits
  <2>8. QED
    BY <2>6, <2>7
<1>6. CASE ~(kind = "first" \/ t = m) /\ Refused
  <2>1. PICK end, url : end = "closed" /\ url = <<>>
    OBVIOUS
  <2>2. NextTry(w) = Ended(w, end, url)
    BY <1>2, <1>3, <1>6, <2>1 DEF NextTry
  <2>3. /\ Fits(Ended(w, end, url), n, kind, r, table)
        /\ ~Ended(w, end, url).cached
    BY <1>1, <2>1, EndedFits
  <2>4. QED
    BY <2>2, <2>3
<1>7. CASE ~(kind = "first" \/ t = m) /\ ~Refused
  <2>1. PICK v : v = [w EXCEPT !.try = @ + 1]
    OBVIOUS
  <2>2. /\ DOMAIN v = Fields /\ v.pc = "detail" /\ v.alias = w.alias
        /\ v.answered = w.answered /\ v.ranked = w.ranked /\ v.try = t + 1
        /\ v.lost = w.lost /\ v.override = w.override /\ v.end = w.end
        /\ v.url = w.url /\ v.cached = w.cached
    BY <1>1, <1>3, <2>1 DEF Fields
  <2>3. Trying(v, n, kind, r)
    <3>1. v.alias \in DOMAIN Asked /\ Lineup(v, n, kind)
      BY <1>1, <2>2 DEF Trying, Lineup
    <3>2. t + 1 \in 1..m /\ (t + 1) - 1 = t
      BY <1>7
    <3>3. Passed(v, n, kind, r, t)
      BY <1>4, <2>2 DEF Passed
    <3>4. QED
      BY <1>2, <2>2, <3>1, <3>2, <3>3 DEF Trying
  <2>4. Fits(v, n, kind, r, table)
    BY <1>1, <2>2, <2>3 DEF Fits
  <2>5. PICK steps : steps = <<"FetchingDetail">>
    OBVIOUS
  <2>6. NextTry(w) = Emits(v, steps)
    BY <1>2, <1>3, <1>7, <2>1, <2>5 DEF NextTry
  <2>7. SameAs(Emits(v, steps), v)
    BY <2>2, EmitsSame
  <2>8. QED
    BY <1>1, <2>2, <2>4, <2>6, <2>7, SameFits DEF SameAs
<1>8. QED
  BY <1>5, <1>6, <1>7

(* It goes on to what it found, and to what was named.                     *)
Seeking(w, n) ==
  /\ DOMAIN w = Fields /\ Pins(n, w.override.pin) /\ kind \in Kind
  /\ w.pc = "search" /\ w.end = "none" /\ ~w.cached
  /\ w.alias \in DOMAIN Asked /\ Basis(n, kind, w.alias, w.ranked)

(* It fits then, as one that tries the first of them or is done.           *)
LEMMA TriesFits ==
  ASSUME NEW n \in DOMAIN Web, NEW r, NEW table, NEW w, Seeking(w, n)
  PROVE  Fits(Tries(w), n, kind, r, table) /\ ~Tries(w).cached
<1>1. /\ kind \in Kind /\ Pins(n, w.override.pin) /\ DOMAIN w = Fields
      /\ ~w.cached /\ w.end = "none" /\ w.alias \in DOMAIN Asked
      /\ Basis(n, kind, w.alias, w.ranked) /\ w.pc = "search"
  BY DEF Seeking
<1>2. PICK list : list = PinFirst(w.override.pin, w.ranked)
  OBVIOUS
<1>3. Pinned(w) = list
  BY <1>2, Zenon DEF Pinned, PinFirst, Without
<1>4. ASSUME NEW end, end \in {"network", "unmatched", "closed"}, NEW u,
             SameAs(u, w), end = "network" /\ kind = "progress" => ~w.answered
      PROVE  Fits(Ended(u, end, <<>>), n, kind, r, table)
             /\ ~Ended(u, end, <<>>).cached
  <2>1. PICK v : v = Ended(u, end, <<>>)
    OBVIOUS
  <2>2. /\ DOMAIN v = Fields /\ v.pc = "done" /\ v.override = w.override
        /\ v.answered = w.answered /\ v.end = end /\ v.cached = w.cached
    BY <1>4, <2>1 DEF Ended, SameAs, Fields
  <2>3. Fits(v, n, kind, r, table) /\ ~v.cached
    BY <1>1, <1>4, <2>2 DEF Fits
  <2>4. QED
    BY <2>1, <2>3
<1>5. CASE list = <<>>
  <2>1. PICK end : end = IF kind = "progress" /\ ~w.answered THEN "network"
                         ELSE "unmatched"
    OBVIOUS
  <2>2. PICK u : u = Emits(w, IF Refused THEN <<>> ELSE <<"Failed">>)
    OBVIOUS
  <2>3. SameAs(u, w)
    BY <1>1, <2>2, EmitsSame
  <2>4. Tries(w) = Ended(u, end, <<>>)
    BY <1>3, <1>5, <2>1, <2>2 DEF Tries
  <2>5. /\ Fits(Ended(u, end, <<>>), n, kind, r, table)
        /\ ~Ended(u, end, <<>>).cached
    BY <1>4, <2>1, <2>3
  <2>6. QED
    BY <2>4, <2>5
<1>6. CASE list # <<>> /\ Refused
  <2>1. Tries(w) = Ended(w, "closed", <<>>)
    BY <1>3, <1>6 DEF Tries
  <2>2. SameAs(w, w)
    BY <1>1 DEF SameAs
  <2>3. Fits(Ended(w, "closed", <<>>), n, kind, r, table)
        /\ ~Ended(w, "closed", <<>>).cached
    BY <1>4, <2>2
  <2>4. QED
    BY <2>1, <2>3
<1>7. CASE list # <<>> /\ ~Refused
  <2>1. PICK v : v = [w EXCEPT !.ranked = list, !.pc = "detail", !.try = 1]
    OBVIOUS
  <2>2. /\ DOMAIN v = Fields /\ v.pc = "detail" /\ v.alias = w.alias
        /\ v.ranked = list /\ v.try = 1 /\ v.override = w.override
        /\ v.end = w.end /\ v.cached = w.cached
    BY <1>1, <2>1 DEF Fields
  <2>3. Lineup(v, n, kind)
    BY <1>1, <1>2, <2>2 DEF Lineup
  <2>4. AList(list)
    BY <1>1, <2>2, <2>3, ListedServe DEF Serves
  <2>5. PICK m \in Nat : m = RetryLimit(Len(list)) /\ m # 0
    BY <1>7, <2>4, LengthIs, LimitIs
  <2>6. Passed(v, n, kind, r, 0)
    BY DEF Passed
  <2>7. Trying(v, n, kind, r)
    <3>1. 1 \in 1..m /\ 1 - 1 = 0
      BY <2>5
    <3>2. QED
      BY <1>1, <2>2, <2>3, <2>5, <2>6, <3>1 DEF Trying
  <2>8. Fits(v, n, kind, r, table)
    BY <1>1, <2>2, <2>7 DEF Fits
  <2>9. PICK steps : steps = <<"FetchingDetail">>
    OBVIOUS
  <2>10. Tries(w) = Emits(v, steps)
    BY <1>3, <1>7, <2>1, <2>9 DEF Tries
  <2>11. SameAs(Emits(v, steps), v)
    BY <2>2, EmitsSame
  <2>12. QED
    BY <1>1, <2>2, <2>8, <2>10, <2>11, SameFits DEF SameAs
<1>8. QED
  BY <1>5, <1>6, <1>7

(* The searches know what they found, and what is saved is of the site.    *)
SeekInv ==
  /\ request \in Request
  /\ tables = [s \in Source |-> tables[s]]
  /\ worker = [s \in Source |-> worker[s]]
  /\ \A s \in Source :
       /\ site[s] \in DOMAIN Web /\ Pins(site[s], tables[s])
       /\ Fits(worker[s], site[s], kind, request, tables[s])

(* A worker that did not use the table of its source does not depend on it.*)
LEMMA TableFits ==
  ASSUME NEW n, NEW k, NEW r, NEW table, NEW w, Fits(w, n, k, r, table),
         ~w.cached, NEW other
  PROVE  Fits(w, n, k, r, other)
BY DEF Fits

(* Workers go on.                                                          *)
LEMMA SeekersGo ==
  ASSUME SeekInv, UNCHANGED <<site, kind, request, tables>>,
         worker' = [s \in Source |-> worker'[s]],
         \A s \in Source : Fits(worker'[s], site[s], kind, request, tables[s])
  PROVE  SeekInv'
BY DEF SeekInv

(* So does one of them, if it knows what is so.                            *)
LEMMA SeekerGoes ==
  ASSUME SeekInv, UNCHANGED <<site, kind, request, tables>>,
         NEW s \in Source, NEW w, Becomes(s, w),
         Fits(w, site[s], kind, request, tables[s])
  PROVE  SeekInv'
<1>1. worker = [r \in Source |-> worker[r]]
  BY DEF SeekInv
<1>2. /\ worker' = [r \in Source |-> worker'[r]]
      /\ \A r \in Source : worker'[r] = IF r = s THEN w ELSE worker[r]
  BY <1>1 DEF Becomes
<1>3. \A r \in Source : Fits(worker'[r], site[r], kind, request, tables[r])
  BY <1>2 DEF SeekInv
<1>4. QED
  BY <1>2, <1>3, SeekersGo

(* A worker begins.                                                        *)
LEMMA BeginSeeks ==
  ASSUME SeekInv, NEW s \in Source, Begin(s) PROVE SeekInv'
<1>1. UNCHANGED <<site, kind, request, tables>> /\ worker[s].pc = "waiting"
  BY DEF Begin
<1>2. PICK w, n, t : w = worker[s] /\ n = site[s] /\ t = tables[s]
  OBVIOUS
<1>3. /\ Fits(w, n, kind, request, t) /\ w.pc = "waiting" /\ kind \in Kind
      /\ DOMAIN w = Fields /\ ~w.cached /\ w.end = "none"
      /\ w.ranked = <<>> /\ Pins(n, w.override.pin)
  BY <1>1, <1>2 DEF SeekInv, Fits
<1>4. PICK cached : cached = IF MayUseTable(s) THEN Chosen(s) ELSE <<>>
  OBVIOUS
<1>5. PICK told : told = Emits(w, <<"Searching">>)
  OBVIOUS
<1>6. SameAs(told, w)
  BY <1>3, <1>5, EmitsSame
<1>7. PICK first : first = [told EXCEPT !.pc = "search", !.alias = 1]
  OBVIOUS
<1>8. /\ DOMAIN first = Fields /\ first.pc = "search" /\ first.alias = 1
      /\ first.override = w.override /\ first.end = "none" /\ ~first.cached
      /\ first.ranked = w.ranked
  BY <1>3, <1>6, <1>7 DEF SameAs, Fields
<1>9. Fits(first, n, kind, request, t)
  BY <1>3, <1>8, AskedIs DEF Fits
<1>10. ASSUME NEW u, SameAs(u, w) \/ SameAs(u, first),
              NEW end, end \in {"closed", "skipped"}
       PROVE  Fits(Ended(u, end, <<>>), n, kind, request, t)
  <2>1. Fits(u, n, kind, request, t) /\ u.pc # "done"
    BY <1>3, <1>8, <1>9, <1>10, SameFits DEF SameAs
  <2>2. PICK url : url = <<>>
    OBVIOUS
  <2>3. Fits(Ended(u, end, url), n, kind, request, t)
    BY <1>3, <1>10, <2>1, EndedFits
  <2>4. QED
    BY <2>2, <2>3
<1>11. ASSUME NEW steps, cached # <<>>
       PROVE  Fits(Ended([Emits(first, steps) EXCEPT !.cached = TRUE],
                         "ok", cached), n, kind, request, t)
  <2>1. PICK u : u = Emits(first, steps)
    OBVIOUS
  <2>2. SameAs(u, first)
    BY <1>8, <2>1, EmitsSame
  <2>3. PICK v : v = Ended([u EXCEPT !.cached = TRUE], "ok", cached)
    OBVIOUS
  <2>4. /\ DOMAIN v = Fields /\ v.pc = "done" /\ v.end = "ok"
        /\ v.override = w.override /\ v.url = cached /\ v.cached
    BY <1>8, <2>2, <2>3 DEF Ended, SameAs, Fields
  <2>5. cached = ChosenFrom(n, kind, request, t)
    BY <1>2, <1>4, <1>11, Zenon DEF Chosen, ChosenFrom, Rows
  <2>6. Fits(v, n, kind, request, t)
    BY <1>3, <2>4, <2>5 DEF Fits
  <2>7. QED
    BY <2>1, <2>3, <2>6
<1>12. \/ Becomes(s, Ended(w, "closed", <<>>))
       \/ Becomes(s, first)
       \/ Becomes(s, Ended(Emits(first, <<"Failed">>), "skipped", <<>>))
       \/ /\ cached # <<>>
          /\ Becomes(s, Ended([Emits(first,
               <<"FetchingEpisodes", "ExtractingVideo", "Success">>)
                 EXCEPT !.cached = TRUE], "ok", cached))
  BY <1>2, <1>4, <1>5, <1>7 DEF Begin
<1>13. \E v : Fits(v, n, kind, request, t) /\ Becomes(s, v)
  <2>1. SameAs(w, w)
    BY <1>3 DEF SameAs
  <2>2. SameAs(Emits(first, <<"Failed">>), first)
    BY <1>8, EmitsSame
  <2>3. Fits(Ended(w, "closed", <<>>), n, kind, request, t)
    BY <1>10, <2>1
  <2>4. Fits(Ended(Emits(first, <<"Failed">>), "skipped", <<>>),
             n, kind, request, t)
    BY <1>10, <2>2
  <2>5. QED
    BY <1>9, <1>11, <1>12, <2>3, <2>4
<1>14. QED
  BY <1>1, <1>2, <1>13, SeekerGoes

(* The search of a site was answered, or failed.                           *)
LEMMA SearchSeeks ==
  ASSUME SeekInv, NEW s \in Source, SearchAnswered(s) \/ SearchFailed(s)
  PROVE  SeekInv'
<1>1. /\ UNCHANGED <<site, kind, request, tables>> /\ worker[s].pc = "search"
  BY DEF SearchAnswered, SearchFailed
<1>2. PICK w, n, t : w = worker[s] /\ n = site[s] /\ t = tables[s]
  OBVIOUS
<1>3. /\ n \in DOMAIN Web /\ Fits(w, n, kind, request, t)
      /\ w.pc = "search" /\ kind \in Kind /\ DOMAIN w = Fields
      /\ ~w.cached /\ w.end = "none" /\ w.ranked = <<>>
      /\ Pins(n, w.override.pin) /\ w.alias \in DOMAIN Asked
  BY <1>1, <1>2 DEF SeekInv, Fits
<1>4. ASSUME NEW v, v.pc = "search", DOMAIN v = Fields, ~v.cached,
             v.end = "none", v.ranked = <<>>, v.override = w.override,
             v.alias = w.alias, w.alias < Len(Asked)
      PROVE  Fits([v EXCEPT !.alias = @ + 1], n, kind, request, t)
  <2>1. PICK u : u = [v EXCEPT !.alias = @ + 1]
    OBVIOUS
  <2>2. /\ DOMAIN u = Fields /\ u.pc = "search" /\ ~u.cached
        /\ u.end = "none" /\ u.ranked = <<>> /\ u.override = w.override
        /\ u.alias = w.alias + 1
    BY <1>4, <2>1 DEF Fields
  <2>3. w.alias + 1 \in DOMAIN Asked
    BY <1>3, <1>4, AskedIs
  <2>4. Fits(u, n, kind, request, t)
    BY <1>3, <2>2, <2>3 DEF Fits
  <2>5. QED
    BY <2>1, <2>4
<1>5. CASE SearchAnswered(s)
  <2>1. PICK ranked : ranked = Candidates[n][kind][w.alias]
    OBVIOUS
  <2>2. PICK v : v = [w EXCEPT !.answered = TRUE, !.ranked = ranked]
    OBVIOUS
  <2>3. /\ DOMAIN v = Fields /\ v.pc = "search" /\ ~v.cached
        /\ v.end = "none" /\ v.ranked = ranked
        /\ v.override = w.override /\ v.alias = w.alias
    BY <1>3, <2>2 DEF Fields
  <2>4. \/ /\ ranked = <<>> /\ w.alias < Len(Asked)
           /\ Becomes(s, [v EXCEPT !.alias = @ + 1])
        \/ Becomes(s, Tries(v))
    BY <1>2, <1>5, <2>1, <2>2, <2>3 DEF SearchAnswered
  <2>5. Seeking(v, n)
    BY <1>3, <2>1, <2>3 DEF Seeking, Basis
  <2>6. \E u : Fits(u, n, kind, request, t) /\ Becomes(s, u)
    BY <1>3, <1>4, <2>3, <2>4, <2>5, TriesFits
  <2>7. QED
    BY <1>1, <1>2, <2>6, SeekerGoes
<1>6. CASE SearchFailed(s)
  <2>1. \/ kind # "progress" /\ Becomes(s, Ended(w, "network", <<>>))
        \/ w.alias < Len(Asked) /\ Becomes(s, [w EXCEPT !.alias = @ + 1])
        \/ Becomes(s, Tries(w))
    BY <1>2, <1>6 DEF SearchFailed
  <2>2. PICK end, url : end = "network" /\ url = <<>>
    OBVIOUS
  <2>3. kind # "progress" => Fits(Ended(w, end, url), n, kind, request, t)
    BY <1>3, <2>2, EndedFits
  <2>4. Seeking(w, n)
    BY <1>3 DEF Seeking, Basis
  <2>5. \E u : Fits(u, n, kind, request, t) /\ Becomes(s, u)
    BY <1>3, <1>4, <2>1, <2>2, <2>3, <2>4, TriesFits
  <2>6. QED
    BY <1>1, <1>2, <2>5, SeekerGoes
<1>7. QED
  BY <1>5, <1>6

(* A worker goes on, and saves the table of its source if it has one.      *)
Saves(s) == \/ UNCHANGED tables
            \/ \E url : /\ Pins(site[s], url)
                        /\ tables' = [tables EXCEPT ![s] = url]
FitsAt(w, s) == Fits(w, site[s], kind, request, tables[s])

(* The others know of their own tables only.                               *)
LEMMA SaverGoes ==
  ASSUME SeekInv, UNCHANGED <<site, kind, request>>, NEW s \in Source, Saves(s),
         NEW w, FitsAt(w, s), ~w.cached,
         worker' = [r \in Source |-> worker'[r]], worker'[s] = w,
         \A r \in Source \ {s} : \/ worker'[r] = worker[r]
                                 \/ FitsAt(worker'[r], r)
  PROVE  SeekInv'
<1>1. /\ tables = [r \in Source |-> tables[r]]
      /\ \A r \in Source : /\ site[r] \in DOMAIN Web
                           /\ Pins(site[r], tables[r]) /\ FitsAt(worker[r], r)
  BY DEF SeekInv, FitsAt
<1>2. PICK url : \/ UNCHANGED tables
                 \/ Pins(site[s], url) /\ tables' = [tables EXCEPT ![s] = url]
  BY DEF Saves
<1>3. /\ tables' = [r \in Source |-> tables'[r]]
      /\ \A r \in Source : r # s => tables'[r] = tables[r]
      /\ tables'[s] = tables[s] \/ (tables'[s] = url /\ Pins(site[s], url))
  BY <1>1, <1>2
<1>4. Fits(w, site[s], kind, request, tables'[s])
  BY TableFits DEF FitsAt
<1>5. ASSUME NEW r \in Source, r # s
      PROVE  Fits(worker'[r], site[r], kind, request, tables'[r])
  BY <1>1, <1>3, <1>5 DEF FitsAt
<1>6. \A r \in Source : /\ Fits(worker'[r], site[r], kind, request, tables'[r])
                        /\ Pins(site[r], tables'[r])
  BY <1>1, <1>3, <1>4, <1>5
<1>7. QED
  BY <1>1, <1>3, <1>6 DEF SeekInv

(* If no one listens any more, the others are dropped.                     *)
LEMMA DeliverSeeks ==
  ASSUME SeekInv, UNCHANGED <<site, kind, request>>, kind \in Kind,
         NEW s \in Source, Saves(s), worker[s].pc = "detail",
         NEW w, FitsAt(w, s), ~w.cached, Delivers(s, w)
  PROVE  SeekInv'
<1>1. /\ worker = [r \in Source |-> worker[r]]
      /\ \A r \in Source : FitsAt(worker[r], r)
  BY DEF SeekInv, FitsAt
<1>2. CASE worker' = [worker EXCEPT ![s] = w]
  <2>1. /\ worker' = [r \in Source |-> worker'[r]] /\ worker'[s] = w
        /\ \A r \in Source \ {s} : worker'[r] = worker[r]
    BY <1>1, <1>2
  <2>2. QED
    BY <2>1, SaverGoes
<1>3. CASE worker' = [r \in Source |-> IF worker[r].pc = "done" THEN worker[r]
                        ELSE Ended(worker[r], "dropped", <<>>)]
  <2>1. ASSUME NEW r \in Source, worker[r].pc # "done"
        PROVE  FitsAt(worker'[r], r) /\ ~worker'[r].cached
    <3>1. PICK v, end, none : v = worker[r] /\ end = "dropped" /\ none = <<>>
      OBVIOUS
    <3>2. /\ Fits(Ended(v, end, none), site[r], kind, request, tables[r])
          /\ ~Ended(v, end, none).cached
      BY <1>1, <2>1, <3>1, EndedFits DEF FitsAt
    <3>3. worker'[r] = Ended(v, end, none)
      BY <1>3, <2>1, <3>1
    <3>4. QED
      BY <3>2, <3>3 DEF FitsAt
  <2>2. \A r \in Source \ {s} : \/ worker'[r] = worker[r]
                                \/ FitsAt(worker'[r], r)
    BY <1>3, <2>1
  <2>3. worker' = [r \in Source |-> worker'[r]]
    BY <1>3
  <2>4. PICK v : v = worker'[s]
    OBVIOUS
  <2>5. FitsAt(v, s) /\ ~v.cached
    BY <2>1, <2>4
  <2>6. QED
    BY <2>2, <2>3, <2>4, <2>5, SaverGoes
<1>4. QED
  BY <1>2, <1>3 DEF Delivers

(* If someone listens, the others stay.                                    *)
LEMMA SaverBecomes ==
  ASSUME SeekInv, UNCHANGED <<site, kind, request>>, NEW s \in Source, Saves(s),
         NEW w, FitsAt(w, s), ~w.cached, Becomes(s, w)
  PROVE  SeekInv'
<1>1. worker = [r \in Source |-> worker[r]]
  BY DEF SeekInv
<1>2. /\ worker' = [r \in Source |-> worker'[r]] /\ worker'[s] = w
      /\ \A r \in Source \ {s} : worker'[r] = worker[r]
  BY <1>1 DEF Becomes
<1>3. QED
  BY <1>2, SaverGoes

(* The page of a candidate did not come.                                   *)
LEMMA FailedSeeks ==
  ASSUME SeekInv, NEW s \in Source, DetailFailed(s) PROVE SeekInv'
<1>1. UNCHANGED <<site, kind, request, tables>> /\ worker[s].pc = "detail"
  BY DEF DetailFailed
<1>2. PICK w, n, t : w = worker[s] /\ n = site[s] /\ t = tables[s]
  OBVIOUS
<1>3. /\ n \in DOMAIN Web /\ Fits(w, n, kind, request, t)
      /\ w.pc = "detail" /\ DOMAIN w = Fields /\ kind \in Kind
      /\ Trying(w, n, kind, request)
  BY <1>1, <1>2 DEF SeekInv, Fits
<1>4. PICK v : v = [w EXCEPT !.lost = @ \cup {w.try}]
  OBVIOUS
<1>5. /\ DOMAIN v = Fields /\ v.pc = w.pc /\ v.alias = w.alias
      /\ v.answered = w.answered /\ v.ranked = w.ranked /\ v.try = w.try
      /\ v.lost = w.lost \cup {w.try} /\ v.override = w.override
      /\ v.end = w.end /\ v.url = w.url /\ v.cached = w.cached
  BY <1>3, <1>4 DEF Fields
<1>6. \A m : Passed(w, n, kind, request, m) => Passed(v, n, kind, request, m)
  BY <1>5 DEF Passed
<1>7. Trying(v, n, kind, request)
  BY <1>3, <1>5, <1>6 DEF Trying, Lineup
<1>8. Fits(v, n, kind, request, t)
  BY <1>3, <1>5, <1>6, <1>7 DEF Fits
<1>9. Spent(v, n, kind, request)
  BY <1>5 DEF Spent
<1>10. Fits(NextTry(v), n, kind, request, t)
  BY <1>3, <1>5, <1>8, <1>9, NextTryFits
<1>11. Becomes(s, NextTry(v))
  BY <1>2, <1>4 DEF DetailFailed
<1>12. QED
  BY <1>1, <1>2, <1>10, <1>11, SeekerGoes

(* The page of a candidate came.                                           *)
LEMMA DetailSeeks ==
  ASSUME SeekInv, NEW s \in Source, DetailAnswered(s) PROVE SeekInv'
<1>1. UNCHANGED <<site, kind, request>> /\ worker[s].pc = "detail"
  BY DEF DetailAnswered
<1>2. PICK w, n, t : w = worker[s] /\ n = site[s] /\ t = tables[s]
  OBVIOUS
<1>3. /\ n \in DOMAIN Web /\ FitsAt(w, s) /\ Fits(w, n, kind, request, t)
      /\ w.pc = "detail" /\ DOMAIN w = Fields /\ kind \in Kind /\ ~w.cached
      /\ w.end = "none" /\ Pins(n, w.override.pin)
      /\ Trying(w, n, kind, request)
  BY <1>1, <1>2 DEF SeekInv, Fits, FitsAt
<1>4. PICK url, play, rows, seen, shown :
        /\ url = w.ranked[w.try] /\ play = Found(s, url) /\ rows = Rows(s, url)
        /\ seen = Emits(w, <<"FetchingEpisodes">>)
        /\ shown = Emits(seen, <<"ExtractingVideo", "Success">>)
  OBVIOUS
<1>5. SameAs(seen, w) /\ SameAs(shown, w)
  <2>1. PICK first, then : first = <<"FetchingEpisodes">>
                          /\ then = <<"ExtractingVideo", "Success">>
    OBVIOUS
  <2>2. SameAs(Emits(w, first), w)
    BY <1>3, EmitsSame
  <2>3. SameAs(seen, w) /\ DOMAIN seen = Fields
    BY <1>4, <2>1, <2>2 DEF SameAs
  <2>4. SameAs(Emits(seen, then), seen)
    BY <2>3, EmitsSame
  <2>5. QED
    BY <1>4, <2>1, <2>3, <2>4 DEF SameAs
<1>6. Fits(seen, n, kind, request, t) /\ Fits(shown, n, kind, request, t)
  BY <1>3, <1>5, SameFits
<1>7. ASSUME NEW end, \/ end \in {"closed", "ok"}
                      \/ end = "unplayable" /\ kind = "episode",
             NEW u, SameAs(u, w), NEW found
      PROVE  FitsAt(Ended(u, end, found), s) /\ ~Ended(u, end, found).cached
  <2>1. Fits(u, n, kind, request, t) /\ u.pc = "detail"
    <3>1. Fits(u, n, kind, request, t)
      BY <1>3, <1>7, SameFits
    <3>2. QED
      BY <1>3, <1>7, <3>1 DEF SameAs
  <2>2. /\ Fits(Ended(u, end, found), n, kind, request, t)
        /\ ~Ended(u, end, found).cached
    <3>1. Trying(u, n, kind, request)
      BY <2>1 DEF Fits
    <3>2. QED
      BY <1>3, <1>7, <2>1, <3>1, EndedFits
  <2>3. QED
    BY <1>2, <2>2 DEF FitsAt
<1>8. SameAs(w, w)
  BY <1>3 DEF SameAs
<1>9. (IF kind = "episode" THEN rows ELSE play) # <<>>
        <=> PlayableAt(n, kind, request, w.ranked[w.try])
  BY <1>2, <1>4, Zenon DEF PlayableAt, Found, Rows
<1>10. CASE Refused
  <2>1. Becomes(s, Ended(w, "closed", <<>>)) /\ UNCHANGED tables
    BY <1>2, <1>4, <1>10, Zenon DEF DetailAnswered
  <2>2. QED
    BY <1>1, <1>7, <1>8, <2>1, SaverBecomes DEF Saves
<1>11. CASE ~Refused /\ (IF kind = "episode" THEN rows ELSE play) = <<>>
  <2>1. Becomes(s, NextTry(seen)) /\ UNCHANGED tables
    BY <1>2, <1>4, <1>11, Zenon DEF DetailAnswered
  <2>2. Spent(seen, n, kind, request)
    BY <1>5, <1>9, <1>11 DEF SameAs, Spent
  <2>3. Fits(NextTry(seen), n, kind, request, t)
    BY <1>3, <1>5, <1>6, <2>2, NextTryFits DEF SameAs
  <2>4. QED
    BY <1>1, <1>2, <2>1, <2>3, SeekerGoes
<1>12. CASE ~Refused /\ (IF kind = "episode" THEN rows ELSE play) # <<>>
  <2>1. /\ tables' = IF kind \in {"progress", "channels", "episode"}
                        /\ rows # <<>>
                       THEN [tables EXCEPT ![s] = url] ELSE tables
        /\ CASE kind = "first" ->
                  Becomes(s, [w EXCEPT !.pc = "video", !.url = play])
             [] kind = "episode" /\ play = <<>> ->
                  Becomes(s, Ended(w, "unplayable", <<>>))
             [] OTHER -> Delivers(s, Ended(shown, "ok", play))
    BY <1>2, <1>4, <1>12, Zenon DEF DetailAnswered
  <2>2. Saves(s)
    <3>1. ASSUME kind # "first" PROVE Pins(n, url)
      <4>1. Serves(n, kind, w.alias, w.override.pin, w.ranked)
        BY <1>3, ListedServe DEF Trying
      <4>2. PICK m \in Nat : m = Len(w.ranked) /\ DOMAIN w.ranked = 1..m
        BY <4>1, LengthIs DEF Serves
      <4>3. RetryLimit(m) \in Nat /\ RetryLimit(m) <= m
        BY LimitIs
      <4>4. w.try \in DOMAIN w.ranked
        <5>1. w.try \in 1..RetryLimit(m)
          BY <1>3, <4>2 DEF Trying
        <5>2. QED
          BY <4>2, <4>3, <5>1
      <4>5. QED
        BY <1>4, <3>1, <4>1, <4>4 DEF Serves, Pins
    <3>2. QED
      BY <1>2, <2>1, <3>1 DEF Saves
  <2>3. CASE kind = "first"
    <3>1. PICK v : v = [w EXCEPT !.pc = "video", !.url = play]
      OBVIOUS
    <3>2. /\ DOMAIN v = Fields /\ v.pc = "video" /\ v.alias = w.alias
          /\ v.ranked = w.ranked /\ v.try = w.try /\ v.lost = w.lost
          /\ v.override = w.override /\ v.end = w.end /\ v.cached = w.cached
      BY <1>3, <3>1 DEF Fields
    <3>3. Trying(v, n, kind, request)
      BY <1>3, <3>2 DEF Trying, Lineup, Passed
    <3>4. Fits(v, n, kind, request, t) /\ ~v.cached
      BY <1>3, <2>3, <3>2, <3>3 DEF Fits
    <3>5. Becomes(s, v)
      BY <2>1, <2>3, <3>1
    <3>6. QED
      BY <1>1, <1>2, <2>2, <3>4, <3>5, SaverBecomes DEF FitsAt
  <2>4. CASE kind = "episode" /\ play = <<>>
    <3>1. Becomes(s, Ended(w, "unplayable", <<>>))
      BY <2>1, <2>4
    <3>2. QED
      BY <1>1, <1>7, <1>8, <2>2, <2>4, <3>1, SaverBecomes
  <2>5. CASE kind # "first" /\ ~(kind = "episode" /\ play = <<>>)
    <3>1. Delivers(s, Ended(shown, "ok", play))
      BY <2>1, <2>5
    <3>2. PICK v : v = Ended(shown, "ok", play)
      OBVIOUS
    <3>3. FitsAt(v, s) /\ ~v.cached
      BY <1>5, <1>7, <3>2
    <3>4. QED
      BY <1>1, <1>3, <2>2, <3>1, <3>2, <3>3, DeliverSeeks
  <2>6. QED
    BY <2>3, <2>4, <2>5
<1>13. QED
  BY <1>10, <1>11, <1>12

(* What is fetched for the video changes nothing that a worker knows.      *)
LEMMA OutFits ==
  ASSUME NEW n, NEW k, NEW r, NEW table PROVE Fits(Out, n, k, r, table)
<1>1. PICK out : out = Out
  OBVIOUS
<1>2. /\ DOMAIN out = Fields /\ out.pc = "out" /\ out.end = "none"
      /\ ~out.cached /\ out.override.pin = ""
  BY <1>1 DEF Out, NoOverride, Fields
<1>3. Fits(out, n, k, r, table)
  BY <1>2 DEF Fits, Pins
<1>4. QED
  BY <1>1, <1>3

(* So a search for a video keeps what is known.                            *)
LEMMA EndsSeek ==
  ASSUME SeekInv, NEW s \in Source,
         VideoFound(s) \/ VideoMissing(s) \/ BodyBreaks(s)
  PROVE  SeekInv'
<1>1. /\ UNCHANGED <<site, kind, request, tables>>
      /\ worker[s].pc \in {"search", "detail", "video"}
  BY DEF VideoFound, VideoMissing, BodyBreaks
<1>2. /\ worker = [r \in Source |-> worker[r]]
      /\ \A r \in Source : FitsAt(worker[r], r)
  BY DEF SeekInv, FitsAt
<1>3. kind \in Kind
  BY <1>1, <1>2 DEF FitsAt, Fits
<1>4. ASSUME NEW r \in Source, worker[r].pc # "done",
             NEW end, \/ end = "ok" /\ worker[r].pc = "video"
                      \/ end = "unplayable" /\ kind = "first"
                      \/ end = "network" /\ kind = "first",
             NEW url
      PROVE  FitsAt(Ended(worker[r], end, url), r)
  <2>1. PICK v : v = worker[r]
    OBVIOUS
  <2>2. Fits(v, site[r], kind, request, tables[r])
    BY <1>2, <2>1 DEF FitsAt
  <2>3. end = "ok" => Trying(v, site[r], kind, request)
    BY <1>4, <2>1, <2>2 DEF Fits
  <2>4. Fits(Ended(v, end, url), site[r], kind, request, tables[r])
    BY <1>3, <1>4, <2>1, <2>2, <2>3, EndedFits
  <2>5. QED
    BY <2>1, <2>4 DEF FitsAt
<1>5. worker[s].pc = "video" => kind = "first"
  BY <1>2 DEF FitsAt, Fits
<1>6. CASE VideoFound(s)
  <2>1. worker[s].pc = "video"
        /\ worker' = [r \in Source |->
             IF r = s THEN Ended(worker[s], "ok", worker[s].url)
             ELSE IF worker[r].pc = "waiting" THEN Out ELSE worker[r]]
    BY <1>6 DEF VideoFound
  <2>2. FitsAt(Ended(worker[s], "ok", worker[s].url), s)
    BY <1>4, <2>1
  <2>3. \A r \in Source : FitsAt(Out, r)
    BY OutFits DEF FitsAt
  <2>4. \A r \in Source : FitsAt(worker'[r], r)
    BY <1>2, <2>1, <2>2, <2>3
  <2>5. worker' = [r \in Source |-> worker'[r]]
    BY <2>1
  <2>6. QED
    BY <1>1, <2>4, <2>5, SeekersGo DEF FitsAt
<1>7. CASE VideoMissing(s)
  <2>1. PICK w : w = Ended(worker[s], "unplayable", <<>>)
    OBVIOUS
  <2>2. Becomes(s, w) /\ worker[s].pc = "video"
    BY <1>7, <2>1 DEF VideoMissing
  <2>3. FitsAt(w, s)
    BY <1>4, <1>5, <2>1, <2>2
  <2>4. QED
    BY <1>1, <2>2, <2>3, SeekerGoes DEF FitsAt
<1>8. CASE BodyBreaks(s)
  <2>1. /\ kind = "first"
        /\ worker' = [r \in Source |->
             IF worker[r].pc = "done" THEN worker[r]
             ELSE Ended(worker[r], "network", <<>>)]
    BY <1>8 DEF BodyBreaks
  <2>2. \A r \in Source : FitsAt(worker'[r], r)
    BY <1>2, <1>4, <2>1
  <2>3. worker' = [r \in Source |-> worker'[r]]
    BY <2>1
  <2>4. QED
    BY <1>1, <2>2, <2>3, SeekersGo DEF FitsAt
<1>9. QED
  BY <1>6, <1>7, <1>8

(* A search begins with what the WebView names, and ends with nothing.     *)
LEMMA ListenSeeks ==
  ASSUME SeekInv, NEW k \in Kind, NEW targets, NEW overrides,
         Listen(k, targets, overrides),
         \A s \in Source : Pins(site[s], overrides[s].pin)
  PROVE  SeekInv'
<1>1. /\ UNCHANGED <<site, tables, request>> /\ kind' = k
      /\ worker' = [s \in Source |->
           IF s \in targets THEN [Out EXCEPT !.pc = "waiting",
                                             !.override = overrides[s]]
           ELSE Out]
  BY DEF Listen
<1>2. ASSUME NEW s \in Source
      PROVE  Fits(worker'[s], site[s], k, request, tables[s])
  <2>1. PICK out, o : out = Out /\ o = overrides[s]
    OBVIOUS
  <2>2. PICK w : w = [out EXCEPT !.pc = "waiting", !.override = o]
    OBVIOUS
  <2>3. /\ DOMAIN w = Fields /\ w.pc = "waiting" /\ w.override = o
        /\ w.end = "none" /\ ~w.cached /\ w.ranked = <<>>
    BY <2>1, <2>2 DEF Out, Fields
  <2>4. Fits(w, site[s], k, request, tables[s])
    BY <2>1, <2>3 DEF Fits
  <2>5. worker'[s] = w \/ worker'[s] = Out
    BY <1>1, <2>1, <2>2
  <2>6. QED
    BY <2>4, <2>5, OutFits
<1>3. worker' = [s \in Source |-> worker'[s]]
  BY <1>1
<1>4. QED
  BY <1>1, <1>2, <1>3 DEF SeekInv

(* So do the calls of Dart, the clock and the end of a search.             *)
LEMMA CallsSeek ==
  ASSUME SeekInv, SearchCalls \/ Drained PROVE SeekInv'
<1>1. NoOverride.pin = "" /\ \A n : Pins(n, NoOverride.pin)
  BY DEF NoOverride, Pins
<1>2. PICK none : none = NoOverride
  OBVIOUS
<1>3. \A s \in Source : Pins(site[s], [r \in Source |-> none][s].pin)
  BY <1>1, <1>2
<1>4. ASSUME NEW targets, ListenWith(targets) PROVE SeekInv'
  <2>1. PICK s \in Source :
          \E o : /\ o.pin \in {""} \cup DOMAIN Web[site[s]].page
                 /\ Listen("progress", targets,
                           [r \in Source |-> IF r = s THEN o ELSE none])
    BY <1>2, <1>4 DEF ListenWith
  <2> PICK o : /\ o.pin \in {""} \cup DOMAIN Web[site[s]].page
               /\ Listen("progress", targets,
                         [r \in Source |-> IF r = s THEN o ELSE none])
    BY <2>1
  <2>2. PICK given : given = [r \in Source |-> IF r = s THEN o ELSE none]
    OBVIOUS
  <2>3. \A r \in Source : Pins(site[r], given[r].pin)
    BY <1>1, <1>2, <2>1, <2>2 DEF Pins
  <2>4. QED
    BY <2>1, <2>2, <2>3, ListenSeeks DEF Kind
<1>5. CASE SearchProgress \/ DebugSearch
  BY <1>4, <1>5 DEF SearchProgress, DebugSearch
<1>6. CASE SearchChannels \/ SearchPlay \/ SearchFirst \/ EpisodeUrl
  <2>1. ASSUME NEW k \in Kind, NEW targets,
               Listen(k, targets, [r \in Source |-> none])
        PROVE  SeekInv'
    BY <1>3, <2>1, ListenSeeks
  <2>2. {"channels", "play", "first", "episode"} \subseteq Kind
    BY DEF Kind
  <2>3. CASE SearchChannels
    BY <1>2, <2>1, <2>2, <2>3 DEF SearchChannels
  <2>4. CASE SearchPlay
    BY <1>2, <2>1, <2>2, <2>4 DEF SearchPlay
  <2>5. CASE SearchFirst
    BY <1>2, <2>1, <2>2, <2>5 DEF SearchFirst
  <2>6. CASE EpisodeUrl
    BY <1>2, <2>1, <2>2, <2>6 DEF EpisodeUrl
  <2>7. QED
    BY <1>6, <2>3, <2>4, <2>5, <2>6
<1>7. CASE CloseSink
  BY <1>7 DEF CloseSink, SeekInv
<1>8. ASSUME NEW s \in Source, Expire(s) PROVE SeekInv'
  <2>1. /\ UNCHANGED <<site, kind, request, worker>> /\ kind = "none"
        /\ tables' = [tables EXCEPT ![s] = ""]
    BY <1>8 DEF Expire
  <2>2. /\ tables' = [r \in Source |-> tables'[r]]
        /\ \A r \in Source : tables'[r] \in {tables[r], ""}
    BY <2>1 DEF SeekInv
  <2>3. ASSUME NEW r \in Source
        PROVE  /\ Fits(worker[r], site[r], kind, request, tables'[r])
               /\ Pins(site[r], tables'[r])
    BY <2>1, <2>2 DEF SeekInv, Fits, Pins
  <2>4. QED
    BY <2>1, <2>2, <2>3 DEF SeekInv
<1>9. CASE Drained
  <2>1. /\ UNCHANGED <<site, tables, request>>
        /\ worker' = [s \in Source |-> Out]
    BY <1>9 DEF Drained
  <2>2. \A s \in Source : Fits(worker'[s], site[s], kind', request, tables[s])
    BY <2>1, OutFits
  <2>3. worker' = [s \in Source |-> worker'[s]]
    BY <2>1
  <2>4. QED
    BY <2>1, <2>2, <2>3 DEF SeekInv
<1>10. QED
  BY <1>5, <1>6, <1>7, <1>8, <1>9 DEF SearchCalls

(* The searches keep what they know.                                       *)
LEMMA SeekInitHolds == SearchInit => SeekInv
<1> SUFFICES ASSUME SearchInit PROVE SeekInv
  OBVIOUS
<1>1. /\ request \in Request /\ tables = [s \in Source |-> ""]
      /\ worker = [s \in Source |-> Out]
      /\ \A s \in Source : site[s] \in DOMAIN Web
  BY SearchAssumption DEF SearchInit
<1>2. PICK out : out = Out
  OBVIOUS
<1>3. \A s \in Source : worker[s] = out /\ tables[s] = ""
  BY <1>1, <1>2
<1>4. /\ worker = [s \in Source |-> worker[s]]
      /\ tables = [s \in Source |-> tables[s]]
  BY <1>1, <1>2
<1>5. \A s \in Source : Fits(out, site[s], kind, request, tables[s])
  BY <1>2, OutFits
<1>6. QED
  BY <1>1, <1>3, <1>4, <1>5 DEF SeekInv, Pins

(* Every step of a search does.                                            *)
LEMMA SeekStep == SeekInv /\ [SearchNext]_searchVars => SeekInv'
<1> SUFFICES ASSUME SeekInv, [SearchNext]_searchVars PROVE SeekInv'
  OBVIOUS
<1>1. CASE SearchCalls \/ Drained
  BY <1>1, CallsSeek
<1>2. ASSUME NEW s \in Source, SearchSteps(s) PROVE SeekInv'
  BY <1>2, BeginSeeks, SearchSeeks, FailedSeeks, DetailSeeks, EndsSeek
  DEF SearchSteps
<1>3. CASE UNCHANGED searchVars
  BY <1>3 DEF searchVars, SeekInv
<1>4. QED
  BY <1>1, <1>2, <1>3 DEF SearchNext

(* What they find then is what the search promises.                        *)
LEMMA BestAtTheEnd == SeekInv => BestCandidateServed
<1> SUFFICES ASSUME SeekInv PROVE BestCandidateServed
  OBVIOUS
<1>1. ASSUME NEW s \in Source
      PROVE  LET w == worker[s]
        query == Identity(Asked[w.alias])
        title(u) == {Identity(h.title) : h \in
                       {g \in ToSet(Web[site[s]].results[w.alias]) : g.url = u}}
        best == w.ranked[IF w.override.pin = "" THEN 1 ELSE 2]
    IN /\ w.end = "ok" /\ ~w.cached => \A i \in 1..(w.try - 1) :
            i \in w.lost \/ ~Playable(s, w.ranked[i])
       /\ w.end = "ok" /\ ~w.cached /\ kind # "first"
            /\ w.ranked[w.try] # w.override.pin
          => \E t \in title(w.ranked[w.try]), b \in title(best) :
               AsGood(query, t, b)
       /\ w.end = "unplayable" /\ kind = "progress" =>
            \A i \in 1..RetryLimit(Len(w.ranked)) :
              i \in w.lost \/ ~Playable(s, w.ranked[i])
       /\ w.end = "network" /\ kind = "progress" => ~w.answered
  <2> DEFINE w == worker[s]
             n == site[s]
  <2>1. w = worker[s] /\ n = site[s]
    OBVIOUS
  <2> HIDE DEF w, n
  <2>2. Fits(w, n, kind, request, tables[s]) /\ n \in DOMAIN Web
    BY <2>1 DEF SeekInv
  <2>3. \A u : Playable(s, u) <=> PlayableAt(n, kind, request, u)
    BY <2>1, Zenon DEF Playable, PlayableAt, Rows, Found
  <2>4. w.end = "ok" /\ ~w.cached
          => Trying(w, n, kind, request) /\ kind \in Kind
    BY <2>2 DEF Fits
  <2>5. w.end = "ok" /\ ~w.cached => \A i \in 1..(w.try - 1) :
          i \in w.lost \/ ~Playable(s, w.ranked[i])
    BY <2>3, <2>4 DEF Trying, Passed
  <2>6. ASSUME w.end = "ok", ~w.cached, kind # "first",
               w.ranked[w.try] # w.override.pin
        PROVE  MayServe(n, w.alias, w.ranked[w.try],
                        w.ranked[FirstRanked(w.override.pin)])
    <3>1. Pins(n, w.override.pin)
      BY <2>2 DEF Fits
    <3>2. Serves(n, kind, w.alias, w.override.pin, w.ranked)
      BY <2>2, <2>4, <2>6, <3>1, ListedServe DEF Trying
    <3>3. PICK m \in Nat : m = Len(w.ranked) /\ DOMAIN w.ranked = 1..m
      BY <3>2, LengthIs DEF Serves
    <3>4. RetryLimit(m) \in Nat /\ RetryLimit(m) <= m
      BY LimitIs
    <3>5. w.try \in 1..RetryLimit(m)
      BY <2>4, <2>6, <3>3 DEF Trying
    <3>6. w.try \in DOMAIN w.ranked
      BY <3>3, <3>4, <3>5
    <3>7. QED
      BY <2>6, <3>2, <3>6 DEF Serves
  <2>7. w.end = "unplayable" /\ kind = "progress" =>
          \A i \in 1..RetryLimit(Len(w.ranked)) :
            i \in w.lost \/ ~Playable(s, w.ranked[i])
    BY <2>2, <2>3 DEF Fits, Passed
  <2>8. w.end = "network" /\ kind = "progress" => ~w.answered
    BY <2>2 DEF Fits
  <2> DEFINE query == Identity(Asked[w.alias])
             title(u) == {Identity(h.title) : h \in
                            {g \in ToSet(Web[n].results[w.alias]) : g.url = u}}
             best == w.ranked[IF w.override.pin = "" THEN 1 ELSE 2]
  <2>9. ASSUME w.end = "ok", ~w.cached, kind # "first",
               w.ranked[w.try] # w.override.pin
        PROVE  \E t \in title(w.ranked[w.try]), b \in title(best) :
                 AsGood(query, t, b)
    <3>1. best = w.ranked[FirstRanked(w.override.pin)]
      BY DEF FirstRanked
    <3>2. PICK g \in ToSet(Web[n].results[w.alias]),
               h \in ToSet(Web[n].results[w.alias]) :
            /\ g.url = w.ranked[w.try] /\ h.url = best
            /\ AsGood(query, Identity(g.title), Identity(h.title))
      BY <2>6, <2>9, <3>1, Zenon DEF MayServe
    <3> HIDE DEF query, best
    <3>3. QED
      BY <3>2, Zenon
  <2>10. QED
    BY ONLY <2>5, <2>7, <2>8, <2>9, Zenon DEF w, n, query, title, best
<1>2. QED
  BY ONLY <1>1, Zenon DEF BestCandidateServed, AsGood

(* What they take from a table is what a search would show.                *)
LEMMA CachedAtTheEnd == SeekInv => CachedAnswerIsLive
<1> SUFFICES ASSUME SeekInv PROVE CachedAnswerIsLive
  OBVIOUS
<1>1. ASSUME NEW s \in Source
      PROVE  LET w == worker[s]
        page == Web[site[s]].page[tables[s]]
        format == Web[site[s]].format
        links == IF format = "plain" THEN page.items ELSE FirstList(page)
    IN w.cached /\ kind = "progress" /\ tables[s] # ""
       /\ links # <<>> /\ WellNumbered(links, request.abs)
       /\ \/ request.abs # None
          \/ request.rel \in {None} \cup DOMAIN links
          \/ Len(InChannel(Rows(s, tables[s]), 0)) = Len(links)
       => w.url = LivePick(format, tables[s], page,
                           request.abs, request.rel)
  <2>1. PICK w, n, url, page, format, links :
          /\ w = worker[s] /\ n = site[s] /\ url = tables[s]
          /\ page = Web[n].page[url] /\ format = Web[n].format
          /\ links = Links(format, page)
    OBVIOUS
  <2>2. PICK abs, rel : /\ abs = request.abs /\ rel = request.rel
                        /\ {abs, rel} \subseteq {None} \cup Nat
    BY SearchAssumption DEF SeekInv
  <2>3. ASSUME w.cached, kind = "progress", url # "", links # <<>>,
               WellNumbered(links, abs),
               \/ abs # None \/ rel \in {None} \cup DOMAIN links
               \/ Len(InChannel(Rows(s, url), 0)) = Len(links)
        PROVE  w.url = LivePick(format, url, page, abs, rel)
    <3>1. /\ Fits(w, n, kind, request, url) /\ n \in DOMAIN Web
          /\ url \in DOMAIN Web[n].page
      BY <2>1, <2>3 DEF SeekInv, Pins
    <3>2. /\ AList(page.items) /\ AList(page.lists)
          /\ \A i \in DOMAIN page.lists : AList(page.lists[i])
      <4>1. page \in Range(Web[n].page)
        BY <2>1, <3>1 DEF Range
      <4>2. QED
        BY <3>1, <4>1, WebAssumption DEF Searchable
    <3>3. AList(links)
      <4>1. CASE format = "plain"
        BY <2>1, <3>2, <4>1 DEF Links
      <4>2. CASE format # "plain"
        <5>1. links = FirstList(page)
          BY <2>1, <4>2 DEF Links
        <5>2. page.lists # <<>> /\ links = Head(page.lists)
          BY <2>3, <5>1 DEF FirstList
        <5>3. PICK lists, S : lists = page.lists /\ S = ToSet(lists)
          OBVIOUS
        <5>4. lists \in Seq(S) /\ lists # <<>>
          BY <3>2, <5>2, <5>3 DEF AList
        <5>5. 1 \in DOMAIN lists /\ Head(lists) = lists[1]
          BY <5>4
        <5>6. QED
          BY <3>2, <5>2, <5>3, <5>5
      <4>3. QED
        BY <4>1, <4>2
    <3>4. Counted(links)
      BY <2>3, <3>3 DEF Counted, WellNumbered
    <3>5. PICK rows : rows = Table(format, url, page)
      OBVIOUS
    <3>7. Headed(rows, url, links)
      BY <2>1, <3>2, <3>4, <3>5, TableBegins DEF Headed
    <3>8. Tables[n][url] = rows
      BY <2>1, <3>1, <3>5 DEF Tables, RowsIn
    <3>9. Rows(s, url) = rows
      BY <2>1, <3>8 DEF Rows
    <3>10. abs \in {None} \cup DOMAIN links /\ rel \in {None} \cup Nat
      BY <2>2, <2>3 DEF WellNumbered
    <3>11. SelectFromTable(rows, 0, abs, rel) = LinkOf(links, url, abs, rel)
      <4>1. Reached(links, rows, abs, rel)
        BY <2>3, <3>9, <3>10 DEF Reached
      <4>2. QED
        BY <3>4, <3>7, <4>1, SelectAgrees
    <3>12. w.url = SelectFromTable(rows, 0, abs, rel)
      <4>1. w.url = ChosenFrom(n, kind, request, url)
        BY <2>3, <3>1 DEF Fits
      <4>2. kind # "episode" /\ url # ""
        BY <2>3
      <4>3. ChosenFrom(n, kind, request, url)
              = SelectFromTable(Tables[n][url], 0, abs, rel)
        BY <2>2, <4>2, Zenon DEF ChosenFrom
      <4>4. QED
        BY <3>8, <4>1, <4>3
    <3>13. LivePick(format, url, page, abs, rel) = LinkOf(links, url, abs, rel)
      BY <2>1, <3>4, <3>10, LiveIs
    <3>14. QED
      BY <3>11, <3>12, <3>13
  <2>4. QED
    BY ONLY <2>1, <2>2, <2>3, Zenon DEF Links
<1>2. QED
  BY ONLY <1>1, Zenon DEF CachedAnswerIsLive

-----------------------------------------------------------------------------
(* Lookups.                                                                *)

(* The torrents of an episode: each magnet is taken once.                  *)
Magnets(rows) == {rows[i].magnet : i \in DOMAIN rows}
TakeOnce(done, r) ==
  IF \E i \in DOMAIN done : done[i].magnet = r.magnet
    THEN done ELSE Append(done, r)

(* The fold that drops known magnets, as the list of what it holds after   *)
(* each row.                                                               *)
LEMMA UnseenSteps ==
  ASSUME NEW rows \in Seq(Release)
  PROVE  \E acc \in [0..Len(rows) -> Seq(Release)] :
           /\ acc[0] = <<>> /\ acc[Len(rows)] = Unseen(rows)
           /\ \A n \in 0..(Len(rows) - 1) :
                acc[n + 1] = TakeOnce(acc[n], rows[n + 1])
<1>1. PICK N \in Nat : N = Len(rows) /\ DOMAIN rows = 1..N
  OBVIOUS
<1>2. PICK Acc : Acc = Seq(Release)
  OBVIOUS
<1>3. \A d \in Acc, i \in 1..N : TakeOnce(d, rows[i]) \in Acc
  BY <1>1, <1>2 DEF TakeOnce
<1>4. PICK step \in StepOn(N, Acc) :
        \A d \in Acc, i \in 1..N : step[<<d, i>>] = TakeOnce(d, rows[i])
  <2> DEFINE f == [p \in Acc \X (1..N) |-> TakeOnce(p[1], rows[p[2]])]
  <2>1. f \in StepOn(N, Acc)
    <3>1. \A p \in Acc \X (1..N) : p[1] \in Acc /\ p[2] \in 1..N
      OBVIOUS
    <3>2. QED
      BY <1>3, <3>1 DEF StepOn
  <2>2. \A d \in Acc, i \in 1..N : f[<<d, i>>] = TakeOnce(d, rows[i])
    OBVIOUS
  <2>3. QED
    BY <2>1, <2>2
<1>5. PICK base \in Acc : base = <<>>
  <2>1. <<>> \in Seq(Release)
    OBVIOUS
  <2>2. QED
    BY <1>2, <2>1
<1>6. PICK h \in [SUBSET (1..N) -> Acc] : FoldsBy(h, N, base, step)
  BY FoldExists
<1>7. \A U \in SUBSET (1..N) :
        U # {} => Max(U) \in 1..N /\ U \ {Max(U)} \in SUBSET (1..N)
  BY MaxIs
<1>8. PICK it : /\ Unseen(rows) = it[DOMAIN rows] /\ it[{}] = <<>>
                /\ \A U \in SUBSET (1..N) : U # {} =>
                     it[U] = TakeOnce(it[U \ {Max(U)}], rows[Max(U)])
  <2> DEFINE Rec(f) == [U \in SUBSET DOMAIN rows |->
                         IF U = {} THEN <<>>
                         ELSE TakeOnce(f[U \ {Max(U)}], rows[Max(U)])]
  <2>1. PICK it : /\ it = (CHOOSE f : f = Rec(f))
                  /\ Unseen(rows) = it[DOMAIN rows]
    BY Zenon DEF Unseen, FoldLeft, MapThenFoldSet, TakeOnce
  <2>2. \A U \in SUBSET (1..N) : U # {} =>
          step[<<h[U \ {Max(U)}], Max(U)>>]
            = TakeOnce(h[U \ {Max(U)}], rows[Max(U)])
    BY <1>4, <1>7
  <2>3. \A U \in SUBSET (1..N) : h[U] = IF U = {} THEN <<>>
                                 ELSE TakeOnce(h[U \ {Max(U)}], rows[Max(U)])
    BY <1>5, <1>6, <2>2 DEF FoldsBy
  <2>4. h = Rec(h)
    BY <1>1, <2>3
  <2>5. it = Rec(it)
    BY <2>1, <2>4, Zenon
  <2>6. {} \in SUBSET DOMAIN rows
    OBVIOUS
  <2>7. QED
    BY <1>1, <2>1, <2>5, <2>6
<1>9. FoldsWithin(it, N, Acc, base, step)
  BY <1>4, <1>5, <1>7, <1>8 DEF FoldsWithin
<1>10. PICK acc \in [0..N -> Acc] :
         acc[N] = it[1..N] /\ GoesBy(acc, N, base, step)
  BY <1>9, FoldSteps
<1>11. \A n \in 0..(N - 1) : acc[n + 1] = TakeOnce(acc[n], rows[n + 1])
  <2> TAKE n \in 0..(N - 1)
  <2>1. acc[n] \in Acc /\ n + 1 \in 1..N
    BY <1>10
  <2>2. acc[n + 1] = step[<<acc[n], n + 1>>]
    BY <1>10 DEF GoesBy
  <2>3. PICK d \in Acc, i \in 1..N : d = acc[n] /\ i = n + 1
    BY <2>1
  <2>4. QED
    BY <1>4, <2>2, <2>3
<1>12. QED
  BY <1>1, <1>2, <1>5, <1>8, <1>10, <1>11 DEF GoesBy

(* What has been taken after so many rows is what those rows have, once.   *)
TakenUp(done, rows, n) ==
  /\ \A i, j \in DOMAIN done : done[i].magnet = done[j].magnet => i = j
  /\ \A i \in DOMAIN done : \E k \in 1..n : done[i].magnet = rows[k].magnet
  /\ \A k \in 1..n : \E i \in DOMAIN done : done[i].magnet = rows[k].magnet

(* A row more: its magnet is taken unless it was taken before.             *)
LEMMA TakenGoesOn ==
  ASSUME NEW rows \in Seq(Release), NEW n \in 0..(Len(rows) - 1),
         NEW done \in Seq(Release), TakenUp(done, rows, n)
  PROVE  TakenUp(TakeOnce(done, rows[n + 1]), rows, n + 1)
<1>1. PICK r \in Release : r = rows[n + 1]
  OBVIOUS
<1>2. \A k \in 1..(n + 1) : k \in 1..n \/ k = n + 1
  OBVIOUS
<1>3. CASE \E i \in DOMAIN done : done[i].magnet = r.magnet
  <2>1. TakeOnce(done, r) = done
    BY <1>3 DEF TakeOnce
  <2>2. QED
    BY <1>1, <1>2, <1>3, <2>1 DEF TakenUp
<1>4. CASE ~ \E i \in DOMAIN done : done[i].magnet = r.magnet
  <2>1. PICK more : more = Append(done, r)
    OBVIOUS
  <2>2. TakeOnce(done, r) = more
    BY <1>4, <2>1 DEF TakeOnce
  <2>3. PICK N \in Nat : N = Len(done) /\ DOMAIN done = 1..N
    OBVIOUS
  <2>4. /\ DOMAIN more = 1..(N + 1) /\ more[N + 1] = r
        /\ \A i \in 1..N : more[i] = done[i]
    BY <2>1, <2>3
  <2>5. \A i \in 1..(N + 1) : i \in 1..N \/ i = N + 1
    BY <2>3
  <2>6. \A i, j \in DOMAIN more : more[i].magnet = more[j].magnet => i = j
    <3>1. \A i \in 1..N : done[i].magnet # r.magnet
      BY <1>4, <2>3
    <3>2. \A i, j \in 1..N : done[i].magnet = done[j].magnet => i = j
      BY <2>3 DEF TakenUp
    <3>3. QED
      BY <2>4, <2>5, <3>1, <3>2
  <2>7. \A i \in DOMAIN more :
          \E k \in 1..(n + 1) : more[i].magnet = rows[k].magnet
    BY <1>1, <2>3, <2>4, <2>5 DEF TakenUp
  <2>8. \A k \in 1..(n + 1) :
          \E i \in DOMAIN more : more[i].magnet = rows[k].magnet
    <3>1. more[N + 1].magnet = rows[n + 1].magnet /\ N + 1 \in DOMAIN more
      BY <1>1, <2>4
    <3>2. ASSUME NEW k \in 1..n
          PROVE  \E i \in DOMAIN more : more[i].magnet = rows[k].magnet
      <4>1. PICK i \in 1..N : done[i].magnet = rows[k].magnet
        BY <2>3 DEF TakenUp
      <4>2. QED
        BY <2>4, <4>1
    <3>3. QED
      BY <1>2, <3>1, <3>2
  <2>9. QED
    BY <1>1, <2>2, <2>6, <2>7, <2>8 DEF TakenUp
<1>5. QED
  BY <1>3, <1>4

(* So at the end every magnet is there, once.                              *)
LEMMA UnseenIs ==
  ASSUME NEW rows \in Seq(Release)
  PROVE  /\ Unseen(rows) \in Seq(Release)
         /\ TakenUp(Unseen(rows), rows, Len(rows))
<1>1. PICK acc \in [0..Len(rows) -> Seq(Release)] :
        /\ acc[0] = <<>> /\ acc[Len(rows)] = Unseen(rows)
        /\ \A n \in 0..(Len(rows) - 1) :
             acc[n + 1] = TakeOnce(acc[n], rows[n + 1])
  BY UnseenSteps
<1>2. PICK N \in Nat : N = Len(rows)
  OBVIOUS
<1>3. PICK T : T = {n \in 0..N : TakenUp(acc[n], rows, n)}
  OBVIOUS
<1>4. 0 \in T
  <2>1. TakenUp(<<>>, rows, 0)
    BY DEF TakenUp
  <2>2. QED
    BY <1>1, <1>3, <2>1
<1>5. \A n \in 0..(N - 1) : n \in T => n + 1 \in T
  <2> SUFFICES ASSUME NEW n \in 0..(N - 1), n \in T PROVE n + 1 \in T
    OBVIOUS
  <2>1. acc[n] \in Seq(Release) /\ TakenUp(acc[n], rows, n)
    BY <1>1, <1>2, <1>3
  <2>2. TakenUp(TakeOnce(acc[n], rows[n + 1]), rows, n + 1)
    BY <1>2, <2>1, TakenGoesOn
  <2>3. QED
    BY <1>1, <1>2, <1>3, <2>2
<1>6. N \in T
  <2>1. \A n \in 0..N : n \in T
    BY <1>4, <1>5, Induct
  <2>2. QED
    BY <2>1
<1>7. QED
  BY <1>1, <1>2, <1>3, <1>6

(* The last token that may be a number is the number.                      *)
LEMMA NumberIs ==
  ASSUME NEW title \in Seq(Nat), NEW number
  PROVE  EpisodeAt(title) # 0 /\ title[EpisodeAt(title)] = number
           <=> TitledFor(title, number)
<1>1. PICK N \in Nat : N = Len(title) /\ DOMAIN title = 1..N
  OBVIOUS
<1>2. PICK I : I = {i \in 1..N : title[i] \in CanBeEpisode}
  OBVIOUS
<1>3. EpisodeAt(title) = IF I # {} THEN Max(I) ELSE 0
  BY <1>1, <1>2 DEF EpisodeAt, SelectLastInSeq
<1>4. I \in SUBSET (1..N)
  BY <1>2
<1>5. CASE I = {}
  BY <1>1, <1>2, <1>3, <1>5 DEF TitledFor
<1>6. CASE I # {}
  <2>1. Max(I) \in I /\ \A n \in I : n <= Max(I)
    BY <1>4, <1>6, MaxIs
  <2>2. PICK m \in I : m = EpisodeAt(title) /\ \A n \in I : n <= m
    BY <1>3, <1>6, <2>1
  <2>3. m \in 1..N /\ title[m] \in CanBeEpisode
    BY <1>2, <2>2
  <2>4. \A i \in 1..N : title[i] \in CanBeEpisode => i <= m
    BY <1>2, <2>2
  <2>5. ASSUME title[m] = number PROVE TitledFor(title, number)
    BY <1>1, <2>3, <2>4, <2>5 DEF TitledFor
  <2>6. ASSUME TitledFor(title, number) PROVE title[m] = number
    <3>1. PICK i \in 1..N :
            /\ title[i] = number /\ number \in CanBeEpisode
            /\ \A j \in 1..N : j > i => title[j] \notin CanBeEpisode
      BY <1>1, <2>6 DEF TitledFor
    <3>2. i <= m /\ ~ (m > i)
      BY <2>3, <2>4, <3>1
    <3>3. QED
      BY <2>3, <3>1, <3>2
  <2>7. QED
    BY <2>2, <2>3, <2>5, <2>6
<1>7. QED
  BY <1>5, <1>6

(* The rows kept are those that have a magnet and the number.              *)
LEMMA MatchingIs ==
  ASSUME NEW rows \in Seq(Release), NEW number
  PROVE  /\ Matching(rows, number) \in Seq(Release)
         /\ ToSet(Matching(rows, number)) =
              {r \in ToSet(rows) :
                 r.magnet # 0 /\ TitledFor(r.title, number)}
<1>1. PICK at : at = {i \in DOMAIN rows :
                        /\ rows[i].magnet # 0
                        /\ EpisodeAt(rows[i].title) # 0
                        /\ rows[i].title[EpisodeAt(rows[i].title)] = number}
  OBVIOUS
<1>2. Matching(rows, number) = Sublist(rows, at)
  BY <1>1, Zenon DEF Matching, Filtered
<1>3. at \in SUBSET DOMAIN rows
  BY <1>1
<1>4. /\ Sublist(rows, at) \in Seq(Release)
      /\ ToSet(Sublist(rows, at)) = {rows[i] : i \in at}
  BY <1>3, SublistHolds
<1>5. \A i \in DOMAIN rows :
        i \in at <=> rows[i].magnet # 0 /\ TitledFor(rows[i].title, number)
  <2> TAKE i \in DOMAIN rows
  <2>1. rows[i] \in Release
    OBVIOUS
  <2>2. rows[i].title \in Seq(Nat)
    BY <2>1 DEF Release
  <2>3. PICK title \in Seq(Nat) : title = rows[i].title
    BY <2>2
  <2>4. EpisodeAt(title) # 0 /\ title[EpisodeAt(title)] = number
          <=> TitledFor(title, number)
    BY NumberIs
  <2>5. QED
    BY <1>1, <2>3, <2>4
<1>6. {rows[i] : i \in at} = {r \in ToSet(rows) :
                              r.magnet # 0 /\ TitledFor(r.title, number)}
  BY <1>3, <1>5 DEF ToSet
<1>7. QED
  BY <1>2, <1>4, <1>6

(* Comments are put by time, those of one time as they came.               *)
Earlier(good, M) ==
  {p \in (1..M) \X (1..M) :
     \/ good[p[1]].time < good[p[2]].time
     \/ good[p[1]].time = good[p[2]].time /\ p[1] < p[2]}

(* That puts any two comments one before the other.                        *)
LEMMA EarlierInARow ==
  ASSUME NEW M \in Nat, NEW good \in [1..M -> Danmaku]
  PROVE  InARow(1..M, Earlier(good, M))
<1>1. PICK time \in [1..M -> Int] : \A i \in 1..M : time[i] = good[i].time
  <2>1. [i \in 1..M |-> good[i].time] \in [1..M -> Int]
    BY DEF Danmaku
  <2>2. QED
    BY <2>1
<1>2. \A i, j \in 1..M : <<i, j>> \in Earlier(good, M) <=>
        time[i] < time[j] \/ (time[i] = time[j] /\ i < j)
  BY <1>1 DEF Earlier
<1>3. /\ \A i \in 1..M : ~ (time[i] < time[i] \/ (time[i] = time[i] /\ i < i))
      /\ \A i, j, k \in 1..M :
           /\ time[i] < time[j] \/ (time[i] = time[j] /\ i < j)
           /\ time[j] < time[k] \/ (time[j] = time[k] /\ j < k)
           => time[i] < time[k] \/ (time[i] = time[k] /\ i < k)
      /\ \A i, j \in 1..M : i # j =>
           \/ time[i] < time[j] \/ (time[i] = time[j] /\ i < j)
           \/ time[j] < time[i] \/ (time[j] = time[i] /\ j < i)
  BY <1>1
<1>4. QED
  BY <1>2, <1>3, Zenon DEF InARow

(* So sorted, the legible comments are all there, each at the place its    *)
(* time gives it.                                                          *)
LEMMA TimelyIs ==
  ASSUME NEW comments \in Seq(Danmaku), NEW found, found = Timely(comments)
  PROVE  \E place \in [DOMAIN found -> LegibleIn(comments)] :
           Retold(comments, found, place)
<1>1. PICK at \in SUBSET DOMAIN comments : at = LegibleIn(comments)
  BY DEF LegibleIn
<1>2. PICK good : good = Sublist(comments, at)
  OBVIOUS
<1>3. Filtered(comments, Legible) = good
  <2>1. {i \in DOMAIN comments : Legible(comments[i])} = at
    BY <1>1, Zenon DEF Legible, LegibleIn
  <2>2. QED
    BY <1>2, <2>1, Zenon DEF Filtered
<1> PICK M \in Nat : M = Cardinality(at)
  BY SublistIs
<1>4. PICK f : /\ M = Cardinality(at) /\ GoesThrough(f, M, at)
               /\ good = [n \in 1..M |-> comments[f[n]]]
  BY <1>2, SublistIs
<1>5. good \in [1..M -> Danmaku] /\ DOMAIN good = 1..M
  BY <1>4 DEF GoesThrough
<1>6. IsFiniteSet(1..M) /\ Cardinality(1..M) = M
  BY FS_Interval
<1>7. PICK b : b = Earlier(good, M)
  OBVIOUS
<1>8. InARow(1..M, b)
  BY <1>5, <1>7, EarlierInARow
<1>9. PICK order : order = ByRank(1..M, b)
  OBVIOUS
<1>10. /\ order \in [1..M -> 1..M]
       /\ \A m, n \in 1..M : m < n => <<order[m], order[n]>> \in b
       /\ \A i \in 1..M : \E n \in 1..M : order[n] = i
  <2>1. PICK S : S = 1..M
    OBVIOUS
  <2>2. /\ order \in [1..Cardinality(S) -> S]
        /\ \A m, n \in 1..Cardinality(S) : m < n => <<order[m], order[n]>> \in b
        /\ \A i \in S : \E n \in 1..Cardinality(S) : order[n] = i
    <3>1. IsFiniteSet(S) /\ InARow(S, b) /\ order = ByRank(S, b)
      BY <1>6, <1>8, <1>9, <2>1, Zenon
    <3>2. QED
      BY ONLY <3>1, InOrder
  <2>3. QED
    BY <1>6, <2>1, <2>2
<1>11. found = [k \in 1..M |-> good[order[k]]]
  <2> DEFINE A(n) == CHOOSE i \in 1..M :
               Cardinality({j \in 1..M :
                 \/ good[j].time < good[i].time
                 \/ good[j].time = good[i].time /\ j < i}) = n - 1
             B(n) == CHOOSE i \in 1..M :
               Cardinality({j \in 1..M : <<j, i>> \in b}) = n - 1
  <2>1. \A n : A(n) = B(n)
    <3>1. \A i \in 1..M : {j \in 1..M : \/ good[j].time < good[i].time
                                        \/ good[j].time = good[i].time /\ j < i}
                            = {j \in 1..M : <<j, i>> \in b}
      BY <1>7 DEF Earlier
    <3>2. QED
      BY <3>1
  <2> DEFINE Row(S, g) ==
               Arranged(S, LAMBDA i, j : \/ g[i].time < g[j].time
                                         \/ g[i].time = g[j].time /\ i < j)
             Along(row, g) == [i \in DOMAIN row |-> g[row[i]]]
             All(g) == Along(Row(DOMAIN g, g), g)
  <2>2. Timely(comments) = All(Filtered(comments, Legible))
    BY Zenon DEF Timely
  <2>3. Row(1..M, good) = [n \in 1..Cardinality(1..M) |-> A(n)]
    BY Zenon DEF Arranged
  <2>4. order = [n \in 1..M |-> B(n)]
    BY <1>6, <1>9 DEF ByRank, Rank
  <2> HIDE DEF A, B, Row
  <2>5. Row(1..M, good) = order
    BY <1>6, <2>1, <2>3, <2>4
  <2> HIDE DEF Along
  <2>6. Timely(comments) = Along(order, good)
    BY <1>3, <1>5, <2>2, <2>5, Zenon
  <2>7. QED
    BY <1>10, <2>6 DEF Along
<1> DEFINE place == [k \in 1..M |-> f[order[k]]]
<1>12. /\ f \in [1..M -> at] /\ \A m, n \in 1..M : m < n => f[m] < f[n]
       /\ \A i \in at : \E n \in 1..M : f[n] = i
  BY <1>4 DEF GoesThrough
<1>13. DOMAIN found = 1..M /\ place \in [1..M -> at]
  BY <1>10, <1>11, <1>12
<1>14. {place[k] : k \in 1..M} = at
  <2>1. \A i \in at : \E k \in 1..M : place[k] = i
    BY <1>10, <1>12
  <2>2. QED
    BY <1>13, <2>1
<1>15. \A k \in 1..M : found[k] = comments[place[k]]
  BY <1>4, <1>10, <1>11
<1>16. ASSUME NEW k \in 1..M, NEW m \in 1..M, k < m
       PROVE  \/ found[k].time < found[m].time
              \/ found[k].time = found[m].time /\ place[k] < place[m]
  <2>1. PICK i \in 1..M, j \in 1..M : i = order[k] /\ j = order[m]
    BY <1>10
  <2>2. <<i, j>> \in b
    BY <1>10, <1>16, <2>1
  <2>3. \/ good[i].time < good[j].time
        \/ good[i].time = good[j].time /\ i < j
    BY <1>7, <2>2 DEF Earlier
  <2>4. /\ found[k] = good[i] /\ found[m] = good[j]
        /\ place[k] = f[i] /\ place[m] = f[j]
    BY <1>11, <2>1
  <2>5. QED
    BY <1>12, <2>3, <2>4
<1>17. Retold(comments, found, place)
  <2>1. DOMAIN found = 1..M
    BY <1>13
  <2>2. QED
    BY ONLY <1>1, <1>14, <1>15, <1>16, <2>1 DEF Retold
<1>18. QED
  BY <1>1, <1>13, <1>17

-----------------------------------------------------------------------------
(* What is offered of some rows: the torrents of the episode, each once.   *)
Offers(found, rows, number) ==
  /\ found \in Seq(Release)
  /\ \A i, j \in DOMAIN found : found[i].magnet = found[j].magnet => i = j
  /\ Magnets(found) =
       {r.magnet : r \in {q \in rows : TitledFor(q.title, number)}} \ {0}

(* The rows of one page more are offered with those before them.           *)
LEMMA OffersMore ==
  ASSUME NEW number, NEW S, NEW found, Offers(found, S, number),
         NEW rows \in Seq(Release)
  PROVE  Offers(Unseen(found \o Matching(rows, number)), S \cup ToSet(rows),
                number)
<1>1. PICK m \in Seq(Release) :
        /\ m = Matching(rows, number)
        /\ ToSet(m) = {r \in ToSet(rows) :
                         r.magnet # 0 /\ TitledFor(r.title, number)}
  BY MatchingIs
<1>2. PICK f \in Seq(Release) : f = found
  BY DEF Offers
<1>3. PICK all \in Seq(Release) : all = f \o m
  <2>1. f \o m \in Seq(Release)
    OBVIOUS
  <2>2. QED
    BY <2>1
<1>4. PICK u \in Seq(Release) :
        u = Unseen(all) /\ TakenUp(u, all, Len(all))
  BY UnseenIs
<1>5. Magnets(all) = Magnets(f) \cup Magnets(m)
  <2>1. /\ DOMAIN all = 1..(Len(f) + Len(m))
        /\ DOMAIN f = 1..Len(f) /\ DOMAIN m = 1..Len(m)
        /\ \A i \in 1..Len(f) : all[i] = f[i]
        /\ \A i \in 1..Len(m) : all[Len(f) + i] = m[i]
    BY <1>3
  <2>2. \A i \in DOMAIN f : i \in DOMAIN all /\ all[i] = f[i]
    BY <2>1
  <2>3. \A i \in DOMAIN m :
          Len(f) + i \in DOMAIN all /\ all[Len(f) + i] = m[i]
    BY <2>1
  <2>4. \A i \in DOMAIN all : i \in DOMAIN f \/ i - Len(f) \in DOMAIN m
    BY <2>1
  <2>5. \A i \in DOMAIN all : i - Len(f) \in DOMAIN m =>
          all[i] = m[i - Len(f)]
    BY <2>1, <2>3
  <2>6. QED
    BY <2>2, <2>3, <2>4, <2>5 DEF Magnets
<1>6. Magnets(u) = Magnets(all)
  <2>1. PICK n : DOMAIN all = 1..n /\ TakenUp(u, all, n)
    BY <1>4
  <2>2. /\ \A i \in DOMAIN u :
             \E k \in DOMAIN all : u[i].magnet = all[k].magnet
        /\ \A k \in DOMAIN all :
             \E i \in DOMAIN u : u[i].magnet = all[k].magnet
    BY ONLY <2>1 DEF TakenUp
  <2>3. QED
    <3>1. \A x : x \in Magnets(u) <=> \E i \in DOMAIN u : x = u[i].magnet
      BY DEF Magnets
    <3>2. \A x : x \in Magnets(all) <=> \E i \in DOMAIN all : x = all[i].magnet
      BY DEF Magnets
    <3>3. ASSUME NEW x \in Magnets(u) PROVE x \in Magnets(all)
      <4>1. PICK i \in DOMAIN u : x = u[i].magnet
        BY <3>1
      <4>2. PICK k \in DOMAIN all : u[i].magnet = all[k].magnet
        BY <2>2
      <4>3. QED
        BY <3>2, <4>1, <4>2
    <3>4. ASSUME NEW x \in Magnets(all) PROVE x \in Magnets(u)
      <4>1. PICK k \in DOMAIN all : x = all[k].magnet
        BY <3>2
      <4>2. PICK i \in DOMAIN u : u[i].magnet = all[k].magnet
        BY <2>2
      <4>3. QED
        BY <3>1, <4>1, <4>2
    <3>5. QED
      BY <3>3, <3>4
<1>7. Magnets(m) =
        {r.magnet : r \in {q \in ToSet(rows) : TitledFor(q.title, number)}} \ {0}
  <2>1. Magnets(m) = {r.magnet : r \in ToSet(m)}
    BY DEF Magnets, ToSet
  <2>2. QED
    BY <1>1, <2>1
<1>8. Magnets(u) = {r.magnet : r \in {q \in S \cup ToSet(rows) :
                                      TitledFor(q.title, number)}} \ {0}
  BY <1>2, <1>5, <1>6, <1>7 DEF Offers
<1>9. QED
  BY <1>1, <1>2, <1>3, <1>4, <1>8 DEF Offers, TakenUp

(* The rows of the first page are.                                         *)
LEMMA OffersFirst ==
  ASSUME NEW number, NEW rows \in Seq(Release)
  PROVE  Offers(Unseen(Matching(rows, number)), ToSet(rows), number)
<1>1. Offers(<<>>, {}, number)
  BY DEF Offers, Magnets
<1>2. PICK m \in Seq(Release) : m = Matching(rows, number)
  BY MatchingIs
<1>3. <<>> \o m = m /\ {} \cup ToSet(rows) = ToSet(rows)
  OBVIOUS
<1>4. Offers(Unseen(<<>> \o m), {} \cup ToSet(rows), number)
  BY <1>1, <1>2, OffersMore
<1>5. QED
  BY <1>2, <1>3, <1>4

-----------------------------------------------------------------------------
(* A lookup of torrents under way or done.                                 *)
IsHunt ==
  hunt = [pc |-> hunt.pc, name |-> hunt.name, term |-> hunt.term,
          shelf |-> hunt.shelf, number |-> hunt.number,
          position |-> hunt.position, listing |-> hunt.listing,
          guide |-> hunt.guide, left |-> hunt.left, arrived |-> hunt.arrived,
          found |-> hunt.found]
PagesAre ==
  /\ hunt.listing.first \in Seq(Release)
  /\ hunt.listing.more \in Seq(Seq(Release))
  /\ hunt.arrived \in SUBSET DOMAIN hunt.listing.more
  /\ hunt.left \in Seq(DOMAIN hunt.listing.more)
Sampling == {"first", "feed"}
Gathering == {"more", "resourcesDone"}
TorrentsInv ==
  /\ hunt.pc \in Sampling \cup Gathering => PagesAre
  /\ hunt.pc \in Sampling => hunt.arrived = {}
  /\ hunt.pc \in Gathering => Offers(hunt.found, Arrived, hunt.number)

(* A lookup of comments: until they arrive nothing is found, and they are  *)
(* asked for only when there is an episode to ask for.                     *)
Asking == {"title", "guide", "subject", "comments"}
CommentsInv ==
  /\ hunt.pc \in Asking => hunt.found = <<>> /\ hunt.guide \in Guide
  /\ hunt.pc = "comments" =>
       EpisodeIndex(hunt.guide, hunt.number, hunt.position) # 0
  /\ CommentsInOrder
HuntInv == IsHunt /\ TorrentsInv /\ CommentsInv
HuntNext == LookupCalls \/ LookupSteps

(* All that is not about torrents or comments.                             *)
LEMMA ElsewhereKept ==
  ASSUME IsHunt',
         hunt'.pc \notin Sampling \cup Gathering \cup Asking
                         \cup {"danmakuDone"}
  PROVE  HuntInv'
BY DEF HuntInv, TorrentsInv, CommentsInv, CommentsInOrder, Asking

(* A lookup begins.                                                        *)
LEMMA CallsHunt ==
  ASSUME LookupCalls PROVE HuntInv'
<1>1. ASSUME NEW n, NEW s, SearchAnime(n, s) PROVE HuntInv'
  <2>1. IsHunt' /\ hunt'.pc = "anime"
    BY <1>1 DEF SearchAnime, NoHunt, IsHunt
  <2>2. QED
    BY <2>1, ElsewhereKept DEF Sampling, Gathering, Asking
<1>2. ASSUME NEW l \in Listing, NEW n, GetResources(l, n) \/ FetchDmhy(l, n)
      PROVE  HuntInv'
  <2>1. /\ l.first \in Seq(Release) /\ l.more \in Seq(Seq(Release))
        /\ l = [first |-> l.first, more |-> l.more, button |-> l.button]
    BY ResourcesAssumption
  <2>2. /\ IsHunt' /\ hunt'.pc \in Sampling /\ hunt'.arrived = {}
        /\ hunt'.left = <<>> /\ hunt'.listing.first \in Seq(Release)
        /\ hunt'.listing.more \in Seq(Seq(Release))
    <3>1. PICK feed : feed = [l EXCEPT !.more = <<>>]
      OBVIOUS
    <3>2. feed.first = l.first /\ feed.more = <<>>
      BY <2>1, <3>1
    <3>3. CASE GetResources(l, n)
      BY <2>1, <3>3 DEF GetResources, NoHunt, IsHunt, Sampling
    <3>4. CASE FetchDmhy(l, n)
      <4>1. hunt' = [NoHunt EXCEPT !.pc = "feed", !.number = n,
                                   !.listing = feed]
        BY <3>1, <3>4, Zenon DEF FetchDmhy
      <4>2. <<>> \in Seq(Seq(Release))
        OBVIOUS
      <4>3. /\ IsHunt' /\ hunt'.pc \in Sampling /\ hunt'.arrived = {}
            /\ hunt'.left = <<>> /\ hunt'.listing = feed
        BY <4>1 DEF NoHunt, IsHunt, Sampling
      <4>4. QED
        BY <2>1, <3>2, <4>2, <4>3
    <3>5. QED
      BY <1>2, <3>3, <3>4
  <2>3. TorrentsInv'
    BY <2>2 DEF TorrentsInv, PagesAre, Sampling, Gathering
  <2>4. CommentsInv'
    BY <2>2 DEF CommentsInv, CommentsInOrder, Sampling, Asking
  <2>5. QED
    BY <2>2, <2>3, <2>4 DEF HuntInv
<1>3. ASSUME NEW g \in Guide, NEW n, NEW r,
             GetByTitle(g, n, r) \/ GetByBangumiId(g, n, r)
      PROVE  HuntInv'
  <2>1. /\ IsHunt' /\ hunt'.pc \in {"title", "subject"} /\ hunt'.guide = g
        /\ hunt'.found = <<>>
    BY <1>3 DEF GetByTitle, GetByBangumiId, DanmakuCall, NoHunt, IsHunt
  <2>2. TorrentsInv'
    BY <2>1 DEF TorrentsInv, Sampling, Gathering
  <2>3. CommentsInv'
    BY <2>1 DEF CommentsInv, CommentsInOrder
  <2>4. QED
    BY <2>1, <2>2, <2>3 DEF HuntInv
<1>4. ASSUME NEW g \in Guide, MatchFile(g) PROVE HuntInv'
  <2>1. IsHunt' /\ hunt'.pc = "match"
    BY <1>4 DEF MatchFile, DanmakuCall, NoHunt, IsHunt
  <2>2. QED
    BY <2>1, ElsewhereKept DEF Sampling, Gathering, Asking
<1>5. QED
  BY <1>1, <1>2, <1>3, <1>4 DEF LookupCalls

(* The first page, and the one page of a feed.                             *)
LEMMA FirstHunt ==
  ASSUME HuntInv, FirstPage \/ FeedAnswered PROVE HuntInv'
<1>1. /\ hunt.pc \in Sampling /\ IsHunt /\ PagesAre /\ hunt.arrived = {}
  BY DEF FirstPage, FeedAnswered, HuntInv, TorrentsInv, Sampling
<1> PICK n : n = hunt.number
  OBVIOUS
<1>2. PICK rows \in Seq(Release) :
        rows = hunt.listing.first /\ n = hunt.number
  BY <1>1 DEF PagesAre
<1>3. Offers(Unseen(Matching(rows, n)), ToSet(rows), n)
  BY OffersFirst
<1>4. MorePages(hunt.listing) \in Seq(DOMAIN hunt.listing.more)
  <2>1. PICK more \in Seq(Seq(Release)) : more = hunt.listing.more
    BY <1>1 DEF PagesAre
  <2>2. PICK all : all = [i \in DOMAIN more |-> i]
    OBVIOUS
  <2>3. all \in Seq(DOMAIN more) /\ DOMAIN all = DOMAIN more
    BY <2>2
  <2>4. PICK at \in SUBSET DOMAIN all :
          at = {i \in DOMAIN all : \A j \in 1..(all[i] - 1) :
                  hunt.listing.button[j] # hunt.listing.button[all[i]]}
    OBVIOUS
  <2>5. MorePages(hunt.listing) = Sublist(all, at)
    BY <2>1, <2>2, <2>4, Zenon DEF MorePages, Filtered
  <2>6. Sublist(all, at) \in Seq(DOMAIN more)
    BY <2>3, SublistHolds
  <2>7. QED
    BY <2>1, <2>5, <2>6
<1>5. /\ IsHunt' /\ hunt'.pc \in Gathering
      /\ hunt'.listing = hunt.listing /\ hunt'.number = n
      /\ hunt'.arrived = {}
      /\ hunt'.left \in {hunt.left, MorePages(hunt.listing)}
      /\ hunt'.found = Unseen(Matching(rows, n))
  BY <1>1, <1>2 DEF FirstPage, FeedAnswered, IsHunt, Gathering
<1>6. PagesAre'
  BY <1>1, <1>4, <1>5 DEF PagesAre
<1>7. Arrived' = ToSet(rows)
  BY <1>2, <1>5 DEF Arrived
<1>8. TorrentsInv'
  BY <1>3, <1>5, <1>6, <1>7 DEF TorrentsInv, Sampling, Gathering
<1>9. CommentsInv'
  BY <1>5 DEF CommentsInv, CommentsInOrder, Gathering, Asking
<1>10. QED
  BY <1>5, <1>8, <1>9 DEF HuntInv

(* A further page arrives, fails, or there is none left.                   *)
LEMMA PagesHunt ==
  ASSUME HuntInv, MorePage \/ MorePageFails \/ ResourcesRead PROVE HuntInv'
<1>1. /\ hunt.pc = "more" /\ IsHunt /\ PagesAre
      /\ Offers(hunt.found, Arrived, hunt.number)
  BY DEF MorePage, MorePageFails, ResourcesRead, HuntInv, TorrentsInv,
         Gathering
<1>2. IsHunt' /\ hunt'.pc \in Gathering
      /\ hunt'.listing = hunt.listing /\ hunt'.number = hunt.number
  BY <1>1 DEF MorePage, MorePageFails, ResourcesRead, IsHunt, Gathering
<1>3. CommentsInv'
  BY <1>2 DEF CommentsInv, CommentsInOrder, Gathering, Asking
<1>4. CASE MorePage
  <2>1. PICK p \in DOMAIN hunt.listing.more : p = Head(hunt.left)
    BY <1>1, <1>4 DEF MorePage, PagesAre
  <2> PICK n, old : n = hunt.number /\ old = hunt.found
    OBVIOUS
  <2>2. PICK rows \in Seq(Release) :
          /\ rows = hunt.listing.more[p] /\ n = hunt.number
          /\ old = hunt.found
    BY <1>1, <2>1 DEF PagesAre
  <2>3. /\ hunt'.arrived = hunt.arrived \cup {p}
        /\ hunt'.left = Tail(hunt.left)
        /\ hunt'.found = Unseen(old \o Matching(rows, n))
    BY <1>1, <1>4, <2>1, <2>2 DEF MorePage, IsHunt
  <2>4. Arrived' = Arrived \cup ToSet(rows)
    BY <1>2, <2>2, <2>3 DEF Arrived
  <2>5. PICK S : S = Arrived
    OBVIOUS
  <2>6. Offers(old, S, n)
    BY <1>1, <2>2, <2>5
  <2>7. Offers(Unseen(old \o Matching(rows, n)), S \cup ToSet(rows), n)
    BY <2>6, OffersMore
  <2>8. PagesAre'
    <3>1. PICK D : D = DOMAIN hunt.listing.more
      OBVIOUS
    <3>2. PICK left \in Seq(D) : left = hunt.left
      BY <1>1, <3>1 DEF PagesAre
    <3>3. left # <<>> => Tail(left) \in Seq(D)
      OBVIOUS
    <3>4. left # <<>>
      BY <1>4, <3>2 DEF MorePage
    <3>5. Tail(left) \in Seq(D)
      BY <3>3, <3>4
    <3>6. QED
      BY <1>1, <1>2, <2>3, <3>1, <3>2, <3>5 DEF PagesAre
  <2>9. Offers(hunt'.found, Arrived', hunt'.number)
    BY <1>2, <2>2, <2>3, <2>4, <2>5, <2>7
  <2>10. TorrentsInv'
    BY <1>2, <2>8, <2>9 DEF TorrentsInv, Sampling, Gathering
  <2>11. QED
    BY <1>2, <1>3, <2>10 DEF HuntInv
<1>5. CASE MorePageFails \/ ResourcesRead
  <2>1. /\ hunt'.arrived = hunt.arrived /\ hunt'.found = hunt.found
        /\ hunt'.left \in Seq(DOMAIN hunt.listing.more)
    <3>1. PICK D : D = DOMAIN hunt.listing.more
      OBVIOUS
    <3>2. PICK left \in Seq(D) : left = hunt.left
      BY <1>1, <3>1 DEF PagesAre
    <3>3. left # <<>> => Tail(left) \in Seq(D)
      OBVIOUS
    <3>4. /\ hunt'.arrived = hunt.arrived /\ hunt'.found = hunt.found
          /\ hunt'.left = left \/ (left # <<>> /\ hunt'.left = Tail(left))
      BY <1>1, <1>5, <3>1, <3>2 DEF MorePageFails, ResourcesRead, IsHunt
    <3>5. QED
      BY <3>1, <3>2, <3>3, <3>4
  <2>2. PagesAre' /\ Arrived' = Arrived
    BY <1>1, <1>2, <2>1 DEF PagesAre, Arrived
  <2>3. TorrentsInv'
    BY <1>1, <1>2, <2>1, <2>2 DEF TorrentsInv, Sampling, Gathering
  <2>4. QED
    BY <1>2, <1>3, <2>3 DEF HuntInv
<1>6. QED
  BY <1>4, <1>5

(* The episode with the number, or the one at the place.                   *)
LEMMA EpisodeIs ==
  ASSUME NEW X, NEW guide \in Seq(X), NEW number, NEW place,
         NEW i, i = EpisodeIndex(guide, number, place), i # 0
  PROVE  /\ i \in DOMAIN guide
         /\ IF \E j \in DOMAIN guide : guide[j].number = number
              THEN guide[i].number = number ELSE i = place
<1>1. PICK I : I = {j \in 1..Len(guide) : guide[j].number = number}
  OBVIOUS
<1>2. NumberedEpisode(guide, number) = IF I # {} THEN Min(I) ELSE 0
  BY <1>1 DEF NumberedEpisode, SelectInSeq
<1>3. DOMAIN guide = 1..Len(guide)
  OBVIOUS
<1>4. CASE I = {}
  <2>1. i = Position(guide, place)
    BY <1>2, <1>4 DEF EpisodeIndex
  <2>2. QED
    BY <1>1, <1>3, <1>4, <2>1 DEF Position
<1>5. CASE I # {}
  <2>1. I \in SUBSET Nat
    BY <1>1
  <2>2. Min(I) \in I
    BY <1>5, <2>1, MinIs
  <2>3. Min(I) \in 1..Len(guide) /\ guide[Min(I)].number = number
    BY <1>1, <2>2
  <2>4. i = Min(I)
    BY <1>2, <1>5, <2>3 DEF EpisodeIndex
  <2>5. QED
    BY <1>3, <2>3, <2>4
<1>6. QED
  BY <1>4, <1>5

(* Without one, none has the number and none is at the place.              *)
LEMMA NoEpisodeIs ==
  ASSUME NEW X, NEW guide \in Seq(X), NEW number, NEW place,
         EpisodeIndex(guide, number, place) = 0
  PROVE  /\ ~ \E j \in DOMAIN guide : guide[j].number = number
         /\ place \notin DOMAIN guide
<1>1. PICK I : I = {j \in 1..Len(guide) : guide[j].number = number}
  OBVIOUS
<1>2. NumberedEpisode(guide, number) = IF I # {} THEN Min(I) ELSE 0
  BY <1>1 DEF NumberedEpisode, SelectInSeq
<1>3. DOMAIN guide = 1..Len(guide)
  OBVIOUS
<1>4. I = {}
  <2> SUFFICES ASSUME I # {} PROVE FALSE
    OBVIOUS
  <2>1. I \in SUBSET Nat
    BY <1>1
  <2>2. Min(I) \in I
    BY <2>1, MinIs
  <2>3. Min(I) \in 1..Len(guide)
    BY <1>1, <2>2
  <2>4. NumberedEpisode(guide, number) = Min(I)
    BY <1>2
  <2>5. QED
    BY <2>3, <2>4 DEF EpisodeIndex
<1>5. Position(guide, place) = 0
  BY <1>2, <1>4 DEF EpisodeIndex
<1>6. place \notin DOMAIN guide
  BY <1>3, <1>5 DEF Position
<1>7. QED
  BY <1>1, <1>3, <1>4, <1>6

(* A request for comments and what it ends with.                           *)
LEMMA CommentsHunt ==
  ASSUME HuntInv,
         \/ TitleFound \/ TitleUnknown \/ EpisodesAnswered
         \/ BangumiEpisodesAnswered \/ CommentsAnswered
  PROVE  HuntInv'
<1>1. /\ hunt.pc \in Asking /\ IsHunt /\ hunt.found = <<>>
      /\ hunt.guide \in Guide
  BY DEF TitleFound, TitleUnknown, EpisodesAnswered,
         BangumiEpisodesAnswered, EpisodesOf, CommentsAnswered, HuntInv,
         CommentsInv, Asking
<1>0. PICK Row : Row = [id : DOMAIN Remarks, number : Int]
  OBVIOUS
<1>5. PICK guide \in Seq(Row) : guide = hunt.guide
  BY <1>0, <1>1, ResourcesAssumption
<1>6. PICK number, place : number = hunt.number /\ place = hunt.position
  OBVIOUS
<1>2. CASE ~ CommentsAnswered
  <2>1. /\ IsHunt' /\ hunt'.found = <<>> /\ hunt'.guide = hunt.guide
        /\ hunt'.pc \in {"guide", "comments", "danmakuDone", "unknown"}
        /\ hunt'.number = hunt.number /\ hunt'.position = hunt.position
        /\ hunt'.pc = "comments" =>
             EpisodeIndex(hunt.guide, hunt.number, hunt.position) # 0
        /\ hunt'.pc = "danmakuDone" =>
             EpisodeIndex(hunt.guide, hunt.number, hunt.position) = 0
    BY <1>1, <1>2 DEF TitleFound, TitleUnknown, EpisodesAnswered,
       BangumiEpisodesAnswered, EpisodesOf, IsHunt
  <2>2. TorrentsInv'
    BY <2>1 DEF TorrentsInv, Sampling, Gathering
  <2>3. hunt'.pc = "danmakuDone" => Meant' = {}
    <3> SUFFICES ASSUME EpisodeIndex(guide, number, place) = 0
                 PROVE  Meant' = {}
      BY <1>5, <1>6, <2>1
    <3>1. /\ ~ \E j \in DOMAIN guide : guide[j].number = number
          /\ place \notin DOMAIN guide
      BY NoEpisodeIs
    <3>2. Meant' = {i \in DOMAIN guide :
                      IF \E j \in DOMAIN guide : guide[j].number = number
                        THEN guide[i].number = number ELSE i = place}
      BY <1>5, <1>6, <2>1 DEF Meant
    <3>3. QED
      BY <3>1, <3>2
  <2>4. CommentsInOrder'
    BY <2>1, <2>3 DEF CommentsInOrder
  <2>5. CommentsInv'
    BY <1>1, <2>1, <2>4 DEF CommentsInv
  <2>6. QED
    BY <2>1, <2>2, <2>5 DEF HuntInv
<1>3. CASE CommentsAnswered
  <2>2. PICK i : i = EpisodeIndex(guide, number, place)
    OBVIOUS
  <2>3. i # 0
    BY <1>3, <1>5, <1>6, <2>2 DEF CommentsAnswered, HuntInv, CommentsInv
  <2>4. /\ i \in DOMAIN guide
        /\ IF \E j \in DOMAIN guide : guide[j].number = number
             THEN guide[i].number = number ELSE i = place
    BY <2>2, <2>3, EpisodeIs
  <2>1. guide[i].id \in DOMAIN Remarks
    <3>1. guide[i] \in Row
      BY <2>4
    <3>2. QED
      BY <1>0, <3>1
  <2>5. PICK all \in Seq(Danmaku) : all = Remarks[guide[i].id]
    BY <2>1, ResourcesAssumption
  <2>6. PICK found : found = Timely(all)
    OBVIOUS
  <2>7. \E p \in [DOMAIN found -> LegibleIn(all)] : Retold(all, found, p)
    BY <2>6, TimelyIs
  <2>8. /\ IsHunt' /\ hunt'.pc = "danmakuDone" /\ hunt'.found = found
        /\ hunt'.guide = guide /\ hunt'.number = number
        /\ hunt'.position = place
    BY <1>1, <1>3, <1>5, <1>6, <2>2, <2>5, <2>6 DEF CommentsAnswered, IsHunt
  <2>9. TorrentsInv'
    BY <2>8 DEF TorrentsInv, Sampling, Gathering
  <2>10. i \in Meant'
    BY <2>4, <2>8 DEF Meant
  <2>11. Remarks[hunt'.guide[i].id] = all
    BY <2>5, <2>8
  <2>12. CommentsInOrder'
    BY <2>7, <2>8, <2>10, <2>11 DEF CommentsInOrder
  <2>13. CommentsInv'
    BY <2>8, <2>12 DEF CommentsInv, Asking
  <2>14. QED
    BY <2>8, <2>9, <2>13 DEF HuntInv
<1>4. QED
  BY <1>2, <1>3

(* Lookups begin with their invariant and keep it.                         *)
LEMMA HuntStep ==
  /\ ResourcesInit => HuntInv
  /\ HuntInv /\ [HuntNext]_huntVars => HuntInv'
<1>1. ResourcesInit => HuntInv
  BY DEF ResourcesInit, NoHunt, HuntInv, IsHunt, TorrentsInv, CommentsInv,
         CommentsInOrder, Sampling, Gathering, Asking
<1>2. ASSUME HuntInv, AnimeAnswered \/ MatchAnswered \/ LookupFails
      PROVE  HuntInv'
  <2>1. IsHunt' /\ hunt'.pc \in {"animeDone", "matched", "failed"}
    BY <1>2 DEF AnimeAnswered, MatchAnswered, LookupFails, NoHunt, HuntInv,
                IsHunt
  <2>2. QED
    BY <2>1, ElsewhereKept DEF Sampling, Gathering, Asking
<1>3. ASSUME HuntInv, UNCHANGED huntVars PROVE HuntInv'
  BY <1>3 DEF huntVars, HuntInv, IsHunt, TorrentsInv, PagesAre, Arrived,
              CommentsInv, CommentsInOrder, Meant
<1>4. QED
  BY <1>1, <1>2, <1>3, CallsHunt, FirstHunt, PagesHunt, CommentsHunt
     DEF HuntNext, LookupSteps

(* What is found at the end is as promised.                                *)
LEMMA HuntFollows == HuntInv => EachTorrentOnce /\ CommentsInOrder
<1> SUFFICES ASSUME HuntInv PROVE EachTorrentOnce /\ CommentsInOrder
  OBVIOUS
<1>1. CommentsInOrder
  BY DEF HuntInv, CommentsInv
<1>2. ASSUME hunt.pc = "resourcesDone" PROVE EachTorrentOnce
  <2>1. Offers(hunt.found, Arrived, hunt.number)
    BY <1>2 DEF HuntInv, TorrentsInv, Gathering
  <2>2. PICK found \in Seq(Release) : found = hunt.found
    BY <2>1 DEF Offers
  <2>3. PICK magnets : magnets = [i \in DOMAIN found |-> found[i].magnet]
    OBVIOUS
  <2>4. ToSet(magnets) = Magnets(found)
    BY <2>3 DEF ToSet, Magnets
  <2>5. IsInjective(magnets)
    BY <2>1, <2>2, <2>3 DEF IsInjective, Offers
  <2>6. QED
    BY <1>2, <2>1, <2>2, <2>3, <2>4, <2>5, Zenon DEF EachTorrentOnce, Offers
<1>3. QED
  BY <1>1, <1>2 DEF EachTorrentOnce

-----------------------------------------------------------------------------
(* The reading of a captcha.                                               *)

(* What the decoding has after some classes, and a class more.             *)
Reading == [previous : Int, text : Seq(STRING)]
Spelled(acc, c) ==
  IF c = acc.previous THEN acc
  ELSE [previous |-> c, text |-> IF c \in DOMAIN Charset
                                   THEN Append(acc.text, Charset[c])
                                   ELSE acc.text]

(* A class that goes on, or has no character, adds none.                   *)
LEMMA SpelledIs ==
  ASSUME NEW d \in Reading, NEW c \in Nat
  PROVE  /\ Spelled(d, c) \in Reading
         /\ Spelled(d, c).previous = c
         /\ c # d.previous /\ c \in DOMAIN Charset =>
              Spelled(d, c).text = Append(d.text, Charset[c])
         /\ ~ (c # d.previous /\ c \in DOMAIN Charset) =>
              Spelled(d, c).text = d.text
<1>1. PICK t \in Seq(STRING) : t = d.text
  BY DEF Reading
<1>2. d.previous \in Int /\ c \in Int
  BY DEF Reading
<1>3. c \in DOMAIN Charset => Append(t, Charset[c]) \in Seq(STRING)
  <2> SUFFICES ASSUME c \in DOMAIN Charset
               PROVE  Append(t, Charset[c]) \in Seq(STRING)
    OBVIOUS
  <2>1. Charset[c] \in STRING
    BY CaptchaAssumption
  <2>2. PICK x \in STRING : x = Charset[c]
    BY <2>1
  <2>3. Append(t, x) \in Seq(STRING)
    BY AppendIs
  <2>4. QED
    BY <2>2, <2>3
<1>4. CASE c = d.previous
  BY <1>4 DEF Spelled
<1>5. CASE c # d.previous /\ c \in DOMAIN Charset
  <2>1. PICK more \in Seq(STRING) : more = Append(t, Charset[c])
    BY <1>3, <1>5
  <2>2. Spelled(d, c) = [previous |-> c, text |-> more]
    BY <1>1, <1>5, <2>1 DEF Spelled
  <2>3. QED
    BY <1>1, <1>2, <1>5, <2>1, <2>2 DEF Reading
<1>6. CASE c # d.previous /\ c \notin DOMAIN Charset
  <2>1. Spelled(d, c) = [previous |-> c, text |-> t]
    BY <1>1, <1>6 DEF Spelled
  <2>2. QED
    BY <1>1, <1>2, <1>6, <2>1 DEF Reading
<1>7. QED
  BY <1>4, <1>5, <1>6

(* The decoding as the list of what it has after each class.               *)
LEMMA DecodeSteps ==
  ASSUME NEW classes \in Seq(Nat)
  PROVE  \E acc \in [0..Len(classes) -> Reading] :
           /\ acc[0] = [previous |-> -1, text |-> <<>>]
           /\ acc[Len(classes)].text = CtcDecode(classes)
           /\ \A n \in 0..(Len(classes) - 1) :
                acc[n + 1] = Spelled(acc[n], classes[n + 1])
<1>1. PICK N \in Nat : N = Len(classes) /\ DOMAIN classes = 1..N
  OBVIOUS
<1>2. PICK Acc : Acc = Reading
  OBVIOUS
<1>3. \A d \in Acc, i \in 1..N : Spelled(d, classes[i]) \in Acc
  <2> TAKE d \in Acc, i \in 1..N
  <2>1. classes[i] \in Nat
    BY <1>1
  <2>2. QED
    BY <1>2, <2>1, SpelledIs
<1>4. PICK step \in StepOn(N, Acc) :
        \A d \in Acc, i \in 1..N : step[<<d, i>>] = Spelled(d, classes[i])
  <2> DEFINE f == [p \in Acc \X (1..N) |-> Spelled(p[1], classes[p[2]])]
  <2>1. f \in StepOn(N, Acc)
    <3>1. \A p \in Acc \X (1..N) : p[1] \in Acc /\ p[2] \in 1..N
      OBVIOUS
    <3>2. QED
      BY <1>3, <3>1 DEF StepOn
  <2>2. \A d \in Acc, i \in 1..N : f[<<d, i>>] = Spelled(d, classes[i])
    OBVIOUS
  <2>3. QED
    BY <2>1, <2>2
<1>5. PICK base \in Acc : base = [previous |-> -1, text |-> <<>>]
  <2>1. <<>> \in Seq(STRING) /\ -1 \in Int
    OBVIOUS
  <2>2. QED
    BY <1>2, <2>1 DEF Reading
<1>6. PICK h \in [SUBSET (1..N) -> Acc] : FoldsBy(h, N, base, step)
  BY FoldExists
<1>7. \A U \in SUBSET (1..N) :
        U # {} => Max(U) \in 1..N /\ U \ {Max(U)} \in SUBSET (1..N)
  BY MaxIs
<1>8. PICK it : /\ CtcDecode(classes) = it[DOMAIN classes].text
                /\ it[{}] = base
                /\ \A U \in SUBSET (1..N) : U # {} =>
                     it[U] = Spelled(it[U \ {Max(U)}], classes[Max(U)])
  <2> DEFINE Rec(f) == [U \in SUBSET DOMAIN classes |->
                         IF U = {} THEN [previous |-> -1, text |-> <<>>]
                         ELSE Spelled(f[U \ {Max(U)}], classes[Max(U)])]
  <2>1. PICK it : /\ it = (CHOOSE f : f = Rec(f))
                  /\ CtcDecode(classes) = it[DOMAIN classes].text
    BY Zenon DEF CtcDecode, FoldLeft, MapThenFoldSet, Spelled
  <2>2. \A U \in SUBSET (1..N) : U # {} =>
          step[<<h[U \ {Max(U)}], Max(U)>>]
            = Spelled(h[U \ {Max(U)}], classes[Max(U)])
    BY <1>4, <1>7
  <2>3. \A U \in SUBSET (1..N) :
          h[U] = IF U = {} THEN [previous |-> -1, text |-> <<>>]
                 ELSE Spelled(h[U \ {Max(U)}], classes[Max(U)])
    BY <1>5, <1>6, <2>2 DEF FoldsBy
  <2>4. h = Rec(h)
    BY <1>1, <2>3
  <2>5. it = Rec(it)
    BY <2>1, <2>4, Zenon
  <2>6. {} \in SUBSET DOMAIN classes
    OBVIOUS
  <2>7. QED
    BY <1>1, <1>5, <2>1, <2>5, <2>6
<1>9. FoldsWithin(it, N, Acc, base, step)
  BY <1>4, <1>7, <1>8 DEF FoldsWithin
<1>10. PICK acc \in [0..N -> Acc] :
         acc[N] = it[1..N] /\ GoesBy(acc, N, base, step)
  BY <1>9, FoldSteps
<1>11. \A n \in 0..(N - 1) : acc[n + 1] = Spelled(acc[n], classes[n + 1])
  <2> TAKE n \in 0..(N - 1)
  <2>1. acc[n] \in Acc /\ n + 1 \in 1..N
    BY <1>10
  <2>2. acc[n + 1] = step[<<acc[n], n + 1>>]
    BY <1>10 DEF GoesBy
  <2>3. PICK d \in Acc, i \in 1..N : d = acc[n] /\ i = n + 1
    BY <2>1
  <2>4. QED
    BY <1>4, <2>2, <2>3
<1>12. QED
  BY <1>1, <1>2, <1>5, <1>8, <1>10, <1>11 DEF GoesBy

(* The text that some classes spell: for each run of one its character.    *)
Spells(text, class, f, n) ==
  /\ Len(text) \in Nat
  /\ GoesThrough(f, Len(text), Runs(class) \cap 1..n)
  /\ \A k \in 1..Len(text) : text[k] = Charset[class[f[k]]]
SpeltUpTo(d, class, n) ==
  /\ d.previous = IF n = 0 THEN -1 ELSE class[n]
  /\ \E f : Spells(d.text, class, f, n)

(* A class more: a character if a run begins, none otherwise.              *)
LEMMA SpelledOn ==
  ASSUME NEW class \in Seq(Nat), NEW n \in 0..(Len(class) - 1),
         NEW d \in Reading, SpeltUpTo(d, class, n)
  PROVE  SpeltUpTo(Spelled(d, class[n + 1]), class, n + 1)
<1>1. PICK m \in 1..Len(class), c \in Nat : m = n + 1 /\ c = class[m]
  OBVIOUS
<1>2. PICK t \in Seq(STRING) : t = d.text
  BY DEF Reading
<1>3. PICK f : Spells(t, class, f, n)
  BY <1>2 DEF SpeltUpTo
<1>4. PICK next \in Reading :
        /\ next = Spelled(d, c) /\ next.previous = c
        /\ c # d.previous /\ c \in DOMAIN Charset =>
             next.text = Append(t, Charset[c])
        /\ ~ (c # d.previous /\ c \in DOMAIN Charset) => next.text = t
  BY <1>2, SpelledIs
<1>5. m \in Runs(class) <=> c # d.previous /\ c \in DOMAIN Charset
  <2>1. m \in DOMAIN class /\ class[m] = c
    BY <1>1
  <2>2. m \in Runs(class) <=>
          c \in DOMAIN Charset /\ (m > 1 => class[m - 1] # c)
    <3>1. m \in Runs(class) <=>
            class[m] \in DOMAIN Charset /\ (m > 1 => class[m - 1] # class[m])
      BY ONLY <2>1, SMTT(30) DEF Runs
    <3>2. QED
      BY ONLY <2>1, <3>1
  <2>3. CASE n = 0
    <3>1. d.previous = -1 /\ ~ (m > 1)
      BY <1>1, <2>3 DEF SpeltUpTo
    <3>2. c # -1
      OBVIOUS
    <3>3. QED
      BY <2>2, <3>1, <3>2
  <2>4. CASE n # 0
    <3>1. d.previous = class[n] /\ m > 1 /\ m - 1 = n
      BY <1>1, <2>4 DEF SpeltUpTo
    <3>2. QED
      BY <2>2, <3>1
  <2>5. QED
    BY <2>3, <2>4
<1>6. CASE m \notin Runs(class)
  <2>1. Runs(class) \cap 1..m = Runs(class) \cap 1..n
    BY <1>1, <1>6
  <2>2. next.text = t
    BY <1>4, <1>5, <1>6
  <2>3. Spells(t, class, f, m)
    BY <1>3, <2>1 DEF Spells
  <2>4. SpeltUpTo(next, class, m)
    BY <1>1, <1>4, <2>2, <2>3 DEF SpeltUpTo
  <2>5. QED
    BY <1>1, <1>4, <2>4
<1>7. CASE m \in Runs(class)
  <2>1. PICK M \in Nat : M = Len(t)
    OBVIOUS
  <2>2. PICK more \in Seq(STRING) :
          /\ more = next.text /\ Len(more) = M + 1
          /\ more[M + 1] = Charset[c]
          /\ \A k \in 1..M : more[k] = t[k]
    <3>1. next.text = Append(t, Charset[c]) /\ next.text \in Seq(STRING)
      BY <1>4, <1>5, <1>7 DEF Reading
    <3>2. Charset[c] \in STRING
      BY <1>5, <1>7, CaptchaAssumption
    <3>3. PICK x \in STRING : x = Charset[c]
      BY <3>2
    <3>4. Extends(Append(t, x), t, x)
      <4>1. PICK R : R = STRING
        OBVIOUS
      <4>2. t \in Seq(R) /\ x \in R
        BY <3>3, <4>1
      <4>3. QED
        BY <4>2, AppendIs
    <3>5. QED
      BY <2>1, <3>1, <3>3, <3>4 DEF Extends
  <2>3. PICK R, Q : R = Runs(class) \cap 1..n /\ Q = Runs(class) \cap 1..m
    OBVIOUS
  <2>4. Q = R \cup {m} /\ \A i \in R : i \in Int /\ i < m
    BY <1>1, <1>7, <2>3
  <2>5. GoesThrough(f, M, R)
    BY <1>3, <2>1, <2>3 DEF Spells
  <2>6. PICK g : g = [k \in 1..(M + 1) |-> IF k = M + 1 THEN m ELSE f[k]]
    OBVIOUS
  <2>7. \A k \in 1..(M + 1) : k \in 1..M \/ k = M + 1
    OBVIOUS
  <2>8. g[M + 1] = m /\ \A k \in 1..M : g[k] = f[k] /\ f[k] \in R
    BY <2>5, <2>6 DEF GoesThrough
  <2>9. GoesThrough(g, M + 1, Q)
    <3>1. g \in [1..(M + 1) -> Q]
      BY <2>4, <2>6, <2>7, <2>8
    <3>2. ASSUME NEW k \in 1..(M + 1), NEW l \in 1..(M + 1), k < l
          PROVE  g[k] < g[l]
      <4>1. k \in 1..M
        BY <3>2
      <4>2. CASE l \in 1..M
        BY <2>5, <2>8, <3>2, <4>1, <4>2 DEF GoesThrough
      <4>3. CASE l = M + 1
        BY <2>4, <2>8, <4>1, <4>3
      <4>4. QED
        BY <2>7, <4>2, <4>3
    <3>3. \A i \in Q : \E k \in 1..(M + 1) : g[k] = i
      <4> TAKE i \in Q
      <4>1. CASE i \in R
        <5>1. PICK k \in 1..M : f[k] = i
          BY <2>5, <4>1 DEF GoesThrough
        <5>2. k \in 1..(M + 1)
          OBVIOUS
        <5>3. QED
          BY <2>8, <5>1, <5>2
      <4>2. CASE i = m
        <5>1. M + 1 \in 1..(M + 1)
          OBVIOUS
        <5>2. QED
          BY <2>8, <4>2, <5>1
      <4>3. QED
        BY <2>4, <4>1, <4>2
    <3>4. QED
      BY <3>1, <3>2, <3>3 DEF GoesThrough
  <2>10. \A k \in 1..(M + 1) : more[k] = Charset[class[g[k]]]
    <3> TAKE k \in 1..(M + 1)
    <3>1. CASE k \in 1..M
      BY <1>3, <2>1, <2>2, <2>8, <3>1 DEF Spells
    <3>2. CASE k = M + 1
      BY <1>1, <2>2, <2>8, <3>2
    <3>3. QED
      BY <2>7, <3>1, <3>2
  <2>11. Spells(more, class, g, m)
    BY <2>2, <2>3, <2>9, <2>10 DEF Spells
  <2>12. SpeltUpTo(next, class, m)
    BY <1>1, <1>4, <2>2, <2>11 DEF SpeltUpTo
  <2>13. QED
    BY <1>1, <1>4, <2>12
<1>8. QED
  BY <1>6, <1>7

(* So it has a character for each run, in order.                           *)
LEMMA DecodeIs ==
  ASSUME NEW class \in Seq(Nat), NEW text, text = CtcDecode(class)
  PROVE  /\ text \in Seq(STRING) /\ Len(text) = Cardinality(Runs(class))
         /\ \A k \in 1..Len(text) :
              /\ Upwards(Runs(class))[k] \in Runs(class)
              /\ text[k] = Charset[class[Upwards(Runs(class))[k]]]
<1>1. PICK acc \in [0..Len(class) -> Reading] :
        /\ acc[0] = [previous |-> -1, text |-> <<>>]
        /\ acc[Len(class)].text = text
        /\ \A n \in 0..(Len(class) - 1) :
             acc[n + 1] = Spelled(acc[n], class[n + 1])
  BY DecodeSteps
<1>2. PICK N \in Nat : N = Len(class) /\ DOMAIN class = 1..N
  OBVIOUS
<1>3. PICK T : T = {n \in 0..N : SpeltUpTo(acc[n], class, n)}
  OBVIOUS
<1>4. 0 \in T
  <2>1. acc[0].previous = -1 /\ acc[0].text = <<>>
    BY <1>1
  <2>2. Spells(<<>>, class, <<>>, 0)
    <3>1. /\ Len(<<>>) = 0 /\ 1..0 = {} /\ Runs(class) \cap 1..0 = {}
          /\ <<>> \in [1..0 -> {}]
      OBVIOUS
    <3>2. GoesThrough(<<>>, 0, {})
      BY <3>1 DEF GoesThrough
    <3>3. QED
      BY <3>1, <3>2 DEF Spells
  <2>3. SpeltUpTo(acc[0], class, 0)
    BY <2>1, <2>2 DEF SpeltUpTo
  <2>4. QED
    BY <1>3, <2>3
<1>5. \A n \in 0..(N - 1) : n \in T => n + 1 \in T
  <2> SUFFICES ASSUME NEW n \in 0..(N - 1), n \in T PROVE n + 1 \in T
    OBVIOUS
  <2>1. acc[n] \in Reading /\ SpeltUpTo(acc[n], class, n)
    BY <1>1, <1>2, <1>3
  <2>2. SpeltUpTo(Spelled(acc[n], class[n + 1]), class, n + 1)
    BY <1>2, <2>1, SpelledOn
  <2>3. QED
    BY <1>1, <1>2, <1>3, <2>2
<1>6. SpeltUpTo(acc[N], class, N)
  <2>1. \A n \in 0..N : n \in T
    BY <1>4, <1>5, Induct
  <2>2. N \in T
    BY <2>1
  <2>3. QED
    BY <1>3, <2>2
<1>7. PICK f : Spells(text, class, f, N)
  BY <1>1, <1>2, <1>6 DEF SpeltUpTo
<1>8. text \in Seq(STRING)
  <2>1. acc[N] \in Reading
    BY <1>1, <1>2
  <2>2. QED
    BY <1>1, <1>2, <2>1 DEF Reading
<1>9. PICK runs \in SUBSET (1..N) : runs = Runs(class)
  BY <1>2 DEF Runs
<1>10. PICK M \in Nat : M = Len(text) /\ GoesThrough(f, M, runs)
  <2>1. runs \cap 1..N = runs
    OBVIOUS
  <2>2. QED
    BY <1>7, <1>9, <2>1 DEF Spells
<1>11. /\ Cardinality(runs) \in Nat
       /\ GoesThrough(Upwards(runs), Cardinality(runs), runs)
  BY UpwardsIs
<1>12. M = Cardinality(runs) /\ f = Upwards(runs)
  <2>1. runs \in SUBSET Int
    OBVIOUS
  <2>2. QED
    BY <1>10, <1>11, <2>1, OneWay
<1>13. \A k \in 1..M : f[k] \in runs /\ text[k] = Charset[class[f[k]]]
  BY <1>7, <1>10 DEF Spells, GoesThrough
<1>14. QED
  BY <1>8, <1>9, <1>10, <1>12, <1>13

-----------------------------------------------------------------------------
(* The best class of a step is one that the source knows, or the blank:    *)
(* there is one, since every ranking has the blank.                        *)
LEMMA ArgMaxIs ==
  ASSUME NEW ranking \in Seq(Nat), 0 \in ToSet(ranking), NEW limits
  PROVE  /\ ArgMax(ranking, limits) \in Nat
         /\ limits # Unlimited =>
              ArgMax(ranking, limits) \in AllowedClasses(limits)
<1>1. PICK z \in DOMAIN ranking : ranking[z] = 0
  BY DEF ToSet
<1>2. CASE limits = Unlimited
  <2>1. Head(ranking) = ranking[1] /\ ranking[1] \in Nat
    BY <1>1
  <2>2. QED
    BY <1>2, <2>1 DEF ArgMax
<1>3. CASE limits # Unlimited
  <2>1. PICK allowed : allowed = AllowedClasses(limits)
    OBVIOUS
  <2> DEFINE Is(i) == /\ ranking[i] \in allowed
                      /\ \A j \in 1..(i - 1) : ranking[j] \notin allowed
             T == {i \in DOMAIN ranking : ranking[i] \in allowed}
  <2>2. z \in T /\ T \in SUBSET Nat
    <3>1. 0 \in allowed
      BY <2>1 DEF AllowedClasses
    <3>2. QED
      BY <1>1, <3>1
  <2>3. PICK least \in T : \A i \in T : least <= i
    BY <2>2, LeastNat
  <2>4. least \in DOMAIN ranking /\ Is(least)
    <3>1. \A j \in 1..(least - 1) : j \in DOMAIN ranking /\ j < least
      BY <2>3
    <3>2. QED
      BY <2>3, <3>1
  <2>5. PICK i \in DOMAIN ranking :
          i = (CHOOSE k \in DOMAIN ranking : Is(k)) /\ Is(i)
    <3> HIDE DEF Is
    <3>1. \E k \in DOMAIN ranking : Is(k)
      BY <2>4
    <3>2. QED
      BY <3>1, Zenon
  <2>6. ArgMax(ranking, limits) = ranking[i]
    BY <1>3, <2>1, <2>5, Zenon DEF ArgMax
  <2>7. QED
    BY <2>1, <2>5, <2>6
<1>4. QED
  BY <1>2, <1>3

(* So it is of each step of an image.                                      *)
LEMMA ClassesAre ==
  ASSUME NEW image \in Image, NEW limits, NEW class,
         class = Classes(image, limits)
  PROVE  /\ class \in Seq(Nat)
         /\ limits # Unlimited =>
              \A i \in DOMAIN class : class[i] \in AllowedClasses(limits)
<1>1. image \in Seq(Seq(Nat)) /\ \A i \in DOMAIN image : 0 \in ToSet(image[i])
  BY CaptchaAssumption
<1>2. PICK N \in Nat : DOMAIN image = 1..N
  BY <1>1
<1>3. \A i \in 1..N : /\ ArgMax(image[i], limits) \in Nat
                      /\ limits # Unlimited => ArgMax(image[i], limits)
                                                 \in AllowedClasses(limits)
  <2> TAKE i \in 1..N
  <2>1. image[i] \in Seq(Nat)
    BY <1>1, <1>2
  <2>2. 0 \in ToSet(image[i])
    BY <1>1, <1>2
  <2>3. QED
    BY <2>1, <2>2, ArgMaxIs
<1>4. class = [i \in 1..N |-> ArgMax(image[i], limits)]
  BY <1>2, Zenon DEF Classes
<1>5. QED
  BY <1>3, <1>4

(* Text of characters that the source knows is left as it is.              *)
LEMMA ConstrainedIs ==
  ASSUME NEW text \in Seq(STRING), NEW limits,
         limits # Unlimited =>
           \A k \in DOMAIN text : text[k] \in limits.chars
  PROVE  Constrained(text, limits) = text
<1>1. CASE limits = Unlimited \/ limits.chars = {}
  BY <1>1, Zenon DEF Constrained
<1>2. CASE limits # Unlimited /\ limits.chars # {}
  <2>1. PICK chars : chars = limits.chars
    OBVIOUS
  <2> DEFINE mapped(c) == IF c \in limits.chars \/ ~limits.map
                             \/ c \notin DOMAIN Alike THEN c ELSE Alike[c]
             all == [i \in DOMAIN text |-> mapped(text[i])]
             at == {i \in DOMAIN all : all[i] \in limits.chars}
  <2>2. Constrained(text, limits) = Sublist(all, at)
    BY <1>2, Zenon DEF Constrained, Filtered
  <2>3. all = text
    <3>1. \A i \in DOMAIN text : mapped(text[i]) = text[i]
      BY <1>2
    <3> HIDE DEF mapped
    <3>2. all = [i \in DOMAIN text |-> text[i]]
      BY <3>1
    <3>3. text = [i \in DOMAIN text |-> text[i]]
      OBVIOUS
    <3>4. QED
      BY <3>2, <3>3
  <2>4. at = DOMAIN text
    <3> HIDE DEF all
    <3>1. QED
      BY <1>2, <2>3
  <2>5. Sublist(text, DOMAIN text) = text
    BY SublistAll
  <2>6. QED
    <3> HIDE DEF all, at
    <3>1. QED
      BY <2>2, <2>3, <2>4, <2>5
<1>3. QED
  BY <1>1, <1>2

(* Text that is too long loses its end and nothing else.                   *)
LEMMA CutIs ==
  ASSUME NEW text \in Seq(STRING), NEW limits,
         limits # Unlimited => limits.length \in Nat
  PROVE  /\ Cut(text, limits) \in Seq(STRING)
         /\ Len(Cut(text, limits)) <= Len(text)
         /\ limits # Unlimited => Len(Cut(text, limits)) <= limits.length
         /\ \A k \in DOMAIN text :
              limits = Unlimited \/ k <= limits.length =>
                k \in DOMAIN Cut(text, limits)
         /\ \A k \in DOMAIN Cut(text, limits) :
              k \in DOMAIN text /\ Cut(text, limits)[k] = text[k]
<1>1. CASE limits = Unlimited \/ Len(text) <= limits.length
  BY <1>1 DEF Cut
<1>2. CASE limits # Unlimited /\ ~ (Len(text) <= limits.length)
  <2>1. PICK n \in Nat : n = limits.length /\ n < Len(text)
    BY <1>2
  <2>2. PICK R : R = STRING
    OBVIOUS
  <2>3. PICK cut \in Seq(R) : cut = SubSeq(text, 1, n)
    <3>1. PICK s \in Seq(R) : s = text
      BY <2>2
    <3>2. \A k \in 1..n : k \in 1..Len(s)
      BY <2>1, <3>1
    <3>3. SubSeq(s, 1, n) \in Seq(R)
      BY <3>2, \A k \in 1..n : s[k] \in R
    <3>4. QED
      BY <3>1, <3>3
  <2>4. Len(cut) = n /\ \A k \in 1..n : cut[k] = text[k]
    BY <2>1, <2>2, <2>3
  <2>5. Cut(text, limits) = cut
    BY <1>2, <2>1, <2>3 DEF Cut
  <2>6. QED
    BY <1>2, <2>1, <2>2, <2>4, <2>5
<1>3. QED
  BY <1>1, <1>2

-----------------------------------------------------------------------------
(* What a text shows of an image; and the engine, as a record.             *)
Drawn(text, image, limits) ==
  LET class == Classes(image, limits)
      runs == Runs(class)
      nth == Upwards(runs)
  IN /\ limits # Unlimited => /\ Len(text) <= limits.length
                              /\ ToSet(text) \subseteq limits.chars
     /\ \A n \in DOMAIN nth :
          limits = Unlimited \/ n <= limits.length
            => n \in DOMAIN text /\ text[n] = Charset[class[nth[n]]]
     /\ Len(text) <= Cardinality(runs)
Engine(e) == /\ e = [loaded |-> e.loaded, read |-> e.read, image |-> e.image,
                     limits |-> e.limits, text |-> e.text]
             /\ e.read => Drawn(e.text, e.image, e.limits)
CaptchaInv == Engine(ocr)

(* What a recognition answers with shows the image.                        *)
LEMMA DrawnIs ==
  ASSUME NEW image \in Image, NEW limits \in Limits \cup {Unlimited},
         NEW class, class = Classes(image, limits)
  PROVE  Drawn(Cut(Constrained(CtcDecode(class), limits), limits),
               image, limits)
<1>1. /\ class \in Seq(Nat)
      /\ limits # Unlimited =>
           \A i \in DOMAIN class : class[i] \in AllowedClasses(limits)
  BY ClassesAre
<1>2. PICK up : up = Upwards(Runs(class))
  OBVIOUS
<1>3. PICK text \in Seq(STRING) :
        /\ text = CtcDecode(class) /\ Len(text) = Cardinality(Runs(class))
        /\ \A k \in 1..Len(text) :
             up[k] \in Runs(class) /\ text[k] = Charset[class[up[k]]]
  BY <1>1, <1>2, DecodeIs
<1>4. limits # Unlimited => \A k \in DOMAIN text : text[k] \in limits.chars
  <2> SUFFICES ASSUME limits # Unlimited, NEW k \in DOMAIN text
               PROVE  text[k] \in limits.chars
    OBVIOUS
  <2>1. k \in 1..Len(text)
    OBVIOUS
  <2>2. PICK i \in DOMAIN class : i = up[k] /\ class[i] \in DOMAIN Charset
    BY <1>3, <2>1 DEF Runs
  <2>3. class[i] # 0
    BY <2>2, CaptchaAssumption
  <2>4. class[i] \in AllowedClasses(limits)
    BY <1>1
  <2>5. Charset[class[i]] \in limits.chars
    BY <2>3, <2>4 DEF AllowedClasses
  <2>6. QED
    BY <1>3, <2>1, <2>2, <2>5
<1>5. Constrained(text, limits) = text
  BY <1>4, ConstrainedIs
<1>6. limits # Unlimited => limits.length \in Nat
  BY CaptchaAssumption
<1>7. PICK cut \in Seq(STRING) :
        /\ cut = Cut(text, limits) /\ Len(cut) <= Len(text)
        /\ limits # Unlimited => Len(cut) <= limits.length
        /\ \A k \in DOMAIN text :
             limits = Unlimited \/ k <= limits.length => k \in DOMAIN cut
        /\ \A k \in DOMAIN cut : k \in DOMAIN text /\ cut[k] = text[k]
  BY <1>6, CutIs
<1>8. ToSet(cut) = {cut[k] : k \in DOMAIN cut}
  BY DEF ToSet
<1>9. limits # Unlimited => ToSet(cut) \subseteq limits.chars
  BY <1>4, <1>7, <1>8
<1>10. DOMAIN text = 1..Len(text)
  OBVIOUS
<1>11. DOMAIN up = 1..Cardinality(Runs(class))
  BY <1>2, Zenon DEF Upwards, Arranged
<1>12. \A n \in DOMAIN up :
         limits = Unlimited \/ n <= limits.length
           => n \in DOMAIN cut /\ cut[n] = Charset[class[up[n]]]
  BY <1>3, <1>7, <1>10, <1>11
<1>13. Drawn(cut, image, limits)
  BY <1>2, <1>3, <1>7, <1>9, <1>12, Zenon DEF Drawn
<1>14. QED
  BY <1>3, <1>5, <1>7, <1>13

(* It holds before anything is read.                                       *)
LEMMA CaptchaInitHolds == CaptchaInit => CaptchaInv
BY DEF CaptchaInit, CaptchaInv, Engine

(* Every step keeps it: loading the model leaves the last answer alone.    *)
LEMMA CaptchaStep == CaptchaInv /\ [CaptchaCalls]_ocrVars => CaptchaInv'
<1> SUFFICES ASSUME Engine(ocr), [CaptchaCalls]_ocrVars PROVE Engine(ocr')
  BY DEF CaptchaInv
<1>1. CASE UNCHANGED ocrVars
  BY <1>1 DEF ocrVars
<1>2. CASE InitializeOcr
  <2>1. PICK e : e = ocr /\ Engine(e)
    OBVIOUS
  <2>2. ocr' = [loaded |-> TRUE, read |-> e.read, image |-> e.image,
                limits |-> e.limits, text |-> e.text]
    BY <1>2, <2>1 DEF InitializeOcr, Engine
  <2>3. QED
    BY <2>1, <2>2 DEF Engine
<1>3. ASSUME NEW image \in Image, NEW limits \in Limits \cup {Unlimited},
             Recognize(image, limits)
      PROVE  Engine(ocr')
  <2>1. PICK text : text = Cut(Constrained(CtcDecode(Classes(image, limits)),
                                           limits), limits)
    OBVIOUS
  <2>2. Drawn(text, image, limits)
    BY <2>1, DrawnIs
  <2>3. ocr' = [loaded |-> TRUE, read |-> TRUE, image |-> image,
                limits |-> limits, text |-> text]
    BY <1>3, <2>1 DEF Recognize
  <2>4. QED
    BY <2>2, <2>3 DEF Engine
<1>4. QED
  BY <1>1, <1>2, <1>3 DEF CaptchaCalls

(* It is the property.                                                     *)
LEMMA CaptchaFollows == CaptchaInv => CaptchaAsDrawn
BY Zenon DEF CaptchaInv, Engine, Drawn, CaptchaAsDrawn
=============================================================================
