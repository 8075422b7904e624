---------------------------- MODULE TorrentEngine ----------------------------
(***************************************************************************)
(* The BitTorrent engine of the Rust core:  api/simple.rs                  *)
(*                                                                         *)
(* The first call that needs it creates the engine, a session and the HTTP *)
(* server that streams from it, under the lock STATE; later calls find it. *)
(* The session itself is external: it gives a torrent an id, gets its      *)
(* metadata, and forgets it when it is deleted.                            *)
(***************************************************************************)
EXTENDS Integers, Sequences

CONSTANTS Viewer,    \* callers
          Magnet,    \* info hashes
          Unheld,    \* no caller
          MaxPlays   \* bound on the calls

ASSUME EngineAssumption == Unheld \notin Viewer /\ MaxPlays \in Nat

VARIABLES
  engine,    \* the number of the engine in STATE, 0 for none
  engines,   \* history: the number of engines created
  guard,     \* the holder of STATE
  torrents,  \* by id, what the sessions manage or did manage
  viewer,    \* the call of each caller and its last answer
  stops,     \* history: the ids that calls to stop have found
  plays      \* history: the number of calls

engineVars == <<engine, engines, guard, torrents, viewer, stops, plays>>

Nothing == 0  \* no id
AtRest == [pc |-> "idle", op |-> "none", hash |-> Unheld, engine |-> 0,
           id |-> Nothing, stream |-> Nothing]

EngineInit ==
  /\ engine = 0 /\ engines = 0 /\ guard = Unheld
  /\ torrents = <<>> /\ stops = {} /\ plays = 0
  /\ viewer = [v \in Viewer |-> AtRest]

Goes(v, pc) == viewer' = [viewer EXCEPT ![v].pc = pc]
Settles(v) == viewer' = [viewer EXCEPT ![v] = AtRest]

Play(v, op, hash) ==
  /\ viewer[v].pc = "idle" /\ plays < MaxPlays
  /\ plays' = plays + 1
  /\ viewer' = [viewer EXCEPT ![v] =
                  [AtRest EXCEPT !.pc = "engine", !.op = op, !.hash = hash]]
  /\ UNCHANGED <<engine, engines, guard, torrents, stops>>

-----------------------------------------------------------------------------
(* get_torrent_stats and get_tracker_info read what the session manages.   *)
ReadsOnly(op) == op = "stats"

(* The call has the engine e.                                              *)
HasEngine(v, e) ==
  LET next == [start |-> "adding", stop |-> "looking", pause |-> "looking",
               resume |-> "looking"]
  IN IF ReadsOnly(viewer[v].op) THEN Settles(v)
     ELSE viewer' = [viewer EXCEPT ![v].engine = e,
                                   ![v].pc = next[viewer[v].op]]

(* The lock is held until the engine is there.                             *)
EnsureInitialized(v) ==
  /\ viewer[v].pc = "engine" /\ guard = Unheld
  /\ IF engine # 0 THEN HasEngine(v, engine) /\ UNCHANGED guard
                   ELSE Goes(v, "creating") /\ guard' = v
  /\ UNCHANGED <<engine, engines, torrents, stops, plays>>

EngineUp(v) ==
  /\ viewer[v].pc = "creating"
  /\ engines' = engines + 1 /\ engine' = engines + 1
  /\ HasEngine(v, engines + 1)
  /\ guard' = Unheld
  /\ UNCHANGED <<torrents, stops, plays>>

(* No directory, no session, or the port of the server is taken.           *)
EngineFails(v) ==
  /\ viewer[v].pc = "creating"
  /\ Settles(v) /\ guard' = Unheld
  /\ UNCHANGED <<engine, engines, torrents, stops, plays>>

-----------------------------------------------------------------------------
Managed(e, hash) ==
  {i \in DOMAIN torrents : /\ torrents[i].there /\ torrents[i].engine = e
                           /\ torrents[i].hash = hash}

(* start_torrent: a torrent is managed once.                               *)
Added(v) ==
  /\ viewer[v].pc = "adding"
  /\ LET old == Managed(viewer[v].engine, viewer[v].hash)
         new == [hash |-> viewer[v].hash, engine |-> viewer[v].engine,
                 there |-> TRUE, paused |-> FALSE, state |-> "initializing"]
         id == IF old = {} THEN Len(torrents) + 1 ELSE CHOOSE i \in old : TRUE
     IN /\ torrents' = IF old = {} THEN Append(torrents, new) ELSE torrents
        /\ viewer' = [viewer EXCEPT ![v].pc = "metadata", ![v].id = id]
  /\ UNCHANGED <<engine, engines, guard, stops, plays>>

(* An error, or 90 seconds without metadata.                               *)
AddFails(v) ==
  /\ viewer[v].pc = "adding" /\ Settles(v)
  /\ UNCHANGED <<engine, engines, guard, torrents, stops, plays>>

(* The session has read what there is of the files, or cannot.             *)
Initialized(i) ==
  /\ torrents[i].there /\ torrents[i].state = "initializing"
  /\ \E s \in {"ready", "error"} : torrents' = [torrents EXCEPT ![i].state = s]
  /\ UNCHANGED <<engine, engines, guard, viewer, stops, plays>>

(* The stream is of the largest file; a torrent without one has none.      *)
Streams(v) ==
  /\ viewer[v].pc = "metadata"
  /\ torrents[viewer[v].id].state = "ready"
  /\ \/ viewer' = [viewer EXCEPT ![v].pc = "idle", ![v].stream = viewer[v].id]
     \/ Settles(v)
  /\ UNCHANGED <<engine, engines, guard, torrents, stops, plays>>

WaitFails(v) ==
  /\ viewer[v].pc = "metadata"
  /\ LET t == torrents[viewer[v].id]
     IN t.state = "error" \/ (t.state = "initializing" /\ ~t.there)
  /\ Settles(v)
  /\ UNCHANGED <<engine, engines, guard, torrents, stops, plays>>

-----------------------------------------------------------------------------
(* stop_torrent, pause_torrent, resume_torrent: first the torrent is       *)
(* looked for by its hash.                                                 *)
Look(v) ==
  /\ viewer[v].pc = "looking"
  /\ LET found == Managed(viewer[v].engine, viewer[v].hash)
         id == CHOOSE i \in found : TRUE
         op == viewer[v].op
     IN IF \/ found = {}
           \/ op = "pause" /\ torrents[id].paused
           \/ op = "resume" /\ ~torrents[id].paused
          THEN Settles(v) /\ UNCHANGED stops
          ELSE /\ viewer' = [viewer EXCEPT ![v].pc = op, ![v].id = id]
               /\ stops' = IF op = "stop" THEN stops \cup {id} ELSE stops
  /\ UNCHANGED <<engine, engines, guard, torrents, plays>>

\* Mutant: the torrent is deleted by its hash.
DeleteByHash(v) ==
  /\ viewer[v].pc = "stop"
  /\ torrents' = [i \in DOMAIN torrents |->
       IF i \in Managed(viewer[v].engine, viewer[v].hash)
         THEN [torrents[i] EXCEPT !.there = FALSE] ELSE torrents[i]]
  /\ Settles(v)
  /\ UNCHANGED <<engine, engines, guard, stops, plays>>

(* By the id that was found: an error when it is not managed any more.     *)
Delete(v) ==
  /\ viewer[v].pc = "stop"
  /\ torrents' = [torrents EXCEPT ![viewer[v].id].there = FALSE]
  /\ Settles(v)
  /\ UNCHANGED <<engine, engines, guard, stops, plays>>

(* An error leaves the torrent as it is.                                   *)
ActionFails(v) ==
  /\ viewer[v].pc \in {"stop", "pause", "resume"} /\ Settles(v)
  /\ UNCHANGED <<engine, engines, guard, torrents, stops, plays>>

Toggle(v) ==
  /\ viewer[v].pc \in {"pause", "resume"}
  /\ torrents' = [torrents EXCEPT ![viewer[v].id].paused =
                                     viewer[v].pc = "pause"]
  /\ Settles(v)
  /\ UNCHANGED <<engine, engines, guard, stops, plays>>

-----------------------------------------------------------------------------
Ops == {"start", "stop", "pause", "resume", "stats"}
EngineCalls == \E v \in Viewer, op \in Ops, h \in Magnet : Play(v, op, h)
ViewerSteps(v) == \/ EnsureInitialized(v) \/ EngineUp(v) \/ EngineFails(v)
                  \/ Added(v) \/ AddFails(v) \/ Streams(v) \/ WaitFails(v)
                  \/ Look(v) \/ Delete(v) \/ Toggle(v) \/ ActionFails(v)
EngineSteps == \/ \E v \in Viewer : ViewerSteps(v)
               \/ \E i \in DOMAIN torrents : Initialized(i)

-----------------------------------------------------------------------------
(* A stream that was answered is of a torrent the engine manages and has   *)
(* read, until somebody stops that very torrent: not a stop that looked    *)
(* before the torrent was added, nor an engine that came after.            *)
StreamIsServed ==
  \A v \in Viewer :
    LET id == viewer[v].stream
    IN id \notin stops \cup {Nothing} =>
         torrents[id].there /\ torrents[id].state = "ready"
         /\ torrents[id].engine = engine
=============================================================================
