------------------------------ MODULE HttpTask ------------------------------
(***************************************************************************)
(* What an HTTP download promises to the user, without runs, generations   *)
(* or slots: a state per task and the bytes on disk.  Nothing is written   *)
(* for a task that is paused, failed, finished or gone; writes extend the  *)
(* file by what comes next, or start it anew; a task completes only when   *)
(* the file is whole.  Two things are up to the servers: where a body      *)
(* begins, and whether it ends before the resource does; the promise of a  *)
(* whole file is for those whose bodies begin where they are taken to      *)
(* begin and go to the end.  Adding and removing take a while: a request   *)
(* made for a task that was absent may be met when it is there again, and  *)
(* the file may go after the task has been added anew.                     *)
(***************************************************************************)
EXTENDS Integers, Sequences

CONSTANTS Task, Size

VARIABLES
  state,     \* what the user sees of each task
  asked,     \* requests to add the task that are not met yet
  leaving,   \* tasks with a removal whose end is still to come
  file,      \* the numbers of the chunks on disk, 0 if astray
  short      \* tasks whose body the server has ended too early

vars == <<state, asked, leaving, file, short>>

States == {"absent", "active", "paused", "error", "completed"}

Init ==
  /\ state = [t \in Task |-> "absent"]
  /\ asked = [t \in Task |-> 0]
  /\ leaving = {}
  /\ file = [t \in Task |-> <<>>]
  /\ short = {}

Moves(t, from, to) ==
  /\ state[t] \in from
  /\ state' = [state EXCEPT ![t] = to]

Pause(t) == Moves(t, {"active"}, "paused")
Fail(t) == Moves(t, {"active"}, "error")
Resume(t) == Moves(t, {"paused", "error"}, "active")   \* or an auto-retry

(* Every chunk at its place, but not all of them.                          *)
Partial(s) == Len(s) < Size /\ \A i \in 1..Len(s) : s[i] = i

Complete(t) ==
  /\ Partial(file[t]) => t \in short
  /\ Moves(t, {"active"}, "completed")

Ask(t) ==
  /\ state[t] = "absent"
  /\ asked' = [asked EXCEPT ![t] = @ + 1]

Add(t) ==
  /\ asked[t] > 0
  /\ asked' = [asked EXCEPT ![t] = @ - 1]
  /\ Moves(t, States, "active")

(* The next chunk of the resource, one that a server sent astray, or the   *)
(* next of a body that began elsewhere and started the file.               *)
Follows(s, c) ==
  \/ c \in {Len(s) + 1, 0}
  \/ \A i \in 1..Len(s) : s[i] = c - Len(s) - 1 + i

Extend(t) ==
  /\ state[t] = "active"
  /\ \E c \in 0..Size :
       /\ Follows(file[t], c)
       /\ file' = [file EXCEPT ![t] = Append(@, c)]

(* The server's answer starts the file anew.                               *)
StartAnew(t) ==
  /\ state[t] = "active"
  /\ file' = [file EXCEPT ![t] = <<>>]

Forget(S) == [t \in Task |-> IF t \in S THEN "absent" ELSE state[t]]
Delete(S) == [t \in Task |-> IF t \in S THEN <<>> ELSE file[t]]

(* A body is over that did not go to the end, until the task has its new   *)
(* state.                                                                  *)
EndsShort(t) == short' = short \cup {t}
Settles(t) == short' \in {short, short \ {t}}

Remove(t) ==
  /\ state[t] # "absent"
  /\ state' = Forget({t})
  /\ leaving' = leaving \cup {t}

Left(t) ==
  /\ t \in leaving
  /\ leaving' \in {leaving, leaving \ {t}}
  /\ file' \in {file, Delete({t})}

(* Completed tasks go at once, with or without their files.                *)
Clear(S) ==
  /\ \A t \in S : state[t] = "completed"
  /\ state' = Forget(S)
  /\ file' \in {file, Delete(S)}

Next ==
  \/ \E t \in Task :
       \/ /\ Pause(t) \/ Fail(t) \/ Resume(t) \/ Complete(t)
          /\ Settles(t)
          /\ UNCHANGED <<asked, leaving, file>>
       \/ /\ EndsShort(t) \/ Settles(t)
          /\ UNCHANGED <<state, asked, leaving, file>>
       \/ Ask(t) /\ UNCHANGED <<state, leaving, file, short>>
       \/ Add(t) /\ UNCHANGED <<leaving, file, short>>
       \/ /\ Extend(t) \/ StartAnew(t)
          /\ UNCHANGED <<state, asked, leaving, short>>
       \/ Remove(t) /\ UNCHANGED <<asked, file, short>>
       \/ Left(t) /\ UNCHANGED <<state, asked, short>>
  \/ \E S \in SUBSET Task : Clear(S) /\ UNCHANGED <<asked, leaving, short>>

Spec == Init /\ [][Next]_vars
=============================================================================
