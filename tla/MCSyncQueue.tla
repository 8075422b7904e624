---------------------------- MODULE MCSyncQueue -----------------------------
(* SyncQueue for one account, or two of them, and one subject.             *)
EXTENDS SyncQueue

Interchangeable == Permutations(Call) \cup Permutations(Type)
=============================================================================
