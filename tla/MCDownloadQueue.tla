-------------------------- MODULE MCDownloadQueue --------------------------
(* DownloadQueue on a small instance.                                      *)
EXTENDS DownloadQueue

\* Every task calls acquire once at a time, one of them twice.
MCCall == (Task \X {1}) \cup {<<CHOOSE t \in Task : TRUE, 2>>}
=============================================================================
