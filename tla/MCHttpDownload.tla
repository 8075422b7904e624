--------------------------- MODULE MCHttpDownload ---------------------------
(* HttpDownload on one task with several runs, or two tasks and one slot.  *)
EXTENDS HttpDownload
=============================================================================
