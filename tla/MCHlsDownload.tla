--------------------------- MODULE MCHlsDownload ---------------------------
(* HlsDownload on a short playlist.                                        *)
EXTENDS HlsDownload
=============================================================================
