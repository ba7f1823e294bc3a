-------------------------- MODULE MCDownloadTask --------------------------
(* Model-checking instance of DownloadTask. *)
EXTENDS DownloadTask
=============================================================================
