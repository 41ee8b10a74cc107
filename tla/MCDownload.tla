----------------------------- MODULE MCDownload -----------------------------
(* A package and its host build, which need the same archive. *)
EXTENDS Download
=============================================================================
