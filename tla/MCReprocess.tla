---------------------------- MODULE MCReprocess -----------------------------
(* Reprocess requests and polls against running pipelines.                 *)
EXTENDS DocumentState, TLC
=============================================================================
