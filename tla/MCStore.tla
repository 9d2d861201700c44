------------------------------ MODULE MCStore ------------------------------
(* Uploads, deletes and the orphan sweeper over a few keys.                *)
EXTENDS SourceRetention
=============================================================================
