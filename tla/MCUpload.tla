------------------------------ MODULE MCUpload ------------------------------
(* Uploads without reprocess: instances of UploadSpec.                     *)
EXTENDS IngestionPipeline, TLC

\* Handlers are interchangeable.  Used by runs that check no liveness.
RequestSymmetry == Permutations(Requests)
=============================================================================
