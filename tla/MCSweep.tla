------------------------------ MODULE MCSweep -------------------------------
(* Uploads with the sweeper: instances of SweptSpec.                       *)
EXTENDS IngestionPipeline, TLC
=============================================================================
