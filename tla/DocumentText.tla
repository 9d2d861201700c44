---------------------------- MODULE DocumentText ----------------------------
(***************************************************************************)
(* What becomes of an upload's bytes: the type that lets it in, the text   *)
(* items that cleaning leaves, and the pieces the text is cut into.        *)
(* Extracting the text is docling's.                                       *)
(***************************************************************************)
EXTENDS FileTypes, Cleaning, Chunking

textVars == <<fileVars, cleanVars, chunkVars>>

TypeOK == FileTypeOK /\ CleanTypeOK /\ ChunkTypeOK

Init == FileInit /\ CleanInit /\ ChunkInit

\* Only a file that was stored reaches the pipeline.
Stored == file = NoFile

Next ==
    \/ FileNext /\ UNCHANGED <<cleanVars, chunkVars>>
    \/ Stored /\ CleanNext /\ UNCHANGED <<fileVars, chunkVars>>
    \/ stage = "split" /\ ChunkNext /\ UNCHANGED <<fileVars, cleanVars>>

\* The splitter's loop is plain code in the worker's thread.
FairSpec ==
    /\ Init /\ [][Next]_textVars
    /\ WF_textVars(stage = "split" /\ Splits /\ UNCHANGED <<fileVars, cleanVars>>)
=============================================================================
