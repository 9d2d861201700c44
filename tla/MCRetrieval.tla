---------------------------- MODULE MCRetrieval ----------------------------
(* Queries over documents of one user that are reprocessed and deleted.    *)
EXTENDS Retrieval, TLC

Symmetry == Permutations(Docs)
=============================================================================
