---------------------------- MODULE MCEmbedding -----------------------------
(* Documents embedded at the same time by one worker process.              *)
EXTENDS Embedding
=============================================================================
