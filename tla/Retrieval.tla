----------------------------- MODULE Retrieval -----------------------------
(***************************************************************************)
(* One query of RetrievalService.retrieve, statement by statement, while   *)
(* documents are indexed, reprocessed and deleted.  Every SELECT sees what *)
(* is committed when it runs.                                              *)
(***************************************************************************)
EXTENDS Ranking, ContextAssembly, FiniteSets

CONSTANTS
    Docs,               \* the documents of the user who asks
    LastIndex,          \* chunk_index of a document's last chunk
    MaxVersion,         \* bound: how often a document is indexed
    SearchLimit,        \* vector_candidates, keyword_candidates
    RerankCandidates,   \* rerank_candidates
    RerankMinScore,     \* rerank_min_score, 0 for none
    TopK,               \* top_k
    TokenCounts         \* bound: the tokens a chunk may have

ASSUME RetrievalAssumption ==
    /\ IsFiniteSet(Docs)
    /\ LastIndex \in Nat /\ RerankMinScore \in Nat
    /\ MaxVersion \in Nat \ {0} /\ SearchLimit \in Nat \ {0}
    /\ RerankCandidates \in Nat \ {0} /\ TopK \in Nat \ {0}
    /\ TokenCounts \subseteq Nat \ {0} /\ TokenCounts # {}

VARIABLES
    status,         \* documents.status, or that there is no row
    version,        \* how often the document has been indexed
    stored,         \* the document has chunk rows, those of its version
    pc,             \* the query's next step
    scope,          \* document_ids, empty for all
    unchecked,      \* those that are still to be validated
    keyword,        \* the candidates of keyword_search, ranked
    vector,         \* the candidates of vector_search, ranked
    candidates,     \* what is fused and perhaps reranked
    relevance,      \* Candidate.relevance of the candidates or the selected
    selected,       \* the choice of mmr_select
    passages        \* the answer

docVars == <<status, version, stored>>
queryVars ==
    <<pc, scope, unchecked, keyword, vector, candidates, relevance, selected, passages>>
vars == <<docVars, queryVars>>

Chunks == [doc : Docs, index : 0..LastIndex, version : 1..MaxVersion]

Answer == [chunks : Seq(Chunks), score : Nat, tokens : Nat]

TypeOK ==
    /\ status \in [Docs -> {"PENDING", "PROCESSING", "INDEXED", "DELETED"}]
    /\ version \in [Docs -> 0..MaxVersion]
    /\ stored \in [Docs -> BOOLEAN]
    /\ pc \in {"start", "vector", "fuse", "rerank", "select", "expand", "done", "failed"}
    /\ scope \subseteq Docs /\ unchecked \subseteq scope
    /\ keyword \in Seq(Chunks) /\ vector \in Seq(Chunks)
    /\ candidates \in Seq(Chunks)
    /\ relevance \in [ToSet(candidates) \cup ToSet(selected) -> Nat]
    /\ selected \in Seq(Chunks)
    /\ passages \in Seq(Answer)

Init ==
    /\ status = [d \in Docs |-> "INDEXED"]
    /\ version = [d \in Docs |-> 1]
    /\ stored = [d \in Docs |-> TRUE]
    /\ pc = "start"
    /\ scope \in SUBSET Docs /\ unchecked = scope
    /\ keyword = <<>> /\ vector = <<>>
    /\ candidates = <<>> /\ relevance = <<>>
    /\ selected = <<>> /\ passages = <<>>

(***************************************************************************)
(* The documents, as far as a query sees them                              *)
(***************************************************************************)

\* reprocess drops the chunks and resets the document, in one commit.  From
\* here to do_index PENDING and PROCESSING look the same to a query.
Reprocess(d) ==
    /\ status[d] \in {"INDEXED", "PROCESSING"}
    /\ status' = [status EXCEPT ![d] = "PENDING"]
    /\ stored' = [stored EXCEPT ![d] = FALSE]
    /\ UNCHANGED <<version, queryVars>>

\* do_index replaces the chunks and commits; the document is still PROCESSING.
Indexes(d) ==
    /\ status[d] = "PENDING" /\ version[d] < MaxVersion
    /\ status' = [status EXCEPT ![d] = "PROCESSING"]
    /\ version' = [version EXCEPT ![d] = @ + 1]
    /\ stored' = [stored EXCEPT ![d] = TRUE]
    /\ UNCHANGED queryVars

Completes(d) ==
    /\ status[d] = "PROCESSING"
    /\ status' = [status EXCEPT ![d] = "INDEXED"]
    /\ UNCHANGED <<version, stored, queryVars>>

Delete(d) ==
    /\ status[d] # "DELETED"
    /\ status' = [status EXCEPT ![d] = "DELETED"]
    /\ stored' = [stored EXCEPT ![d] = FALSE]
    /\ UNCHANGED <<version, queryVars>>

DocumentStep ==
    \E d \in Docs : Reprocess(d) \/ Indexes(d) \/ Completes(d) \/ Delete(d)

(***************************************************************************)
(* The query                                                               *)
(***************************************************************************)

ChunksOf(d) ==
    IF stored[d] THEN [doc : {d}, index : 0..LastIndex, version : {version[d]}] ELSE {}

\* _scope: the INDEXED documents, and of these the requested ones.
InScope == {d \in Docs : status[d] = "INDEXED" /\ (scope # {} => d \in scope)}

\* The results of a search are dropped once they are fused and scored, the
\* candidates once some are selected.
Forgets == keyword' = <<>> /\ vector' = <<>>

\* What a search may return: some of the chunks in scope, in some order.
RankedHits ==
    {s \in SeqOf(UNION {ChunksOf(d) : d \in InScope}, SearchLimit) : IsInjective(s)}

\* _validate_scope: a statement for each requested document, in any order.
Validates(d) ==
    /\ pc = "start" /\ d \in unchecked
    /\ unchecked' = unchecked \ {d}
    /\ pc' = IF status[d] = "INDEXED" THEN "start" ELSE "failed"
    /\ UNCHANGED <<docVars, scope, keyword, vector, candidates, relevance, selected, passages>>

\* keyword_search, while the query is being embedded.
SearchesKeywords ==
    /\ pc = "start" /\ unchecked = {}
    /\ keyword' \in RankedHits
    /\ pc' = "vector"
    /\ UNCHANGED <<docVars, scope, unchecked, vector, candidates, relevance, selected, passages>>

SearchesVectors ==
    /\ pc = "vector"
    /\ vector' \in RankedHits
    /\ pc' = "fuse"
    /\ UNCHANGED <<docVars, scope, unchecked, keyword, candidates, relevance, selected, passages>>

\* Nothing found is an empty answer; otherwise the best candidates go on.
Fuses ==
    /\ pc = "fuse"
    /\ LET fused == ReciprocalRankFusion(vector, keyword)
       IN  candidates' = SubSeq(fused, 1, IF Len(fused) < RerankCandidates
                                            THEN Len(fused) ELSE RerankCandidates)
    /\ relevance' = [c \in ToSet(candidates') |-> FusedScore(c, vector, keyword)]
    /\ pc' = IF candidates' = <<>> THEN "done" ELSE "rerank"
    /\ UNCHANGED <<docVars, scope, unchecked, keyword, vector, selected, passages>>

\* There is no reranker, or asking it fails: the fused order stays.
SkipsRerank ==
    /\ pc = "rerank"
    /\ pc' = "select"
    /\ Forgets
    /\ UNCHANGED <<docVars, scope, unchecked, candidates, relevance, selected, passages>>

\* The reranker scores all candidates; those below the threshold are dropped.
Reranks ==
    /\ pc = "rerank"
    /\ \E score \in [ToSet(candidates) -> 0..2] :
          /\ candidates' = BestFirst({<<score[c], RankIn(c, candidates), c>> :
                  c \in {d \in ToSet(candidates) : score[d] >= RerankMinScore}})
          /\ relevance' = [c \in ToSet(candidates') |-> score[c]]
    /\ pc' = "select"
    /\ Forgets
    /\ UNCHANGED <<docVars, scope, unchecked, selected, passages>>

Pairs(list) == {{list[i], list[j]} : i, j \in DOMAIN list}

Selects ==
    /\ pc = "select"
    /\ \E alike \in SUBSET {p \in Pairs(candidates) : Cardinality(p) = 2} :
          selected' = MmrSelect(candidates, relevance, alike, TopK)
    /\ candidates' = <<>>
    /\ relevance' = [c \in ToSet(selected') |-> relevance[c]]
    /\ pc' = "expand"
    /\ UNCHANGED <<docVars, scope, unchecked, keyword, vector, passages>>

\* _neighbors: by position only, whatever the document's status and version.
Neighbors ==
    {c \in UNION {ChunksOf(d) : d \in Docs} :
        /\ \E s \in ToSet(selected) : At(c) \in Near(s)
        /\ \A s \in ToSet(selected) : At(s) # At(c)}

Expands ==
    /\ pc = "expand"
    /\ \E tokens \in [Docs \X (0..LastIndex) -> TokenCounts] :
          passages' = BuildPassages(selected, Neighbors, relevance, tokens)
    /\ pc' = "done"
    /\ UNCHANGED <<docVars, scope, unchecked, keyword, vector, candidates, relevance, selected>>

\* The embedding, the database or the request fails, or the reranker answers
\* with fewer or more scores than it was asked for.
QueryFails ==
    /\ pc \in {"start", "vector", "rerank", "expand"}
    /\ pc' = "failed"
    /\ Forgets
    /\ candidates' = <<>> /\ selected' = <<>> /\ relevance' = <<>>
    /\ UNCHANGED <<docVars, scope, unchecked, passages>>

QueryStep ==
    \/ \E d \in Docs : Validates(d)
    \/ SearchesKeywords \/ SearchesVectors \/ Fuses
    \/ SkipsRerank \/ Reranks \/ Selects \/ Expands \/ QueryFails

Next == DocumentStep \/ QueryStep

Spec == Init /\ [][Next]_vars

-----------------------------------------------------------------------------
(***************************************************************************)
(* Properties                                                              *)
(***************************************************************************)

AtLeastAsGood(c, d, list) ==
    Contains(list, d) => Contains(list, c) /\ RankIn(c, list) <= RankIn(d, list)

\* Fusion and the cut to rerank_candidates respect both searches: a chunk
\* that neither of them ranks below another stays before it.
FusionIsMonotone ==
    pc = "rerank" =>
        \A c \in ToSet(vector) \cup ToSet(keyword) : \A d \in ToSet(candidates) \ {c} :
            AtLeastAsGood(c, d, vector) /\ AtLeastAsGood(c, d, keyword) =>
                /\ Contains(candidates, c)
                /\ RankIn(c, candidates) < RankIn(d, candidates)

\* The passages stay within max_context_tokens, unless there is only one and
\* it is a single chunk.
PassagesFitBudget ==
    \/ TokensUsed(passages) <= MaxContextTokens
    \/ Len(passages) = 1 /\ Len(passages[1].chunks) = 1

\* No position of a document is cited in two passages, and passages are
\* consecutive, even if the searches saw two versions of the document.
PositionsCitedOnce ==
    \A i, j \in DOMAIN passages :
        \A m \in DOMAIN passages[i].chunks, n \in DOMAIN passages[j].chunks :
            LET c == passages[i].chunks[m]
                d == passages[j].chunks[n]
            IN  /\ At(c) = At(d) => i = j /\ m = n
                /\ i = j => c.doc = d.doc /\ c.index - d.index = m - n
=============================================================================
