------------------------------ MODULE Ranking ------------------------------
(***************************************************************************)
(* reciprocal_rank_fusion and mmr_select (rag/retrieval/ranking.py).       *)
(* Scores are integers: a reciprocal is a share of Scale, a similarity is  *)
(* 0 or 1, and lambda is in tenths.                                        *)
(***************************************************************************)
EXTENDS Sorting, SequencesExt

CONSTANTS
    RrfK,           \* rrf_k
    VectorWeight,   \* vector_weight
    KeywordWeight,  \* keyword_weight
    Scale,          \* a common multiple of the k + rank that occur
    Lambda          \* ten times mmr_lambda

ASSUME RankingAssumption ==
    /\ RrfK \in Nat /\ Scale \in Nat
    /\ VectorWeight \in Nat /\ KeywordWeight \in Nat
    /\ VectorWeight + KeywordWeight > 0
    /\ Lambda \in 0..10

RankIn(c, list) == CHOOSE i \in DOMAIN list : list[i] = c

\* w / (k + rank), or nothing for what the list does not contain.
Share(c, list, weight) ==
    IF Contains(list, c) THEN weight * (Scale \div (RrfK + RankIn(c, list))) ELSE 0

\* Mutant: the share of the second list replaces that of the first.
FusedScoreLast(c, vector, keyword) ==
    IF Contains(keyword, c) THEN Share(c, keyword, KeywordWeight)
                            ELSE Share(c, vector, VectorWeight)

FusedScore(c, vector, keyword) ==
    Share(c, vector, VectorWeight) + Share(c, keyword, KeywordWeight)

\* The vector list comes first, then what only the keyword list contains.
MergedPlace(c, vector, keyword) ==
    IF Contains(vector, c) THEN RankIn(c, vector) ELSE Len(vector) + RankIn(c, keyword)

ReciprocalRankFusion(vector, keyword) ==
    BestFirst({<<FusedScore(c, vector, keyword), MergedPlace(c, vector, keyword), c>> :
                  c \in ToSet(vector) \cup ToSet(keyword)})

\* The k candidates chosen one after the other by lambda * relevance minus
\* (1 - lambda) * the similarity to what is chosen already.  Relevance is
\* scaled to 0..1 by its span; the scores are compared as fractions of ten
\* spans.  alike holds the pairs of similarity 1.  Indexed chunks all have an
\* embedding, so nothing is left to append.
MmrSelect(candidates, relevance, alike, k) ==
    LET all == DOMAIN candidates
        rel == [i \in all |-> relevance[candidates[i]]]
        least == Min(ToSet(rel))
        span == Max(ToSet(rel)) - least
        Similar(i, chosen) ==
            IF \E j \in chosen : {candidates[i], candidates[j]} \in alike THEN 1 ELSE 0
        Score(i, chosen) ==
            IF span > 0
              THEN Lambda * (rel[i] - least) - (10 - Lambda) * span * Similar(i, chosen)
              ELSE Lambda - (10 - Lambda) * Similar(i, chosen)
        Best(chosen) ==
            CHOOSE i \in all \ chosen :
                \A j \in all \ chosen :
                    \/ Score(i, chosen) > Score(j, chosen)
                    \/ Score(i, chosen) = Score(j, chosen) /\ i <= j
        picked[n \in 0..k] ==
            IF n = 0 THEN <<>>
            ELSE Append(picked[n - 1], Best(ToSet(picked[n - 1])))
    IN  IF Len(candidates) <= k \/ Lambda = 10
          THEN SubSeq(candidates, 1, IF Len(candidates) < k THEN Len(candidates) ELSE k)
          ELSE [n \in 1..k |-> candidates[picked[k][n]]]
=============================================================================
