------------------------------ MODULE Chunking ------------------------------
(***************************************************************************)
(* The chunk stage: chunk_with_splitter takes the chunks of docling's      *)
(* HybridChunker one after another and EmbeddingTextSplitter cuts each     *)
(* into overlapping windows that fit the embedding model, every one behind *)
(* the chunk's heading prefix.  Text is counted in tokens: token i of the  *)
(* body is the number i.                                                   *)
(*                                                                         *)
(* A window is decoded, joined to the prefix and encoded again, and that   *)
(* may give more tokens than were taken: a window that begins inside a     *)
(* word is encoded differently.  MaxGrowth bounds how many.                *)
(***************************************************************************)
EXTENDS Integers

CONSTANTS
    ModelMax,       \* EmbeddingModelSpec.max_tokens
    Reserve,        \* EmbeddingModelSpec.reserve
    SpecialTokens,  \* EmbeddingModelSpec.special_tokens
    Overlap,        \* EmbeddingModelSpec.overlap_tokens
    MaxGrowth,      \* tokens that encoding a decoded window adds, at most
    MaxBody,        \* bound: tokens of a chunk's body
    MaxPrefix,      \* bound: tokens of a heading prefix
    LastChunk       \* bound: chunks of a document

\* content_budget, and effective_max_tokens before it.
EffectiveMax == ModelMax - Reserve
\* Mutant: the tokens the model adds are not counted.
ContentBudgetPlain == EffectiveMax
ContentBudget == EffectiveMax - SpecialTokens

\* What EmbeddingModelSpec and the splitter's constructor check.
ASSUME SpecAssumption ==
    /\ ModelMax \in Nat /\ Reserve \in Nat /\ SpecialTokens \in Nat
    /\ EffectiveMax - SpecialTokens > 0
    /\ Overlap \in Nat /\ Overlap < EffectiveMax - SpecialTokens
ASSUME TextAssumption ==
    /\ MaxGrowth \in Nat /\ MaxBody \in Nat /\ MaxPrefix \in Nat /\ LastChunk \in Nat

VARIABLES
    pc,         \* "chunker", "split", "done", or why chunking failed
    chunk,      \* docling chunks taken so far
    prefix,     \* tokens of the chunk's prefix
    body,       \* tokens of the chunk's body
    start,      \* body tokens before the next window
    covered,    \* the body's tokens 1..covered are each in some piece
    count       \* model tokens of the last piece, 0 before the first

chunkVars == <<pc, chunk, prefix, body, start, covered, count>>

ChunkTypeOK ==
    /\ pc \in {"chunker", "split", "done", "prefix_too_long", "exceeds_limit"}
    /\ chunk \in 0..LastChunk
    /\ prefix \in 0..MaxPrefix
    /\ body \in 0..(MaxBody + MaxPrefix)
    /\ start \in 0..(MaxBody + MaxPrefix)
    /\ covered \in 0..(MaxBody + MaxPrefix)
    /\ count \in Nat

ChunkInit ==
    /\ pc = "chunker"
    /\ chunk = 0 /\ prefix = 0 /\ body = 0 /\ start = 0 /\ covered = 0 /\ count = 0

Larger(a, b) == IF a >= b THEN a ELSE b
Smaller(a, b) == IF a <= b THEN a ELSE b

\* The tokens of a window, and from one window's start to the next.
BodyLimit == ContentBudget - prefix
\* Mutants: a window that is not longer than the overlap stays where it is;
\* windows do not overlap.
StepStays == Larger(0, BodyLimit - Overlap)
StepWithoutOverlap == BodyLimit
Step == Larger(1, BodyLimit - Overlap)

\* Mutant: what the next window would repeat is taken for done.
IsLastForgetsOverlap == start + BodyLimit + Overlap >= body
IsLast == start + BodyLimit >= body

\* extract_heading_prefix finds the heading by its body or by the metadata; if
\* neither matches, heading and text are the body.
TakesChunk(heading, text, matched) ==
    /\ pc = "chunker" /\ chunk < LastChunk
    /\ chunk' = chunk + 1
    /\ prefix' = IF matched THEN heading ELSE 0
    /\ body' = IF matched THEN text ELSE heading + text
    /\ start' = 0 /\ covered' = 0
    /\ pc' = IF prefix' >= ContentBudget THEN "prefix_too_long" ELSE "split"
    /\ UNCHANGED count

ChunkerEnds ==
    /\ pc = "chunker"
    /\ pc' = "done"
    /\ UNCHANGED <<chunk, prefix, body, start, covered, count>>

\* Mutant: the piece is yielded as it was joined.
FitsUncut(encoded) == {[size |-> encoded, tokens |-> encoded]}

\* fit: the longest prefix of a text's tokens that is encoded again to no more
\* than the budget.  Every longer one was encoded to too many, so it is at most
\* MaxGrowth tokens short of it.
Fits(encoded) ==
    IF encoded <= ContentBudget THEN {[size |-> encoded, tokens |-> encoded]}
    ELSE {cut \in [size : 0..ContentBudget, tokens : 0..ContentBudget] :
            /\ cut.tokens \in cut.size..(cut.size + MaxGrowth)
            /\ cut.size >= ContentBudget - MaxGrowth}

\* A piece is yielded: an empty one is dropped, one over the limit is an error.
Yields(tokens, next) ==
    /\ count' = IF tokens = 0 THEN count ELSE tokens + SpecialTokens
    /\ pc' = IF count' > EffectiveMax THEN "exceeds_limit" ELSE next

\* Without a body the prefix is the piece.
SplitsEmptyBody ==
    /\ pc = "split" /\ body = 0
    /\ Yields(prefix, "chunker")
    /\ UNCHANGED <<chunk, prefix, body, start, covered>>

\* One turn of split's loop.  Encoding again adds growth tokens; what fit cuts
\* off are body tokens at the end of the window.
SplitsWindow(growth) ==
    LET window == Smaller(BodyLimit, body - start)
        encoded == prefix + window + growth
    IN  /\ pc = "split" /\ body > 0
        /\ \E piece \in Fits(encoded) :
              LET kept == Larger(0, window - (encoded - piece.size))
              IN  /\ Yields(piece.tokens, IF IsLast THEN "chunker" ELSE "split")
                  /\ covered' = IF covered >= start
                                THEN Larger(covered, start + kept) ELSE covered
        /\ start' = IF IsLast THEN start ELSE start + Step
        /\ UNCHANGED <<chunk, prefix, body>>

Splits == SplitsEmptyBody \/ \E growth \in 0..MaxGrowth : SplitsWindow(growth)

ChunkNext ==
    \/ \E heading \in 0..MaxPrefix, text \in 0..MaxBody, matched \in BOOLEAN :
          TakesChunk(heading, text, matched)
    \/ ChunkerEnds
    \/ Splits

ChunkSpec == ChunkInit /\ [][ChunkNext]_chunkVars

-----------------------------------------------------------------------------
(***************************************************************************)
(* Properties                                                              *)
(***************************************************************************)

\* What fit may cut off a window is at most this; windows that overlap by as
\* much lose nothing.
MaxCut == 2 * MaxGrowth
OverlapCoversCut == MaxCut <= Overlap /\ MaxCut < BodyLimit

\* Cutting pieces to fit loses no text inside a chunk: what fit removes from a
\* window is in the next one.
NoGap ==
    pc = "split" /\ OverlapCoversCut => start <= covered

\* There is no next window after the last: what fit removes from that one is
\* gone, but it is never more than MaxCut tokens.
TailIsShort ==
    pc = "chunker" /\ OverlapCoversCut => body - covered <= MaxCut

\* The check behind ChunkingError never fails: a piece that fit lets pass has
\* room for the model's special tokens.
PiecesFitModel ==
    pc # "exceeds_limit" /\ count <= EffectiveMax

\* Every chunk comes to an end, whatever its prefix leaves for the body.
ChunkingEnds == pc = "split" ~> pc # "split"
=============================================================================
