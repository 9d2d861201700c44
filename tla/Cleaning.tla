------------------------------ MODULE Cleaning ------------------------------
(***************************************************************************)
(* clean_document: the text items of a parsed document are normalised, and *)
(* if they hold a table of contents its items are dropped, so that they do *)
(* not become chunks.  An item is the leader that its page numbers follow  *)
(* and those numbers; docling may put several entries on one line.         *)
(***************************************************************************)
EXTENDS Naturals, FiniteSets, Sequences, SequencesExt

CONSTANTS
    MinItems,       \* items a table of contents has at least: 5
    MaxGap,         \* from one of its items to the next, at most: 5
    PageLists,      \* bound: the page numbers an item may have
    MaxItems        \* bound: text items of a document

ASSUME TocAssumption ==
    MinItems \in Nat /\ MinItems >= 2 /\ MaxGap \in Nat \ {0} /\ MaxItems \in Nat

\* A dot leader is three dots, or the one character that NFKC makes three of.
Ordinary == [leader |-> "none", pages |-> <<>>]
Items == {Ordinary} \cup [leader : {"dots", "ellipsis"}, pages : PageLists]
Documents == UNION {[1..n -> Items] : n \in 0..MaxItems}

VARIABLES
    stage,      \* the stage to run next: "extract", "clean", "chunk", or "split"
    parsed,     \* the parsed document
    cleaned     \* what clean_document made of it

cleanVars == <<stage, parsed, cleaned>>

CleanTypeOK ==
    /\ stage \in {"extract", "clean", "chunk", "split"}
    /\ parsed \in Documents
    /\ cleaned \in Documents

CleanInit == stage = "extract" /\ parsed = <<>> /\ cleaned = <<>>

\* _clean_text.
CleanText(item) == IF item.leader = "ellipsis" THEN [item EXCEPT !.leader = "dots"] ELSE item
Normalized(doc) == [i \in DOMAIN doc |-> CleanText(doc[i])]

\* _TOC_LINE.
IsToc(item) == item.leader = "dots"

\* The items of a list that are wanted, in its order.
Only(items, wanted) ==
    LET kept[n \in 0..Len(items)] ==
            IF n = 0 THEN <<>>
            ELSE IF items[n] \in wanted THEN Append(kept[n - 1], items[n])
            ELSE kept[n - 1]
    IN  kept[Len(items)]

\* _toc_items, in reading order.
TocItems(doc) == Only([i \in 1..Len(doc) |-> i], {i \in 1..Len(doc) : IsToc(doc[i])})

\* For every item of a list of positions, how many items the run has that ends
\* there.
RunLength(at) ==
    LET length[k \in DOMAIN at] ==
            IF k > 1 /\ at[k] - at[k - 1] <= MaxGap THEN length[k - 1] + 1 ELSE 1
    IN  length

\* More than four fifths of the steps from one page number to the next ascend.
Ascends(pages) ==
    /\ Len(pages) >= 2
    /\ 5 * Cardinality({k \in 2..Len(pages) : pages[k - 1] <= pages[k]}) > 4 * (Len(pages) - 1)

TocPages(doc) ==
    LET at == TocItems(doc) IN FlattenSeq([k \in 1..Len(at) |-> doc[at[k]].pages])

\* Mutant: a gap does not end a run.
IsTocDocumentScattered(doc) ==
    /\ Len(TocItems(doc)) >= MinItems
    /\ Ascends(TocPages(doc))

\* _is_toc_document: enough items, of which enough are clustered, with page
\* numbers that ascend.
IsTocDocument(doc) ==
    LET at == TocItems(doc) IN
    /\ Len(at) >= MinItems
    /\ \E k \in DOMAIN at : RunLength(at)[k] >= MinItems
    /\ Ascends(TocPages(doc))

\* clean_document.
CleanDocument(doc) ==
    LET clean == Normalized(doc) IN
    IF IsTocDocument(clean) THEN Only(clean, {item \in Items : ~IsToc(item)}) ELSE clean

\* docling extracts some document.
Parses ==
    /\ stage = "extract"
    /\ parsed' \in Documents
    /\ stage' = "clean"
    /\ UNCHANGED cleaned

\* do_clean; the parsed artifact stays.
Cleans ==
    /\ stage = "clean"
    /\ cleaned' = CleanDocument(parsed)
    /\ stage' = "chunk"
    /\ UNCHANGED parsed

\* do_chunk loads the cleaned document; the chunks that docling's chunker makes
\* of it are its own affair, so nothing of the items is left.
LoadsCleaned ==
    /\ stage = "chunk"
    /\ stage' = "split" /\ parsed' = <<>> /\ cleaned' = <<>>

CleanNext == Parses \/ Cleans \/ LoadsCleaned

-----------------------------------------------------------------------------
(***************************************************************************)
(* Properties                                                              *)
(***************************************************************************)

Marked == {i \in DOMAIN parsed : IsToc(CleanText(parsed[i]))}

\* Text is lost only to a table of contents, and to all of it: when items are
\* dropped, MinItems marked ones stand in a row with no gap above MaxGap, so a
\* document with a few dot leaders here and there keeps them; ordinary text
\* always stays, in order; and what normalising turns into dot leaders is pruned
\* in the same pass, so the chunker sees nothing that a second pass would drop.
TocsArePruned ==
    stage = "chunk" =>
        /\ Len(cleaned) < Len(parsed) =>
              \E row \in SUBSET Marked :
                  /\ Cardinality(row) = MinItems
                  /\ \A i \in row : \/ \A k \in row : k <= i
                                    \/ \E k \in row : i < k /\ k <= i + MaxGap
        /\ Only(cleaned, {Ordinary}) = Only(parsed, {Ordinary})
        /\ CleanDocument(cleaned) = cleaned
=============================================================================
