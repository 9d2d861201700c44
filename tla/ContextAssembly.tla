-------------------------- MODULE ContextAssembly --------------------------
(***************************************************************************)
(* build_passages (rag/retrieval/context.py): the selected chunks and      *)
(* their neighbours become passages of consecutive chunks, the best first, *)
(* as many as the token budget allows.                                     *)
(***************************************************************************)
EXTENDS Sorting, SequencesExt

CONSTANTS
    Window,             \* neighbor_window
    MaxContextTokens    \* max_context_tokens

ASSUME ContextAssumption == Window \in Nat /\ MaxContextTokens \in Nat

At(c) == <<c.doc, c.index>>

Near(c) == {<<c.doc, i>> : i \in (c.index - Window)..(c.index + Window)}

\* by_pos: a selected chunk rather than a neighbour, the last one if a
\* position was selected twice.
ByPosition(selected, neighbors) ==
    LET here == {At(c) : c \in ToSet(selected) \cup neighbors}
        LastAt(p) == CHOOSE n \in DOMAIN selected :
                        /\ At(selected[n]) = p
                        /\ \A m \in DOMAIN selected : At(selected[m]) = p => m <= n
    IN  [p \in here |-> IF \E c \in ToSet(selected) : At(c) = p
                          THEN selected[LastAt(p)]
                          ELSE CHOOSE c \in neighbors : At(c) = p]

\* The best relevance among the selected chunks a position is near to.
WantedScore(p, selected, relevance) ==
    Max({relevance[c] : c \in {s \in ToSet(selected) : p \in Near(s)}})

\* Mutant: overlapping windows are not merged.
RunsUnmerged(wanted, selected) ==
    LET Upwards(S) == {r \in S \X S : r[1][2] < r[2][2]}
        Around(c) == Sorted(Near(c) \cap wanted, Upwards(Near(c) \cap wanted))
    IN  [n \in DOMAIN selected |-> Around(selected[n])]

\* The maximal intervals of wanted positions, as sequences of positions, in
\* the order of the first selected chunk of their document.
Runs(wanted, selected) ==
    LET Follows(p) == <<p[1], p[2] + 1>>
        Span(p, q) == {<<p[1], i>> : i \in p[2]..q[2]}
        IsRun(p, q) == /\ p[1] = q[1] /\ p[2] <= q[2]
                       /\ Span(p, q) \subseteq wanted
                       /\ Follows(q) \notin wanted /\ <<p[1], p[2] - 1>> \notin wanted
        ends == {r \in wanted \X wanted : IsRun(r[1], r[2])}
        First(d) == CHOOSE n \in DOMAIN selected :
                        /\ selected[n].doc = d
                        /\ \A m \in 1..(n - 1) : selected[m].doc # d
        Before(r, s) == \/ First(r[1][1]) < First(s[1][1])
                        \/ r[1][1] = s[1][1] /\ r[1][2] < s[1][2]
        order == Sorted(ends, {p \in ends \X ends : Before(p[1], p[2])})
    IN  [n \in DOMAIN order |->
            [i \in 1..(order[n][2][2] - order[n][1][2] + 1) |->
                <<order[n][1][1], order[n][1][2] + i - 1>>]]

Cost(chunks, tokens) == SumOf([n \in DOMAIN chunks |-> tokens[At(chunks[n])]])

Passage(chunks, score, tokens) ==
    [chunks |-> chunks, score |-> score, tokens |-> Cost(chunks, tokens)]

TokensUsed(passages) == SumOf([n \in DOMAIN passages |-> passages[n].tokens])

\* Mutant: a run that does not fit is taken as it is if it is the first.
FillBudgetWhole(passages, chunks, score, tokens) ==
    IF TokensUsed(passages) + Cost(chunks, tokens) <= MaxContextTokens \/ passages = <<>>
      THEN Append(passages, Passage(chunks, score, tokens))
      ELSE passages

\* One run: taken if it fits; otherwise skipped, or cut to its first chunk if
\* nothing was taken before.
FillBudget(passages, chunks, score, tokens) ==
    IF TokensUsed(passages) + Cost(chunks, tokens) <= MaxContextTokens
      THEN Append(passages, Passage(chunks, score, tokens))
      ELSE IF passages # <<>> THEN passages
      ELSE <<Passage(<<chunks[1]>>, score, tokens)>>

BuildPassages(selected, neighbors, relevance, tokens) ==
    LET byPos == ByPosition(selected, neighbors)
        wanted == {p \in DOMAIN byPos : \E c \in ToSet(selected) : p \in Near(c)}
        Chunks(run) == [n \in DOMAIN run |-> byPos[run[n]]]
        Score(run) == Max({WantedScore(p, selected, relevance) : p \in ToSet(run)})
        runs == Runs(wanted, selected)
        order == BestFirst({<<Score(runs[n]), n, runs[n]>> : n \in DOMAIN runs})
        taken[n \in 0..Len(order)] ==
            IF n = 0 THEN <<>>
            ELSE FillBudget(taken[n - 1], Chunks(order[n]), Score(order[n]), tokens)
    IN  taken[Len(order)]
=============================================================================
