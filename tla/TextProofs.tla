----------------------------- MODULE TextProofs -----------------------------
(***************************************************************************)
(* What is proved about an upload's bytes and its text.                    *)
(*                                                                         *)
(* The type of a file: it is that of the first HeadBytes, however they     *)
(* arrive, and no name changes what is not text.                           *)
(*                                                                         *)
(* Cleaning, for documents of every length: text is lost only to a table   *)
(* of contents, which has enough items in a row; ordinary text stays, in   *)
(* its order; a second pass would drop nothing.  Its loops are recursive   *)
(* functions, so their results are proved turn by turn: Recursion says     *)
(* that a loop computes something, Induction that an invariant of its      *)
(* turns holds after the last.                                             *)
(*                                                                         *)
(* Chunking, for every model, overlap and text: cutting pieces to fit      *)
(* loses no text between two windows and a bounded tail of each chunk, and *)
(* no piece is over the model's limit.                                     *)
(***************************************************************************)
EXTENDS DocumentText, FiniteSetTheorems, TLAPS

(***************************************************************************)
(* File types                                                              *)
(***************************************************************************)

\* The head is what was read, up to HeadBytes, until the upload is refused for
\* its size.  While the type is open there is room in it; once decided it was
\* full, or everything was read.
HeadInv ==
    /\ read \in Nat /\ head \in Nat
    /\ file = NoFile => read = 0
    /\ file # NoFile => file \in Files /\ read <= file.size
    /\ file # NoFile /\ mime # "too_large" => head = Least(HeadBytes, read)
    /\ file # NoFile /\ mime = "none" => head < HeadBytes

\* The inductive invariant of an upload.
FileInv == HeadInv /\ ChunksDoNotMatter

\* What HeadAssumption says of the constants, and Files of a file's size.
LEMMA HeadConstants ==
    HeadBytes \in Nat /\ SniffWindow \in Nat /\ MaxBytes \in Nat
    /\ 0 < HeadBytes /\ \A f \in Files : f.size \in Nat \ {0}
BY HeadAssumption DEF Files

\* A type is none of the three answers that are not decided yet or refused for
\* the size.
LEMMA DetectedIsDecided ==
    ASSUME NEW f, NEW n, NEW ext
    PROVE  DetectMime(f, n, ext) \notin {"none", "too_large"}
BY DEF DetectMime, ALLOWED_MIMES, PDF, DOCX

\* Nothing is read at first.
LEMMA FileInvInit == Init => FileInv
BY HeadConstants DEF Init, FileInit, FileInv, HeadInv, ChunksDoNotMatter, Least, Files, NoFile

\* Every chunk, the end of the stream and the answer keep it.
LEMMA FileInvStep == FileInv /\ [Next]_textVars => FileInv'
<1> SUFFICES ASSUME FileInv, [Next]_textVars PROVE FileInv'
    OBVIOUS
<1>1. ASSUME NEW n \in 1..(MaxBytes + 1), Reads(n)
      PROVE  FileInv'
  <2>1. /\ file # NoFile /\ file \in Files /\ file.size \in Nat /\ n \in Nat /\ n > 0
        /\ mime \notin Refusals /\ read + n <= file.size /\ read' = read + n
        /\ UNCHANGED <<file, name>>
      BY <1>1, HeadConstants DEF Reads, FileInv, HeadInv, NoFile
  <2>2. CASE read' > MaxBytes
      BY <1>1, <2>1, <2>2 DEF Reads, FileInv, HeadInv, ChunksDoNotMatter
  <2>3. CASE ~(read' > MaxBytes)
    <3>1. /\ head = Least(HeadBytes, read) /\ head' = Least(HeadBytes, head + n)
          /\ head' = Least(HeadBytes, read')
          /\ mime' = IF head < HeadBytes /\ head' = HeadBytes
                     THEN DetectMime(file, head', name) ELSE mime
        BY <1>1, <2>1, <2>3, HeadConstants DEF Reads, FileInv, HeadInv, Least, Refusals
    <3>2. head' = HeadBytes => head' = Least(file.size, HeadBytes)
        BY <2>1, <3>1, HeadConstants DEF Least
    <3>3. CASE head < HeadBytes /\ head' = HeadBytes
        BY <2>1, <3>1, <3>2, <3>3, DetectedIsDecided, HeadConstants
           DEF FileInv, HeadInv, ChunksDoNotMatter
    <3>4. CASE ~(head < HeadBytes /\ head' = HeadBytes)
      <4>1. mime' = "none" => head' < HeadBytes
          BY <2>1, <3>1, <3>4, HeadConstants DEF FileInv, HeadInv, Least
      <4> QED BY <2>1, <3>1, <3>4, <4>1, HeadConstants
              DEF FileInv, HeadInv, ChunksDoNotMatter, Least
    <3> QED BY <3>3, <3>4
  <2> QED BY <2>2, <2>3
<1>2. CASE StreamEnds
  <2>1. head = Least(file.size, HeadBytes)
      BY <1>2, HeadConstants DEF StreamEnds, FileInv, HeadInv, Least
  <2> QED BY <1>2, <2>1, DetectedIsDecided DEF StreamEnds, FileInv, HeadInv, ChunksDoNotMatter
<1>3. CASE Returns
    BY <1>3 DEF Returns, FileInv, HeadInv, ChunksDoNotMatter
<1>4. CASE UNCHANGED fileVars
    BY <1>4 DEF fileVars, FileInv, HeadInv, ChunksDoNotMatter
<1> QED BY <1>1, <1>2, <1>3, <1>4 DEF Next, FileNext, textVars

\* A file that is being read is one of Files, its reading stays in bounds, and
\* the type is one of those the upload may answer.
LEMMA FileTypeInvStep == FileInv /\ FileTypeOK /\ [Next]_textVars => FileTypeOK'
<1> SUFFICES ASSUME FileInv, FileTypeOK, [Next]_textVars PROVE FileTypeOK'
    OBVIOUS
<1>1. \A f, n, ext : DetectMime(f, n, ext) \in ALLOWED_MIMES \cup Refusals
    BY DEF DetectMime, Refusals
<1>2. ASSUME NEW n \in 1..(MaxBytes + 1), Reads(n) PROVE FileTypeOK'
  <2>1. n \in Nat /\ read \in Nat /\ head \in 0..HeadBytes /\ read + n <= file.size
        /\ read' = read + n /\ UNCHANGED <<file, name>>
      BY <1>2, HeadConstants DEF Reads, FileInv, HeadInv, FileTypeOK
  <2>2. file.size \in Nat /\ file.size <= MaxBytes + 1
    <3>1. CASE file = NoFile
        BY <3>1, HeadConstants DEF NoFile
    <3>2. CASE file \in Files
        BY <3>2, HeadConstants DEF Files
    <3> QED BY <3>1, <3>2 DEF FileTypeOK
  <2>3. read' \in 0..(MaxBytes + 1)
      BY <2>1, <2>2, HeadConstants
  <2>4. head' \in 0..HeadBytes
      BY <1>2, <2>1, HeadConstants DEF Reads, Least
  <2>5. mime' \in {"none"} \cup ALLOWED_MIMES \cup Refusals
      BY <1>1, <1>2 DEF Reads, FileTypeOK, Refusals
  <2> QED BY <2>1, <2>3, <2>4, <2>5 DEF FileTypeOK
<1>3. CASE StreamEnds
    BY <1>1, <1>3 DEF StreamEnds, FileTypeOK
<1>4. CASE Returns
    BY <1>4, HeadConstants DEF Returns, FileTypeOK
<1>5. CASE UNCHANGED fileVars
    BY <1>5 DEF fileVars, FileTypeOK
<1> QED BY <1>2, <1>3, <1>4, <1>5 DEF Next, FileNext, textVars

\* So it holds throughout.
LEMMA FileInvCorrect == FairSpec => []FileInv
BY FileInvInit, FileInvStep, PTL DEF FairSpec

\* However the client cuts the body into chunks, the type is that of the first
\* HeadBytes.
THEOREM ChunksDoNotMatterCorrect == FairSpec => []ChunksDoNotMatter
<1>1. FileInv => ChunksDoNotMatter
    BY DEF FileInv
<1> QED BY <1>1, FileInvCorrect, PTL

\* Detection looks at the name only of what is probably text.
LEMMA NotTextIgnoresName ==
    ASSUME NEW f, NEW n, NEW ext, NEW other, ~IsProbablyText(f, n)
    PROVE  DetectMime(f, n, ext) = DetectMime(f, n, other)
BY DEF DetectMime, DetectRaw, SniffText, LibmagicLookup

\* A file that is not text gets the same type under every name.
THEOREM NamesOnlyNameTextCorrect == FairSpec => []NamesOnlyNameText
<1>1. ChunksDoNotMatter => NamesOnlyNameText
  <2>1. \A t \in ALLOWED_MIMES : t \notin {"none", "too_large"}
      BY DEF ALLOWED_MIMES, PDF, DOCX
  <2> QED BY <2>1, NotTextIgnoresName DEF ChunksDoNotMatter, NamesOnlyNameText
<1> QED BY <1>1, ChunksDoNotMatterCorrect, PTL

(***************************************************************************)
(* Loops                                                                   *)
(***************************************************************************)

\* What holds before the first turn and is kept by every turn holds throughout.
LEMMA Induction ==
    ASSUME NEW T, NEW N \in Nat, 0 \in T,
           \A i \in 0..(N - 1) : i \in T => i + 1 \in T
    PROVE  \A n \in 0..N : n \in T
<1> SUFFICES ASSUME \E n \in 0..N : n \notin T PROVE FALSE
    OBVIOUS
<1> DEFINE out == {n \in 0..N : n \notin T}
<1>1. \E n \in out : \A m \in out : ~(m < n)
    <2>1. out \subseteq Nat /\ out # {}
        OBVIOUS
    <2> HIDE DEF out
    <2>2. \E n \in out : \A m \in out : ~(<<m, n>> \in OpToRel(<, Nat))
        BY <2>1, NatLessThanWellFounded, WFMin, Zenon
    <2>3. \A m, n \in out : m < n => <<m, n>> \in OpToRel(<, Nat)
        BY <2>1, Zenon DEF OpToRel
    <2> QED BY <2>2, <2>3, Zenon
<1>2. PICK n \in out : \A m \in out : ~(m < n)
    BY <1>1
<1>3. n \in 1..N /\ n - 1 \in 0..(N - 1) /\ n - 1 \in T
    BY <1>2
<1> QED BY <1>3

\* What a loop of N turns may compute that begins with b and stays in T.
Loops(T, b, N, step) ==
    {f \in [0..N -> T] : f[0] = b /\ \A n \in 1..N : f[n] = step[<<n, f[n - 1]>>]}

\* A loop whose turns stay in T computes something.
LEMMA Recursion ==
    ASSUME NEW T, NEW b \in T, NEW N \in Nat, NEW step \in [(1..N) \X T -> T]
    PROVE  Loops(T, b, N, step) # {}
<1> DEFINE Sol(m) == Loops(T, b, m, step)
           done == {m \in 0..N : Sol(m) # {}}
<1>1. 0 \in done
    <2> DEFINE g == [i \in 0..0 |-> b]
    <2>1. g \in [0..0 -> T] /\ g[0] = b /\ 1..0 = {}
        OBVIOUS
    <2>2. g \in Sol(0)
        <3> HIDE DEF g
        <3> QED BY <2>1 DEF Loops
    <2> HIDE DEF Sol
    <2> QED BY <2>2
<1>2. ASSUME NEW m \in 0..(N - 1), m \in done PROVE m + 1 \in done
    <2>1. PICK f \in Sol(m) : TRUE
        BY <1>2
    <2>2. /\ f \in [0..m -> T] /\ f[0] = b
          /\ \A n \in 1..m : f[n] = step[<<n, f[n - 1]>>]
        BY <2>1 DEF Loops
    <2> DEFINE x == step[<<m + 1, f[m]>>]
               g == [n \in 0..(m + 1) |-> IF n = m + 1 THEN x ELSE f[n]]
    <2>3. x \in T
        BY <2>2
    <2>4. g \in [0..(m + 1) -> T]
        BY <2>2, <2>3
    <2>5. g[m + 1] = x /\ \A n \in 0..m : g[n] = f[n]
        OBVIOUS
    <2> HIDE DEF g
    <2>6. ASSUME NEW n \in 1..(m + 1) PROVE g[n] = step[<<n, g[n - 1]>>]
        <3>1. CASE n = m + 1
            <4>1. n - 1 = m /\ m \in 0..m
                BY <3>1
            <4>2. g[n - 1] = f[m]
                BY <2>5, <4>1
            <4> QED BY <2>5, <3>1, <4>1, <4>2
        <3>2. CASE n \in 1..m
            BY <2>2, <2>5, <3>2
        <3> QED BY <3>1, <3>2
    <2>7. g[0] = b
        BY <2>2, <2>5
    <2>8. g \in Sol(m + 1)
        BY <2>4, <2>6, <2>7 DEF Loops
    <2> HIDE DEF Sol
    <2> QED BY <2>8
<1>3. N \in done
    <2> HIDE DEF done
    <2> QED BY <1>1, <1>2, Induction
<1> QED BY <1>3

(***************************************************************************)
(* Cleaning: the loops                                                     *)
(***************************************************************************)

\* The loop of Only, turn by turn.
OnlyLoops(T, s, A) ==
    {kept \in [0..Len(s) -> Seq(T)] :
        /\ Only(s, A) = kept[Len(s)]
        /\ kept[0] = <<>>
        /\ \A n \in 1..Len(s) :
              kept[n] = IF s[n] \in A THEN Append(kept[n - 1], s[n]) ELSE kept[n - 1]}

\* Only is what its loop computes.
LEMMA OnlyLoop ==
    ASSUME NEW T, NEW s \in Seq(T), NEW A
    PROVE  OnlyLoops(T, s, A) # {}
<1> DEFINE N == Len(s)
           Turn(n, x) == IF s[n] \in A THEN Append(x, s[n]) ELSE x
           Body(f) == [n \in 0..N |-> IF n = 0 THEN <<>>
                                      ELSE IF s[n] \in A THEN Append(f[n - 1], s[n])
                                      ELSE f[n - 1]]
           kept == CHOOSE f : f = Body(f)
           step == [y \in (1..N) \X Seq(T) |-> Turn(y[1], y[2])]
<1>1. Only(s, A) = kept[N]
    BY DEF Only
<1>2. N \in Nat /\ <<>> \in Seq(T) /\ \A n \in 1..N, x \in Seq(T) : Turn(n, x) \in Seq(T)
    OBVIOUS
<1> HIDE DEF N, Turn
<1>3. step \in [(1..N) \X Seq(T) -> Seq(T)] /\ \A n \in 1..N, x \in Seq(T) : step[<<n, x>>] = Turn(n, x)
    BY <1>2
<1>4. PICK f \in [0..N -> Seq(T)] : f[0] = <<>> /\ \A n \in 1..N : f[n] = step[<<n, f[n - 1]>>]
    <2> HIDE DEF step
    <2>1. Loops(Seq(T), <<>>, N, step) # {}
        BY <1>2, <1>3, Recursion
    <2> QED BY <2>1 DEF Loops
<1> HIDE DEF step
<1>5. ASSUME NEW n \in 1..N PROVE f[n] = Turn(n, f[n - 1])
    <2>1. n - 1 \in 0..N
        BY <1>2
    <2> QED BY <1>3, <1>4, <2>1
<1>6. f = Body(f)
    <2>1. \A n \in 0..N : n = 0 \/ n \in 1..N
        BY <1>2
    <2>2. \A n \in 0..N : f[n] = IF n = 0 THEN <<>>
                                 ELSE IF s[n] \in A THEN Append(f[n - 1], s[n])
                                 ELSE f[n - 1]
        BY <1>4, <1>5, <2>1 DEF Turn
    <2> QED BY <1>4, <2>2
<1>7. kept = Body(kept)
    <2> HIDE DEF Body
    <2> QED BY <1>6, Zenon
<1> HIDE DEF kept
<1>8. kept[0] = <<>> /\ \A n \in 1..N : kept[n] = Turn(n, kept[n - 1])
    <2>1. \A n \in 0..N : kept[n] = IF n = 0 THEN <<>>
                                    ELSE IF s[n] \in A THEN Append(kept[n - 1], s[n])
                                    ELSE kept[n - 1]
        BY <1>7, Zenon
    <2> HIDE DEF Body
    <2> QED BY <1>2, <2>1 DEF Turn
<1> DEFINE U == {n \in 0..N : kept[n] \in Seq(T)}
<1>9. \A n \in 0..N : n \in U
    <2>1. 0 \in U
        <3>1. 0 \in 0..N
            BY <1>2
        <3>2. kept[0] \in Seq(T)
            BY <1>2, <1>8, Zenon
        <3> QED BY <3>1, <3>2
    <2>2. ASSUME NEW i \in 0..(N - 1), i \in U PROVE i + 1 \in U
        <3>1. i + 1 \in 1..N /\ (i + 1) - 1 = i /\ i + 1 \in 0..N
            BY <1>2
        <3>2. kept[i] \in Seq(T) /\ kept[i + 1] = Turn(i + 1, kept[i])
            BY <1>8, <2>2, <3>1
        <3>3. Turn(i + 1, kept[i]) \in Seq(T)
            BY <1>2, <3>1, <3>2
        <3> QED BY <3>1, <3>2, <3>3
    <2> HIDE DEF U
    <2> QED BY <1>2, <2>1, <2>2, Induction
<1>10. kept \in [0..N -> Seq(T)]
    BY <1>7, <1>9
<1> HIDE DEF Body
<1>11. kept \in OnlyLoops(T, s, A)
    BY <1>1, <1>8, <1>10 DEF OnlyLoops, N, Turn, kept
<1> QED BY <1>11

\* Items of two lists that are wanted at the same places and are the same
\* there.
LEMMA OnlySame ==
    ASSUME NEW T, NEW s \in Seq(T), NEW t \in Seq(T), Len(s) = Len(t), NEW A, NEW B,
           \A n \in 1..Len(s) : (s[n] \in A <=> t[n] \in B) /\ (s[n] \in A => s[n] = t[n])
    PROVE  Only(s, A) = Only(t, B)
<1> DEFINE N == Len(s)
<1>1. PICK f \in OnlyLoops(T, s, A) : TRUE
    BY OnlyLoop
<1>2. PICK g \in OnlyLoops(T, t, B) : TRUE
    BY OnlyLoop
<1>3. /\ f[0] = <<>> /\ Only(s, A) = f[N]
      /\ \A n \in 1..N : f[n] = IF s[n] \in A THEN Append(f[n - 1], s[n]) ELSE f[n - 1]
    BY <1>1 DEF OnlyLoops
<1>4. /\ g[0] = <<>> /\ Only(t, B) = g[N]
      /\ \A n \in 1..N : g[n] = IF t[n] \in B THEN Append(g[n - 1], t[n]) ELSE g[n - 1]
    BY <1>2 DEF OnlyLoops
<1> DEFINE U == {n \in 0..N : f[n] = g[n]}
<1>5. N \in Nat /\ 0 \in U
    BY <1>3, <1>4
<1>6. ASSUME NEW i \in 0..(N - 1), i \in U PROVE i + 1 \in U
    <2>1. i + 1 \in 1..N /\ (i + 1) - 1 = i /\ i + 1 \in 0..N
        BY <1>5
    <2>2. f[i + 1] = g[i + 1]
        BY <1>3, <1>4, <1>6, <2>1
    <2> QED BY <2>1, <2>2
<1>7. \A n \in 0..N : n \in U
    <2> HIDE DEF U, N
    <2> QED BY <1>5, <1>6, Induction
<1> QED BY <1>3, <1>4, <1>5, <1>7

\* An item at the end is added if it is wanted.
LEMMA OnlyAppend ==
    ASSUME NEW T, NEW s \in Seq(T), NEW x \in T, NEW A
    PROVE  /\ Only(<<>>, A) = <<>>
           /\ Only(Append(s, x), A) = IF x \in A THEN Append(Only(s, A), x) ELSE Only(s, A)
<1> DEFINE t == Append(s, x)
           N == Len(s)
<1>1. t \in Seq(T) /\ Len(t) = N + 1 /\ t[N + 1] = x /\ N \in Nat /\ \A i \in 1..N : t[i] = s[i]
    OBVIOUS
<1>2. Only(<<>>, A) = <<>>
    <2>1. <<>> \in Seq(T) /\ Len(<<>>) = 0
        OBVIOUS
    <2>2. PICK f \in OnlyLoops(T, <<>>, A) : TRUE
        BY <2>1, OnlyLoop
    <2> QED BY <2>1, <2>2 DEF OnlyLoops
<1> HIDE DEF t, N
<1>3. PICK f \in OnlyLoops(T, s, A) : TRUE
    BY OnlyLoop
<1>4. PICK g \in OnlyLoops(T, t, A) : TRUE
    BY <1>1, OnlyLoop
<1>5. /\ f[0] = <<>> /\ Only(s, A) = f[N]
      /\ \A n \in 1..N : f[n] = IF s[n] \in A THEN Append(f[n - 1], s[n]) ELSE f[n - 1]
    BY <1>3 DEF OnlyLoops, N
<1>6. /\ g[0] = <<>> /\ Only(t, A) = g[N + 1]
      /\ \A n \in 1..(N + 1) : g[n] = IF t[n] \in A THEN Append(g[n - 1], t[n]) ELSE g[n - 1]
    BY <1>1, <1>4 DEF OnlyLoops
<1> DEFINE U == {n \in 0..N : f[n] = g[n]}
<1>7. 0 \in U
    BY <1>1, <1>5, <1>6
<1>8. ASSUME NEW i \in 0..(N - 1), i \in U PROVE i + 1 \in U
    <2>1. i + 1 \in 1..N /\ i + 1 \in 1..(N + 1) /\ (i + 1) - 1 = i /\ i + 1 \in 0..N
        BY <1>1
    <2>2. f[i + 1] = g[i + 1]
        BY <1>1, <1>5, <1>6, <1>8, <2>1
    <2> QED BY <2>1, <2>2
<1>9. \A n \in 0..N : n \in U
    <2> HIDE DEF U
    <2> QED BY <1>1, <1>7, <1>8, Induction
<1>10. N + 1 \in 1..(N + 1) /\ (N + 1) - 1 = N /\ N \in U
    BY <1>1, <1>9
<1> QED BY <1>1, <1>2, <1>5, <1>6, <1>10 DEF t

\* What is kept of what was kept.
LEMMA OnlyOnly ==
    ASSUME NEW T, NEW s \in Seq(T), NEW A, NEW B
    PROVE  Only(Only(s, A), B) = Only(s, A \cap B)
<1> DEFINE N == Len(s)
<1>1. PICK f \in OnlyLoops(T, s, A) : TRUE
    BY OnlyLoop
<1>2. PICK g \in OnlyLoops(T, s, A \cap B) : TRUE
    BY OnlyLoop
<1>3. /\ f[0] = <<>> /\ Only(s, A) = f[N] /\ f \in [0..N -> Seq(T)]
      /\ \A n \in 1..N : f[n] = IF s[n] \in A THEN Append(f[n - 1], s[n]) ELSE f[n - 1]
    BY <1>1 DEF OnlyLoops
<1>4. /\ g[0] = <<>> /\ Only(s, A \cap B) = g[N]
      /\ \A n \in 1..N : g[n] = IF s[n] \in A \cap B THEN Append(g[n - 1], s[n]) ELSE g[n - 1]
    BY <1>2 DEF OnlyLoops
<1>5. N \in Nat /\ \A n \in 1..N : s[n] \in T
    OBVIOUS
<1> HIDE DEF N
<1> DEFINE U == {n \in 0..N : Only(f[n], B) = g[n]}
<1>6. 0 \in U
    <2>1. CASE N = 0
        <3>1. Only(<<>>, B) = <<>>
            <4>1. <<>> \in Seq({0}) /\ 0 \in {0}
                OBVIOUS
            <4> QED BY <4>1, OnlyAppend
        <3> QED BY <1>3, <1>4, <1>5, <3>1
    <2>2. CASE N # 0
        <3>1. s[1] \in T
            BY <1>5, <2>2
        <3>2. Only(<<>>, B) = <<>>
            BY <3>1, OnlyAppend
        <3> QED BY <1>3, <1>4, <1>5, <3>2
    <2> QED BY <2>1, <2>2
<1>7. ASSUME NEW i \in 0..(N - 1), i \in U PROVE i + 1 \in U
    <2>1. i + 1 \in 1..N /\ (i + 1) - 1 = i /\ i + 1 \in 0..N /\ i \in 0..N
        BY <1>5
    <2>2. f[i] \in Seq(T) /\ s[i + 1] \in T
        BY <1>3, <1>5, <2>1
    <2>3. Only(Append(f[i], s[i + 1]), B) = IF s[i + 1] \in B THEN Append(Only(f[i], B), s[i + 1])
                                            ELSE Only(f[i], B)
        <3> DEFINE x == f[i]
                   y == s[i + 1]
        <3>1. x \in Seq(T) /\ y \in T
            BY <2>2
        <3> HIDE DEF x, y
        <3>2. Only(Append(x, y), B) = IF y \in B THEN Append(Only(x, B), y) ELSE Only(x, B)
            BY <3>1, OnlyAppend
        <3> QED BY <3>2 DEF x, y
    <2>4. f[i + 1] = IF s[i + 1] \in A THEN Append(f[i], s[i + 1]) ELSE f[i]
        BY <1>3, <2>1
    <2>5. g[i + 1] = IF s[i + 1] \in A \cap B THEN Append(g[i], s[i + 1]) ELSE g[i]
        BY <1>4, <2>1
    <2>6. Only(f[i], B) = g[i]
        BY <1>7
    <2>7. Only(f[i + 1], B) = g[i + 1]
        BY <2>3, <2>4, <2>5, <2>6
    <2> QED BY <2>1, <2>7
<1>8. \A n \in 0..N : n \in U
    <2> HIDE DEF U
    <2> QED BY <1>5, <1>6, <1>7, Induction
<1>9. N \in 0..N
    BY <1>5
<1> QED BY <1>3, <1>4, <1>8, <1>9

\* A list in ascending order keeps it; what is kept is wanted and of the list,
\* and no longer.
LEMMA OnlyKeeps ==
    ASSUME NEW T, NEW s \in Seq(T), NEW A
    PROVE  /\ Only(s, A) \in Seq(T) /\ Len(Only(s, A)) <= Len(s)
           /\ \A j \in 1..Len(Only(s, A)) :
                 Only(s, A)[j] \in A /\ \E n \in 1..Len(s) : Only(s, A)[j] = s[n]
           /\ (T \subseteq Int /\ \A m, n \in 1..Len(s) : m < n => s[m] < s[n])
                 => \A i, j \in 1..Len(Only(s, A)) : i < j => Only(s, A)[i] < Only(s, A)[j]
<1> DEFINE N == Len(s)
           Up == T \subseteq Int /\ \A m, n \in 1..N : m < n => s[m] < s[n]
           Keeps(x, n) ==
              /\ Len(x) <= n
              /\ \A j \in 1..Len(x) : x[j] \in A /\ \E m \in 1..n : x[j] = s[m]
              /\ Up => \A i, j \in 1..Len(x) : i < j => x[i] < x[j]
<1>1. PICK f \in OnlyLoops(T, s, A) : TRUE
    BY OnlyLoop
<1>2. /\ f[0] = <<>> /\ Only(s, A) = f[N] /\ f \in [0..N -> Seq(T)]
      /\ \A n \in 1..N : f[n] = IF s[n] \in A THEN Append(f[n - 1], s[n]) ELSE f[n - 1]
    BY <1>1 DEF OnlyLoops
<1>3. N \in Nat /\ \A n \in 1..N : s[n] \in T
    OBVIOUS
<1> HIDE DEF N, Up
<1> DEFINE U == {n \in 0..N : Keeps(f[n], n)}
<1>4. 0 \in U
    BY <1>2, <1>3
<1>5. ASSUME NEW k \in 0..(N - 1), k \in U PROVE k + 1 \in U
    <2> DEFINE x == f[k]
               y == s[k + 1]
    <2>1. k + 1 \in 1..N /\ (k + 1) - 1 = k /\ k + 1 \in 0..N /\ k \in 0..N /\ 1..k \subseteq 1..(k + 1)
        BY <1>3
    <2>2. x \in Seq(T) /\ y \in T /\ Keeps(x, k)
        BY <1>2, <1>3, <1>5, <2>1
    <2>3. f[k + 1] = IF y \in A THEN Append(x, y) ELSE x
        BY <1>2, <2>1
    <2> HIDE DEF x
    <2>4. CASE y \in A
        <3> DEFINE z == Append(x, y)
                   L == Len(x)
        <3>1. L \in Nat /\ L <= k /\ Len(z) = L + 1 /\ z[L + 1] = y /\ \A j \in 1..L : z[j] = x[j]
            BY <2>2
        <3> HIDE DEF z, L
        <3>2. \A j \in 1..(L + 1) : j \in 1..L \/ j = L + 1
            BY <3>1
        <3>3. ASSUME NEW j \in 1..(L + 1) PROVE z[j] \in A /\ \E m \in 1..(k + 1) : z[j] = s[m]
            <4>1. CASE j \in 1..L
                BY <2>1, <2>2, <3>1, <4>1 DEF L
            <4>2. CASE j = L + 1
                <5>1. k + 1 \in 1..(k + 1)
                    BY <1>3
                <5> QED BY <2>4, <3>1, <4>2, <5>1
            <4> QED BY <3>2, <4>1, <4>2
        <3>4. ASSUME Up, NEW i \in 1..(L + 1), NEW j \in 1..(L + 1), i < j PROVE z[i] < z[j]
            <4>1. i \in 1..L
                BY <3>1, <3>4
            <4>2. CASE j \in 1..L
                BY <2>2, <3>1, <3>4, <4>1, <4>2 DEF L
            <4>3. CASE j = L + 1
                <5>1. PICK m \in 1..k : x[i] = s[m]
                    BY <2>2, <4>1 DEF L
                <5>2. m \in 1..N /\ m < k + 1
                    BY <1>3
                <5>3. s[m] < y
                    BY <2>1, <3>4, <5>2 DEF Up
                <5> QED BY <3>1, <4>1, <4>3, <5>1, <5>3
            <4> QED BY <3>2, <4>2, <4>3
        <3>5. Keeps(z, k + 1)
            <4>1. Len(z) <= k + 1
                BY <2>1, <3>1
            <4> QED BY <3>1, <3>3, <3>4, <4>1
        <3> QED BY <2>1, <2>3, <2>4, <3>5 DEF z
    <2>5. CASE y \notin A
        <3>1. Keeps(x, k + 1)
            BY <2>1, <2>2
        <3> HIDE DEF Keeps
        <3> QED BY <2>1, <2>3, <2>5, <3>1
    <2> QED BY <2>4, <2>5
<1>6. \A n \in 0..N : n \in U
    <2> HIDE DEF U
    <2> QED BY <1>3, <1>4, <1>5, Induction
<1>7. N \in 0..N /\ f[N] \in Seq(T)
    BY <1>2, <1>3
<1>8. Keeps(f[N], N)
    BY <1>6, <1>7
<1> QED BY <1>2, <1>7, <1>8 DEF N, Up

\* The length of a run, turn by turn.
LEMMA RunLengthLoop ==
    ASSUME NEW at \in Seq(Int)
    PROVE  \A k \in 1..Len(at) :
              RunLength(at)[k] = IF k > 1 /\ at[k] - at[k - 1] <= MaxGap
                                   THEN RunLength(at)[k - 1] + 1 ELSE 1
<1> DEFINE N == Len(at)
           Turn(k, x) == IF k > 1 /\ at[k] - at[k - 1] <= MaxGap THEN x + 1 ELSE 1
           Body(f) == [k \in DOMAIN at |-> IF k > 1 /\ at[k] - at[k - 1] <= MaxGap
                                             THEN f[k - 1] + 1 ELSE 1]
           length == CHOOSE f : f = Body(f)
           step == [y \in (1..N) \X Nat |-> Turn(y[1], y[2])]
<1>1. RunLength(at) = length
    BY DEF RunLength
<1>2. N \in Nat /\ DOMAIN at = 1..N
    OBVIOUS
<1>3. step \in [(1..N) \X Nat -> Nat] /\ \A k \in 1..N, x \in Nat : step[<<k, x>>] = Turn(k, x)
    <2> HIDE DEF N
    <2> QED OBVIOUS
<1>4. PICK f \in [0..N -> Nat] : \A k \in 1..N : f[k] = step[<<k, f[k - 1]>>]
    <2> HIDE DEF step, N
    <2>1. 0 \in Nat
        OBVIOUS
    <2>2. Loops(Nat, 0, N, step) # {}
        BY <1>2, <1>3, <2>1, Recursion
    <2> QED BY <2>2 DEF Loops
<1> HIDE DEF step, N
<1>5. ASSUME NEW k \in 1..N PROVE f[k] = Turn(k, f[k - 1])
    <2>1. k - 1 \in 0..N
        BY <1>2
    <2> QED BY <1>3, <1>4, <2>1
<1> DEFINE g == [k \in 1..N |-> f[k]]
<1>6. g = Body(g)
    <2>1. ASSUME NEW k \in 1..N
          PROVE  g[k] = IF k > 1 /\ at[k] - at[k - 1] <= MaxGap THEN g[k - 1] + 1 ELSE 1
        <3>1. CASE k > 1
            <4>1. k - 1 \in 1..N
                BY <1>2, <3>1
            <4> QED BY <1>5, <4>1
        <3>2. CASE ~(k > 1)
            BY <1>5, <3>2
        <3> QED BY <3>1, <3>2
    <2> QED BY <1>2, <2>1
<1>7. length = Body(length)
    <2> HIDE DEF Body
    <2> QED BY <1>6, Zenon
<1> HIDE DEF length
<1>8. \A k \in 1..N : length[k] = IF k > 1 /\ at[k] - at[k - 1] <= MaxGap
                                    THEN length[k - 1] + 1 ELSE 1
    BY <1>2, <1>7, Zenon
<1> QED BY <1>1, <1>8 DEF N

\* A run of m items ends with m items without a gap.
LEMMA RunsHaveNoGap ==
    ASSUME NEW at \in Seq(Int), NEW k \in 1..Len(at)
    PROVE  /\ RunLength(at)[k] \in 1..k
           /\ \A j \in (k - RunLength(at)[k] + 1)..(k - 1) : at[j + 1] - at[j] <= MaxGap
<1> DEFINE N == Len(at)
           length == RunLength(at)
           NoGapIn(i, n) == \A j \in (i - n + 1)..(i - 1) : at[j + 1] - at[j] <= MaxGap
           U == {i \in 0..N : i = 0 \/ (length[i] \in 1..i /\ NoGapIn(i, length[i]))}
<1>1. \A i \in 1..N : length[i] = IF i > 1 /\ at[i] - at[i - 1] <= MaxGap
                                    THEN length[i - 1] + 1 ELSE 1
    BY RunLengthLoop
<1>2. N \in Nat /\ k \in 0..N /\ k # 0 /\ 0 \in U
    OBVIOUS
<1> HIDE DEF length, N
<1>3. ASSUME NEW i \in 0..(N - 1), i \in U PROVE i + 1 \in U
    <2>1. i + 1 \in 1..N /\ (i + 1) - 1 = i /\ i + 1 \in 0..N /\ i \in Int
        BY <1>2
    <2>2. CASE i + 1 > 1 /\ at[i + 1] - at[i] <= MaxGap
        <3>1. length[i + 1] = length[i] + 1 /\ length[i] \in 1..i /\ NoGapIn(i, length[i])
            BY <1>1, <1>3, <2>1, <2>2
        <3> DEFINE n == length[i]
        <3>2. n \in Int /\ 1 <= n /\ n <= i /\ length[i + 1] = n + 1
            BY <2>1, <3>1
        <3>3. \A j \in ((i + 1) - (n + 1) + 1)..((i + 1) - 1) : j = i \/ j \in (i - n + 1)..(i - 1)
            <4> HIDE DEF n
            <4> QED BY <2>1, <3>2
        <3> HIDE DEF n
        <3>4. NoGapIn(i, n)
            BY <3>1 DEF n
        <3>5. NoGapIn(i + 1, n + 1)
            BY <2>2, <3>3, <3>4
        <3>6. length[i + 1] \in 1..(i + 1)
            BY <2>1, <3>2
        <3> HIDE DEF NoGapIn
        <3> QED BY <2>1, <3>2, <3>5, <3>6
    <2>3. CASE ~(i + 1 > 1 /\ at[i + 1] - at[i] <= MaxGap)
        <3>1. length[i + 1] = 1
            BY <1>1, <2>1, <2>3
        <3>2. \A j \in ((i + 1) - 1 + 1)..((i + 1) - 1) : FALSE
            BY <2>1
        <3>3. NoGapIn(i + 1, 1)
            BY <3>2
        <3> HIDE DEF NoGapIn
        <3> QED BY <2>1, <3>1, <3>3
    <2> QED BY <2>2, <2>3
<1>4. \A i \in 0..N : i \in U
    <2> HIDE DEF U
    <2> QED BY <1>2, <1>3, Induction
<1> QED BY <1>2, <1>4 DEF length

(***************************************************************************)
(* Cleaning: what is dropped                                               *)
(***************************************************************************)

\* What is not part of a table of contents.
Content == {item \in Items : ~IsToc(item)}

\* Normalising keeps the places of the items.
LEMMA NormalizedType ==
    ASSUME NEW doc \in Seq(Items)
    PROVE  /\ Normalized(doc) \in Seq(Items) /\ Len(Normalized(doc)) = Len(doc)
           /\ \A i \in 1..Len(doc) : Normalized(doc)[i] = CleanText(doc[i])
<1>1. \A item \in Items : CleanText(item) \in Items
    <2> SUFFICES ASSUME NEW item \in Items PROVE CleanText(item) \in Items
        OBVIOUS
    <2>1. CASE item = Ordinary
        BY <2>1 DEF Items, Ordinary, CleanText
    <2>2. CASE item \in [leader : {"dots", "ellipsis"}, pages : PageLists]
        BY <2>2 DEF Items, CleanText
    <2> QED BY <2>1, <2>2 DEF Items
<1>2. Normalized(doc) = [i \in 1..Len(doc) |-> CleanText(doc[i])]
    BY DEF Normalized
<1>3. Len(doc) \in Nat /\ \A i \in 1..Len(doc) : doc[i] \in Items
    OBVIOUS
<1>4. Normalized(doc) \in [1..Len(doc) -> Items]
    BY <1>1, <1>2, <1>3
<1> QED BY <1>2, <1>3, <1>4

\* Normalising keeps what is ordinary and is done after one pass.
LEMMA CleanTextKeeps ==
    ASSUME NEW item \in Items
    PROVE  /\ CleanText(item) = Ordinary <=> item = Ordinary
           /\ CleanText(CleanText(item)) = CleanText(item)
           /\ ~IsToc(Ordinary) /\ Ordinary \in Items
BY DEF Items, Ordinary, CleanText, IsToc

\* Normalising what is normalised changes nothing.
LEMMA NormalizedOnce ==
    ASSUME NEW s \in Seq(Items), \A i \in 1..Len(s) : CleanText(s[i]) = s[i]
    PROVE  Normalized(s) = s
BY DEF Normalized

\* The marked items of a document, in reading order.
LEMMA TocItemsInOrder ==
    ASSUME NEW doc \in Seq(Items)
    PROVE  /\ TocItems(doc) \in Seq(Int)
           /\ \A j \in 1..Len(TocItems(doc)) :
                 TocItems(doc)[j] \in 1..Len(doc) /\ IsToc(doc[TocItems(doc)[j]])
           /\ \A i, j \in 1..Len(TocItems(doc)) : i < j => TocItems(doc)[i] < TocItems(doc)[j]
<1> DEFINE N == Len(doc)
           s == [i \in 1..N |-> i]
           A == {i \in 1..N : IsToc(doc[i])}
<1>1. TocItems(doc) = Only(s, A)
    BY DEF TocItems
<1>2. N \in Nat
    OBVIOUS
<1> HIDE DEF N
<1>3. s \in Seq(Int) /\ Len(s) = N /\ \A m, n \in 1..N : m < n => s[m] < s[n]
    <2>1. s \in [1..N -> Int]
        BY <1>2
    <2>2. \A m, n \in 1..N : m < n => s[m] < s[n]
        OBVIOUS
    <2> HIDE DEF s
    <2> QED BY <1>2, <2>1, <2>2
<1>4. A \subseteq 1..N /\ \A i \in A : IsToc(doc[i])
    OBVIOUS
<1> HIDE DEF s, A
<1>5. /\ Only(s, A) \in Seq(Int)
      /\ \A j \in 1..Len(Only(s, A)) : Only(s, A)[j] \in A
      /\ \A i, j \in 1..Len(Only(s, A)) : i < j => Only(s, A)[i] < Only(s, A)[j]
    BY <1>3, OnlyKeeps
<1> QED BY <1>1, <1>4, <1>5 DEF N

\* A table of contents has MinItems marked items in a row.
LEMMA TocHasRow ==
    ASSUME NEW doc \in Seq(Items), IsTocDocument(doc)
    PROVE  \E row \in SUBSET {i \in 1..Len(doc) : IsToc(doc[i])} :
              /\ Cardinality(row) = MinItems
              /\ \A i \in row : \/ \A k \in row : k <= i
                                \/ \E k \in row : i < k /\ k <= i + MaxGap
<1> DEFINE at == TocItems(doc)
<1>1. /\ at \in Seq(Int)
      /\ \A j \in 1..Len(at) : at[j] \in 1..Len(doc) /\ IsToc(doc[at[j]])
      /\ \A i, j \in 1..Len(at) : i < j => at[i] < at[j]
    BY TocItemsInOrder
<1>2. PICK k \in DOMAIN at : RunLength(at)[k] >= MinItems
    BY DEF IsTocDocument
<1> HIDE DEF at
<1>3. k \in 1..Len(at) /\ k \in Int /\ MinItems \in Int /\ MinItems >= 2 /\ MaxGap \in Int
    BY <1>1, TocAssumption
<1> DEFINE n == RunLength(at)[k]
           first == k - MinItems + 1
<1>4. /\ n \in 1..k
      /\ \A j \in (k - n + 1)..(k - 1) : at[j + 1] - at[j] <= MaxGap
    BY <1>1, <1>3, RunsHaveNoGap
<1>5. n >= MinItems
    BY <1>2
<1> HIDE DEF n
<1>6. /\ first \in Int /\ 1 <= first /\ first < k
      /\ \A j \in first..k : j \in 1..Len(at)
      /\ \A j \in first..(k - 1) : at[j + 1] - at[j] <= MaxGap
    <2> DEFINE N == Len(at)
    <2>1. N \in Nat /\ k \in 1..N
        BY <1>1, <1>3
    <2> HIDE DEF N
    <2>2. n \in Int /\ n <= k /\ k <= N /\ k \in Int
        BY <1>4, <2>1
    <2>3. first \in Int /\ 1 <= first /\ first < k /\ k - n + 1 <= first
        BY <1>3, <1>5, <2>2
    <2> HIDE DEF first
    <2>4. \A j \in first..k : j \in 1..N
        BY <2>1, <2>2, <2>3
    <2>5. \A j \in first..(k - 1) : j \in (k - n + 1)..(k - 1)
        BY <2>2, <2>3
    <2> QED BY <1>4, <2>3, <2>4, <2>5, Zenon DEF N
<1> DEFINE row == {at[j] : j \in first..k}
<1>7. Cardinality(row) = MinItems
    <2> DEFINE D == first..k
               f == [j \in D |-> at[j]]
    <2>1. IsFiniteSet(D) /\ Cardinality(D) = MinItems
        <3>1. k - first + 1 = MinItems /\ ~(first > k)
            BY <1>3, <1>6
        <3> HIDE DEF first
        <3> QED BY <1>3, <1>6, <3>1, FS_Interval
    <2>2. f \in [D -> row] /\ \A j \in D : f[j] = at[j]
        OBVIOUS
    <2>3. \A i, j \in D : f[i] = f[j] => i = j
        <3> SUFFICES ASSUME NEW i \in D, NEW j \in D, at[i] = at[j], i # j PROVE FALSE
            BY <2>2
        <3>1. i \in 1..Len(at) /\ j \in 1..Len(at) /\ at[i] \in Int /\ at[j] \in Int
            BY <1>1, <1>6
        <3>2. i < j \/ j < i
            BY <3>1
        <3> QED BY <1>1, <3>1, <3>2
    <2>4. \A y \in row : \E j \in D : f[j] = y
        OBVIOUS
    <2> HIDE DEF f, D, row, first
    <2>5. f \in Bijection(D, row)
        BY <2>2, <2>3, <2>4 DEF Bijection, Injection, IsInjective, Surjection
    <2>6. ExistsBijection(D, row)
        BY <2>5 DEF ExistsBijection
    <2> QED BY <2>1, <2>6, FS_Bijection
<1>8. row \subseteq {i \in 1..Len(doc) : IsToc(doc[i])}
    BY <1>1, <1>6
<1>9. ASSUME NEW i \in row
      PROVE  \/ \A l \in row : l <= i
             \/ \E l \in row : i < l /\ l <= i + MaxGap
    <2>1. PICK j \in first..k : i = at[j]
        OBVIOUS
    <2>2. j \in Int /\ j \in 1..Len(at) /\ at[j] \in Int
        BY <1>1, <1>6, <2>1
    <2>3. CASE j = k
        <3>1. ASSUME NEW l \in row PROVE l <= i
            <4>1. PICK m \in first..k : l = at[m]
                OBVIOUS
            <4>2. m \in 1..Len(at) /\ (m < k \/ m = k) /\ at[m] \in Int
                BY <1>1, <1>6
            <4>3. CASE m = k
                BY <2>1, <2>2, <2>3, <4>1, <4>3
            <4>4. CASE m < k
                <5>1. at[m] < at[k]
                    BY <1>1, <1>3, <4>2, <4>4
                <5> QED BY <2>1, <2>2, <2>3, <4>1, <4>2, <5>1
            <4> QED BY <4>2, <4>3, <4>4
        <3> QED BY <3>1
    <2>4. CASE j # k
        <3>1. j \in first..(k - 1) /\ j + 1 \in first..k /\ j < j + 1
            BY <1>3, <1>6, <2>2, <2>4
        <3>2. j + 1 \in 1..Len(at) /\ at[j + 1] \in Int /\ at[j + 1] - at[j] <= MaxGap
            BY <1>1, <1>6, <3>1
        <3>3. at[j] < at[j + 1]
            BY <1>1, <2>2, <3>1, <3>2
        <3>4. at[j + 1] \in row /\ i < at[j + 1] /\ at[j + 1] <= i + MaxGap
            BY <1>3, <2>1, <2>2, <3>1, <3>2, <3>3
        <3> QED BY <3>4
    <2> QED BY <2>3, <2>4
<1> HIDE DEF row
<1> QED BY <1>7, <1>8, <1>9

\* What clean_document does to any document.
LEMMA CleanDocumentPrunes ==
    ASSUME NEW doc \in Seq(Items)
    PROVE  /\ Len(CleanDocument(doc)) < Len(doc) =>
                 \E row \in SUBSET {i \in 1..Len(doc) : IsToc(CleanText(doc[i]))} :
                     /\ Cardinality(row) = MinItems
                     /\ \A i \in row : \/ \A k \in row : k <= i
                                       \/ \E k \in row : i < k /\ k <= i + MaxGap
           /\ Only(CleanDocument(doc), {Ordinary}) = Only(doc, {Ordinary})
           /\ CleanDocument(CleanDocument(doc)) = CleanDocument(doc)
           /\ CleanDocument(doc) \in Seq(Items) /\ Len(CleanDocument(doc)) <= Len(doc)
<1> DEFINE clean == Normalized(doc)
           Result == CleanDocument(doc)
           marked == {i \in 1..Len(doc) : IsToc(CleanText(doc[i]))}
<1>1. /\ clean \in Seq(Items) /\ Len(clean) = Len(doc)
      /\ \A i \in 1..Len(doc) : clean[i] = CleanText(doc[i])
    BY NormalizedType
<1>2. \A i \in 1..Len(doc) : doc[i] \in Items
    OBVIOUS
<1>3. Result = IF IsTocDocument(clean) THEN Only(clean, Content) ELSE clean
    BY DEF CleanDocument, Content
<1>4. marked = {i \in 1..Len(clean) : IsToc(clean[i])}
    BY <1>1
<1> HIDE DEF clean, Result, marked
<1>5. \A i \in 1..Len(clean) : CleanText(clean[i]) = clean[i]
    BY <1>1, <1>2, CleanTextKeeps
<1>6. Only(clean, {Ordinary}) = Only(doc, {Ordinary})
    <2>1. \A i \in 1..Len(clean) : /\ clean[i] \in {Ordinary} <=> doc[i] \in {Ordinary}
                                   /\ clean[i] \in {Ordinary} => clean[i] = doc[i]
        BY <1>1, <1>2, CleanTextKeeps
    <2> QED BY <1>1, <2>1, OnlySame
<1>7. CASE ~IsTocDocument(clean)
    <2>1. Result = clean
        BY <1>3, <1>7
    <2>2. Normalized(clean) = clean
        BY <1>1, <1>5, NormalizedOnce
    <2>3. CleanDocument(clean) = clean
        BY <1>7, <2>2 DEF CleanDocument
    <2>4. ~(Len(clean) < Len(doc)) /\ Len(clean) <= Len(doc)
        BY <1>1
    <2> QED BY <1>1, <1>6, <2>1, <2>3, <2>4 DEF Result
<1>8. CASE IsTocDocument(clean)
    <2>1. Result = Only(clean, Content)
        BY <1>3, <1>8
    <2>2. \E row \in SUBSET marked :
              /\ Cardinality(row) = MinItems
              /\ \A i \in row : \/ \A k \in row : k <= i
                                \/ \E k \in row : i < k /\ k <= i + MaxGap
        BY <1>1, <1>4, <1>8, TocHasRow
    <2>3. Only(Result, {Ordinary}) = Only(doc, {Ordinary})
        <3>1. Content \cap {Ordinary} = {Ordinary}
            BY CleanTextKeeps DEF Content, Items
        <3>2. Only(Only(clean, Content), {Ordinary}) = Only(clean, Content \cap {Ordinary})
            BY <1>1, OnlyOnly
        <3> QED BY <1>6, <2>1, <3>1, <3>2
    <2>4. /\ Result \in Seq(Items) /\ Len(Result) <= Len(doc)
          /\ \A i \in 1..Len(Result) : Result[i] \in Content /\ CleanText(Result[i]) = Result[i]
        <3>1. /\ Only(clean, Content) \in Seq(Items) /\ Len(Only(clean, Content)) <= Len(clean)
              /\ \A j \in 1..Len(Only(clean, Content)) :
                    /\ Only(clean, Content)[j] \in Content
                    /\ \E n \in 1..Len(clean) : Only(clean, Content)[j] = clean[n]
            BY <1>1, OnlyKeeps
        <3> QED BY <1>1, <1>5, <2>1, <3>1
    <2>5. Normalized(Result) = Result
        BY <2>4, NormalizedOnce
    <2>6. ~IsTocDocument(Result)
        <3> SUFFICES ASSUME IsTocDocument(Result) PROVE FALSE
            OBVIOUS
        <3> DEFINE at == TocItems(Result)
        <3>1. /\ at \in Seq(Int)
              /\ \A j \in 1..Len(at) : at[j] \in 1..Len(Result) /\ IsToc(Result[at[j]])
            BY <2>4, TocItemsInOrder
        <3>2. Len(at) >= MinItems
            BY DEF IsTocDocument
        <3> HIDE DEF at
        <3>3. 1 \in 1..Len(at)
            BY <3>1, <3>2, TocAssumption
        <3>4. ~IsToc(Result[at[1]])
            BY <2>4, <3>1, <3>3 DEF Content
        <3> QED BY <3>1, <3>3, <3>4
    <2>7. CleanDocument(Result) = Result
        BY <2>5, <2>6 DEF CleanDocument
    <2> QED BY <2>2, <2>3, <2>4, <2>7 DEF Result, marked
<1> QED BY <1>7, <1>8

\* The documents are the lists of at most MaxItems items.
LEMMA DocumentsAreLists ==
    ASSUME NEW doc
    PROVE  doc \in Documents <=> doc \in Seq(Items) /\ Len(doc) <= MaxItems
<1>1. MaxItems \in Nat
    BY TocAssumption
<1>2. ASSUME doc \in Documents PROVE doc \in Seq(Items) /\ Len(doc) <= MaxItems
    <2>1. PICK n \in 0..MaxItems : doc \in [1..n -> Items]
        BY <1>2 DEF Documents
    <2> QED BY <1>1, <2>1
<1>3. ASSUME doc \in Seq(Items), Len(doc) <= MaxItems PROVE doc \in Documents
    <2>1. Len(doc) \in 0..MaxItems /\ doc \in [1..Len(doc) -> Items]
        BY <1>1, <1>3
    <2> QED BY <2>1 DEF Documents
<1> QED BY <1>2, <1>3

\* The inductive invariant of the cleaning stage.
CleanInv == CleanTypeOK /\ TocsArePruned

\* Nothing is parsed at first.
LEMMA CleanInvInit == Init => CleanInv
<1> SUFFICES ASSUME Init PROVE CleanInv
    OBVIOUS
<1>1. stage = "extract" /\ parsed = <<>> /\ cleaned = <<>>
    BY DEF Init, CleanInit
<1>2. <<>> \in Documents
    <2>1. <<>> \in Seq(Items) /\ Len(<<>>) <= MaxItems
        BY TocAssumption
    <2> QED BY <2>1, DocumentsAreLists
<1> QED BY <1>1, <1>2 DEF CleanInv, CleanTypeOK, TocsArePruned

\* do_clean prunes what was parsed.
LEMMA CleansPrunes == CleanInv /\ Cleans => CleanInv'
<1> SUFFICES ASSUME CleanInv, Cleans PROVE CleanInv'
    OBVIOUS
<1>1. parsed \in Documents /\ cleaned' = CleanDocument(parsed) /\ parsed' = parsed /\ stage' = "chunk"
    BY DEF CleanInv, CleanTypeOK, Cleans
<1>2. parsed \in Seq(Items) /\ Len(parsed) <= MaxItems /\ DOMAIN parsed = 1..Len(parsed)
    BY <1>1, DocumentsAreLists
<1>3. Len(CleanDocument(parsed)) < Len(parsed) =>
          \E row \in SUBSET Marked :
              /\ Cardinality(row) = MinItems
              /\ \A i \in row : \/ \A k \in row : k <= i
                                \/ \E k \in row : i < k /\ k <= i + MaxGap
    BY <1>2, CleanDocumentPrunes DEF Marked
<1>4. /\ Only(CleanDocument(parsed), {Ordinary}) = Only(parsed, {Ordinary})
      /\ CleanDocument(CleanDocument(parsed)) = CleanDocument(parsed)
      /\ CleanDocument(parsed) \in Seq(Items) /\ Len(CleanDocument(parsed)) <= Len(parsed)
    BY <1>2, CleanDocumentPrunes
<1>5. CleanDocument(parsed) \in Documents
    <2>1. Len(CleanDocument(parsed)) <= MaxItems
        BY <1>2, <1>4, TocAssumption
    <2> QED BY <1>4, <2>1, DocumentsAreLists
<1>6. Marked' = Marked
    BY <1>1 DEF Marked
<1>7. TocsArePruned'
    BY <1>1, <1>3, <1>4, <1>6 DEF TocsArePruned
<1> QED BY <1>1, <1>5, <1>7 DEF CleanInv, CleanTypeOK

\* So does every other step: none leaves a text in the chunk stage.
LEMMA CleanInvStep == CleanInv /\ [Next]_textVars => CleanInv'
<1> SUFFICES ASSUME CleanInv, [Next]_textVars PROVE CleanInv'
    OBVIOUS
<1>1. CASE UNCHANGED cleanVars
    BY <1>1 DEF CleanInv, CleanTypeOK, TocsArePruned, Marked, cleanVars
<1>2. CASE Parses
    BY <1>2 DEF CleanInv, CleanTypeOK, TocsArePruned, Parses
<1>3. CASE Cleans
    BY <1>3, CleansPrunes
<1>4. CASE LoadsCleaned
    <2>1. stage' = "split" /\ parsed' = <<>> /\ cleaned' = <<>>
        BY <1>4 DEF LoadsCleaned
    <2>2. <<>> \in Documents
        <3>1. <<>> \in Seq(Items) /\ Len(<<>>) <= MaxItems
            BY TocAssumption
        <3> QED BY <3>1, DocumentsAreLists
    <2> QED BY <2>1, <2>2 DEF CleanInv, CleanTypeOK, TocsArePruned
<1> QED BY <1>1, <1>2, <1>3, <1>4 DEF Next, CleanNext, textVars

\* The cleaning stage of every file keeps the invariant.
LEMMA CleanInvCorrect == FairSpec => []CleanInv
BY CleanInvInit, CleanInvStep, PTL DEF FairSpec

\* clean_document loses text only to a table of contents that has MinItems
\* marked items in a row, keeps every ordinary item, and leaves nothing that
\* a second pass would drop, for documents of every length, every page lists
\* and every MinItems and MaxGap.
THEOREM TocsArePrunedCorrect == FairSpec => []TocsArePruned
<1>1. CleanInv => TocsArePruned
    BY DEF CleanInv
<1> QED BY <1>1, CleanInvCorrect, PTL

(***************************************************************************)
(* Chunking                                                                *)
(***************************************************************************)

\* Inside the loop there is room for at least one body token, and a window
\* begins inside the body.
LoopHasRoom ==
    pc = "split" => /\ prefix < ContentBudget
                    /\ body > 0 => start < body
                    /\ body = 0 => start = 0

\* No window reaches beyond the text.
Covers == covered <= body

\* The inductive invariant.  NoGap needs that windows advance by no more than
\* they keep, which LoopHasRoom gives; TailIsShort needs NoGap at the last one.
ChunkInv == ChunkTypeOK /\ LoopHasRoom /\ Covers /\ NoGap /\ TailIsShort /\ PiecesFitModel

\* fit returns a piece within the budget that lacks at most the tokens which
\* encoding the window and encoding the cut added.
LEMMA FitsCuts ==
    ASSUME NEW encoded \in Nat, NEW piece \in Fits(encoded)
    PROVE  /\ piece.size \in Nat /\ piece.tokens \in Nat
           /\ piece.tokens <= ContentBudget
           /\ piece.size <= encoded
           /\ encoded <= ContentBudget => piece.size = encoded
           /\ encoded > ContentBudget => piece.size >= ContentBudget - MaxGrowth
<1>1. ContentBudget \in Nat /\ MaxGrowth \in Nat
    BY SpecAssumption, TextAssumption DEF ContentBudget, EffectiveMax
<1>2. CASE encoded <= ContentBudget
    BY <1>1, <1>2 DEF Fits
<1>3. CASE ~(encoded <= ContentBudget)
    BY <1>1, <1>3 DEF Fits
<1> QED BY <1>2, <1>3

\* A chunk without a body.
LEMMA EmptyBodyKeeps ==
    ASSUME ChunkInv, SplitsEmptyBody
    PROVE  ChunkInv'
BY SpecAssumption, TextAssumption
   DEF ChunkInv, ChunkTypeOK, LoopHasRoom, Covers, NoGap, TailIsShort, PiecesFitModel,
       SplitsEmptyBody, Yields, ContentBudget, EffectiveMax, BodyLimit, OverlapCoversCut, MaxCut

\* One turn of the splitter's loop.
LEMMA WindowKeeps ==
    ASSUME ChunkInv, NEW growth \in 0..MaxGrowth, SplitsWindow(growth)
    PROVE  ChunkInv'
<1> DEFINE window == Smaller(BodyLimit, body - start)
           encoded == prefix + window + growth
<1>1. PICK piece \in Fits(encoded) :
        /\ Yields(piece.tokens, IF IsLast THEN "chunker" ELSE "split")
        /\ covered' = IF covered >= start
                      THEN Larger(covered, start + Larger(0, window - (encoded - piece.size)))
                      ELSE covered
    BY DEF SplitsWindow
<1>2. /\ ModelMax \in Nat /\ Reserve \in Nat /\ SpecialTokens \in Nat /\ Overlap \in Nat
      /\ MaxGrowth \in Nat /\ MaxBody \in Nat /\ MaxPrefix \in Nat /\ LastChunk \in Nat
      /\ ContentBudget \in Nat /\ ContentBudget > 0 /\ Overlap < ContentBudget
      /\ EffectiveMax = ContentBudget + SpecialTokens
    BY SpecAssumption, TextAssumption DEF ContentBudget, EffectiveMax
<1>3. /\ pc = "split" /\ body > 0
      /\ prefix \in Nat /\ body \in Nat /\ start \in Nat /\ covered \in Nat /\ count \in Nat
      /\ prefix < ContentBudget /\ start < body /\ covered <= body
      /\ body <= MaxBody + MaxPrefix
    BY <1>2 DEF SplitsWindow, ChunkInv, ChunkTypeOK, LoopHasRoom, Covers
<1>4. /\ BodyLimit \in Nat /\ BodyLimit > 0 /\ BodyLimit = ContentBudget - prefix
      /\ window \in Nat /\ window > 0 /\ window <= BodyLimit /\ start + window <= body
      /\ ~IsLast => window = BodyLimit /\ start + BodyLimit < body
      /\ IsLast => window = body - start
      /\ encoded \in Nat
    BY <1>2, <1>3 DEF BodyLimit, Smaller, IsLast
<1>5. /\ piece.size \in Nat /\ piece.tokens \in Nat
      /\ piece.tokens <= ContentBudget
      /\ piece.size <= encoded
      /\ encoded <= ContentBudget => piece.size = encoded
      /\ encoded > ContentBudget => piece.size >= ContentBudget - MaxGrowth
    BY <1>4, FitsCuts
<1> DEFINE kept == Larger(0, window - (encoded - piece.size))
<1>6. kept \in Nat /\ kept <= window /\ kept >= window - MaxCut
    <2>1. encoded - piece.size <= MaxCut
        <3>1. CASE encoded <= ContentBudget
            BY <1>2, <1>4, <1>5, <3>1 DEF MaxCut
        <3>2. CASE encoded > ContentBudget
            BY <1>2, <1>3, <1>4, <1>5, <3>2 DEF MaxCut
        <3> QED BY <1>2, <1>4, <3>1, <3>2
    <2> HIDE DEF window, encoded
    <2> QED BY <1>2, <1>4, <1>5, <2>1 DEF Larger, MaxCut
<1>7. covered' = IF covered >= start THEN Larger(covered, start + kept) ELSE covered
    BY <1>1
<1>8. /\ start' = IF IsLast THEN start ELSE start + Step
      /\ UNCHANGED <<chunk, prefix, body>>
    BY DEF SplitsWindow
<1>9. /\ count' = IF piece.tokens = 0 THEN count ELSE piece.tokens + SpecialTokens
      /\ pc' = IF count' > EffectiveMax THEN "exceeds_limit"
               ELSE IF IsLast THEN "chunker" ELSE "split"
    BY <1>1 DEF Yields
<1>10. count' \in Nat /\ count' <= EffectiveMax
    BY <1>2, <1>3, <1>5, <1>9 DEF ChunkInv, PiecesFitModel
<1>11. pc' = IF IsLast THEN "chunker" ELSE "split"
    BY <1>2, <1>9, <1>10
<1>12. Step \in Nat /\ Step <= BodyLimit /\ start' \in Nat /\ start' < body
       /\ (OverlapCoversCut => Step <= BodyLimit - MaxCut)
    BY <1>2, <1>3, <1>4, <1>8 DEF Step, Larger, OverlapCoversCut, MaxCut
<1> HIDE DEF window, encoded, kept
<1>13. covered' \in Nat /\ covered' <= body /\ covered' >= covered
       /\ (covered >= start => covered' >= start + kept)
    BY <1>3, <1>4, <1>6, <1>7 DEF Larger
<1>14. BodyLimit' = BodyLimit /\ OverlapCoversCut' = OverlapCoversCut
    BY <1>8 DEF BodyLimit, OverlapCoversCut, MaxCut, ContentBudget, EffectiveMax
<1>15. OverlapCoversCut => covered >= start
    BY <1>3 DEF ChunkInv, NoGap
<1>16. MaxCut \in Nat
    BY <1>2 DEF MaxCut
<1>17. ChunkTypeOK'
    BY <1>2, <1>3, <1>8, <1>10, <1>11, <1>12, <1>13 DEF ChunkInv, ChunkTypeOK
<1>18. LoopHasRoom' /\ Covers'
    BY <1>2, <1>3, <1>8, <1>11, <1>12, <1>13 DEF LoopHasRoom, Covers, ContentBudget, EffectiveMax
<1>19. NoGap'
    <2> SUFFICES ASSUME ~IsLast, OverlapCoversCut
                 PROVE  start' <= covered'
        BY <1>11, <1>14 DEF NoGap
    <2> QED BY <1>3, <1>4, <1>6, <1>8, <1>12, <1>13, <1>15, <1>16
<1>20. TailIsShort'
    <2> SUFFICES ASSUME IsLast, OverlapCoversCut
                 PROVE  body - covered' <= MaxCut
        BY <1>8, <1>11, <1>14 DEF TailIsShort, MaxCut
    <2>1. window = body - start /\ covered' >= start + kept
        BY <1>4, <1>13, <1>15
    <2>2. covered' >= start + ((body - start) - MaxCut)
        BY <1>3, <1>6, <1>13, <1>16, <2>1
    <2>3. ASSUME NEW b \in Nat, NEW s \in Nat, NEW c \in Nat, NEW m \in Nat,
                 c >= s + ((b - s) - m)
          PROVE  b - c <= m
        BY <2>3
    <2>4. body \in Nat /\ start \in Nat /\ covered' \in Nat /\ MaxCut \in Nat
        BY <1>3, <1>13, <1>16
    <2> QED BY <2>2, <2>3, <2>4
<1>21. PiecesFitModel'
    BY <1>2, <1>10, <1>11 DEF PiecesFitModel, EffectiveMax
<1> QED BY <1>17, <1>18, <1>19, <1>20, <1>21 DEF ChunkInv

\* The invariant is inductive.
LEMMA ChunkInvInductive ==
    /\ ChunkInit => ChunkInv
    /\ ChunkInv /\ [ChunkNext]_chunkVars => ChunkInv'
<1>1. ASSUME ChunkInit PROVE ChunkInv
    BY <1>1, SpecAssumption, TextAssumption
       DEF ChunkInit, ChunkInv, ChunkTypeOK, LoopHasRoom, Covers, NoGap, TailIsShort,
           PiecesFitModel, EffectiveMax, ContentBudget, MaxCut, OverlapCoversCut
<1>2. ASSUME ChunkInv, [ChunkNext]_chunkVars PROVE ChunkInv'
    <2>1. ASSUME NEW heading \in 0..MaxPrefix, NEW text \in 0..MaxBody, NEW matched \in BOOLEAN,
                 TakesChunk(heading, text, matched)
          PROVE  ChunkInv'
        <3>1. prefix' \in 0..MaxPrefix /\ body' \in 0..(MaxBody + MaxPrefix)
            BY <2>1, TextAssumption DEF TakesChunk
        <3>2. chunk' \in 0..LastChunk
            BY <1>2, <2>1, TextAssumption DEF TakesChunk, ChunkInv, ChunkTypeOK
        <3>3. /\ start' = 0 /\ covered' = 0 /\ count' = count
              /\ pc' = IF prefix' >= ContentBudget THEN "prefix_too_long" ELSE "split"
            BY <2>1 DEF TakesChunk
        <3>4. ContentBudget \in Nat /\ ContentBudget' = ContentBudget
            BY SpecAssumption DEF ContentBudget, EffectiveMax
        <3> QED BY <1>2, <3>1, <3>2, <3>3, <3>4, TextAssumption
               DEF ChunkInv, ChunkTypeOK, LoopHasRoom, Covers, NoGap, TailIsShort,
                   PiecesFitModel, EffectiveMax
    <2>2. CASE ChunkerEnds
        BY <1>2, <2>2 DEF ChunkerEnds, ChunkInv, ChunkTypeOK, LoopHasRoom, Covers, NoGap,
           TailIsShort, PiecesFitModel, EffectiveMax
    <2>3. CASE Splits
        BY <1>2, <2>3, EmptyBodyKeeps, WindowKeeps DEF Splits
    <2>4. CASE UNCHANGED chunkVars
        BY <1>2, <2>4 DEF chunkVars, ChunkInv, ChunkTypeOK, LoopHasRoom, Covers, NoGap,
           TailIsShort, PiecesFitModel, OverlapCoversCut, BodyLimit, ContentBudget, EffectiveMax, MaxCut
    <2> QED BY <1>2, <2>1, <2>2, <2>3, <2>4 DEF ChunkNext
<1> QED BY <1>1, <1>2

\* Cutting pieces to the model's limit loses no text between two windows of a
\* chunk, whenever the overlap is at least what a cut may remove.
THEOREM ChunksHaveNoGap == ChunkSpec => []NoGap
<1>1. ChunkInv => NoGap
    BY DEF ChunkInv
<1> QED BY <1>1, ChunkInvInductive, PTL DEF ChunkSpec

\* At the end of a chunk, no more than MaxCut tokens of it are in no piece.
THEOREM ChunksLoseShortTails == ChunkSpec => []TailIsShort
<1>1. ChunkInv => TailIsShort
    BY DEF ChunkInv
<1> QED BY <1>1, ChunkInvInductive, PTL DEF ChunkSpec

\* No piece, with the model's special tokens, is over the limit, so the check
\* that would fail the document with a ChunkingError never fires.
THEOREM ChunksFitModel == ChunkSpec => []PiecesFitModel
<1>1. ChunkInv => PiecesFitModel
    BY DEF ChunkInv
<1> QED BY <1>1, ChunkInvInductive, PTL DEF ChunkSpec

\* The chunk stage of a text that was uploaded and cleaned is a chunking, so the
\* three hold on the whole way of a file.
THEOREM TextIsChunked == FairSpec => ChunkSpec
<1>1. Init => ChunkInit
    BY DEF Init
<1>2. [Next]_textVars => [ChunkNext]_chunkVars
    BY DEF Next, textVars
<1> QED BY <1>1, <1>2, PTL DEF FairSpec, ChunkSpec

\* The splitter's loop goes on only behind where it was, and inside the body.
Advances == pc = "split" /\ pc' = "split" => body' = body /\ start < start' /\ start' < body

\* Every turn of the loop but the last advances by at least a token, however
\* long the prefix and the overlap are: body - start is a natural number that
\* decreases, so the loop of a chunk ends if it goes on (ChunkingEnds).
THEOREM SplitterAdvances == FairSpec => [][Advances]_chunkVars
<1>1. ASSUME ChunkInv, ChunkInv', [ChunkNext]_chunkVars PROVE [Advances]_chunkVars
    <2> SUFFICES ASSUME ChunkNext, pc = "split", pc' = "split"
                 PROVE  body' = body /\ start < start' /\ start' < body
        BY <1>1 DEF Advances
    <2>1. PICK growth \in 0..MaxGrowth : SplitsWindow(growth)
        BY DEF ChunkNext, TakesChunk, ChunkerEnds, Splits, SplitsEmptyBody, Yields
    <2>2. ~IsLast /\ start' = start + Step /\ body' = body /\ body > 0
        BY <2>1 DEF SplitsWindow, Yields
    <2>3. start \in Nat /\ Step \in Int /\ Step >= 1
        BY <1>1, SpecAssumption
           DEF ChunkInv, ChunkTypeOK, Step, Larger, BodyLimit, ContentBudget, EffectiveMax
    <2>4. start' < body'
        BY <1>1, <2>2 DEF ChunkInv, LoopHasRoom
    <2> QED BY <2>2, <2>3, <2>4
<1> QED BY <1>1, TextIsChunked, ChunkInvInductive, PTL DEF ChunkSpec

\* The three parts of a text have their types throughout: what is read of a
\* file, the documents of the cleaning stage, and the windows of the splitter.
THEOREM TextTypeCorrect == FairSpec => []TypeOK
<1>1. Init => FileTypeOK
    BY HeadConstants DEF Init, FileInit, FileTypeOK
<1>2. FairSpec => []FileTypeOK
    BY <1>1, FileInvCorrect, FileTypeInvStep, PTL DEF FairSpec
<1>3. CleanInv => CleanTypeOK
    BY DEF CleanInv
<1>4. ChunkInv => ChunkTypeOK
    BY DEF ChunkInv
<1>5. FairSpec => []CleanTypeOK
    BY <1>3, CleanInvCorrect, PTL
<1>6. FairSpec => []ChunkTypeOK
    BY <1>4, TextIsChunked, ChunkInvInductive, PTL DEF ChunkSpec
<1>7. CleanTypeOK /\ ChunkTypeOK /\ FileTypeOK => TypeOK
    BY DEF TypeOK
<1> QED BY <1>2, <1>5, <1>6, <1>7, PTL
=============================================================================
