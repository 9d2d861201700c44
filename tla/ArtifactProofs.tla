--------------------------- MODULE ArtifactProofs ---------------------------
(***************************************************************************)
(* What is proved about the artifact cache, for any number of documents,   *)
(* pipelines, requests and upgrades: what is filed under a key is of the   *)
(* versions the key names, nothing is torn by one writer alone, and a      *)
(* stage that finds no input was robbed of it.                             *)
(***************************************************************************)
EXTENDS ArtifactCache, SequenceTheorems, TLAPS

Present(k) == k \in Keys /\ final[k] # Absent

\* A whole artifact is as long as its key says, and of its key's versions but
\* for that of extract.
IsNamed(k, content) ==
    Whole(content) => /\ content \in [1..k[1] -> Versions]
                      /\ \A i \in 2..k[1] : content[i] = k[2][i]

\* So is what an execution is about to write.
MadeNamed(x) ==
    x.pc \in {"open", "write"} => \A i \in 2..x.stage : x.made[i] = deployed[i]

ContentNamed == \A k \in Keys : IsNamed(k, final[k]) /\ IsNamed(k, temp[k])

\* A key that is not overlapped has at most one writer, to its temporary file,
\* which is torn until it is written and whole when it is moved.
SoleAt(k) ==
    /\ final[k] # Torn
    /\ \A r \in Writers(k) :
        /\ \A q \in Writers(k) : q = r
        /\ run[r].pc = "write" => run[r].fd = "temp" /\ temp[k] = Torn
        /\ run[r].pc = "replace" => temp[k] # Torn

SoleWriter == \A k \in Keys \ overlapped : SoleAt(k)

\* A pipeline that nobody disturbed has the input of its stage: the key its
\* document records, or the one it filed its last artifact under.
Fed(x) ==
    /\ x.pc = "missing" => x.disturbed
    /\ x.pc \in Unfinished /\ ~x.disturbed =>
        /\ x.stage = Clean /\ doc[x.doc].state # "deleted" => Present(doc[x.doc].parsed)
        /\ x.stage > Clean => Present(CacheKey(x.stage - 1, deployed))
        /\ x.stage = Clean /\ x.pc = "load" => Present(x.parsed)
        /\ x.stage = Extract /\ x.pc = "load" => x.parsed = <<>> \/ Present(x.parsed)
        /\ x.stage # Index /\ x.pc = "finish" => Present(CacheKey(x.stage, deployed))

RunRules(x) == MadeNamed(x) /\ Fed(x)

\* The inductive invariant.
ArtifactInv == TypeOK /\ ContentNamed /\ SoleWriter /\ \A r \in Runs : RunRules(run[r])

(***************************************************************************)
(* Keys and contents                                                       *)
(***************************************************************************)

LEMMA Constants ==
    /\ LastArtifact \in Nat /\ LastArtifact >= 2 /\ Extract..LastArtifact = 1..LastArtifact
    /\ Index = LastArtifact + 1 /\ Index \in Nat
    /\ Versions \subseteq Nat
    /\ \A c \in Configs : c \in [1..LastArtifact -> Nat]
    /\ \A c \in Configs : \A i \in 1..LastArtifact : c[i] \in Versions
<1>1. LastArtifact \in 2..4 /\ Configs \subseteq [1..LastArtifact -> Nat]
    BY ArtifactAssumption DEF Configs
<1>2. LastArtifact \in Nat /\ LastArtifact >= 2 /\ Extract..LastArtifact = 1..LastArtifact
      /\ Index = LastArtifact + 1 /\ Index \in Nat
    BY <1>1 DEF Index, Extract
<1>3. \A c \in Configs : \A i \in 1..LastArtifact : c[i] \in Nat
    BY <1>1, <1>2
<1>4. \A c \in Configs : \A i \in 1..LastArtifact : c[i] \in Versions
  <2> SUFFICES ASSUME NEW c \in Configs, NEW i \in Extract..LastArtifact PROVE c[i] \in Versions
      BY <1>2
  <2> QED BY DEF Versions
<1>5. Versions \subseteq Nat
  <2> SUFFICES ASSUME NEW v \in Versions PROVE v \in Nat
      OBVIOUS
  <2>1. PICK c \in Configs, i \in Extract..LastArtifact : v = c[i]
      BY DEF Versions
  <2> QED BY <1>2, <1>3, <2>1
<1> QED BY <1>1, <1>2, <1>4, <1>5

\* A fingerprint is the sequence of the versions up to its stage.
LEMMA FingerprintIs ==
    ASSUME NEW s \in 1..LastArtifact, NEW c \in Configs
    PROVE  /\ Fingerprint(s, c) \in [1..s -> Versions]
           /\ \A i \in 1..s : Fingerprint(s, c)[i] = c[i]
<1>1. s \in Nat /\ \A i \in 1..s : c[i] \in Versions /\ i \in Nat
    BY Constants
<1>2. /\ SubSeq(c, 1, s) \in Seq(Versions)
      /\ Len(SubSeq(c, 1, s)) = s
      /\ \A i \in 1..s : SubSeq(c, 1, s)[i] = c[i]
  <2>1. /\ SubSeq(c, 1, s) \in Seq(Versions)
        /\ Len(SubSeq(c, 1, s)) = IF 1 <= s THEN s - 1 + 1 ELSE 0
        /\ \A i \in 1..(s - 1 + 1) : SubSeq(c, 1, s)[i] = c[1 + i - 1]
      BY <1>1, SubSeqProperties
  <2> QED BY <2>1, <1>1
<1>3. SubSeq(c, 1, s) \in [1..s -> Versions]
    BY <1>2, LenProperties
<1> QED BY <1>2, <1>3 DEF Fingerprint

LEMMA CacheKeyIs ==
    ASSUME NEW s \in 1..LastArtifact, NEW c \in Configs
    PROVE  /\ CacheKey(s, c) \in Keys
           /\ CacheKey(s, c)[1] = s
           /\ \A i \in 1..s : CacheKey(s, c)[2][i] = c[i]
<1>1. CacheKey(s, c) = <<s, Fingerprint(s, c)>>
    BY DEF CacheKey
<1>2. CacheKey(s, c)[1] = s /\ CacheKey(s, c)[2] = Fingerprint(s, c)
    BY <1>1
<1>3. CacheKey(s, c) \in Keys
  <2>1. s \in Extract..LastArtifact
      BY Constants
  <2> QED BY <2>1 DEF Keys
<1> QED BY <1>2, <1>3, FingerprintIs

\* Every key has a stage; none is what a document without a key records.
LEMMA KeyIs ==
    ASSUME NEW k \in Keys
    PROVE  k[1] \in 1..LastArtifact /\ k # <<>>
<1>1. PICK s \in Extract..LastArtifact, c \in Configs : k = CacheKey(s, c)
    BY DEF Keys
<1>2. k[1] = s /\ s \in 1..LastArtifact
    BY <1>1, CacheKeyIs, Constants
<1>3. k # <<>>
    BY <1>1 DEF CacheKey
<1> QED BY <1>2, <1>3

LEMMA ParsedKeyIs ==
    ASSUME NEW k \in ParsedKeys
    PROVE  k \in Keys /\ k[1] = 1
<1>1. PICK c \in Configs : k = CacheKey(Extract, c)
    BY DEF ParsedKeys
<1>2. Extract \in 1..LastArtifact /\ Extract = 1
    BY Constants DEF Extract
<1> QED BY <1>1, <1>2, CacheKeyIs

\* What is computed is neither nothing nor torn.
LEMMA LineagesAreWhole ==
    ASSUME NEW s \in 1..LastArtifact, NEW made \in [1..s -> Versions]
    PROVE  /\ made \in Lineages /\ made \in Contents /\ Whole(made)
           /\ made # Absent /\ made # Torn
<1>1. made \in Lineages
  <2>1. s \in Extract..LastArtifact
      BY Constants
  <2> QED BY <2>1 DEF Lineages
<1>2. made[1] \in Nat /\ DOMAIN made = 1..s /\ 1 \in 1..s
  <2>1. LastArtifact \in Nat /\ Versions \subseteq Nat
      BY Constants
  <2>2. 1 \in 1..s
      BY <2>1
  <2> QED BY <2>1, <2>2
<1>3. made # <<>>
    BY <1>2
<1>4. made # <<-1>>
  <2>1. <<-1>>[1] = -1
      OBVIOUS
  <2> QED BY <1>2, <2>1
<1> QED BY <1>1, <1>3, <1>4 DEF Contents, Whole, Absent, Torn

\* The artifact of one stage and the version of the next make that of the next.
LEMMA AppendNames ==
    ASSUME NEW s \in 1..(LastArtifact - 1), NEW v \in Versions,
           NEW content \in [1..s -> Versions]
    PROVE  /\ Append(content, v) \in [1..(s + 1) -> Versions]
           /\ \A i \in 1..s : Append(content, v)[i] = content[i]
           /\ Append(content, v)[s + 1] = v
<1>1. s \in Nat
    BY Constants
<1>2. content \in Seq(Versions) /\ Len(content) = s
    BY <1>1
<1>3. /\ Append(content, v) \in Seq(Versions)
      /\ Len(Append(content, v)) = s + 1
      /\ \A i \in 1..s : Append(content, v)[i] = content[i]
      /\ Append(content, v)[s + 1] = v
    BY <1>1, <1>2, AppendProperties
<1> QED BY <1>3, LenProperties

(***************************************************************************)
(* Steps of one pipeline                                                   *)
(***************************************************************************)

LEMMA UnfinishedIs ==
    ASSUME TypeOK, NEW r \in Runs, run[r].pc \in Unfinished
    PROVE  /\ run[r] \in Executions
           /\ run[r].stage \in Nat
           /\ run[r].stage # Index => run[r].stage \in 1..LastArtifact
           /\ run[r].stage # Index => OwnKey(r) \in Keys
           /\ run[r].stage > Clean => CacheKey(run[r].stage - 1, deployed) \in Keys
<1>1. run[r] \in Executions
    BY DEF TypeOK, Ended, Unfinished
<1>2. run[r].stage \in 1..Index
    BY <1>1 DEF Executions, Extract
<1>3. deployed \in Configs
    BY DEF TypeOK
<1>4. run[r].stage \in Nat /\ (run[r].stage # Index => run[r].stage \in 1..LastArtifact)
    BY <1>2, Constants
<1>5. run[r].stage > Clean => run[r].stage - 1 \in 1..LastArtifact
    BY <1>2, Constants DEF Clean
<1> QED BY <1>1, <1>3, <1>4, <1>5, CacheKeyIs DEF OwnKey

\* A pipeline at rest again.
LEMMA RestIs ==
    ASSUME TypeOK, NEW r \in Runs, run[r].pc \in Unfinished
    PROVE  /\ Rest(r) \in Executions
           /\ Rest(r).pc = "idle" /\ Rest(r).doc = run[r].doc
           /\ Rest(r).stage = run[r].stage
           /\ Rest(r).disturbed = run[r].disturbed
           /\ WritesOK(Rest(r)) /\ MadeNamed(Rest(r))
           /\ Fed(run[r]) => Fed(Rest(r))
<1>1. run[r] \in Executions
    BY UnfinishedIs
<1>2. Rest(r) = [pc |-> "idle", doc |-> run[r].doc, stage |-> run[r].stage, parsed |-> <<>>,
                 made |-> <<>>, fd |-> "none", disturbed |-> run[r].disturbed]
    BY DEF Rest, Waiting
<1>3. Rest(r) \in Executions
    BY <1>1, <1>2 DEF Executions, Unfinished
<1>4. Fed(run[r]) => Fed(Rest(r))
    BY <1>2 DEF Fed, Unfinished
<1> QED BY <1>2, <1>3, <1>4 DEF WritesOK, MadeNamed

\* What a request may write into its own row of the model.
RequestOK ==
    /\ request \in {NoRequest} \cup [doc : Docs, resume : 0..Index, keys : Seq(Keys)]
    /\ requests \in 0..MaxRequests

\* A step that leaves files alone, and what documents record unless it deletes
\* them; no pipeline begins to write.
LEMMA FilesRest ==
    ASSUME ArtifactInv, UNCHANGED <<storage, deployed, condemned>>, RequestOK',
           doc' \in [Docs -> [state : {"new", "exists", "deleted"}, parsed : ParsedKeys \cup {<<>>}]],
           \A d \in Docs : doc'[d].state # "deleted" =>
                doc[d].state # "deleted" /\ doc'[d].parsed = doc[d].parsed,
           run' \in [Runs -> Executions \cup Ended],
           \A q \in Runs :
                \/ run'[q] = run[q]
                \/ WritesOK(run'[q]) /\ RunRules(run'[q]) /\ run'[q].pc \notin {"write", "replace"}
    PROVE  ArtifactInv'
<1>1. UNCHANGED <<backend, deployed, final, temp, overlapped, condemned>>
    BY DEF storage
<1>2. TypeOK'
    BY <1>1 DEF ArtifactInv, TypeOK, WritesOK, RequestOK
<1>3. ContentNamed'
    BY <1>1 DEF ArtifactInv, ContentNamed
<1>4. \A k \in Keys : Writers(k)' \subseteq Writers(k)
                      /\ \A q \in Writers(k)' : run'[q] = run[q]
    BY <1>1 DEF Writers, OwnKey
<1>5. SoleWriter'
    BY <1>1, <1>4 DEF ArtifactInv, SoleWriter, SoleAt
<1>6. ASSUME NEW q \in Runs PROVE RunRules(run[q])'
  <2>1. RunRules(run'[q])
      BY DEF ArtifactInv
  <2>2. run'[q].pc \in Unfinished => run'[q].doc \in Docs
      BY DEF Executions, Ended, Unfinished
  <2> QED BY <1>1, <2>1, <2>2 DEF RunRules, MadeNamed, Fed, Present
<1> QED BY <1>2, <1>3, <1>5, <1>6 DEF ArtifactInv

\* A step of one pipeline that leaves files and documents alone.
LEMMA OneMoves ==
    ASSUME ArtifactInv, NEW r \in Runs, NEW next \in Executions \cup Ended,
           run' = [run EXCEPT ![r] = next], UNCHANGED <<storage, deployed, doc, condemned>>,
           RequestOK', WritesOK(next), RunRules(next), next.pc \notin {"write", "replace"}
    PROVE  ArtifactInv'
<1>1. \A q \in Runs : run'[q] = IF q = r THEN next ELSE run[q]
    BY DEF ArtifactInv, TypeOK
<1>2. run' \in [Runs -> Executions \cup Ended]
    BY DEF ArtifactInv, TypeOK
<1>3. doc' \in [Docs -> [state : {"new", "exists", "deleted"}, parsed : ParsedKeys \cup {<<>>}]]
    BY DEF ArtifactInv, TypeOK
<1> QED BY <1>1, <1>2, <1>3, FilesRest

\* A step of the pipelines leaves the requests alone.
LEMMA RequestStays ==
    ASSUME ArtifactInv, UNCHANGED <<request, requests>>
    PROVE  RequestOK'
BY DEF RequestOK, ArtifactInv, TypeOK

\* Ended pipelines have no rules, but for those that found nothing.
LEMMA EndsMoves ==
    ASSUME ArtifactInv, NEW r \in Runs, NEW pc \in {"torn", "gone", "invalid_key", "done"}, Ends(r, pc),
           UNCHANGED <<storage, deployed, doc, request, requests, condemned>>
    PROVE  ArtifactInv'
<1>1. [pc |-> pc] \in Executions \cup Ended
    BY DEF Ended
<1>2. WritesOK([pc |-> pc]) /\ RunRules([pc |-> pc])
    BY DEF WritesOK, RunRules, MadeNamed, Fed, Unfinished
<1> QED BY <1>1, <1>2, OneMoves, RequestStays DEF Ends, Step, ArtifactInv, TypeOK

LEMMA BeginsKeeps ==
    ASSUME ArtifactInv, NEW r \in Runs, Begins(r)
    PROVE  ArtifactInv'
<1>1. /\ run[r] \in Executions /\ run[r].pc = "idle" /\ run[r].doc \in Docs
      /\ run[r].stage # Index => OwnKey(r) \in Keys
    BY UnfinishedIs DEF ArtifactInv, Begins, Unfinished, Executions
<1>2. CASE ~Exists(run[r].doc) \/ LookupRaises(run[r].stage)
  <2>1. \E pc \in {"gone", "invalid_key"} : Ends(r, pc)
      BY <1>2 DEF Begins
  <2> QED BY <2>1, EndsMoves DEF Begins
<1>3. CASE Exists(run[r].doc) /\ ~LookupRaises(run[r].stage)
  <2> DEFINE stage == run[r].stage
             hit == stage \in {Extract, Clean} /\ final[CacheKey(stage, deployed)] # Absent
             parsed == IF stage = Clean THEN doc[run[r].doc].parsed
                       ELSE IF hit THEN CacheKey(stage, deployed) ELSE <<>>
             next == [run[r] EXCEPT !.pc = IF hit /\ stage = Clean THEN "finish" ELSE "load",
                                    !.parsed = parsed]
  <2>1. run' = [run EXCEPT ![r] = next]
        /\ UNCHANGED <<storage, deployed, doc, request, requests, condemned>>
      BY <1>3 DEF Begins, Step
  <2>2. stage \in {Extract, Clean} => stage # Index /\ stage \in 1..LastArtifact
      BY Constants DEF Extract, Clean
  <2>3. parsed \in ParsedKeys \cup {<<>>}
    <3>1. stage = Clean => parsed \in ParsedKeys \cup {<<>>}
        BY <1>1 DEF ArtifactInv, TypeOK
    <3>2. stage = Extract => CacheKey(stage, deployed) \in ParsedKeys
        BY DEF ParsedKeys, ArtifactInv, TypeOK
    <3>3. hit /\ stage # Clean => stage = Extract
        OBVIOUS
    <3> QED BY <3>1, <3>2, <3>3
  <2>4. next \in Executions /\ next.pc \in {"load", "finish"}
      BY <1>1, <2>3 DEF Executions, Unfinished
  <2>5. /\ next.doc = run[r].doc /\ next.stage = stage /\ next.disturbed = run[r].disturbed
        /\ next.parsed = parsed /\ (next.pc = "finish" <=> hit /\ stage = Clean)
      BY <1>1 DEF Executions
  <2>6. WritesOK(next) /\ MadeNamed(next)
      BY <2>4 DEF WritesOK, MadeNamed
  <2>7. Fed(next)
    <3>1. Fed(run[r])
        BY DEF ArtifactInv, RunRules
    <3>2. hit => Present(CacheKey(stage, deployed))
        BY <1>1, <2>2 DEF Present, OwnKey
    <3>3. stage = Clean /\ ~run[r].disturbed => Present(parsed)
        BY <1>1, <1>3, <3>1 DEF Fed, Exists, Unfinished
    <3>4. stage = Extract => parsed = <<>> \/ Present(parsed)
        BY <3>2 DEF Extract, Clean
    <3>5. next.stage > Clean /\ ~next.disturbed => Present(CacheKey(next.stage - 1, deployed))
        BY <1>1, <2>5, <3>1 DEF Fed, Unfinished
    <3>6. next.stage = Clean /\ doc[next.doc].state # "deleted" /\ ~next.disturbed
            => Present(doc[next.doc].parsed)
        BY <1>1, <2>5, <3>1 DEF Fed, Unfinished
    <3> HIDE DEF stage, hit, parsed, next
    <3> QED BY <2>4, <2>5, <3>2, <3>3, <3>4, <3>5, <3>6 DEF Fed
  <2> QED BY <2>1, <2>4, <2>6, <2>7, OneMoves, RequestStays DEF RunRules, ArtifactInv, TypeOK
<1> QED BY <1>2, <1>3

\* do_extract parses the source file.
LEMMA ParsesKeeps ==
    ASSUME ArtifactInv, NEW r \in Runs, Parses(r)
    PROVE  ArtifactInv'
<1> DEFINE next == [run[r] EXCEPT !.pc = "open", !.made = Fingerprint(Extract, deployed)]
<1>1. /\ run[r] \in Executions /\ run[r].stage = Extract /\ Fed(run[r])
      /\ run[r].pc = "load" /\ deployed \in Configs
      /\ run' = [run EXCEPT ![r] = next]
      /\ UNCHANGED <<storage, deployed, doc, request, requests, condemned>>
    BY UnfinishedIs DEF ArtifactInv, RunRules, TypeOK, Parses, Step, Unfinished
<1>2. Extract = 1 /\ 1 \in 1..LastArtifact /\ Index # 1 /\ Clean = 2
    BY Constants DEF Extract, Clean
<1>3. Fingerprint(Extract, deployed) \in [1..1 -> Versions]
    BY <1>1, <1>2, FingerprintIs
<1>4. Fingerprint(Extract, deployed) \in Lineages
    BY <1>2, <1>3, LineagesAreWhole
<1>5. /\ next \in Executions /\ next.pc = "open" /\ next.stage = 1
      /\ next.made = Fingerprint(Extract, deployed)
    BY <1>1, <1>2, <1>4 DEF Executions, Unfinished
<1>6. WritesOK(next)
    BY <1>2, <1>3, <1>5 DEF WritesOK
<1>7. RunRules(next)
    BY <1>2, <1>5 DEF RunRules, MadeNamed, Fed
<1> QED BY <1>1, <1>5, <1>6, <1>7, OneMoves, RequestStays DEF ArtifactInv, TypeOK

\* What a stage reads is the artifact of the stage before it, or its own.
LEMMA InputIs ==
    ASSUME ArtifactInv, NEW r \in Runs, Reads(r), Whole(Input(r))
    PROVE  /\ InputKey(r) \in Keys
           /\ Input(r) = final[InputKey(r)]
           /\ run[r].stage > Extract => InputKey(r)[1] = run[r].stage - 1
           /\ run[r].stage > Clean =>
                \A i \in 1..(run[r].stage - 1) : InputKey(r)[2][i] = deployed[i]
<1>1. /\ run[r] \in Executions /\ run[r].stage \in Nat
      /\ run[r].stage > Clean => run[r].stage - 1 \in 1..LastArtifact
  <2>1. run[r] \in Executions /\ run[r].stage \in Nat
      BY UnfinishedIs DEF ArtifactInv, Reads, Unfinished
  <2>2. run[r].stage \in Extract..Index
      BY <2>1 DEF Executions
  <2> QED BY <2>1, <2>2, Constants DEF Clean, Extract
<1>2. InputKey(r) # <<>> /\ Input(r) = final[InputKey(r)]
    BY DEF Input, Whole
<1>3. CASE run[r].stage \in {Extract, Clean}
  <2>1. InputKey(r) \in ParsedKeys
      BY <1>1, <1>2, <1>3 DEF InputKey, Executions
  <2> QED BY <1>2, <1>3, <2>1, ParsedKeyIs DEF Extract, Clean
<1>4. CASE run[r].stage \notin {Extract, Clean}
  <2>1. InputKey(r) = CacheKey(run[r].stage - 1, deployed) /\ deployed \in Configs
      BY <1>4 DEF InputKey, ArtifactInv, TypeOK
  <2>2. run[r].stage > Clean
    <3>1. run[r].stage \in Extract..Index
        BY <1>1 DEF Executions
    <3> QED BY <1>4, <3>1, Constants DEF Extract, Clean
  <2> QED BY <1>1, <1>2, <2>1, <2>2, CacheKeyIs
<1> QED BY <1>3, <1>4

LEMMA LoadsKeeps ==
    ASSUME ArtifactInv, NEW r \in Runs, Loads(r)
    PROVE  ArtifactInv'
<1>1. /\ run[r] \in Executions /\ run[r].pc = "load" /\ Fed(run[r])
      /\ run[r].stage \in Nat /\ deployed \in Configs
      /\ UNCHANGED <<storage, deployed, doc, request, requests, condemned>>
    BY UnfinishedIs DEF ArtifactInv, RunRules, TypeOK, Loads, Reads, Unfinished
<1>2. CASE CacheHit(r) \/ run[r].stage = Index
  <2> DEFINE next == [run[r] EXCEPT !.pc = "finish"]
  <2>1. run' = [run EXCEPT ![r] = next]
      BY <1>2 DEF Loads, Goto, Step
  <2>2. /\ next \in Executions /\ next.pc = "finish" /\ next.stage = run[r].stage
        /\ next.doc = run[r].doc /\ next.disturbed = run[r].disturbed
      BY <1>1 DEF Executions, Unfinished
  <2>3. run[r].stage # Index => Present(CacheKey(run[r].stage, deployed))
    <3>1. CASE CacheHit(r)
      <4>1. Input(r) = final[OwnKey(r)] /\ OwnKey(r) \in Keys /\ OwnKey(r) # <<>>
        <5>1. OwnKey(r) \in Keys
          <6>1. run[r].stage # Index
              BY <3>1, Constants DEF CacheHit, Extract
          <6> QED BY <1>1, <6>1, UnfinishedIs DEF ArtifactInv, Unfinished
        <5>2. InputKey(r) = OwnKey(r)
            BY <3>1 DEF CacheHit, InputKey
        <5> QED BY <5>1, <5>2, KeyIs DEF Input
      <4> QED BY <4>1 DEF Loads, Whole, Present, OwnKey
    <3> QED BY <1>2, <3>1
  <2>4. WritesOK(next) /\ MadeNamed(next)
      BY <2>2 DEF WritesOK, MadeNamed
  <2>5. Fed(next)
      BY <1>1, <2>2, <2>3 DEF Fed, Unfinished
  <2> QED BY <1>1, <2>1, <2>2, <2>4, <2>5, OneMoves, RequestStays DEF RunRules, ArtifactInv, TypeOK
<1>3. CASE ~(CacheHit(r) \/ run[r].stage = Index)
  <2> DEFINE made == Append(Input(r), deployed[run[r].stage])
             next == [run[r] EXCEPT !.pc = "open", !.made = made]
             s == run[r].stage - 1
  <2>1. run' = [run EXCEPT ![r] = next]
      BY <1>3 DEF Loads, Step
  <2>2. s \in 1..(LastArtifact - 1) /\ run[r].stage = s + 1
    <3>1. run[r].stage \in Extract..Index /\ run[r].stage # Extract /\ run[r].stage # Index
        BY <1>1, <1>3 DEF Executions, Loads, Reads
    <3> QED BY <3>1, Constants DEF Extract
  <2>3. /\ InputKey(r) \in Keys /\ Input(r) = final[InputKey(r)] /\ InputKey(r)[1] = s
        /\ s > 1 => \A i \in 1..s : InputKey(r)[2][i] = deployed[i]
    <3>1. run[r].stage > Extract /\ (s > 1 => run[r].stage > Clean)
        BY <2>2, Constants DEF Extract, Clean
    <3> QED BY <3>1, InputIs DEF Loads
  <2>4. Input(r) \in [1..s -> Versions] /\ \A i \in 2..s : Input(r)[i] = deployed[i]
    <3>1. /\ Input(r) \in [1..s -> Versions]
          /\ \A i \in 2..s : Input(r)[i] = InputKey(r)[2][i]
        BY <2>3 DEF ArtifactInv, ContentNamed, IsNamed, Loads
    <3> QED BY <2>2, <2>3, <3>1, Constants
  <2>5. deployed[run[r].stage] \in Versions
      BY <1>1, <2>2, Constants
  <2>6. /\ made \in [1..(s + 1) -> Versions]
        /\ \A i \in 1..s : made[i] = Input(r)[i]
        /\ made[s + 1] = deployed[s + 1]
      BY <2>2, <2>4, <2>5, AppendNames
  <2>7. s + 1 \in 1..LastArtifact /\ s + 1 # Index /\ s \in Nat
      BY <2>2, Constants
  <2>8. made \in Lineages
      BY <2>6, <2>7, LineagesAreWhole
  <2>9. /\ next \in Executions /\ next.pc = "open" /\ next.stage = s + 1 /\ next.made = made
        /\ next.doc = run[r].doc /\ next.disturbed = run[r].disturbed
      BY <1>1, <2>2, <2>8 DEF Executions, Unfinished
  <2>10. MadeNamed(next)
    <3> SUFFICES ASSUME NEW i \in 2..(s + 1) PROVE made[i] = deployed[i]
        BY <2>9 DEF MadeNamed
    <3>1. i \in 2..s \/ i = s + 1
        BY <2>7
    <3> HIDE DEF made
    <3> QED BY <2>4, <2>6, <2>7, <3>1
  <2>11. WritesOK(next)
      BY <2>6, <2>7, <2>9 DEF WritesOK
  <2>12. Fed(next)
      BY <1>1, <2>2, <2>9 DEF Fed, Unfinished
  <2> QED
      BY <1>1, <2>1, <2>9, <2>10, <2>11, <2>12, OneMoves, RequestStays DEF RunRules, ArtifactInv, TypeOK
<1> QED BY <1>2, <1>3

\* A pipeline that nobody disturbed finds its input.
LEMMA FindsNothingKeeps ==
    ASSUME ArtifactInv, NEW r \in Runs, FindsNothing(r)
    PROVE  ArtifactInv'
<1> DEFINE next == [pc |-> "missing", disturbed |-> run[r].disturbed]
<1>1. /\ run[r] \in Executions /\ run[r].pc = "load" /\ Fed(run[r]) /\ run[r].stage \in Nat
      /\ run' = [run EXCEPT ![r] = next]
      /\ UNCHANGED <<storage, deployed, doc, request, requests, condemned>>
    BY UnfinishedIs DEF ArtifactInv, RunRules, TypeOK, FindsNothing, Reads, Step, Unfinished
<1>2. run[r].disturbed
  <2> SUFFICES ASSUME ~run[r].disturbed PROVE FALSE
      BY <1>1 DEF Executions
  <2>1. run[r].stage \in Extract..Index
      BY <1>1 DEF Executions
  <2>2. CASE run[r].stage = Extract
    <3>1. run[r].parsed = OwnKey(r) /\ OwnKey(r) \in Keys
      <4>1. run[r].stage # Index
          BY <2>2, Constants DEF Extract
      <4> QED BY <1>1, <2>2, <4>1, UnfinishedIs
              DEF FindsNothing, Reads, CacheHit, ArtifactInv, Unfinished
    <3>2. Present(run[r].parsed)
        BY <1>1, <2>2, <3>1, KeyIs DEF Fed, Unfinished
    <3> QED BY <2>2, <3>2, KeyIs DEF FindsNothing, Input, InputKey, Present
  <2>3. CASE run[r].stage = Clean
    <3>1. Present(run[r].parsed)
        BY <1>1, <2>3 DEF Fed, Unfinished
    <3> QED BY <2>3, <3>1, KeyIs DEF FindsNothing, Input, InputKey, Present
  <2>4. CASE run[r].stage \notin {Extract, Clean}
    <3>1. run[r].stage > Clean
        BY <2>1, <2>4, Constants DEF Extract, Clean
    <3>2. Present(CacheKey(run[r].stage - 1, deployed))
        BY <1>1, <3>1 DEF Fed, Unfinished
    <3> QED BY <2>4, <3>2, KeyIs DEF FindsNothing, Input, InputKey, Present
  <2> QED BY <2>2, <2>3, <2>4
<1>3. next \in Executions \cup Ended /\ next.pc = "missing" /\ next.disturbed
    BY <1>1, <1>2 DEF Ended, Executions
<1>4. WritesOK(next) /\ RunRules(next)
    BY <1>3 DEF WritesOK, RunRules, MadeNamed, Fed, Unfinished
<1> QED BY <1>1, <1>3, <1>4, OneMoves, RequestStays DEF ArtifactInv, TypeOK

(***************************************************************************)
(* Steps that write files                                                  *)
(***************************************************************************)

\* The same execution, but for the file it holds open and a disturbance.
Like(y, x) ==
    \/ y = x
    \/ /\ x \in Executions /\ y \in Executions
       /\ y.pc = x.pc /\ y.doc = x.doc /\ y.stage = x.stage
       /\ y.parsed = x.parsed /\ y.made = x.made
       /\ y.disturbed = x.disturbed \/ y.disturbed

LEMMA LikeKeeps ==
    ASSUME NEW x \in Executions \cup Ended, NEW y, Like(y, x), WritesOK(x), RunRules(x)
    PROVE  /\ y \in Executions \cup Ended /\ WritesOK(y) /\ RunRules(y)
           /\ y.pc = x.pc /\ (x.pc \in Unfinished => y.stage = x.stage)
<1>1. CASE y = x
    BY <1>1
<1>2. CASE y # x
  <2>1. /\ x \in Executions /\ y \in Executions
        /\ y.pc = x.pc /\ y.doc = x.doc /\ y.stage = x.stage
        /\ y.parsed = x.parsed /\ y.made = x.made
        /\ y.disturbed = x.disturbed \/ y.disturbed
      BY <1>2 DEF Like
  <2>2. y.pc # "missing"
      BY <2>1 DEF Executions, Unfinished
  <2> QED BY <2>1, <2>2 DEF WritesOK, RunRules, MadeNamed, Fed
<1> QED BY <1>1, <1>2

LEMMA MovedIs ==
    ASSUME NEW runs \in [Runs -> Executions \cup Ended], NEW k, NEW from,
           NEW to \in {"final", "gone"}, NEW q \in Runs
    PROVE  /\ Moved(runs, k, from, to) \in [Runs -> Executions \cup Ended]
           /\ Like(Moved(runs, k, from, to)[q], runs[q])
           /\ Moved(runs, k, from, to)[q] # runs[q] =>
                /\ runs[q].pc = "write" /\ CacheKey(runs[q].stage, deployed) = k
                /\ runs[q].fd = from
<1>1. ASSUME NEW p \in Runs, runs[p].pc = "write"
      PROVE  /\ [runs[p] EXCEPT !.fd = to] \in Executions
             /\ Like([runs[p] EXCEPT !.fd = to], runs[p])
  <2>1. runs[p] \in Executions
      BY <1>1 DEF Ended
  <2> QED BY <2>1 DEF Executions, Like
<1>2. Moved(runs, k, from, to) \in [Runs -> Executions \cup Ended]
    BY <1>1 DEF Moved
<1>3. Moved(runs, k, from, to)[q] =
        IF runs[q].pc = "write" /\ CacheKey(runs[q].stage, deployed) = k /\ runs[q].fd = from
        THEN [runs[q] EXCEPT !.fd = to] ELSE runs[q]
    BY DEF Moved
<1>4. Like(Moved(runs, k, from, to)[q], runs[q])
    BY <1>1, <1>3 DEF Like
<1> QED BY <1>2, <1>3, <1>4

LEMMA DisturbIs ==
    ASSUME TypeOK
    PROVE  /\ Disturb \in [Runs -> Executions \cup Ended]
           /\ \A q \in Runs : /\ Like(Disturb[q], run[q])
                              /\ Disturb[q].pc \in Unfinished => Disturb[q].disturbed
                              /\ run[q].pc \in Unfinished => Disturb[q].fd = run[q].fd
<1> SUFFICES ASSUME NEW q \in Runs
             PROVE  /\ Disturb[q] \in Executions \cup Ended
                    /\ Like(Disturb[q], run[q])
                    /\ Disturb[q].pc \in Unfinished => Disturb[q].disturbed
                    /\ run[q].pc \in Unfinished => Disturb[q].fd = run[q].fd
    BY DEF Disturb
<1>1. Disturb[q] = IF run[q].pc \in Unfinished THEN [run[q] EXCEPT !.disturbed = TRUE]
                   ELSE run[q]
    BY DEF Disturb
<1>2. CASE run[q].pc \in Unfinished
  <2>1. run[q] \in Executions
      BY <1>2, UnfinishedIs
  <2> QED BY <1>1, <1>2, <2>1 DEF Executions, Like
<1>3. CASE run[q].pc \notin Unfinished
    BY <1>1, <1>3 DEF TypeOK, Like
<1> QED BY <1>2, <1>3

\* Nothing that was there is gone: the fed stay fed.
LEMMA FedStays ==
    ASSUME NEW x, RunRules(x), UNCHANGED <<deployed, doc>>,
           \A k \in Keys : final[k] # Absent => final'[k] # Absent
    PROVE  RunRules(x)'
BY DEF RunRules, MadeNamed, Fed, Present, Exists

\* A step at one key leaves the writers of the others alone.
LEMMA OtherKeysKeep ==
    ASSUME SoleWriter, NEW k, UNCHANGED deployed,
           \A l \in Keys \ {k} : l \notin overlapped' =>
                l \notin overlapped /\ final'[l] = final[l] /\ temp'[l] = temp[l],
           \A q \in Runs :
                \/ run'[q] = run[q] \/ run'[q].pc \notin {"write", "replace"}
                \/ CacheKey(run'[q].stage, deployed) = k,
           k \in Keys \ overlapped' => SoleAt(k)'
    PROVE  SoleWriter'
<1> SUFFICES ASSUME NEW l \in Keys, l \notin overlapped', l # k
             PROVE  SoleAt(l)'
    BY DEF SoleWriter
<1>1. SoleAt(l) /\ final'[l] = final[l] /\ temp'[l] = temp[l]
    BY DEF SoleWriter
<1>2. \A q \in Writers(l)' : q \in Writers(l) /\ run'[q] = run[q]
    BY DEF Writers, OwnKey
<1> QED BY <1>1, <1>2 DEF SoleAt

\* put_bytes of LocalStorage truncates the temporary file.
LEMMA OpensTempKeeps ==
    ASSUME ArtifactInv, NEW r \in Runs, OpensTemp(r)
    PROVE  ArtifactInv'
<1> SUFFICES ASSUME NEW k, k = OwnKey(r) PROVE ArtifactInv'
    OBVIOUS
<1> DEFINE next == [run[r] EXCEPT !.pc = "write", !.fd = "temp"]
<1>1. /\ run[r] \in Executions /\ run[r].pc = "open" /\ k \in Keys
      /\ run' = [run EXCEPT ![r] = next] /\ temp' = [temp EXCEPT ![k] = Torn]
      /\ overlapped' = IF Writers(k) # {} THEN overlapped \cup {k}
                       ELSE IF final[k] = Torn THEN overlapped ELSE overlapped \ {k}
      /\ UNCHANGED <<backend, deployed, final, doc, request, requests, condemned>>
  <2>1. WritesOK(run[r])
      BY DEF ArtifactInv, TypeOK
  <2> QED BY <2>1, UnfinishedIs DEF OpensTemp, Step, ArtifactInv, Unfinished, WritesOK
<1>2. /\ next \in Executions /\ next.pc = "write" /\ next.fd = "temp"
      /\ next.stage = run[r].stage /\ next.made = run[r].made
      /\ next.doc = run[r].doc /\ next.disturbed = run[r].disturbed
    BY <1>1 DEF Executions, Unfinished
<1>3. WritesOK(next) /\ RunRules(next)
    BY <1>1, <1>2 DEF ArtifactInv, TypeOK, WritesOK, RunRules, MadeNamed, Fed, Unfinished
<1>4. \A q \in Runs : run'[q] = IF q = r THEN next ELSE run[q]
    BY <1>1 DEF ArtifactInv, TypeOK
<1>5. TypeOK'
    BY <1>1, <1>2, <1>3, <1>4 DEF ArtifactInv, TypeOK, WritesOK, Contents
<1>6. \A q \in Runs : RunRules(run[q])'
    BY <1>1, <1>3, <1>4, FedStays DEF ArtifactInv
<1>7. ContentNamed'
    BY <1>1 DEF ArtifactInv, TypeOK, ContentNamed, IsNamed, Whole
<1>8. k \notin overlapped' => SoleAt(k)'
  <2> SUFFICES ASSUME k \notin overlapped' PROVE SoleAt(k)'
      OBVIOUS
  <2>1. Writers(k) = {} /\ final[k] # Torn
      BY <1>1 DEF ArtifactInv, SoleWriter, SoleAt
  <2>2. Writers(k)' \subseteq {r}
      BY <1>1, <1>4, <2>1 DEF Writers, OwnKey
  <2>3. temp'[k] = Torn /\ final'[k] = final[k] /\ run'[r] = next
      BY <1>1, <1>4 DEF ArtifactInv, TypeOK
  <2> QED BY <1>2, <2>1, <2>2, <2>3 DEF SoleAt
<1>9. SoleWriter'
  <2>1. \A l \in Keys \ {k} : l \notin overlapped' =>
            l \notin overlapped /\ final'[l] = final[l] /\ temp'[l] = temp[l]
      BY <1>1 DEF ArtifactInv, TypeOK
  <2>2. \A q \in Runs : run'[q] = run[q] \/ CacheKey(run'[q].stage, deployed) = k
      BY <1>2, <1>4 DEF OwnKey
  <2> QED BY <1>1, <1>8, <2>1, <2>2, OtherKeysKeep DEF ArtifactInv
<1> QED BY <1>5, <1>6, <1>7, <1>9 DEF ArtifactInv

\* What an execution has computed is whole, and of the versions of its key.
LEMMA MadeIs ==
    ASSUME ArtifactInv, NEW r \in Runs, run[r].pc \in {"open", "write"}
    PROVE  /\ run[r].made \in Lineages /\ run[r].made \in Contents /\ Whole(run[r].made)
           /\ run[r].made # Absent /\ run[r].made # Torn
           /\ IsNamed(OwnKey(r), run[r].made)
<1> DEFINE made == run[r].made
<1>1. /\ run[r].stage \in 1..LastArtifact /\ made \in [1..run[r].stage -> Versions]
      /\ \A i \in 2..run[r].stage : made[i] = deployed[i]
    BY UnfinishedIs DEF ArtifactInv, TypeOK, WritesOK, RunRules, MadeNamed, Unfinished
<1>2. /\ OwnKey(r)[1] = run[r].stage
      /\ \A i \in 1..run[r].stage : OwnKey(r)[2][i] = deployed[i]
    BY <1>1, CacheKeyIs DEF OwnKey, ArtifactInv, TypeOK
<1>3. \A i \in 2..run[r].stage : i \in 1..run[r].stage
    BY <1>1, Constants
<1> QED BY <1>1, <1>2, <1>3, LineagesAreWhole DEF IsNamed

\* A write goes to the file that was opened; a sole writer finds it truncated.
LEMMA WritesKeeps ==
    ASSUME ArtifactInv, NEW r \in Runs, Writes(r)
    PROVE  ArtifactInv'
<1> SUFFICES ASSUME NEW k, k = OwnKey(r) PROVE ArtifactInv'
    OBVIOUS
<1> DEFINE made == run[r].made
           next == [run[r] EXCEPT !.pc = "replace", !.fd = "none"]
           Over(old) == IF Whole(old) /\ old # made THEN {made, Torn} ELSE {made}
<1>1. /\ run[r] \in Executions /\ run[r].pc = "write" /\ k \in Keys
      /\ run' = [run EXCEPT ![r] = next]
      /\ UNCHANGED <<backend, deployed, doc, request, requests, condemned, overlapped>>
  <2>1. WritesOK(run[r])
      BY DEF ArtifactInv, TypeOK
  <2> QED BY <2>1, UnfinishedIs DEF Writes, Step, ArtifactInv, Unfinished, WritesOK
<1>2. /\ made \in Lineages /\ made \in Contents /\ Whole(made) /\ made # Absent /\ made # Torn
      /\ IsNamed(k, made)
    BY <1>1, MadeIs
<1>3. \/ /\ run[r].fd = "temp" /\ final' = final
         /\ \E c \in Over(temp[k]) : temp' = [temp EXCEPT ![k] = c]
      \/ /\ run[r].fd = "final" /\ temp' = temp
         /\ \E c \in Over(final[k]) : final' = [final EXCEPT ![k] = c]
      \/ run[r].fd \notin {"temp", "final"} /\ UNCHANGED <<final, temp>>
    BY DEF Writes
<1>4. /\ final' \in [Keys -> Contents] /\ temp' \in [Keys -> Contents]
      /\ \A l \in Keys : l # k => final'[l] = final[l] /\ temp'[l] = temp[l]
      /\ final'[k] \in {final[k], made, Torn} /\ temp'[k] \in {temp[k], made, Torn}
  <2>1. Torn \in Contents /\ \A old : Over(old) \subseteq {made, Torn}
      BY DEF Contents
  <2>2. final \in [Keys -> Contents] /\ temp \in [Keys -> Contents]
      BY DEF ArtifactInv, TypeOK
  <2> HIDE DEF Over, made
  <2> QED BY <1>1, <1>2, <1>3, <2>1, <2>2
<1>5. /\ next \in Executions /\ next.pc = "replace"
      /\ next.stage = run[r].stage /\ next.made = made
      /\ next.doc = run[r].doc /\ next.disturbed = run[r].disturbed
    BY <1>1 DEF Executions, Unfinished
<1>6. WritesOK(next) /\ RunRules(next)
    BY <1>1, <1>5 DEF ArtifactInv, TypeOK, WritesOK, RunRules, MadeNamed, Fed, Unfinished
<1>7. \A q \in Runs : run'[q] = IF q = r THEN next ELSE run[q]
    BY <1>1 DEF ArtifactInv, TypeOK
<1>8. \A l \in Keys : final[l] # Absent => final'[l] # Absent
    BY <1>2, <1>4 DEF Torn, Absent
<1>9. TypeOK'
  <2>1. condemned \subseteq {l \in Keys : final'[l] # Absent}
      BY <1>8 DEF ArtifactInv, TypeOK
  <2> QED BY <1>1, <1>4, <1>5, <1>6, <1>7, <2>1 DEF ArtifactInv, TypeOK, WritesOK
<1>10. \A q \in Runs : RunRules(run[q])'
    BY <1>1, <1>6, <1>7, <1>8, FedStays DEF ArtifactInv
<1>11. ContentNamed'
    BY <1>2, <1>4 DEF ArtifactInv, ContentNamed, IsNamed, Whole
<1>12. k \notin overlapped' => SoleAt(k)'
  <2> SUFFICES ASSUME k \notin overlapped' PROVE SoleAt(k)'
      OBVIOUS
  <2>1. SoleAt(k) /\ r \in Writers(k)
      BY <1>1 DEF ArtifactInv, SoleWriter, Writers
  <2>2. /\ run[r].fd = "temp" /\ temp[k] = Torn /\ final[k] # Torn
        /\ \A q \in Writers(k) : q = r
      BY <1>1, <2>1 DEF SoleAt
  <2>3. Over(temp[k]) = {made}
      BY <2>2 DEF Whole
  <2>4. temp'[k] = made /\ final'[k] # Torn
      BY <1>1, <1>3, <2>2, <2>3 DEF ArtifactInv, TypeOK
  <2>5. Writers(k)' \subseteq Writers(k) /\ run'[r] = next
      BY <1>1, <1>5, <1>7 DEF Writers, OwnKey
  <2> QED BY <1>2, <1>5, <2>2, <2>4, <2>5 DEF SoleAt
<1>13. SoleWriter'
  <2>1. \A q \in Runs : run'[q] = run[q] \/ CacheKey(run'[q].stage, deployed) = k
      BY <1>5, <1>7 DEF OwnKey
  <2> QED BY <1>1, <1>4, <1>12, <2>1, OtherKeysKeep DEF ArtifactInv
<1> QED BY <1>9, <1>10, <1>11, <1>13 DEF ArtifactInv

\* os.replace publishes what has the temporary name.
LEMMA ReplacesKeeps ==
    ASSUME ArtifactInv, NEW r \in Runs, Replaces(r)
    PROVE  ArtifactInv'
<1> SUFFICES ASSUME NEW k, k = OwnKey(r) PROVE ArtifactInv'
    OBVIOUS
<1> DEFINE once == Moved(run, k, "final", "gone")
           twice == Moved(once, k, "temp", "final")
<1>1. /\ run[r] \in Executions /\ run[r].pc = "replace" /\ k \in Keys
      /\ run[r].stage # Index /\ temp[k] # Absent
      /\ final' = [final EXCEPT ![k] = temp[k]] /\ temp' = [temp EXCEPT ![k] = Absent]
      /\ run' = [twice EXCEPT ![r].pc = "finish"] /\ condemned' = condemned \ {k}
      /\ UNCHANGED <<backend, deployed, doc, request, requests, overlapped>>
  <2>1. WritesOK(run[r])
      BY DEF ArtifactInv, TypeOK
  <2> QED BY <2>1, UnfinishedIs DEF Replaces, ArtifactInv, Unfinished, WritesOK
<1>2. /\ twice \in [Runs -> Executions \cup Ended]
      /\ \A q \in Runs :
            /\ RunRules(twice[q]) /\ WritesOK(twice[q])
            /\ twice[q].pc = run[q].pc
            /\ twice[q] = run[q] \/ (run[q].pc = "write" /\ CacheKey(run[q].stage, deployed) = k)
            /\ twice[q].pc = "write" => twice[q].stage = run[q].stage
  <2>1. once \in [Runs -> Executions \cup Ended] /\ twice \in [Runs -> Executions \cup Ended]
    <3>1. run \in [Runs -> Executions \cup Ended]
        BY DEF ArtifactInv, TypeOK
    <3>2. once \in [Runs -> Executions \cup Ended]
        BY <3>1, MovedIs
    <3> QED BY <3>2, MovedIs
  <2>2. ASSUME NEW q \in Runs
        PROVE  /\ RunRules(twice[q]) /\ WritesOK(twice[q])
               /\ twice[q].pc = run[q].pc
               /\ twice[q] = run[q] \/ (run[q].pc = "write" /\ CacheKey(run[q].stage, deployed) = k)
               /\ twice[q].pc = "write" => twice[q].stage = run[q].stage
    <3>1. run \in [Runs -> Executions \cup Ended] /\ RunRules(run[q]) /\ WritesOK(run[q])
        BY DEF ArtifactInv, TypeOK
    <3>2. /\ Like(once[q], run[q])
          /\ once[q] # run[q] => run[q].pc = "write" /\ CacheKey(run[q].stage, deployed) = k
        BY <3>1, MovedIs
    <3>3. /\ Like(twice[q], once[q])
          /\ twice[q] # once[q] => once[q].pc = "write" /\ CacheKey(once[q].stage, deployed) = k
        BY <2>1, MovedIs
    <3>4. /\ WritesOK(once[q]) /\ RunRules(once[q]) /\ once[q].pc = run[q].pc
          /\ run[q].pc \in Unfinished => once[q].stage = run[q].stage
        BY <3>1, <3>2, LikeKeeps
    <3>5. /\ WritesOK(twice[q]) /\ RunRules(twice[q]) /\ twice[q].pc = once[q].pc
          /\ once[q].pc \in Unfinished => twice[q].stage = once[q].stage
        BY <2>1, <3>3, <3>4, LikeKeeps
    <3> HIDE DEF once, twice
    <3> QED BY <3>2, <3>3, <3>4, <3>5 DEF Unfinished
  <2> QED BY <2>1, <2>2
<1> HIDE DEF twice
<1> DEFINE next == [run[r] EXCEPT !.pc = "finish"]
<1>3. \A q \in Runs : run'[q] = IF q = r THEN next ELSE twice[q]
    BY <1>1, <1>2
<1>4. /\ next \in Executions /\ next.pc = "finish" /\ next.stage = run[r].stage
      /\ next.doc = run[r].doc /\ next.disturbed = run[r].disturbed
    BY <1>1 DEF Executions, Unfinished
<1>5. /\ final' \in [Keys -> Contents] /\ temp' \in [Keys -> Contents]
      /\ final'[k] = temp[k] /\ temp'[k] = Absent
      /\ \A l \in Keys : l # k => final'[l] = final[l] /\ temp'[l] = temp[l]
      /\ \A l \in Keys : final[l] # Absent => final'[l] # Absent
    BY <1>1 DEF ArtifactInv, TypeOK, Contents
<1>6. TypeOK'
  <2>1. run' \in [Runs -> Executions \cup Ended]
      BY <1>1, <1>2, <1>3, <1>4
  <2>2. \A q \in Runs : WritesOK(run[q])'
      BY <1>2, <1>3, <1>4 DEF WritesOK
  <2>3. condemned' \subseteq {l \in Keys : final'[l] # Absent}
      BY <1>1, <1>5 DEF ArtifactInv, TypeOK
  <2> QED BY <1>1, <1>5, <2>1, <2>2, <2>3 DEF ArtifactInv, TypeOK
<1>7. \A q \in Runs : RunRules(run[q])'
  <2>1. ASSUME NEW x, x = next PROVE RunRules(x)'
    <3>1. Present(k)' /\ k = CacheKey(x.stage, deployed)
        BY <1>1, <1>4, <1>5, <2>1 DEF Present, OwnKey
    <3>2. \A l : Present(l) => Present(l)'
        BY <1>5 DEF Present
    <3>3. Fed(run[r])
        BY DEF ArtifactInv, RunRules
    <3>4. /\ x.pc = "finish" /\ x.stage = run[r].stage
          /\ x.doc = run[r].doc /\ x.disturbed = run[r].disturbed
        BY <1>4, <2>1
    <3> HIDE DEF next
    <3> QED BY <1>1, <3>1, <3>2, <3>3, <3>4 DEF RunRules, MadeNamed, Fed, Unfinished
  <2>2. ASSUME NEW q \in Runs, q # r PROVE RunRules(run[q])'
    <3>1. RunRules(run'[q])
        BY <1>2, <1>3, <2>2
    <3> QED BY <1>1, <1>5, <3>1, FedStays
  <2> QED BY <1>3, <2>1, <2>2
<1>8. ContentNamed'
    BY <1>5 DEF ArtifactInv, ContentNamed, IsNamed, Whole
<1>9. k \notin overlapped' => SoleAt(k)'
  <2> SUFFICES ASSUME k \notin overlapped' PROVE SoleAt(k)'
      OBVIOUS
  <2>1. SoleAt(k) /\ r \in Writers(k)
      BY <1>1 DEF ArtifactInv, SoleWriter, Writers
  <2>2. temp[k] # Torn /\ \A q \in Writers(k) : q = r
      BY <1>1, <2>1 DEF SoleAt
  <2>3. Writers(k)' = {}
    <3> SUFFICES ASSUME NEW q \in Runs, run'[q].pc \in {"write", "replace"},
                        CacheKey(run'[q].stage, deployed) = k
                 PROVE  FALSE
        BY <1>1 DEF Writers, OwnKey
    <3>1. q # r /\ run'[q] = twice[q]
        BY <1>3, <1>4
    <3>2. q \in Writers(k)
        BY <1>2, <3>1 DEF Writers, OwnKey
    <3> QED BY <2>2, <3>1, <3>2
  <2> QED BY <1>5, <2>2, <2>3 DEF SoleAt
<1>10. SoleWriter'
  <2>1. \A q \in Runs : \/ run'[q] = run[q] \/ run'[q].pc \notin {"write", "replace"}
                        \/ CacheKey(run'[q].stage, deployed) = k
    <3> HIDE DEF next
    <3> QED BY <1>2, <1>3, <1>4
  <2> QED BY <1>1, <1>5, <1>9, <2>1, OtherKeysKeep DEF ArtifactInv
<1> QED BY <1>6, <1>7, <1>8, <1>10 DEF ArtifactInv

\* A crash or an error: the last writer's temporary file is as good as gone.
LEMMA FailsTransientlyKeeps ==
    ASSUME ArtifactInv, NEW r \in Runs, FailsTransiently(r)
    PROVE  ArtifactInv'
<1> SUFFICES ASSUME NEW k, k = OwnKey(r), NEW next, next = Rest(r)
             PROVE  ArtifactInv'
    OBVIOUS
<1>1. /\ run[r].pc \in Unfinished /\ run' = [run EXCEPT ![r] = next]
      /\ temp' = IF \E l \in Keys : Writers(l) = {r} THEN [temp EXCEPT ![k] = Absent] ELSE temp
      /\ UNCHANGED <<backend, final, overlapped, deployed, doc, request, requests, condemned>>
    BY DEF FailsTransiently, Step
<1>2. /\ next \in Executions /\ next.pc = "idle" /\ WritesOK(next) /\ RunRules(next)
    BY <1>1, RestIs DEF ArtifactInv, RunRules
<1>3. \A q \in Runs : run'[q] = IF q = r THEN next ELSE run[q]
    BY <1>1 DEF ArtifactInv, TypeOK
<1>4. \A l \in Keys : Writers(l) = {r} => l = k
    BY DEF Writers
<1>5. /\ temp' \in [Keys -> Contents]
      /\ \A l \in Keys : temp'[l] = temp[l] \/ (Writers(l) = {r} /\ temp'[l] = Absent)
    BY <1>1, <1>4 DEF ArtifactInv, TypeOK, Contents
<1>6. TypeOK'
    BY <1>1, <1>2, <1>3, <1>5 DEF ArtifactInv, TypeOK, WritesOK
<1>7. \A q \in Runs : RunRules(run[q])'
    BY <1>1, <1>2, <1>3, FedStays DEF ArtifactInv
<1>8. ContentNamed'
    BY <1>1, <1>5 DEF ArtifactInv, ContentNamed, IsNamed, Whole
<1>9. SoleWriter'
  <2> SUFFICES ASSUME NEW l \in Keys, l \notin overlapped PROVE SoleAt(l)'
      BY <1>1 DEF SoleWriter
  <2>1. SoleAt(l)
      BY DEF ArtifactInv, SoleWriter
  <2>2. \A q \in Writers(l)' : q \in Writers(l) /\ q # r /\ run'[q] = run[q]
      BY <1>1, <1>2, <1>3 DEF Writers, OwnKey
  <2>3. \A q \in Writers(l)' : temp'[l] = temp[l]
      BY <1>5, <2>2
  <2> QED BY <1>1, <2>1, <2>2, <2>3 DEF SoleAt
<1> QED BY <1>6, <1>7, <1>8, <1>9 DEF ArtifactInv

\* What a stage leaves is what the next one needs.
LEMMA FinishesKeeps ==
    ASSUME ArtifactInv, NEW r \in Runs, Finishes(r)
    PROVE  ArtifactInv'
<1> SUFFICES ASSUME NEW k, k = OwnKey(r), NEW d, d = run[r].doc, NEW next,
                    next = IF run[r].stage = Index THEN [pc |-> "done"]
                           ELSE [Rest(r) EXCEPT !.stage = @ + 1],
                    NEW runs, runs = IF run[r].stage = Extract /\ final[k] = Absent
                                     THEN Disturb ELSE run
             PROVE  ArtifactInv'
    OBVIOUS
<1>1. /\ run[r] \in Executions /\ run[r].pc = "finish" /\ d \in Docs /\ Exists(d)
      /\ run' = [runs EXCEPT ![r] = next]
      /\ doc' = [doc EXCEPT ![d] = IF run[r].stage = Extract
                                   THEN [doc[d] EXCEPT !.parsed = k] ELSE doc[d]]
      /\ UNCHANGED <<backend, final, temp, overlapped, deployed, request, requests, condemned>>
    BY UnfinishedIs DEF Finishes, ArtifactInv, Unfinished, Executions, storage
<1>2. run[r].stage = Extract => k \in ParsedKeys /\ k \in Keys /\ Extract # Index
    BY <1>1, Constants, ParsedKeyIs DEF OwnKey, ParsedKeys, ArtifactInv, TypeOK, Extract
<1>3. /\ doc' \in [Docs -> [state : {"new", "exists", "deleted"}, parsed : ParsedKeys \cup {<<>>}]]
      /\ \A e \in Docs : doc'[e].state = doc[e].state
      /\ \A e \in Docs : doc'[e].parsed = IF run[r].stage = Extract /\ e = d THEN k ELSE doc[e].parsed
    BY <1>1, <1>2 DEF ArtifactInv, TypeOK
<1>4. /\ runs \in [Runs -> Executions \cup Ended]
      /\ \A q \in Runs : /\ WritesOK(runs[q]) /\ RunRules(runs[q])
                         /\ runs[q].pc = run[q].pc
                         /\ run[q].pc \in Unfinished =>
                                runs[q].stage = run[q].stage /\ runs[q].fd = run[q].fd
                         /\ runs[q] = run[q] \/ runs[q].disturbed \/ runs[q].pc \notin Unfinished
  <2>1. run \in [Runs -> Executions \cup Ended]
        /\ \A q \in Runs : WritesOK(run[q]) /\ RunRules(run[q])
      BY DEF ArtifactInv, TypeOK
  <2>2. CASE runs = run
      BY <2>1, <2>2
  <2>3. CASE runs = Disturb
      BY <2>1, <2>3, DisturbIs, LikeKeeps DEF ArtifactInv
  <2> QED BY <2>2, <2>3
<1>5. \A q \in Runs : run'[q] = IF q = r THEN next ELSE runs[q]
    BY <1>1, <1>4
<1>6. /\ next \in Executions \cup Ended /\ WritesOK(next)
      /\ next.pc \in {"idle", "done"}
      /\ next.pc = "idle" =>
            /\ run[r].stage # Index
            /\ next.stage = run[r].stage + 1 /\ next.doc = d
            /\ next.disturbed = run[r].disturbed
  <2>1. CASE run[r].stage = Index
      BY <2>1 DEF Ended, WritesOK
  <2>2. CASE run[r].stage # Index
    <3>1. /\ Rest(r) \in Executions /\ Rest(r).pc = "idle" /\ Rest(r).doc = d
          /\ Rest(r).stage = run[r].stage /\ Rest(r).disturbed = run[r].disturbed
        BY <1>1, RestIs DEF ArtifactInv, Unfinished
    <3>2. run[r].stage + 1 \in Extract..Index
        BY <1>1, <2>2, Constants DEF Executions, Extract
    <3> QED BY <2>2, <3>1, <3>2 DEF Executions, WritesOK
  <2> QED BY <2>1, <2>2
<1>7. TypeOK'
    BY <1>1, <1>3, <1>4, <1>5, <1>6 DEF ArtifactInv, TypeOK, WritesOK
<1>8. ContentNamed'
    BY <1>1 DEF ArtifactInv, ContentNamed
<1>9. SoleWriter'
  <2> SUFFICES ASSUME NEW l \in Keys, l \notin overlapped PROVE SoleAt(l)'
      BY <1>1 DEF SoleWriter
  <2>1. SoleAt(l)
      BY DEF ArtifactInv, SoleWriter
  <2>2. \A q \in Writers(l)' : /\ q \in Writers(l) /\ run'[q].pc = run[q].pc
                               /\ run'[q].fd = run[q].fd
      BY <1>1, <1>4, <1>5, <1>6 DEF Writers, OwnKey, Unfinished
  <2> QED BY <1>1, <2>1, <2>2 DEF SoleAt
<1>10. \A l : Present(l) <=> Present(l)'
    BY <1>1 DEF Present
<1>11. RunRules(next)'
  <2>1. CASE next.pc = "done"
      BY <2>1 DEF RunRules, MadeNamed, Fed, Unfinished
  <2>2. CASE next.pc = "idle"
    <3>1. Fed(run[r]) /\ run[r].stage \in Nat /\ run[r].stage >= Extract
        BY <1>1, Constants DEF ArtifactInv, RunRules, Executions, Extract
    <3>2. ~next.disturbed => Present(k)
        BY <1>1, <1>6, <2>2, <3>1 DEF Fed, Unfinished, OwnKey
    <3>3. next.stage - 1 = run[r].stage /\ (next.stage = Clean => run[r].stage = Extract)
        BY <1>6, <2>2, <3>1 DEF Clean, Extract
    <3>4. next.stage = Clean => doc'[next.doc].parsed = k
        BY <1>1, <1>3, <1>6, <2>2, <3>3
    <3>5. k = CacheKey(next.stage - 1, deployed)
        BY <3>3 DEF OwnKey
    <3> QED BY <1>1, <1>10, <2>2, <3>2, <3>4, <3>5 DEF RunRules, MadeNamed, Fed, Unfinished
  <2> QED BY <1>6, <2>1, <2>2
<1>12. ASSUME NEW q \in Runs, q # r PROVE RunRules(run[q])'
  <2> SUFFICES ASSUME NEW x, x = runs[q] PROVE RunRules(x)'
      BY <1>5, <1>12
  <2>1. RunRules(x) /\ x \in Executions \cup Ended
      BY <1>4
  <2>2. x.pc \in Unfinished /\ ~x.disturbed /\ doc[x.doc].parsed # doc'[x.doc].parsed =>
            Present(k) /\ doc'[x.doc].parsed = k
    <3> SUFFICES ASSUME x.pc \in Unfinished, ~x.disturbed, doc[x.doc].parsed # doc'[x.doc].parsed
                 PROVE  Present(k) /\ doc'[x.doc].parsed = k
        OBVIOUS
    <3>1. x.doc \in Docs
        BY <2>1 DEF Executions, Ended, Unfinished
    <3>2. run[r].stage = Extract /\ doc'[x.doc].parsed = k
        BY <1>3, <3>1
    <3>3. final[k] # Absent
      <4> SUFFICES ASSUME final[k] = Absent PROVE FALSE
          OBVIOUS
      <4>1. x = Disturb[q] /\ Disturb[q].disturbed
          BY <3>2, DisturbIs DEF ArtifactInv
      <4> QED BY <4>1
    <3> QED BY <1>2, <3>2, <3>3 DEF Present
  <2>3. x.pc \in Unfinished => x.doc \in Docs /\ doc'[x.doc].state = doc[x.doc].state
      BY <1>3, <2>1 DEF Executions, Ended, Unfinished
  <2> QED BY <1>1, <1>10, <2>1, <2>2, <2>3 DEF RunRules, MadeNamed, Fed
<1> QED BY <1>5, <1>7, <1>8, <1>9, <1>11, <1>12 DEF ArtifactInv

LEMMA StageStepKeeps ==
    ASSUME ArtifactInv, NEW r \in Runs, StageStep(r)
    PROVE  ArtifactInv'
<1>1. CASE FindsTorn(r)
    BY <1>1, EndsMoves DEF FindsTorn
<1>2. CASE LosesDocument(r)
    BY <1>2, EndsMoves DEF LosesDocument
<1>3. CASE LosesTemp(r)
  <2>1. Rest(r) \in Executions /\ WritesOK(Rest(r)) /\ RunRules(Rest(r)) /\ Rest(r).pc = "idle"
      BY <1>3, RestIs DEF LosesTemp, ArtifactInv, RunRules, Unfinished
  <2> QED BY <1>3, <2>1, OneMoves, RequestStays DEF LosesTemp, Step, ArtifactInv, TypeOK
<1> QED
    BY <1>1, <1>2, <1>3, BeginsKeeps, ParsesKeeps, LoadsKeeps, FindsNothingKeeps,
       OpensTempKeeps, WritesKeeps, ReplacesKeeps, FinishesKeeps,
       FailsTransientlyKeeps DEF StageStep

(***************************************************************************)
(* Requests, the sweeper and deployments                                   *)
(***************************************************************************)

LEMMA WaitingIs ==
    ASSUME NEW d \in Docs, NEW stage \in Extract..Index, NEW disturbed \in BOOLEAN,
           NEW x, x = [Waiting(d, stage) EXCEPT !.disturbed = disturbed]
    PROVE  /\ x \in Executions /\ x.pc = "idle" /\ x.doc = d /\ x.stage = stage
           /\ x.disturbed = disturbed
           /\ WritesOK(x) /\ MadeNamed(x)
BY DEF Waiting, Executions, Unfinished, WritesOK, MadeNamed

LEMMA KeysFromIs ==
    ASSUME NEW stage \in Extract..Index, deployed \in Configs
    PROVE  ArtifactKeysFrom(stage) \in Seq(Keys)
<1>1. stage \in Nat /\ stage >= 1 /\ Index - stage \in Nat /\ LastArtifact \in Nat
      /\ Index = LastArtifact + 1
    BY Constants DEF Extract
<1>2. \A i \in 1..(Index - stage) : CacheKey(stage + i - 1, deployed) \in Keys
  <2> SUFFICES ASSUME NEW i \in 1..(Index - stage) PROVE CacheKey(stage + i - 1, deployed) \in Keys
      OBVIOUS
  <2>1. stage + i - 1 \in 1..LastArtifact
      BY <1>1
  <2> QED BY <2>1, CacheKeyIs
<1> QED BY <1>1, <1>2 DEF ArtifactKeysFrom

\* A new document has a pipeline at its first stage.
LEMMA UploadsKeeps ==
    ASSUME ArtifactInv, NEW r \in Runs, NEW d \in Docs, Uploads(r, d)
    PROVE  ArtifactInv'
<1> SUFFICES ASSUME NEW next, next = Waiting(d, Extract) PROVE ArtifactInv'
    OBVIOUS
<1>1. next \in Executions /\ next.pc = "idle" /\ next.stage = Extract
    BY Constants DEF Waiting, Executions, Unfinished, Extract
<1>2. WritesOK(next) /\ RunRules(next)
    BY <1>1 DEF WritesOK, RunRules, MadeNamed, Fed, Extract, Clean
<1>3. /\ run' = [run EXCEPT ![r] = next] /\ doc' = [doc EXCEPT ![d].state = "exists"]
      /\ doc[d].state = "new"
      /\ UNCHANGED <<storage, deployed, request, requests, condemned>>
    BY DEF Uploads, Step
<1>4. /\ run' \in [Runs -> Executions \cup Ended]
      /\ \A q \in Runs : run'[q] = IF q = r THEN next ELSE run[q]
    BY <1>1, <1>3 DEF ArtifactInv, TypeOK
<1>5. /\ doc' \in [Docs -> [state : {"new", "exists", "deleted"}, parsed : ParsedKeys \cup {<<>>}]]
      /\ \A e \in Docs : /\ doc'[e].parsed = doc[e].parsed
                         /\ doc'[e].state = IF e = d THEN "exists" ELSE doc[e].state
    BY <1>3 DEF ArtifactInv, TypeOK
<1> QED BY <1>1, <1>2, <1>3, <1>4, <1>5, FilesRest, RequestStays

LEMMA DeletesKeeps ==
    ASSUME ArtifactInv, NEW d \in Docs, Deletes(d)
    PROVE  ArtifactInv'
<1>1. RequestOK'
  <2>1. ArtifactKeysFrom(Extract) \in Seq(Keys) /\ 0 \in 0..Index
      BY KeysFromIs, Constants DEF ArtifactInv, TypeOK, Extract
  <2>2. requests + 1 \in 0..MaxRequests
      BY ArtifactAssumption DEF Deletes, ArtifactInv, TypeOK
  <2> QED BY <2>1, <2>2 DEF Deletes, RequestOK
<1>2. /\ doc' \in [Docs -> [state : {"new", "exists", "deleted"}, parsed : ParsedKeys \cup {<<>>}]]
      /\ \A e \in Docs : doc'[e] = IF e = d THEN [NoDoc EXCEPT !.state = "deleted"] ELSE doc[e]
    BY DEF Deletes, NoDoc, ArtifactInv, TypeOK
<1>3. /\ UNCHANGED <<storage, deployed, condemned, run>>
      /\ run \in [Runs -> Executions \cup Ended]
    BY DEF Deletes, ArtifactInv, TypeOK
<1>4. doc'[d].state = "deleted"
    BY <1>2 DEF NoDoc
<1> QED BY <1>1, <1>2, <1>3, <1>4, FilesRest

\* A request that goes on, or fails, leaves everything else.
LEMMA RequestMoves ==
    ASSUME ArtifactInv, RequestOK', UNCHANGED <<storage, deployed, condemned, doc, run>>
    PROVE  ArtifactInv'
BY FilesRest DEF ArtifactInv, TypeOK

LEMMA ReprocessStartsKeeps ==
    ASSUME ArtifactInv, NEW d \in Docs, NEW stage \in RestartStages, ReprocessStarts(d, stage)
    PROVE  ArtifactInv'
<1>1. stage \in Extract..Index
    BY ArtifactAssumption DEF Extract, Index
<1>2. RequestOK'
  <2>1. ArtifactKeysFrom(stage) \in Seq(Keys) /\ stage \in 0..Index
      BY <1>1, KeysFromIs, Constants DEF ArtifactInv, TypeOK, Extract
  <2>2. requests + 1 \in 0..MaxRequests
      BY ArtifactAssumption DEF ReprocessStarts, ArtifactInv, TypeOK
  <2> QED BY <2>1, <2>2 DEF ReprocessStarts, RequestOK
<1> QED BY <1>2, RequestMoves DEF ReprocessStarts

LEMMA ContinueIs ==
    ASSUME ArtifactInv, request.keys # <<>>
    PROVE  /\ request \in [doc : Docs, resume : 0..Index, keys : Seq(Keys)]
           /\ Head(request.keys) \in Keys
           /\ Continue(Tail(request.keys)) \in
                {NoRequest} \cup [doc : Docs, resume : 0..Index, keys : Seq(Keys)]
<1>1. request \in [doc : Docs, resume : 0..Index, keys : Seq(Keys)]
    BY DEF ArtifactInv, TypeOK, NoRequest
<1>2. Head(request.keys) \in Keys /\ Tail(request.keys) \in Seq(Keys)
    BY <1>1, HeadTailProperties
<1> QED BY <1>1, <1>2 DEF Continue

LEMMA RemovalFailsKeeps ==
    ASSUME ArtifactInv, RemovalFails
    PROVE  ArtifactInv'
BY ContinueIs, RequestMoves DEF RemovalFails, RequestOK, ArtifactInv, TypeOK

\* A reprocess request begins at a stage that has its input, or is disturbed
\* from the start.
LEMMA ReprocessResetsKeeps ==
    ASSUME ArtifactInv, NEW r \in Runs, ReprocessResets(r)
    PROVE  ArtifactInv'
<1> SUFFICES ASSUME NEW d, d = request.doc, NEW stage, stage = request.resume,
                    NEW disturbed,
                    disturbed = IF stage = Extract THEN FALSE ELSE ~HasInput(d, stage),
                    NEW next, next = [Waiting(d, stage) EXCEPT !.disturbed = disturbed]
             PROVE  ArtifactInv'
    OBVIOUS
<1>1. /\ d \in Docs /\ stage \in Extract..Index /\ RequestOK'
      /\ UNCHANGED <<storage, deployed, doc, condemned>>
  <2>1. request \in [doc : Docs, resume : 0..Index, keys : Seq(Keys)] /\ stage # 0
      BY DEF ReprocessResets, ArtifactInv, TypeOK, NoRequest
  <2>2. stage \in Extract..Index
      BY <2>1, Constants DEF Extract
  <2> QED BY <2>1, <2>2 DEF ReprocessResets, RequestOK, ArtifactInv, TypeOK
<1>2. CASE ~Exists(d)
  <2>1. UNCHANGED run
      BY <1>2 DEF ReprocessResets
  <2> QED BY <1>1, <2>1, RequestMoves
<1>3. CASE Exists(d)
  <2>1. run' = [run EXCEPT ![r] = next]
      BY <1>3 DEF ReprocessResets, Step
  <2>2. disturbed \in BOOLEAN
      BY DEF HasInput
  <2>3. /\ next \in Executions /\ next.pc = "idle" /\ next.doc = d /\ next.stage = stage
        /\ next.disturbed = disturbed /\ WritesOK(next) /\ MadeNamed(next)
    <3> HIDE DEF Waiting
    <3>1. next = [Waiting(d, stage) EXCEPT !.disturbed = disturbed]
        OBVIOUS
    <3> QED BY ONLY <1>1, <2>2, <3>1 DEF Waiting, Executions, Unfinished, WritesOK, MadeNamed
  <2>4. Fed(next)
    <3>1. CASE stage = Extract
        BY <2>3, <3>1 DEF Fed, Extract, Clean
    <3>2. CASE stage = Clean /\ ~disturbed
      <4>1. HasInput(d, Clean)
        <5>1. stage # Extract
            BY <3>2 DEF Extract, Clean
        <5>2. disturbed = ~HasInput(d, stage)
            BY <5>1, Zenon
        <5> QED BY <3>2, <5>2, Zenon
      <4>2. doc[d].parsed # <<>> /\ final[doc[d].parsed] # Absent
          BY <4>1 DEF HasInput
      <4>3. doc[d].parsed \in ParsedKeys
          BY <1>1, <4>2 DEF ArtifactInv, TypeOK
      <4> QED BY <2>3, <3>2, <4>2, <4>3, ParsedKeyIs DEF Fed, Present, Extract, Clean
    <3>3. CASE stage \notin {Extract, Clean} /\ ~disturbed
      <4>1. stage - 1 \in 1..LastArtifact
          BY <1>1, <3>3, Constants DEF Extract, Clean
      <4>2. CacheKey(stage - 1, deployed) \in Keys
          BY <4>1, CacheKeyIs DEF ArtifactInv, TypeOK
      <4>3. final[CacheKey(stage - 1, deployed)] # Absent
          BY <3>3, <4>2 DEF HasInput
      <4> QED BY <2>3, <3>3, <4>2, <4>3 DEF Fed, Present
    <3>4. CASE disturbed
        BY <2>3, <3>4 DEF Fed
    <3> QED BY <2>2, <3>1, <3>2, <3>3, <3>4
  <2> QED BY <1>1, <2>1, <2>3, <2>4, OneMoves DEF RunRules
<1> QED BY <1>2, <1>3

\* Removing an artifact disturbs every pipeline that runs.
LEMMA RemoveKeeps ==
    ASSUME ArtifactInv, NEW k \in Keys, RemoveArtifact(k), RequestOK',
           UNCHANGED <<backend, deployed, temp, doc, overlapped>>
    PROVE  ArtifactInv'
<1> SUFFICES ASSUME NEW runs, runs = IF final[k] = Absent THEN run ELSE Disturb
             PROVE  ArtifactInv'
    OBVIOUS
<1>1. /\ final' = [final EXCEPT ![k] = Absent] /\ run' = Moved(runs, k, "final", "gone")
      /\ condemned' = condemned \ {k}
    BY DEF RemoveArtifact
<1>2. /\ runs \in [Runs -> Executions \cup Ended]
      /\ \A q \in Runs : /\ Like(runs[q], run[q])
                         /\ run[q].pc \in Unfinished => runs[q].fd = run[q].fd
                         /\ final[k] # Absent /\ runs[q].pc \in Unfinished => runs[q].disturbed
    BY DisturbIs DEF ArtifactInv, TypeOK, Like
<1>3. /\ run' \in [Runs -> Executions \cup Ended]
      /\ \A q \in Runs :
            /\ WritesOK(run'[q]) /\ RunRules(run'[q])
            /\ run'[q].pc = run[q].pc
            /\ run[q].pc \in Unfinished => run'[q].stage = run[q].stage
            /\ run[q].fd = "temp" /\ run[q].pc \in Unfinished => run'[q].fd = "temp"
            /\ final[k] # Absent /\ run'[q].pc \in Unfinished => run'[q].disturbed
  <2>1. ASSUME NEW q \in Runs
        PROVE  /\ run' \in [Runs -> Executions \cup Ended]
               /\ WritesOK(run'[q]) /\ RunRules(run'[q])
               /\ run'[q].pc = run[q].pc
               /\ run[q].pc \in Unfinished => run'[q].stage = run[q].stage
               /\ run[q].fd = "temp" /\ run[q].pc \in Unfinished => run'[q].fd = "temp"
               /\ final[k] # Absent /\ run'[q].pc \in Unfinished => run'[q].disturbed
    <3>1. run[q] \in Executions \cup Ended /\ WritesOK(run[q]) /\ RunRules(run[q])
        BY DEF ArtifactInv, TypeOK
    <3>2. /\ runs[q] \in Executions \cup Ended /\ WritesOK(runs[q]) /\ RunRules(runs[q])
          /\ runs[q].pc = run[q].pc
          /\ run[q].pc \in Unfinished => runs[q].stage = run[q].stage
        BY <1>2, <3>1, LikeKeeps
    <3>3. /\ run' \in [Runs -> Executions \cup Ended]
          /\ Like(run'[q], runs[q])
          /\ run'[q] # runs[q] => runs[q].pc = "write" /\ runs[q].fd = "final"
        BY <1>1, <1>2, MovedIs
    <3>4. /\ WritesOK(run'[q]) /\ RunRules(run'[q]) /\ run'[q].pc = runs[q].pc
          /\ runs[q].pc \in Unfinished => run'[q].stage = runs[q].stage
        BY <3>2, <3>3, LikeKeeps
    <3>5. final[k] # Absent /\ run'[q].pc \in Unfinished => run'[q].disturbed
        BY <1>2, <3>3, <3>4 DEF Like
    <3> QED BY <1>2, <3>2, <3>3, <3>4, <3>5
  <2>2. run' \in [Runs -> Executions \cup Ended]
    <3>1. runs \in [Runs -> Executions \cup Ended]
        BY <1>2
    <3> QED BY <1>1, <3>1, <2>1 DEF Moved
  <2> QED BY <2>1, <2>2
<1>4. /\ final' \in [Keys -> Contents] /\ final'[k] = Absent
      /\ \A l \in Keys : l # k => final'[l] = final[l]
    BY <1>1 DEF ArtifactInv, TypeOK, Contents
<1>5. TypeOK'
  <2>1. condemned' \subseteq {l \in Keys : final'[l] # Absent}
      BY <1>1, <1>4 DEF ArtifactInv, TypeOK
  <2> QED BY <1>3, <1>4, <2>1 DEF ArtifactInv, TypeOK, WritesOK, RequestOK
<1>6. ContentNamed'
    BY <1>4 DEF ArtifactInv, ContentNamed, IsNamed, Whole
<1>7. SoleWriter'
  <2> SUFFICES ASSUME NEW l \in Keys, l \notin overlapped PROVE SoleAt(l)'
      BY DEF SoleWriter
  <2>1. SoleAt(l) /\ final'[l] # Torn
      BY <1>4 DEF ArtifactInv, SoleWriter, SoleAt, Absent, Torn
  <2>2. \A q \in Writers(l)' : /\ q \in Writers(l) /\ run'[q].pc = run[q].pc
                               /\ run[q].fd = "temp" => run'[q].fd = "temp"
      BY <1>3 DEF Writers, OwnKey, Unfinished
  <2> QED BY <2>1, <2>2 DEF SoleAt
<1>8. ASSUME NEW q \in Runs PROVE RunRules(run[q])'
  <2> SUFFICES ASSUME NEW x, x = run'[q] PROVE RunRules(x)'
      OBVIOUS
  <2>1. RunRules(x)
      BY <1>3
  <2>2. CASE final[k] = Absent
      BY <1>4, <2>1, <2>2, FedStays DEF ArtifactInv, TypeOK
  <2>3. CASE final[k] # Absent
      BY <1>3, <2>1, <2>3 DEF RunRules, MadeNamed, Fed
  <2> QED BY <2>2, <2>3
<1> QED BY <1>5, <1>6, <1>7, <1>8 DEF ArtifactInv

\* A deployment interrupts everything, and so disturbs everything.
LEMMA RedeploysKeeps ==
    ASSUME ArtifactInv, Redeploys
    PROVE  ArtifactInv'
<1> SUFFICES ASSUME NEW forgotten,
                    forgotten = {k \in Keys :
                        /\ \A s \in Extract..LastArtifact : k # CacheKey(s, deployed')
                        /\ \A d \in Docs : k # doc[d].parsed}
             PROVE  ArtifactInv'
    OBVIOUS
<1>1. /\ deployed' \in Configs
      /\ run' = [r \in Runs |-> IF run[r].pc \in Unfinished
                                THEN [Rest(r) EXCEPT !.disturbed = TRUE] ELSE run[r]]
      /\ final' = [k \in Keys |-> IF k \in forgotten THEN Absent ELSE final[k]]
      /\ temp' = [k \in Keys |-> Absent]
      /\ overlapped' = overlapped \ forgotten /\ condemned' = condemned \ forgotten
      /\ UNCHANGED <<backend, doc, request, requests>>
    BY DEF Redeploys, Configs
<1>2. \A q \in Runs : /\ run'[q] \in Executions \cup Ended
                      /\ run'[q].pc \notin {"open", "write", "replace"}
                      /\ run'[q].pc \in Unfinished => run'[q].disturbed
                      /\ run'[q].pc = "missing" => run'[q].disturbed
  <2> SUFFICES ASSUME NEW q \in Runs
               PROVE  /\ run'[q] \in Executions \cup Ended
                      /\ run'[q].pc \notin {"open", "write", "replace"}
                      /\ run'[q].pc \in Unfinished => run'[q].disturbed
                      /\ run'[q].pc = "missing" => run'[q].disturbed
      OBVIOUS
  <2>1. CASE run[q].pc \in Unfinished
    <3>1. run'[q] = [Rest(q) EXCEPT !.disturbed = TRUE]
        BY <1>1, <2>1
    <3>2. Rest(q) \in Executions /\ Rest(q).pc = "idle"
        BY <2>1, RestIs DEF ArtifactInv
    <3> QED BY <3>1, <3>2 DEF Executions
  <2>2. CASE run[q].pc \notin Unfinished
      BY <1>1, <2>2 DEF ArtifactInv, TypeOK, RunRules, Fed, Unfinished
  <2> QED BY <2>1, <2>2
<1>3. /\ final' \in [Keys -> Contents] /\ temp' \in [Keys -> Contents]
      /\ \A k \in Keys : final'[k] = IF k \in forgotten THEN Absent ELSE final[k]
      /\ \A k \in Keys : temp'[k] = Absent
    BY <1>1 DEF ArtifactInv, TypeOK, Contents
<1>4. TypeOK'
  <2>1. condemned' \subseteq {l \in Keys : final'[l] # Absent}
      BY <1>1, <1>3 DEF ArtifactInv, TypeOK
  <2>2. run' \in [Runs -> Executions \cup Ended]
      BY <1>1, <1>2
  <2> QED BY <1>1, <1>2, <1>3, <2>1, <2>2 DEF ArtifactInv, TypeOK, WritesOK
<1>5. ContentNamed'
    BY <1>3 DEF ArtifactInv, ContentNamed, IsNamed, Whole
<1>6. SoleWriter'
  <2>1. \A k \in Keys : Writers(k)' = {}
      BY <1>2 DEF Writers
  <2>2. \A k \in Keys \ overlapped' : final'[k] # Torn
      BY <1>1, <1>3 DEF ArtifactInv, SoleWriter, SoleAt, Absent, Torn
  <2> QED BY <2>1, <2>2 DEF SoleWriter, SoleAt
<1>7. \A q \in Runs : RunRules(run[q])'
    BY <1>2 DEF RunRules, MadeNamed, Fed
<1> QED BY <1>4, <1>5, <1>6, <1>7 DEF ArtifactInv

(***************************************************************************)
(* The invariant and the properties                                        *)
(***************************************************************************)

LEMMA ArtifactInvInit == Init => ArtifactInv
<1> SUFFICES ASSUME Init PROVE ArtifactInv
    OBVIOUS
<1>1. TypeOK
  <2>1. 0 \in 0..MaxRequests
      BY ArtifactAssumption
  <2> QED BY <2>1 DEF Init, TypeOK, Configs, Contents, NoDoc, NoRun, Ended, WritesOK
<1>2. ContentNamed /\ SoleWriter
    BY DEF Init, ContentNamed, IsNamed, Whole, SoleWriter, SoleAt, Writers, NoRun, Absent, Torn
<1>3. \A r \in Runs : RunRules(run[r])
    BY DEF Init, NoRun, RunRules, MadeNamed, Fed, Unfinished
<1> QED BY <1>1, <1>2, <1>3 DEF ArtifactInv

LEMMA ArtifactInvStep == ArtifactInv /\ [Next]_vars => ArtifactInv'
<1> SUFFICES ASSUME ArtifactInv, [Next]_vars PROVE ArtifactInv'
    OBVIOUS
<1>1. CASE RemovesNext
  <2>1. Head(request.keys) \in Keys /\ RequestOK'
      BY <1>1, ContinueIs DEF RemovesNext, RequestOK, ArtifactInv, TypeOK
  <2> QED BY <1>1, <2>1, RemoveKeeps DEF RemovesNext
<1>2. ASSUME NEW k \in Keys, SweepRemoves(k) PROVE ArtifactInv'
    BY <1>2, RemoveKeeps, RequestStays DEF SweepRemoves
<1>3. CASE SweepLoads
  <2>1. condemned' \subseteq {k \in Keys : final[k] # Absent}
        /\ UNCHANGED <<backend, final, temp, overlapped, deployed, doc, run, request, requests>>
      BY <1>3 DEF SweepLoads, storage
  <2>2. TypeOK'
      BY <2>1 DEF ArtifactInv, TypeOK, WritesOK
  <2> QED BY <2>1, <2>2 DEF ArtifactInv, ContentNamed, SoleWriter, SoleAt, Writers, OwnKey,
             RunRules, MadeNamed, Fed, Present
<1>4. CASE UNCHANGED vars
  <2>1. UNCHANGED <<storage, deployed, condemned, doc, run, request, requests>>
      BY <1>4 DEF vars, storage
  <2> QED BY <2>1, RequestMoves, RequestStays
<1> QED
    BY <1>1, <1>2, <1>3, <1>4, StageStepKeeps, ReprocessResetsKeeps, UploadsKeeps,
       DeletesKeeps, ReprocessStartsKeeps, RemovalFailsKeeps, RedeploysKeeps DEF Next

LEMMA ArtifactInvCorrect == Spec => []ArtifactInv
BY ArtifactInvInit, ArtifactInvStep, PTL DEF Spec

\* Keys, contents, executions and requests stay within their types.
THEOREM ArtifactTypeCorrect == Spec => []TypeOK
<1>1. ArtifactInv => TypeOK
    BY DEF ArtifactInv
<1> QED BY <1>1, ArtifactInvCorrect, PTL

\* put_bytes is atomic for one writer at a time, whatever crashes in between.
THEOREM TornNeedsTwoWritersCorrect == Spec => []TornNeedsTwoWriters
<1>1. ArtifactInv => TornNeedsTwoWriters
    BY DEF ArtifactInv, SoleWriter, SoleAt, TornNeedsTwoWriters
<1> QED BY <1>1, ArtifactInvCorrect, PTL

\* A pipeline that nobody disturbed never fails for want of its input.
THEOREM InputsAreFoundCorrect == Spec => []InputsAreFound
<1>1. ArtifactInv => InputsAreFound
    BY DEF ArtifactInv, RunRules, Fed, InputsAreFound
<1> QED BY <1>1, ArtifactInvCorrect, PTL

\* An artifact is what its key says, but for the version of extract.
THEOREM KeysNameTheirContentCorrect == Spec => []KeysNameTheirContent
<1>1. ArtifactInv => KeysNameTheirContent
  <2> SUFFICES ASSUME ArtifactInv, NEW k \in Keys, Whole(final[k])
               PROVE  Len(final[k]) = k[1] /\ Tail(final[k]) = Tail(k[2])
      BY DEF KeysNameTheirContent
  <2>1. PICK s \in 1..LastArtifact, c \in Configs : k = CacheKey(s, c)
    <3>1. PICK s \in Extract..LastArtifact, c \in Configs : k = CacheKey(s, c)
        BY DEF Keys
    <3> QED BY <3>1, Constants
  <2>2. s \in Nat /\ s >= 1
      BY Constants
  <2>3. k[1] = s /\ k[2] = Fingerprint(s, c)
      BY <2>1 DEF CacheKey
  <2>4. k[2] \in Seq(Versions) /\ Len(k[2]) = s
    <3>1. k[2] \in [1..s -> Versions]
        BY <2>3, FingerprintIs
    <3> QED BY <2>2, <3>1
  <2>5. /\ final[k] \in Seq(Versions) /\ Len(final[k]) = s
        /\ \A i \in 2..s : final[k][i] = k[2][i]
    <3>1. final[k] \in [1..s -> Versions] /\ \A i \in 2..s : final[k][i] = k[2][i]
        BY <2>3 DEF ArtifactInv, ContentNamed, IsNamed
    <3> QED BY <2>2, <3>1
  <2>6. final[k] # <<>> /\ k[2] # <<>>
      BY <2>2, <2>4, <2>5
  <2>7. /\ Tail(final[k]) \in Seq(Versions) /\ Len(Tail(final[k])) = s - 1
        /\ \A i \in 1..(s - 1) : Tail(final[k])[i] = final[k][i + 1]
      BY <2>5, <2>6, HeadTailProperties
  <2>8. /\ Tail(k[2]) \in Seq(Versions) /\ Len(Tail(k[2])) = s - 1
        /\ \A i \in 1..(s - 1) : Tail(k[2])[i] = k[2][i + 1]
      BY <2>4, <2>6, HeadTailProperties
  <2>9. \A i \in 1..(s - 1) : Tail(final[k])[i] = Tail(k[2])[i]
      BY <2>2, <2>5, <2>7, <2>8
  <2>10. Tail(final[k]) = Tail(k[2])
      BY <2>2, <2>7, <2>8, <2>9, SeqEqual
  <2> QED BY <2>3, <2>5, <2>10
<1> QED BY <1>1, ArtifactInvCorrect, PTL
=============================================================================
