--------------------------- MODULE ArtifactCache ---------------------------
(***************************************************************************)
(* The artifacts that the stages of the ingestion pipeline hand to each    *)
(* other: gzipped JSON in object storage, keyed by the content hash of a   *)
(* document and the fingerprint of the stage (workers/tasks.py,            *)
(* services/storage/keys.py, local.py, s3.py).  The documents of this      *)
(* module have the same content, so all their pipelines share one set of   *)
(* keys.  Job rows, enqueues and retry counts are those of StageRunner.    *)
(***************************************************************************)
EXTENDS Integers, Sequences

CONSTANTS
    Docs,           \* documents with the same content hash
    Runs,           \* pipelines: one by the upload of a document, one by each
                    \* of its reprocess requests
    LastArtifact,   \* number of stages that write an artifact: extract, clean,
                    \* then chunk and embed, which read and write alike
    Backends,       \* implementations of BaseStorage in use
    Initial,        \* the configuration first deployed: a version of the code
                    \* and settings of each stage that has an artifact
    RestartStages,  \* the stages that reprocess requests name
    MaxRequests,    \* bound on delete and reprocess requests
    Upgrades        \* the configurations that may replace it, once

ASSUME ArtifactAssumption ==
    /\ Backends \subseteq {"local", "s3"}
    /\ LastArtifact \in 2..4 /\ MaxRequests \in Nat
    /\ RestartStages \subseteq 1..(LastArtifact + 1)
    /\ {Initial} \cup Upgrades \subseteq [1..LastArtifact -> Nat]

VARIABLES
    backend,        \* the storage in use
    deployed,       \* the configuration of processes that start now
    final,          \* the object at each key: Absent, Torn or the lineage of
                    \* what was written, the versions that computed it
    temp,           \* LocalStorage: the temporary file of each key
    doc,            \* each document's row, with its parsed_key
    run,            \* what each pipeline is doing
    request,        \* the delete or reprocess request in progress, one at a time
    requests,       \* number of them so far
    condemned,      \* the key a pass of sweep_orphans will remove
    overlapped      \* history: keys two executions have written at a time, since
                    \* they were last written by one

vars == <<backend, deployed, final, temp, doc, run, request, requests, condemned, overlapped>>
storage == <<backend, final, temp, overlapped>>

Extract == 1
Clean == 2
Index == LastArtifact + 1

(***************************************************************************)
(* services/storage/keys.py                                                *)
(***************************************************************************)

Configs == {Initial} \cup Upgrades

\* Mutant: each stage hashes its own configuration only.
FingerprintUnchained(stage, config) == [i \in 1..stage |-> IF i = stage THEN config[i] ELSE 0]

\* The chained hash of _fingerprints: equal if and only if the versions of the
\* stage and of every stage before it are.
Fingerprint(stage, config) == SubSeq(config, 1, stage)

CacheKey(stage, config) == <<stage, Fingerprint(stage, config)>>

\* Upstream first.  The key of the index stage never exists.
ArtifactKeysFrom(stage) ==
    [i \in 1..(Index - stage) |-> CacheKey(stage + i - 1, deployed)]

Keys == {CacheKey(s, c) : s \in Extract..LastArtifact, c \in Configs}
ParsedKeys == {CacheKey(Extract, c) : c \in Configs}
Versions == {c[i] : c \in Configs, i \in Extract..LastArtifact}
Lineages == UNION {[1..s -> Versions] : s \in Extract..LastArtifact}
Absent == <<>>
Torn == <<-1>>
Contents == Lineages \cup {Absent, Torn}
Whole(content) == content \notin {Absent, Torn}

(***************************************************************************)
(* State                                                                   *)
(***************************************************************************)

NoRun == [pc |-> "unused"]
NoRequest == [doc |-> "none", resume |-> 0, keys |-> <<>>]
NoDoc == [state |-> "new", parsed |-> <<>>]
Unfinished == {"idle", "load", "open", "write", "replace", "finish"}

Executions ==
    [pc : Unfinished, doc : Docs, stage : Extract..Index, parsed : ParsedKeys \cup {<<>>},
     made : Lineages \cup {<<>>}, fd : {"none", "temp", "final", "gone"},
     disturbed : BOOLEAN]
Ended == [pc : {"unused", "torn", "gone", "invalid_key", "done"}] \cup [pc : {"missing"}, disturbed : BOOLEAN]

\* What is written has a key, and is as long as it says.
WritesOK(x) ==
    /\ x.pc \in {"open", "write", "replace"} => x.stage # Index
    /\ x.pc \in {"open", "write"} => x.made \in [1..x.stage -> Versions]

TypeOK ==
    /\ backend \in Backends
    /\ deployed \in Configs
    /\ final \in [Keys -> Contents]
    /\ temp \in [Keys -> Contents]
    /\ doc \in [Docs -> [state : {"new", "exists", "deleted"}, parsed : ParsedKeys \cup {<<>>}]]
    /\ run \in [Runs -> Executions \cup Ended]
    /\ \A r \in Runs : WritesOK(run[r])
    /\ request \in {NoRequest} \cup [doc : Docs, resume : 0..Index, keys : Seq(Keys)]
    /\ requests \in 0..MaxRequests
    /\ condemned \subseteq {k \in Keys : final[k] # Absent}
    /\ overlapped \subseteq Keys

Init ==
    /\ backend \in Backends
    /\ deployed = Initial
    /\ final = [k \in Keys |-> Absent]
    /\ temp = [k \in Keys |-> Absent]
    /\ doc = [d \in Docs |-> NoDoc]
    /\ run = [r \in Runs |-> NoRun]
    /\ request = NoRequest
    /\ requests = 0
    /\ condemned = {}
    /\ overlapped = {}

Exists(d) == doc[d].state = "exists"

\* A pipeline at rest before a stage.
Waiting(d, stage) ==
    [pc |-> "idle", doc |-> d, stage |-> stage, parsed |-> <<>>,
     made |-> <<>>, fd |-> "none", disturbed |-> FALSE]

Rest(r) == [Waiting(run[r].doc, run[r].stage) EXCEPT !.disturbed = run[r].disturbed]
Step(r, next) == run' = [run EXCEPT ![r] = next]
Goto(r, pc) == Step(r, [run[r] EXCEPT !.pc = pc])
Ends(r, pc) == Step(r, [pc |-> pc])

(***************************************************************************)
(* Files: LocalStorage and S3Storage                                       *)
(***************************************************************************)

OwnKey(r) == CacheKey(run[r].stage, deployed)

Writers(k) == {r \in Runs : run[r].pc \in {"write", "replace"} /\ OwnKey(r) = k}

\* History: these pipelines, while they run, may miss an input.
Disturb ==
    [r \in Runs |-> IF run[r].pc \in Unfinished
                    THEN [run[r] EXCEPT !.disturbed = TRUE] ELSE run[r]]

\* An open file stays with its inode when a name is moved or removed.
Moved(runs, k, from, to) ==
    [r \in Runs |->
        IF runs[r].pc = "write" /\ CacheKey(runs[r].stage, deployed) = k /\ runs[r].fd = from
        THEN [runs[r] EXCEPT !.fd = to] ELSE runs[r]]

\* delete_raw.  Pipelines that run lose an object they may be about to read.
RemoveArtifact(k) ==
    /\ final' = [final EXCEPT ![k] = Absent]
    /\ run' = Moved(IF final[k] = Absent THEN run ELSE Disturb, k, "final", "gone")
    /\ condemned' = condemned \ {k}

(***************************************************************************)
(* The stage functions do_extract .. do_index                              *)
(***************************************************************************)

\* do_extract and do_clean ask the storage for their own artifact first, but
\* exists of S3Storage takes the keys of source files only: InvalidKey, which
\* is permanent.  No pipeline over S3 comes to write an artifact.
LookupRaises(stage) == backend = "s3" /\ stage \in {Extract, Clean}

\* The document is loaded once.  An artifact that is found has any content:
\* do_extract then loads it, do_clean does not.
Begins(r) ==
    LET d == run[r].doc
        stage == run[r].stage
        hit == stage \in {Extract, Clean} /\ final[CacheKey(stage, deployed)] # Absent
        parsed == IF stage = Clean THEN doc[d].parsed
                  ELSE IF hit THEN CacheKey(stage, deployed) ELSE <<>>
    IN
    /\ run[r].pc = "idle"
    /\ \/ /\ ~Exists(d)
          /\ Ends(r, "gone")
       \/ /\ Exists(d) /\ LookupRaises(stage)
          /\ Ends(r, "invalid_key")
       \/ /\ Exists(d) /\ ~LookupRaises(stage)
          /\ Step(r, [run[r] EXCEPT !.pc = IF hit /\ stage = Clean THEN "finish" ELSE "load",
                                    !.parsed = parsed])
    /\ UNCHANGED <<storage, deployed, doc, request, requests, condemned>>

\* What an execution reads: do_clean goes by the document's parsed_key, the
\* later stages by the key they derive themselves.
InputKey(r) ==
    IF run[r].stage \in {Extract, Clean} THEN run[r].parsed
    ELSE CacheKey(run[r].stage - 1, deployed)

Input(r) == IF InputKey(r) = <<>> THEN Absent ELSE final[InputKey(r)]

CacheHit(r) == run[r].stage = Extract /\ run[r].parsed = OwnKey(r)

Reads(r) == run[r].pc = "load" /\ (run[r].stage = Extract => CacheHit(r))

\* do_extract without an artifact parses the source file.
Parses(r) ==
    /\ run[r].pc = "load" /\ run[r].stage = Extract /\ ~CacheHit(r)
    /\ Step(r, [run[r] EXCEPT !.pc = "open", !.made = Fingerprint(Extract, deployed)])
    /\ UNCHANGED <<storage, deployed, doc, request, requests, condemned>>

\* The input is whole.  On a hit and in do_index nothing is written.
Loads(r) ==
    /\ Reads(r) /\ Whole(Input(r))
    /\ IF CacheHit(r) \/ run[r].stage = Index THEN Goto(r, "finish")
       ELSE Step(r, [run[r] EXCEPT !.pc = "open",
                        !.made = Append(Input(r), deployed[run[r].stage])])
    /\ UNCHANGED <<storage, deployed, doc, request, requests, condemned>>

\* ObjectNotFound, or no parsed_key: permanent.
FindsNothing(r) ==
    /\ Reads(r) /\ Input(r) = Absent
    /\ Step(r, [pc |-> "missing", disturbed |-> run[r].disturbed])
    /\ UNCHANGED <<storage, deployed, doc, request, requests, condemned>>

\* An empty object decompresses to an empty text, which is a ValueError of the
\* decoder: permanent.  A part of one is an EOFError: see FailsTransiently.
FindsTorn(r) ==
    /\ Reads(r) /\ Input(r) = Torn
    /\ Ends(r, "torn")
    /\ UNCHANGED <<storage, deployed, doc, request, requests, condemned>>

\* Mutant: put_bytes writes in place.
OpensFinal(r) ==
    LET k == OwnKey(r) IN
    /\ backend = "local" /\ run[r].pc = "open"
    /\ final' = [final EXCEPT ![k] = Torn]
    /\ Step(r, [run[r] EXCEPT !.pc = "write", !.fd = "final"])
    /\ overlapped' = IF Writers(k) # {} THEN overlapped \cup {k} ELSE overlapped \ {k}
    /\ UNCHANGED <<backend, deployed, temp, doc, request, requests, condemned>>

\* put_bytes of LocalStorage: the temporary file of a key has one name, so a
\* second writer truncates the file of the first.
OpensTemp(r) ==
    LET k == OwnKey(r) IN
    /\ backend = "local" /\ run[r].pc = "open"
    /\ temp' = [temp EXCEPT ![k] = Torn]
    /\ Step(r, [run[r] EXCEPT !.pc = "write", !.fd = "temp"])
    /\ overlapped' = IF Writers(k) # {} THEN overlapped \cup {k}
                     ELSE IF final[k] = Torn THEN overlapped ELSE overlapped \ {k}
    /\ UNCHANGED <<backend, deployed, final, doc, request, requests, condemned>>

\* Its write goes to the file it opened, wherever that is by now.  Over other,
\* longer content it leaves a tail.
Writes(r) ==
    LET k == OwnKey(r)
        Over(old) == IF Whole(old) /\ old # run[r].made THEN {run[r].made, Torn}
                     ELSE {run[r].made}
    IN
    /\ run[r].pc = "write"
    /\ Step(r, [run[r] EXCEPT !.pc = "replace", !.fd = "none"])
    /\ CASE run[r].fd = "temp" ->
              \E c \in Over(temp[k]) : temp' = [temp EXCEPT ![k] = c] /\ final' = final
         [] run[r].fd = "final" ->
              \E c \in Over(final[k]) : final' = [final EXCEPT ![k] = c] /\ temp' = temp
         [] OTHER -> UNCHANGED <<final, temp>>
    /\ UNCHANGED <<backend, deployed, doc, request, requests, condemned, overlapped>>

\* os.replace moves whatever file has the temporary name.
Replaces(r) ==
    LET k == OwnKey(r) IN
    /\ run[r].pc = "replace" /\ temp[k] # Absent
    /\ final' = [final EXCEPT ![k] = temp[k]]
    /\ temp' = [temp EXCEPT ![k] = Absent]
    /\ run' = [Moved(Moved(run, k, "final", "gone"), k, "temp", "final")
                EXCEPT ![r].pc = "finish"]
    /\ condemned' = condemned \ {k}
    /\ UNCHANGED <<backend, deployed, doc, request, requests, overlapped>>

\* FileNotFoundError, an OSError: another writer has moved the file.
LosesTemp(r) ==
    /\ run[r].pc = "replace" /\ temp[OwnKey(r)] = Absent
    /\ Step(r, Rest(r))
    /\ UNCHANGED <<storage, deployed, doc, request, requests, condemned>>

\* Mutant: on a cache hit do_extract does not record the key.
FinishesHitUnrecorded(r) ==
    LET d == run[r].doc IN
    /\ run[r].pc = "finish" /\ Exists(d)
    /\ doc' = IF run[r].stage = Extract /\ ~CacheHit(r)
              THEN [doc EXCEPT ![d].parsed = OwnKey(r)] ELSE doc
    /\ IF run[r].stage = Index THEN Ends(r, "done")
       ELSE Step(r, [Rest(r) EXCEPT !.stage = @ + 1])
    /\ UNCHANGED <<storage, deployed, request, requests, condemned>>

\* The session of the stage function commits parsed_key (or the chunk rows), and
\* complete_stage goes on to the next stage.  If the artifact was removed since
\* it was written or hit, the key misleads the other pipelines of the document.
Finishes(r) ==
    LET d == run[r].doc
        row == IF run[r].stage = Extract THEN [doc[d] EXCEPT !.parsed = OwnKey(r)]
               ELSE doc[d]
        misleads == run[r].stage = Extract /\ final[OwnKey(r)] = Absent
    IN
    /\ run[r].pc = "finish" /\ Exists(d)
    /\ doc' = [doc EXCEPT ![d] = row]
    /\ run' = [IF misleads THEN Disturb ELSE run EXCEPT
                 ![r] = IF run[r].stage = Index THEN [pc |-> "done"]
                        ELSE [Rest(r) EXCEPT !.stage = @ + 1]]
    /\ UNCHANGED <<storage, deployed, request, requests, condemned>>

LosesDocument(r) ==
    /\ run[r].pc = "finish" /\ ~Exists(run[r].doc)
    /\ Ends(r, "gone")
    /\ UNCHANGED <<storage, deployed, doc, request, requests, condemned>>

\* A transient error of any call, or a crash of the worker: ARQ runs the stage
\* again, or after MAX_TRIES does not.  Its temporary file stays; unless there
\* is another writer, the next one truncates it before anybody reads it.
FailsTransiently(r) ==
    /\ run[r].pc \in Unfinished \ {"idle"}
    /\ Step(r, Rest(r))
    /\ temp' = IF \E k \in Keys : Writers(k) = {r}
               THEN [temp EXCEPT ![OwnKey(r)] = Absent] ELSE temp
    /\ UNCHANGED <<backend, final, overlapped, deployed, doc, request, requests, condemned>>

StageStep(r) ==
    \/ Begins(r) \/ Parses(r) \/ Loads(r) \/ FindsNothing(r) \/ FindsTorn(r)
    \/ OpensTemp(r) \/ Writes(r) \/ Replaces(r) \/ LosesTemp(r)
    \/ Finishes(r) \/ LosesDocument(r) \/ FailsTransiently(r)

(***************************************************************************)
(* Requests, the orphan sweeper and deployments                            *)
(***************************************************************************)

Uploads(r, d) ==
    /\ run[r].pc = "unused" /\ doc[d].state = "new"
    /\ doc' = [doc EXCEPT ![d].state = "exists"]
    /\ Step(r, Waiting(d, Extract))
    /\ UNCHANGED <<storage, deployed, request, requests, condemned>>

\* delete_user_document: the row first, then every artifact of its content.
Deletes(d) ==
    /\ Exists(d) /\ request = NoRequest /\ requests < MaxRequests
    /\ doc' = [doc EXCEPT ![d] = [NoDoc EXCEPT !.state = "deleted"]]
    /\ requests' = requests + 1
    /\ request' = [doc |-> d, resume |-> 0, keys |-> ArtifactKeysFrom(Extract)]
    /\ UNCHANGED <<storage, deployed, run, condemned>>

\* reprocess: the artifacts from a stage on, then the rows.
ReprocessStarts(d, stage) ==
    /\ Exists(d) /\ request = NoRequest /\ requests < MaxRequests
    /\ \E r \in Runs : run[r].pc = "unused"
    /\ requests' = requests + 1
    /\ request' = [doc |-> d, resume |-> stage, keys |-> ArtifactKeysFrom(stage)]
    /\ UNCHANGED <<storage, deployed, doc, run, condemned>>

\* A delete ends with the last key.
Continue(keys) ==
    IF keys = <<>> /\ request.resume = 0 THEN NoRequest ELSE [request EXCEPT !.keys = keys]

RemovesNext ==
    /\ request.keys # <<>>
    /\ request' = Continue(Tail(request.keys))
    /\ RemoveArtifact(Head(request.keys))
    /\ UNCHANGED <<requests, backend, deployed, temp, doc, overlapped>>

\* A delete logs it and goes on with the next key; a reprocess request fails.
RemovalFails ==
    /\ request.keys # <<>>
    /\ request' = IF request.resume = 0 THEN Continue(Tail(request.keys)) ELSE NoRequest
    /\ UNCHANGED <<requests, storage, deployed, doc, run, condemned>>

\* The stage it restarts at may have no input: no earlier run came that far, or
\* it did under another configuration.
HasInput(d, stage) ==
    LET input == IF stage = Clean THEN doc[d].parsed ELSE CacheKey(stage - 1, deployed)
    IN IF input = <<>> THEN FALSE ELSE final[input] # Absent

ReprocessResets(r) ==
    LET d == request.doc
        stage == request.resume
    IN
    /\ request.resume # 0 /\ request.keys = <<>> /\ run[r].pc = "unused"
    /\ request' = NoRequest
    /\ IF Exists(d)
       THEN Step(r, [Waiting(d, stage) EXCEPT
                       !.disturbed = IF stage = Extract THEN FALSE ELSE ~HasInput(d, stage)])
       ELSE UNCHANGED run
    /\ UNCHANGED <<requests, storage, deployed, doc, condemned>>

\* _load_live_keys: the keys of the present configuration and every parsed_key.
Live ==
    LET existing == {d \in Docs : Exists(d)} IN
    {doc[d].parsed : d \in existing} \cup
    (IF existing = {} THEN {} ELSE {CacheKey(s, deployed) : s \in Extract..LastArtifact})

\* A pass condemns what is not live and older than the grace period.  The model
\* follows one of its keys.
SweepLoads ==
    /\ condemned = {}
    /\ \E k \in Keys \ Live : final[k] # Absent /\ condemned' = {k}
    /\ UNCHANGED <<storage, deployed, doc, run, request, requests>>

SweepRemoves(k) ==
    /\ k \in condemned
    /\ RemoveArtifact(k)
    /\ UNCHANGED <<backend, deployed, temp, doc, request, requests, overlapped>>

\* Workers and API restart with other versions: the executions they interrupt
\* run again.  What is left under the old keys is not found any more, but for
\* what a parsed_key refers to; the model forgets the rest.
Redeploys ==
    LET forgotten == {k \in Keys : /\ \A s \in Extract..LastArtifact : k # CacheKey(s, deployed')
                                   /\ \A d \in Docs : k # doc[d].parsed}
    IN
    /\ deployed = Initial
    /\ deployed' \in Upgrades
    /\ run' = [r \in Runs |->
                IF run[r].pc \in Unfinished THEN [Rest(r) EXCEPT !.disturbed = TRUE] ELSE run[r]]
    /\ final' = [k \in Keys |-> IF k \in forgotten THEN Absent ELSE final[k]]
    /\ temp' = [k \in Keys |-> Absent]
    /\ overlapped' = overlapped \ forgotten
    /\ condemned' = condemned \ forgotten
    /\ UNCHANGED <<backend, doc, request, requests>>

Next ==
    \/ \E r \in Runs : StageStep(r) \/ ReprocessResets(r)
    \/ \E r \in Runs, d \in Docs : Uploads(r, d)
    \/ \E d \in Docs : Deletes(d)
    \/ \E d \in Docs, s \in RestartStages : ReprocessStarts(d, s)
    \/ RemovesNext \/ RemovalFails
    \/ SweepLoads
    \/ \E k \in Keys : SweepRemoves(k)
    \/ Redeploys

Spec == Init /\ [][Next]_vars

(***************************************************************************)
(* Properties                                                              *)
(***************************************************************************)

\* put_bytes is atomic for one writer at a time: an object is torn only if two
\* executions have written its key at once, whatever crashes between the
\* truncation, the write and the rename.
TornNeedsTwoWriters ==
    \A k \in Keys : final[k] = Torn => k \in overlapped

\* A stage fails for want of its input only if somebody took it away: a
\* request on any document with this content, the orphan sweeper with its stale
\* key set, a deployment, a reprocess request for a stage that never ran, or an
\* earlier pipeline of the document that recorded what was removed meanwhile.
\* A pipeline left alone finds what its own earlier stages wrote, although
\* every stage may have run several times and been finished by another
\* document's pipeline.
InputsAreFound ==
    \A r \in Runs : run[r].pc = "missing" => run[r].disturbed

\* The artifact at a key was computed by the versions its fingerprint names,
\* but for the version of extract: do_clean reads by parsed_key, which may be
\* of an earlier configuration, and files the result under the present one.
KeysNameTheirContent ==
    \A k \in Keys : Whole(final[k]) =>
        /\ Len(final[k]) = k[1]
        /\ Tail(final[k]) = Tail(k[2])

\* keys.py on the chained fingerprints: a new version of any stage changes
\* every key downstream, so that what is found under a key was made by the
\* versions of that key.
CacheHoldsItsKey ==
    \A k \in Keys : Whole(final[k]) => final[k] = k[2]
=============================================================================
