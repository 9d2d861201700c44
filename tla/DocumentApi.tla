---------------------------- MODULE DocumentApi ----------------------------
(***************************************************************************)
(* The request handlers that change documents: upload, delete and          *)
(* reprocess.  A handler's database session commits when the handler has   *)
(* returned (get_db), so an enqueue inside a handler precedes the commit   *)
(* of the rows it flushed.  A handler commits earlier only where the       *)
(* service does so itself.                                                 *)
(***************************************************************************)
EXTENDS ArqQueue

CONSTANTS
    Requests,       \* handlers that may be in progress at once
    MaxReprocess    \* bound: reprocess requests accepted in a behaviour

ASSUME MaxReprocessAssumption == MaxReprocess \in Nat

VARIABLES
    req,            \* what each handler is doing
    reprocessed     \* reprocess requests accepted so far

apiVars == <<req, reprocessed>>

\* pc: "lookup" is a re-upload looking for a job; "enqueue" and "commit" end
\* every handler; "reset", "from" and "extract" are the writes of reprocess.
\* status and at are the columns reprocess loaded with the document, before
\* it deleted artifacts.
ReqPcs == {"idle", "lookup", "enqueue", "commit", "reset", "from", "extract"}

RequestState ==
    [op : {"none", "create", "existing", "reprocess"},
     pc : ReqPcs, doc : Docs \cup {NoDoc}, job : Jobs \cup {0},
     from : Stages, status : DocumentStatus \cup {"none"}, at : BOOLEAN]

NoRequest == [op |-> "none", pc |-> "idle", doc |-> NoDoc, job |-> 0,
              from |-> 1, status |-> "none", at |-> FALSE]

ApiTypeOK ==
    /\ req \in [Requests -> RequestState]
    /\ reprocessed \in 0..MaxReprocess

ApiInit ==
    /\ req = [r \in Requests |-> NoRequest]
    /\ reprocessed = 0

Idle(r) == req[r].pc = "idle"
EndRequest(r) == req' = [req EXCEPT ![r] = NoRequest]

(***************************************************************************)
(* Upload                                                                  *)
(***************************************************************************)

\* get_or_create on new content: the document (PENDING) and its EXTRACT job
\* (QUEUED) are flushed.  Until the commit nobody else sees them.
UploadNew(r, d) ==
    /\ Idle(r)
    /\ docStatus[d] = "UNBORN"
    /\ docStatus' = [docStatus EXCEPT ![d] = "UNCOMMITTED"]
    /\ InsertJob(d, 1)
    /\ jobStatus' = [jobStatus EXCEPT ![nextJob] = "UNCOMMITTED"]
    /\ req' = [req EXCEPT ![r] = [NoRequest EXCEPT !.op = "create",
                                    !.pc = "enqueue", !.doc = d, !.job = nextJob]]
    /\ UNCHANGED <<docChunks, docIndexedAt, jobAge, reprocessed, arqVars>>

\* get_or_create on content the user already has: the document is found.
UploadExisting(r, d) ==
    /\ Idle(r)
    /\ DocVisible(d)
    /\ req' = [req EXCEPT ![r] = [NoRequest EXCEPT !.op = "existing",
                                    !.pc = "lookup", !.doc = d]]
    /\ UNCHANGED <<rowVars, reprocessed, arqVars>>

\* A second SELECT finds the latest job, which is enqueued under its own
\* stage; no row changes.  Without a job the bare raise ends the request.
UploadFindsJob(r) ==
    /\ req[r].pc = "lookup"
    /\ \/ \E j \in Jobs :
             /\ LatestJob(req[r].doc, j)
             /\ req' = [req EXCEPT ![r].pc = "enqueue", ![r].job = j]
       \/ JobsOf(req[r].doc) = {} /\ EndRequest(r)
    /\ UNCHANGED <<rowVars, reprocessed, arqVars>>

(***************************************************************************)
(* The end of upload and reprocess: enqueue, then commit                   *)
(***************************************************************************)

\* The handler's enqueue, under the id of the job it holds.
RequestEnqueues(r) ==
    /\ req[r].pc = "enqueue"
    /\ EnqueueJob(req[r].job)
    /\ req' = [req EXCEPT ![r].pc = "commit"]
    /\ UNCHANGED <<rowVars, reprocessed>>

\* Mutant: the job is not in the transaction that commits the document.
RequestCommitsDocumentOnly(r) ==
    /\ req[r].pc = "commit"
    /\ docStatus' = IF req[r].op = "create"
                      THEN [docStatus EXCEPT ![req[r].doc] = "PENDING"]
                      ELSE docStatus
    /\ EndRequest(r)
    /\ UNCHANGED <<docChunks, docIndexedAt, jobDoc, jobStage, jobStatus, jobAge,
                   nextJob, reprocessed, arqVars>>

\* Mutant: a re-upload puts the job it found back to QUEUED.
RequestCommitsRequeuing(r) ==
    /\ req[r].pc = "commit"
    /\ docStatus' = IF req[r].op = "create"
                      THEN [docStatus EXCEPT ![req[r].doc] = "PENDING"]
                      ELSE docStatus
    /\ jobStatus' = IF req[r].op # "existing" \/ JobVisible(req[r].job)
                      THEN [jobStatus EXCEPT ![req[r].job] = "QUEUED"]
                      ELSE jobStatus
    /\ EndRequest(r)
    /\ UNCHANGED <<docChunks, docIndexedAt, jobDoc, jobStage, jobAge, nextJob,
                   reprocessed, arqVars>>

\* The session's commit: what the handler flushed becomes visible.
RequestCommits(r) ==
    /\ req[r].pc = "commit"
    /\ docStatus' = IF req[r].op = "create"
                      THEN [docStatus EXCEPT ![req[r].doc] = "PENDING"]
                      ELSE docStatus
    /\ jobStatus' = IF req[r].op # "existing"
                      THEN [jobStatus EXCEPT ![req[r].job] = "QUEUED"]
                      ELSE jobStatus
    /\ EndRequest(r)
    /\ UNCHANGED <<docChunks, docIndexedAt, jobDoc, jobStage, jobAge, nextJob,
                   reprocessed, arqVars>>

\* Redis or the database raises, or the API process dies: get_db rolls back
\* what is uncommitted; what the service committed stays.
RequestAborts(r) ==
    /\ ~Idle(r)
    /\ docStatus' = [d \in Docs |-> IF docStatus[d] = "UNCOMMITTED" /\ req[r].doc = d
                                      THEN "DELETED" ELSE docStatus[d]]
    /\ jobStatus' = [j \in Jobs |-> IF jobStatus[j] = "UNCOMMITTED" /\ req[r].job = j
                                      THEN "DELETED" ELSE jobStatus[j]]
    /\ EndRequest(r)
    /\ UNCHANGED <<docChunks, docIndexedAt, jobDoc, jobStage, jobAge, nextJob,
                   reprocessed, arqVars>>

(***************************************************************************)
(* Reprocess                                                               *)
(***************************************************************************)

\* The document is loaded, then artifacts of fromStage and later are deleted
\* from storage (not modelled here).
ReprocessLoads(r, d, fromStage) ==
    /\ Idle(r)
    /\ DocVisible(d)
    /\ reprocessed < MaxReprocess
    /\ reprocessed' = reprocessed + 1
    /\ req' = [req EXCEPT ![r] =
                 [NoRequest EXCEPT !.op = "reprocess", !.pc = "reset",
                                   !.doc = d, !.from = fromStage,
                                   !.status = docStatus[d],
                                   !.at = docIndexedAt[d]]]
    /\ UNCHANGED <<rowVars, arqVars>>

\* set_index_results with chunk_count 0 and indexed_at None, for a session
\* that loaded indexed_at as seenAt.
SetIndexResults(d, seenAt) ==
    docIndexedAt' = IF seenAt
                      THEN [docIndexedAt EXCEPT ![d] = FALSE]
                      ELSE docIndexedAt

\* First commit: chunks dropped, status PENDING, indexed_at cleared.  A
\* column is written only if it differs from what was loaded.
ReprocessResets(r) ==
    LET d == req[r].doc IN
    /\ req[r].pc = "reset"
    /\ DocVisible(d)
    /\ docChunks' = [docChunks EXCEPT ![d] = FALSE]
    /\ docStatus' = IF req[r].status = "PENDING"
                      THEN docStatus
                      ELSE [docStatus EXCEPT ![d] = "PENDING"]
    /\ SetIndexResults(d, req[r].at)
    /\ req' = [req EXCEPT ![r].pc = "from"]
    /\ UNCHANGED <<jobDoc, jobStage, jobStatus, jobAge, nextJob,
                   reprocessed, arqVars>>

\* Second commit: a QUEUED job for fromStage.  Nothing enqueues it.
ReprocessCreatesFromJob(r) ==
    /\ req[r].pc = "from"
    /\ DocVisible(req[r].doc)
    /\ InsertJob(req[r].doc, req[r].from)
    /\ jobStatus' = [jobStatus EXCEPT ![nextJob] = "QUEUED"]
    /\ req' = [req EXCEPT ![r].pc = "extract"]
    /\ UNCHANGED <<docStatus, docChunks, docIndexedAt, jobAge,
                   reprocessed, arqVars>>

\* A second job, for EXTRACT, is flushed and returned; the handler enqueues
\* this one.
ReprocessCreatesExtractJob(r) ==
    /\ req[r].pc = "extract"
    /\ DocVisible(req[r].doc)
    /\ InsertJob(req[r].doc, 1)
    /\ jobStatus' = [jobStatus EXCEPT ![nextJob] = "UNCOMMITTED"]
    /\ req' = [req EXCEPT ![r].pc = "enqueue", ![r].job = nextJob]
    /\ UNCHANGED <<docStatus, docChunks, docIndexedAt, jobAge,
                   reprocessed, arqVars>>

\* The document was deleted meanwhile: NotFoundError or a foreign key
\* violation ends the request.
ReprocessLosesDocument(r) ==
    /\ req[r].pc \in {"reset", "from", "extract"}
    /\ ~DocVisible(req[r].doc)
    /\ EndRequest(r)
    /\ UNCHANGED <<rowVars, reprocessed, arqVars>>

(***************************************************************************)
(* Delete                                                                  *)
(***************************************************************************)

\* The row is deleted and committed; jobs and chunks cascade.  A flushed job
\* of the document holds a key-share lock on its row: the delete waits.
\* Deleting the storage objects afterwards is not modelled here.
Delete(d) ==
    /\ DocVisible(d)
    /\ \A j \in Jobs : ~(jobStatus[j] = "UNCOMMITTED" /\ jobDoc[j] = d)
    /\ docStatus' = [docStatus EXCEPT ![d] = "DELETED"]
    /\ docChunks' = [docChunks EXCEPT ![d] = FALSE]
    /\ docIndexedAt' = [docIndexedAt EXCEPT ![d] = FALSE]
    /\ jobStatus' = [j \in Jobs |-> IF jobDoc[j] = d THEN "DELETED"
                                                     ELSE jobStatus[j]]
    /\ UNCHANGED <<jobDoc, jobStage, jobAge, nextJob, apiVars, arqVars>>

\* The steps that end a request somebody started.
RequestStep(r) ==
    \/ UploadFindsJob(r)
    \/ RequestEnqueues(r) \/ RequestCommits(r) \/ RequestAborts(r)

UploadNext ==
    \/ \E r \in Requests, d \in Docs : UploadNew(r, d) \/ UploadExisting(r, d)
    \/ \E r \in Requests : RequestStep(r)
    \/ \E d \in Docs : Delete(d)

ReprocessStep(r) ==
    \/ ReprocessResets(r) \/ ReprocessCreatesFromJob(r)
    \/ ReprocessCreatesExtractJob(r) \/ ReprocessLosesDocument(r)

ReprocessNext ==
    \E r \in Requests :
        \/ \E d \in Docs, s \in Stages : ReprocessLoads(r, d, s)
        \/ ReprocessStep(r)
=============================================================================
