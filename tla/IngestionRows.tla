--------------------------- MODULE IngestionRows ---------------------------
(***************************************************************************)
(* The rows of PostgreSQL the ingestion pipeline shares: the documents     *)
(* table, the processing_jobs table and, per document, whether it has rows *)
(* in the chunks table.  Workers, request handlers and the sweeper all     *)
(* read and write these rows through short READ COMMITTED transactions     *)
(* that take no row locks, so the operators below are the writes of a      *)
(* transaction's commit; what was read earlier is kept by the reader.      *)
(*                                                                         *)
(* A stage of the pipeline is its position in _STAGE_SEQUENCE: 1 is        *)
(* EXTRACT and LastStage is INDEX (5 in the code).                         *)
(***************************************************************************)
EXTENDS Naturals

CONSTANTS
    Docs,       \* ids of document rows
    NoDoc,      \* the document of a job id that was never drawn
    MaxJobs,    \* bound: how many job rows a behaviour creates
    LastStage   \* number of stages in _STAGE_SEQUENCE

ASSUME DocsAssumption == NoDoc \notin Docs
ASSUME MaxJobsAssumption == MaxJobs \in Nat
ASSUME LastStageAssumption == LastStage \in Nat \ {0}

VARIABLES
    docStatus,     \* documents.status, or why there is no committed row
    docChunks,     \* whether chunk rows exist for the document
    docIndexedAt,  \* whether documents.indexed_at is set
    jobDoc,        \* processing_jobs.document_id
    jobStage,      \* processing_jobs.stage
    jobStatus,     \* processing_jobs.status, or why there is no committed row
    jobAge,        \* age of started_at (of created_at before the job starts)
    nextJob        \* the next job id; ids grow with created_at

rowVars == <<docStatus, docChunks, docIndexedAt,
             jobDoc, jobStage, jobStatus, jobAge, nextJob>>

Jobs == 1..MaxJobs
Stages == 1..LastStage

DocumentStatus == {"PENDING", "PROCESSING", "INDEXED", "FAILED"}
JobStatus == {"QUEUED", "RUNNING", "DONE", "FAILED"}

\* A row that no other transaction can see: its id is not drawn yet, its
\* INSERT is flushed but not committed, or it is deleted (or rolled back).
NoRow == {"UNBORN", "UNCOMMITTED", "DELETED"}

\* The statuses start_stage accepts and fail_stage overwrites.
ActiveDoc == {"PENDING", "PROCESSING"}
ActiveJob == {"QUEUED", "RUNNING"}
TerminalJob == {"DONE", "FAILED"}

\* Below the cutoff list_stuck uses for the job's status, past it, or also
\* past GIVE_UP_AFTER.
Ages == {"fresh", "stuck", "expired"}

DocVisible(d) == docStatus[d] \in DocumentStatus
JobVisible(j) == jobStatus[j] \in JobStatus
JobsOf(d) == {j \in Jobs : JobVisible(j) /\ jobDoc[j] = d}
ActiveJobsOf(d) == {j \in JobsOf(d) : jobStatus[j] \in ActiveJob}

\* JobRepository.latest_by_document returns j: ORDER BY created_at DESC
\* LIMIT 1.
LatestJob(d, j) == j \in JobsOf(d) /\ \A k \in JobsOf(d) : k <= j

RowsTypeOK ==
    /\ docStatus \in [Docs -> DocumentStatus \cup NoRow]
    /\ docChunks \in [Docs -> BOOLEAN]
    /\ docIndexedAt \in [Docs -> BOOLEAN]
    /\ jobDoc \in [Jobs -> Docs \cup {NoDoc}]
    /\ jobStage \in [Jobs -> Stages]
    /\ jobStatus \in [Jobs -> JobStatus \cup NoRow]
    /\ jobAge \in [Jobs -> Ages]
    /\ nextJob \in 1..(MaxJobs + 1)

RowsInit ==
    /\ docStatus = [d \in Docs |-> "UNBORN"]
    /\ docChunks = [d \in Docs |-> FALSE]
    /\ docIndexedAt = [d \in Docs |-> FALSE]
    /\ jobDoc = [j \in Jobs |-> NoDoc]
    /\ jobStage = [j \in Jobs |-> 1]
    /\ jobStatus = [j \in Jobs |-> "UNBORN"]
    /\ jobAge = [j \in Jobs |-> "fresh"]
    /\ nextJob = 1

(***************************************************************************)
(* Writes                                                                  *)
(***************************************************************************)

\* JobRepository.create_enqueue: a row for stage s of document d under the
\* next id.  The caller sets jobStatus[nextJob].
InsertJob(d, s) ==
    /\ nextJob \in Jobs
    /\ jobDoc' = [jobDoc EXCEPT ![nextJob] = d]
    /\ jobStage' = [jobStage EXCEPT ![nextJob] = s]
    /\ nextJob' = nextJob + 1

\* The commit of start_stage, for a transaction that read the job as seenJ
\* and the document as seenD.  Only changed columns are written, so a job
\* re-entered while RUNNING keeps its started_at.
StartRows(j, seenJ, seenD) ==
    /\ IF seenJ = "QUEUED"
         THEN /\ jobStatus' = [jobStatus EXCEPT ![j] = "RUNNING"]
              /\ jobAge' = [jobAge EXCEPT ![j] = "fresh"]
         ELSE UNCHANGED <<jobStatus, jobAge>>
    /\ docStatus' = IF seenD = "PENDING"
                      THEN [docStatus EXCEPT ![jobDoc[j]] = "PROCESSING"]
                      ELSE docStatus
    /\ UNCHANGED <<docChunks, docIndexedAt, jobDoc, jobStage, nextJob>>

\* Mutant: the document is left as it was.
FailRowsJobOnly(j, seenD) ==
    /\ jobStatus' = [jobStatus EXCEPT ![j] = "FAILED"]
    /\ UNCHANGED <<docStatus, docChunks, docIndexedAt, jobDoc, jobStage,
                   jobAge, nextJob>>

\* The commit of fail_stage, for a transaction that read the job as QUEUED
\* or RUNNING and the document as seenD.
FailRows(j, seenD) ==
    /\ jobStatus' = [jobStatus EXCEPT ![j] = "FAILED"]
    /\ docStatus' = IF seenD \in ActiveDoc
                      THEN [docStatus EXCEPT ![jobDoc[j]] = "FAILED"]
                      ELSE docStatus
    /\ UNCHANGED <<docChunks, docIndexedAt, jobDoc, jobStage, jobAge, nextJob>>

\* Mutant: the index of the next stage is off by one.
AdvanceRowsSameStage(j) ==
    /\ InsertJob(jobDoc[j], jobStage[j])
    /\ jobStatus' = [jobStatus EXCEPT ![j] = "DONE", ![nextJob] = "QUEUED"]
    /\ UNCHANGED <<docStatus, docChunks, docIndexedAt, jobAge>>

\* Mutant: the finished job is not marked.
AdvanceRowsKeepingJob(j) ==
    /\ InsertJob(jobDoc[j], jobStage[j] + 1)
    /\ jobStatus' = [jobStatus EXCEPT ![nextJob] = "QUEUED"]
    /\ UNCHANGED <<docStatus, docChunks, docIndexedAt, jobAge>>

\* Mutant: the next job is created outside the transaction and lost.
AdvanceRowsWithoutNext(j) ==
    /\ nextJob \in Jobs
    /\ jobStatus' = [jobStatus EXCEPT ![j] = "DONE"]
    /\ UNCHANGED <<docStatus, docChunks, docIndexedAt, jobDoc, jobStage,
                   jobAge, nextJob>>

\* The commit of complete_stage before the last stage: the job is DONE and
\* the job of the next stage is created, in one transaction.
AdvanceRows(j) ==
    /\ InsertJob(jobDoc[j], jobStage[j] + 1)
    /\ jobStatus' = [jobStatus EXCEPT ![j] = "DONE", ![nextJob] = "QUEUED"]
    /\ UNCHANGED <<docStatus, docChunks, docIndexedAt, jobAge>>

\* Mutant: the job is not marked DONE.
IndexedRowsKeepingJob(j) ==
    /\ docStatus' = [docStatus EXCEPT ![jobDoc[j]] = "INDEXED"]
    /\ docIndexedAt' = [docIndexedAt EXCEPT ![jobDoc[j]] = TRUE]
    /\ UNCHANGED <<docChunks, jobDoc, jobStage, jobStatus, jobAge, nextJob>>

\* The commit of complete_stage for the last stage.
IndexedRows(j) ==
    /\ jobStatus' = [jobStatus EXCEPT ![j] = "DONE"]
    /\ docStatus' = [docStatus EXCEPT ![jobDoc[j]] = "INDEXED"]
    /\ docIndexedAt' = [docIndexedAt EXCEPT ![jobDoc[j]] = TRUE]
    /\ UNCHANGED <<docChunks, jobDoc, jobStage, jobAge, nextJob>>

\* Time passes for an unfinished job.  Whatever runs it may be slower than
\* the cutoffs assume: nothing in the code ties the two together.
AgeJob(j) ==
    /\ jobStatus[j] \in ActiveJob
    /\ jobAge[j] # "expired"
    /\ jobAge' = [jobAge EXCEPT
                    ![j] = IF @ = "fresh" THEN "stuck" ELSE "expired"]
    /\ UNCHANGED <<docStatus, docChunks, docIndexedAt,
                   jobDoc, jobStage, jobStatus, nextJob>>
=============================================================================
