------------------------- MODULE IngestionPipeline -------------------------
(***************************************************************************)
(* The ingestion pipeline: workers running stages, the ARQ queue, the      *)
(* request handlers and the sweeper, over shared rows.  Three systems are  *)
(* specified:                                                              *)
(*                                                                         *)
(*   UploadSpec    uploads, re-uploads and deletes, with workers that      *)
(*                 fail, time out, crash and are retried                   *)
(*   DeployedSpec  the same with reprocess requests: every handler and     *)
(*                 every task WorkerSettings registers                     *)
(*   SweptSpec     uploads with sweep_pipeline run as a cron job, which    *)
(*                 WorkerSettings does not do                              *)
(***************************************************************************)
EXTENDS StageRunner, DocumentApi, PipelineSweeper

vars == <<rowVars, arqVars, execVars, apiVars, sweepVars>>

Init ==
    /\ RowsInit /\ ArqInit /\ RunnerInit /\ ApiInit /\ SweepInit

Workers == RunnerNext /\ UNCHANGED <<apiVars, sweepVars>>
Uploads == UploadNext /\ UNCHANGED <<execVars, sweepVars>>
Reprocessing == ReprocessNext /\ UNCHANGED <<execVars, sweepVars>>
Sweeping == SweepNext /\ UNCHANGED <<execVars, apiVars>>

\* Ages matter to the sweeper only.
Aging == /\ \E j \in Jobs : AgeJob(j)
         /\ UNCHANGED <<arqVars, execVars, apiVars, sweepVars>>

UploadSystem == Workers \/ Uploads
DeployedSystem == UploadSystem \/ Reprocessing
SweptSystem == UploadSystem \/ Sweeping \/ Aging

UploadSpec == Init /\ [][UploadSystem]_vars
DeployedSpec == Init /\ [][DeployedSystem]_vars
SweptSpec == Init /\ [][SweptSystem]_vars

TypeOK ==
    /\ RowsTypeOK /\ ArqTypeOK /\ RunnerTypeOK /\ ApiTypeOK /\ SweepTypeOK

-----------------------------------------------------------------------------
(***************************************************************************)
(* Safety                                                                  *)
(***************************************************************************)

\* A document has at most one job of each stage, and a job of a later stage
\* only after the job of the stage before it is DONE: retries, redeliveries
\* and duplicate uploads never run a stage twice or out of order.
StageChain ==
    \A d \in Docs : \A j \in JobsOf(d) :
        /\ \A k \in JobsOf(d) : jobStage[k] = jobStage[j] => k = j
        /\ jobStage[j] > 1 =>
              \E k \in JobsOf(d) : /\ jobStage[k] = jobStage[j] - 1
                                   /\ jobStatus[k] = "DONE"

\* The document's status and its jobs' statuses, written by separate code
\* paths, tell the same story.
StatusAgrees ==
    \A d \in Docs :
        /\ docStatus[d] = "PENDING" =>
              \A j \in JobsOf(d) : jobStatus[j] = "QUEUED" /\ jobStage[j] = 1
        /\ docStatus[d] = "PROCESSING" =>
              \A j \in JobsOf(d) : jobStatus[j] # "FAILED"
        /\ docStatus[d] = "FAILED" =>
              /\ ActiveJobsOf(d) = {}
              /\ \E j \in JobsOf(d) : jobStatus[j] = "FAILED"
        /\ docStatus[d] = "INDEXED" =>
              \A j \in JobsOf(d) : jobStatus[j] = "DONE"

\* A document that is not settled has a job that can still move it: the row
\* a recovery would start from is never missing.
UnsettledHasActiveJob ==
    \A d \in Docs : docStatus[d] \in ActiveDoc => ActiveJobsOf(d) # {}

\* At most one unfinished job per document.
OneActiveJob ==
    \A d \in Docs : \A j, k \in ActiveJobsOf(d) : j = k

\* An INDEXED document has been through its last stage, has chunk rows to
\* retrieve and says when it was indexed.
IndexedIsSearchable ==
    \A d \in Docs : docStatus[d] = "INDEXED" =>
        /\ \E j \in JobsOf(d) : jobStage[j] = LastStage /\ jobStatus[j] = "DONE"
        /\ docChunks[d]
        /\ docIndexedAt[d]

\* Two stages of one document never execute at the same time, so they never
\* race on the artifacts and chunk rows they share.
OneStageAtATime ==
    \A j, k \in Jobs :
        /\ jobDoc[j] = jobDoc[k]
        /\ pc[j] \in {"load", "body"} /\ pc[k] \in {"load", "body"}
        /\ JobVisible(j) /\ JobVisible(k)
        => j = k

\* Deduplication relies on it: a committed document has a committed job.
DocumentHasJob ==
    \A d \in Docs : DocVisible(d) => JobsOf(d) # {}

\* A DONE job that is not the last stage left behind the row of the next
\* stage: the pipeline can lose the enqueue, never the row.
DoneHasSuccessor ==
    \A d \in Docs : \A j \in JobsOf(d) :
        jobStatus[j] = "DONE" /\ jobStage[j] < LastStage =>
            \E k \in JobsOf(d) : k > j /\ jobStage[k] = jobStage[j] + 1

\* No session changes the status of a job under a transaction that read it,
\* except by deleting the row: without the sweeper, a job's status is written
\* by one worker at a time although nothing locks it.
InTransaction == {"start_doc", "start_commit", "fail_doc", "fail_commit",
                  "complete_doc", "complete_commit"}

ReadsStayTrue ==
    \A j \in Jobs : pc[j] \in InTransaction =>
        /\ seenJob[j] \in ActiveJob
        /\ jobStatus[j] \in {seenJob[j], "DELETED"}

\* Job ids that were not drawn yet have no row.
NextJobIsFresh ==
    \A j \in Jobs : j >= nextJob => jobStatus[j] = "UNBORN" /\ jobDoc[j] = NoDoc

\* The request that flushed a job is the only one that will commit it, and a
\* re-upload only points at a job that was committed.
Flushed(r) == req[r].pc \in {"enqueue", "commit"} /\ req[r].op # "existing"

RequestsOwnJobs ==
    \A r \in Requests :
        /\ Flushed(r) =>
              /\ req[r].job \in Jobs
              /\ jobStatus[req[r].job] = "UNCOMMITTED"
              /\ jobDoc[req[r].job] = req[r].doc
              /\ \A q \in Requests : Flushed(q) /\ req[q].job = req[r].job => q = r
        /\ ~Flushed(r) =>
              \A j \in Jobs : req[r].job = j => jobStatus[j] \notin {"UNBORN", "UNCOMMITTED"}

-----------------------------------------------------------------------------
(***************************************************************************)
(* Action properties                                                       *)
(***************************************************************************)

\* Terminal jobs are rejected by start_stage and left alone by fail_stage:
\* until its document is deleted, a DONE or FAILED job keeps its status.
KeepsTerminalJobs ==
    \A j \in Jobs : jobStatus[j] \in TerminalJob =>
        jobStatus'[j] \in {jobStatus[j], "DELETED"}

TerminalJobsStay == [][KeepsTerminalJobs]_vars

-----------------------------------------------------------------------------
(***************************************************************************)
(* Refinement                                                              *)
(***************************************************************************)

\* What a client sees of a document row.
PhaseOf(d) ==
    CASE docStatus[d] \in {"UNBORN", "UNCOMMITTED"} -> "absent"
      [] docStatus[d] = "DELETED" -> "gone"
      [] OTHER -> docStatus[d]

StagesDone(d) == {jobStage[j] : j \in {k \in JobsOf(d) : jobStatus[k] = "DONE"}}

Lifecycle == INSTANCE DocumentLifecycle
                WITH phase <- [d \in Docs |-> PhaseOf(d)],
                     done <- [d \in Docs |-> StagesDone(d)]

\* Uploads, workers, retries and crashes together implement the lifecycle of
\* a document: every stage completes exactly once and in order, and a settled
\* document is never touched again.
ImplementsLifecycle == Lifecycle!LifecycleSpec

-----------------------------------------------------------------------------
(***************************************************************************)
(* Fairness and liveness                                                   *)
(***************************************************************************)

\* A handler that was started ends, by its commit or by an error.
RequestFairness ==
    \A r \in Requests : WF_vars(RequestStep(r) /\ UNCHANGED <<execVars, sweepVars>>)

\* Time passes, the cron job keeps being started, and its passes are not
\* interrupted for ever: Redis, the database and the worker come back.
SweepFairness ==
    /\ WF_vars(SweepStarts /\ UNCHANGED <<execVars, apiVars>>)
    /\ WF_vars(Aging)
    /\ SF_vars(/\ \E e \in SweepEntries : SweepRequeues(e) \/ SweepFailReadsJob(e)
               /\ UNCHANGED <<execVars, apiVars>>)
    /\ SF_vars(SweepFailReadsDoc /\ UNCHANGED <<execVars, apiVars>>)
    /\ SF_vars(SweepFailCommits /\ UNCHANGED <<execVars, apiVars>>)
    /\ WF_vars(SweepLosesRow /\ UNCHANGED <<execVars, apiVars>>)

\* No fairness of the workers: all of them may be gone.
FairSweptSpec == SweptSpec /\ RequestFairness /\ SweepFairness

\* A row nobody is going to put in the queue: it is QUEUED, ARQ has no entry
\* to deliver, and neither a worker nor a handler is about to enqueue it.
Stranded(j) ==
    /\ jobStatus[j] = "QUEUED"
    /\ queue[j] \in {"none", "result"}
    /\ \A k \in Jobs : successor[k] # j
    /\ \A r \in Requests : ~(req[r].pc = "enqueue" /\ req[r].job = j)

\* A job whose task was lost is requeued, finished or deleted in the end.
StrandedJobsRecover == \A j \in Jobs : Stranded(j) ~> ~Stranded(j)

\* A document that was accepted is eventually INDEXED, FAILED or deleted.
Settles == \A d \in Docs : docStatus[d] \in ActiveDoc ~> docStatus[d] \notin ActiveDoc

=============================================================================
