---------------------------- MODULE StageRunner ----------------------------
(***************************************************************************)
(* Workers executing run_stage.  ARQ's in-progress key keeps one entry     *)
(* from running twice at once, so an execution is identified by its job.   *)
(*                                                                         *)
(* A transaction that reads a row, decides, and writes is three steps: the *)
(* SELECT of the job, the SELECT of its document, and the commit, which    *)
(* uses the values read (seenJob, seenDoc) even if another session has     *)
(* changed the rows since.  pc names the step an execution takes next:     *)
(*                                                                         *)
(*   start_job, start_doc, start_commit           Ingester.start_stage     *)
(*   load, body                                   fn(ctx, session, id)     *)
(*   fail_job, fail_doc, fail_commit              Ingester.fail_stage      *)
(*   complete_job, complete_doc, complete_commit  Ingester.complete_stage  *)
(*   enqueue                                      redis.enqueue_job        *)
(*   return                                       back in ARQ              *)
(***************************************************************************)
EXTENDS ArqQueue, FiniteSets

CONSTANT WorkerSlots    \* max_jobs, summed over the worker processes

ASSUME WorkerSlotsAssumption == WorkerSlots \in Nat \ {0}

VARIABLES
    pc,        \* the next step of the execution of a job, or "idle"
    seenJob,   \* job status read by the open transaction
    seenDoc,   \* document status read by the open transaction
    successor  \* next_job_id: the row complete_stage created, or 0

execVars == <<pc, seenJob, seenDoc, successor>>
runnerVars == <<rowVars, arqVars, execVars>>

Labels == {"idle", "start_job", "start_doc", "start_commit", "load", "body",
           "fail_job", "fail_doc", "fail_commit",
           "complete_job", "complete_doc", "complete_commit",
           "enqueue", "return"}

RunnerTypeOK ==
    /\ pc \in [Jobs -> Labels]
    /\ seenJob \in [Jobs -> ActiveJob \cup {"none"}]
    /\ seenDoc \in [Jobs -> DocumentStatus \cup {"none"}]
    /\ successor \in [Jobs -> Jobs \cup {0}]

RunnerInit ==
    /\ pc = [j \in Jobs |-> "idle"]
    /\ seenJob = [j \in Jobs |-> "none"]
    /\ seenDoc = [j \in Jobs |-> "none"]
    /\ successor = [j \in Jobs |-> 0]

(***************************************************************************)
(* Moves between steps                                                     *)
(***************************************************************************)

\* The open transaction, if any, is over and its reads are forgotten.
Goto(j, label) ==
    /\ pc' = [pc EXCEPT ![j] = label]
    /\ seenJob' = [seenJob EXCEPT ![j] = "none"]
    /\ seenDoc' = [seenDoc EXCEPT ![j] = "none"]
    /\ successor' = [successor EXCEPT ![j] = 0]

ReadJob(j, label) ==
    /\ pc' = [pc EXCEPT ![j] = label]
    /\ seenJob' = [seenJob EXCEPT ![j] = jobStatus[j]]
    /\ UNCHANGED <<seenDoc, successor>>

ReadDoc(j, label) ==
    /\ pc' = [pc EXCEPT ![j] = label]
    /\ seenDoc' = [seenDoc EXCEPT ![j] = docStatus[jobDoc[j]]]
    /\ UNCHANGED <<seenJob, successor>>

(***************************************************************************)
(* start_stage                                                             *)
(***************************************************************************)

Executing == {j \in Jobs : pc[j] # "idle"}

Deliver(j) ==
    /\ Cardinality(Executing) < WorkerSlots
    /\ TakeJob(j)
    /\ Goto(j, "start_job")
    /\ UNCHANGED rowVars

\* Mutant: start_stage does not reject terminal jobs.
StartReadsJobUnchecked(j) ==
    /\ pc[j] = "start_job"
    /\ IF JobVisible(j) THEN ReadJob(j, "start_doc") ELSE Goto(j, "return")
    /\ UNCHANGED <<rowVars, arqVars>>

\* JobNotFound, JobAlreadyDone and JobAlreadyFailed return at once.
StartReadsJob(j) ==
    /\ pc[j] = "start_job"
    /\ IF jobStatus[j] \in ActiveJob
         THEN ReadJob(j, "start_doc")
         ELSE Goto(j, "return")
    /\ UNCHANGED <<rowVars, arqVars>>

\* A missing document fails nothing (its jobs are gone with it).  A document
\* that is INDEXED or FAILED raises InvalidTransition, and fail_stage runs in
\* the same session: it sees the rows as they were read here.
StartReadsDoc(j) ==
    /\ pc[j] = "start_doc"
    /\ IF ~DocVisible(jobDoc[j])
         THEN Goto(j, "return")
         ELSE ReadDoc(j, IF docStatus[jobDoc[j]] \in ActiveDoc
                           THEN "start_commit" ELSE "fail_commit")
    /\ UNCHANGED <<rowVars, arqVars>>

\* With nothing to write, or with the row still there, the commit succeeds.
StartCommits(j) ==
    /\ pc[j] = "start_commit"
    /\ JobVisible(j) \/ (seenJob[j] = "RUNNING" /\ seenDoc[j] = "PROCESSING")
    /\ StartRows(j, seenJob[j], seenDoc[j])
    /\ Goto(j, "load")
    /\ UNCHANGED arqVars

\* An UPDATE of a row deleted since it was read matches nothing: the
\* exception leaves run_stage.
StartLosesRow(j) ==
    /\ pc[j] = "start_commit"
    /\ ~JobVisible(j)
    /\ seenJob[j] = "QUEUED" \/ seenDoc[j] = "PENDING"
    /\ Goto(j, "return")
    /\ UNCHANGED <<rowVars, arqVars>>

(***************************************************************************)
(* The stage function                                                      *)
(***************************************************************************)

\* Every stage function first loads the document; DocumentNotFound is one of
\* _PERMANENT_ERRORS.
FnLoadsDocument(j) ==
    /\ pc[j] = "load"
    /\ Goto(j, IF DocVisible(jobDoc[j]) THEN "body" ELSE "fail_job")
    /\ UNCHANGED <<rowVars, arqVars>>

\* Mutant: do_index's rows are never committed.
FnSucceedsUncommitted(j) ==
    /\ pc[j] = "body"
    /\ jobStage[j] \in {1, LastStage} => DocVisible(jobDoc[j])
    /\ Goto(j, "complete_job")
    /\ UNCHANGED <<rowVars, arqVars>>

\* do_extract writes parsed_key and do_index replaces the chunk rows, so
\* they need the document at their commit.
FnSucceeds(j) ==
    /\ pc[j] = "body"
    /\ jobStage[j] \in {1, LastStage} => DocVisible(jobDoc[j])
    /\ docChunks' = IF jobStage[j] = LastStage
                      THEN [docChunks EXCEPT ![jobDoc[j]] = TRUE]
                      ELSE docChunks
    /\ Goto(j, "complete_job")
    /\ UNCHANGED <<docStatus, docIndexedAt, jobDoc, jobStage, jobStatus,
                   jobAge, nextJob, arqVars>>

FnFailsPermanently(j) ==
    /\ pc[j] = "body"
    /\ Goto(j, "fail_job")
    /\ UNCHANGED <<rowVars, arqVars>>

\* Any other exception on the last try: "retries exhausted".
FnFailsLastTry(j) ==
    /\ pc[j] = "body"
    /\ jobTry[j] >= MaxTries
    /\ Goto(j, "fail_job")
    /\ UNCHANGED <<rowVars, arqVars>>

\* Any other exception before that: record_attempt extends the job's details
\* (history, not modelled) and Retry puts the entry back.
FnFailsTransiently(j) ==
    /\ pc[j] = "body"
    /\ jobTry[j] < MaxTries
    /\ Goto(j, "idle")
    /\ RequeueJob(j)
    /\ UNCHANGED rowVars

\* record_attempt's UPDATE misses a row deleted since it was read: its
\* exception replaces the Retry.
AttemptLosesRow(j) ==
    /\ pc[j] = "body"
    /\ jobTry[j] < MaxTries
    /\ ~JobVisible(j)
    /\ Goto(j, "return")
    /\ UNCHANGED <<rowVars, arqVars>>

(***************************************************************************)
(* fail_stage, in a session of its own                                     *)
(***************************************************************************)

\* A no-op if the job is missing, DONE or FAILED.
FailReadsJob(j) ==
    /\ pc[j] = "fail_job"
    /\ IF jobStatus[j] \in ActiveJob
         THEN ReadJob(j, "fail_doc")
         ELSE Goto(j, "return")
    /\ UNCHANGED <<rowVars, arqVars>>

\* With the document gone the job's UPDATE matches no row either.
FailReadsDoc(j) ==
    /\ pc[j] = "fail_doc"
    /\ IF DocVisible(jobDoc[j])
         THEN ReadDoc(j, "fail_commit")
         ELSE Goto(j, "return")
    /\ UNCHANGED <<rowVars, arqVars>>

FailCommits(j) ==
    /\ pc[j] = "fail_commit"
    /\ JobVisible(j)
    /\ FailRows(j, seenDoc[j])
    /\ Goto(j, "return")
    /\ UNCHANGED arqVars

FailLosesRow(j) ==
    /\ pc[j] = "fail_commit"
    /\ ~JobVisible(j)
    /\ Goto(j, "return")
    /\ UNCHANGED <<rowVars, arqVars>>

(***************************************************************************)
(* complete_stage and the enqueue of the next stage                        *)
(***************************************************************************)

\* JobNotFound leaves run_stage; JobAlreadyDone returns; InvalidTransition
\* goes to fail_stage (which finds the job FAILED or QUEUED).
CompleteReadsJob(j) ==
    /\ pc[j] = "complete_job"
    /\ \/ jobStatus[j] = "RUNNING" /\ ReadJob(j, "complete_doc")
       \/ jobStatus[j] \in {"QUEUED", "FAILED"} /\ Goto(j, "fail_job")
       \/ (jobStatus[j] = "DONE" \/ ~JobVisible(j)) /\ Goto(j, "return")
    /\ UNCHANGED <<rowVars, arqVars>>

CompleteReadsDoc(j) ==
    /\ pc[j] = "complete_doc"
    /\ IF docStatus[jobDoc[j]] = "PROCESSING"
         THEN ReadDoc(j, "complete_commit")
         ELSE Goto(j, "fail_job")
    /\ UNCHANGED <<rowVars, arqVars>>

\* The commit of the last stage: the document is INDEXED.
CompleteLastStage(j) ==
    /\ pc[j] = "complete_commit"
    /\ JobVisible(j)
    /\ jobStage[j] = LastStage
    /\ IndexedRows(j)
    /\ Goto(j, "return")
    /\ UNCHANGED arqVars

\* The commit of any other stage; the enqueue comes after it.
CompleteStage(j) ==
    /\ pc[j] = "complete_commit"
    /\ JobVisible(j)
    /\ jobStage[j] < LastStage
    /\ AdvanceRows(j)
    /\ pc' = [pc EXCEPT ![j] = "enqueue"]
    /\ seenJob' = [seenJob EXCEPT ![j] = "none"]
    /\ seenDoc' = [seenDoc EXCEPT ![j] = "none"]
    /\ successor' = [successor EXCEPT ![j] = nextJob]
    /\ UNCHANGED arqVars

CompleteLosesRow(j) ==
    /\ pc[j] = "complete_commit"
    /\ ~JobVisible(j)
    /\ Goto(j, "return")
    /\ UNCHANGED <<rowVars, arqVars>>

EnqueueNext(j) ==
    /\ pc[j] = "enqueue"
    /\ EnqueueJob(successor[j])
    /\ Goto(j, "return")
    /\ UNCHANGED rowVars

\* ConnectionError, TimeoutError or RuntimeError from Redis is logged and
\* the next job is left QUEUED with no entry.
EnqueueNextFails(j) ==
    /\ pc[j] = "enqueue"
    /\ Goto(j, "return")
    /\ UNCHANGED <<rowVars, arqVars>>

(***************************************************************************)
(* ARQ around run_stage                                                    *)
(***************************************************************************)

Return(j) ==
    /\ pc[j] = "return"
    /\ Goto(j, "idle")
    /\ FinishJob(j)
    /\ UNCHANGED rowVars

\* The worker dies or shuts down: the open transaction is rolled back and
\* the entry is delivered again.
Crash(j) ==
    /\ pc[j] # "idle"
    /\ Goto(j, "idle")
    /\ RequeueJob(j)
    /\ UNCHANGED rowVars

\* The task's timeout cancels run_stage, or an exception leaves it that it
\* does not catch (the database is down): for ARQ the job is finished.
TimeOut(j) ==
    /\ pc[j] \notin {"idle", "return"}
    /\ Goto(j, "idle")
    /\ FinishJob(j)
    /\ UNCHANGED rowVars

Abandon(j) == AbandonJob(j) /\ UNCHANGED <<rowVars, execVars>>

RunStage(j) ==
    \/ StartReadsJob(j) \/ StartReadsDoc(j) \/ StartCommits(j)
    \/ StartLosesRow(j)
    \/ FnLoadsDocument(j) \/ FnSucceeds(j) \/ FnFailsPermanently(j)
    \/ FnFailsLastTry(j) \/ FnFailsTransiently(j) \/ AttemptLosesRow(j)
    \/ FailReadsJob(j) \/ FailReadsDoc(j) \/ FailCommits(j) \/ FailLosesRow(j)
    \/ CompleteReadsJob(j) \/ CompleteReadsDoc(j) \/ CompleteLastStage(j)
    \/ CompleteStage(j) \/ CompleteLosesRow(j)
    \/ EnqueueNext(j) \/ EnqueueNextFails(j)
    \/ Return(j)

RunnerNext ==
    \E j \in Jobs : \/ Deliver(j) \/ RunStage(j)
                    \/ Crash(j) \/ TimeOut(j)
                    \/ Abandon(j)
=============================================================================
