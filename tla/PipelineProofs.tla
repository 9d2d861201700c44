--------------------------- MODULE PipelineProofs ---------------------------
(***************************************************************************)
(* Theorems about IngestionPipeline, for every set of documents and        *)
(* requests and every value of the bounds.  First the types and, with      *)
(* reprocess requests, what DeployedSpec keeps true of the job rows; then, *)
(* with the sweeper, what makes the jobs of a document a chain.            *)
(***************************************************************************)
EXTENDS IngestionPipeline, TLAPS

(***************************************************************************)
(* Types: the operators the actions are built from                         *)
(***************************************************************************)

\* ReadJob, ReadDoc and Goto leave the variables of an execution well typed.
LEMMA GotoType ==
    ASSUME RunnerTypeOK, NEW j \in Jobs, NEW label \in Labels, Goto(j, label)
    PROVE  RunnerTypeOK'
BY DEF RunnerTypeOK, Goto

LEMMA ReadJobType ==
    ASSUME RunnerTypeOK, NEW j \in Jobs, NEW label \in Labels,
           jobStatus[j] \in ActiveJob, ReadJob(j, label)
    PROVE  RunnerTypeOK'
BY DEF RunnerTypeOK, ReadJob

LEMMA ReadDocType ==
    ASSUME RunnerTypeOK, NEW j \in Jobs, NEW label \in Labels,
           DocVisible(jobDoc[j]), ReadDoc(j, label)
    PROVE  RunnerTypeOK'
BY DEF RunnerTypeOK, ReadDoc, DocVisible

\* The writes of a commit leave the rows well typed.
LEMMA StartRowsType ==
    ASSUME RowsTypeOK, NEW j \in Jobs, NEW sj, NEW sd, StartRows(j, sj, sd)
    PROVE  RowsTypeOK'
BY DEF RowsTypeOK, StartRows, Ages, JobStatus, DocumentStatus

LEMMA FailRowsType ==
    ASSUME RowsTypeOK, NEW j \in Jobs, NEW sd, FailRows(j, sd)
    PROVE  RowsTypeOK'
BY DEF RowsTypeOK, FailRows, JobStatus, DocumentStatus

LEMMA IndexedRowsType ==
    ASSUME RowsTypeOK, NEW j \in Jobs, IndexedRows(j)
    PROVE  RowsTypeOK'
BY DEF RowsTypeOK, IndexedRows, JobStatus, DocumentStatus

\* A new job row takes the next id and a stage that exists.
LEMMA InsertJobType ==
    ASSUME RowsTypeOK, NEW d \in Docs \cup {NoDoc}, NEW s \in Stages,
           InsertJob(d, s)
    PROVE  /\ nextJob \in Jobs
           /\ jobDoc' \in [Jobs -> Docs \cup {NoDoc}]
           /\ jobStage' \in [Jobs -> Stages]
           /\ nextJob' \in 1..(MaxJobs + 1)
BY MaxJobsAssumption DEF RowsTypeOK, InsertJob, Jobs

LEMMA AdvanceRowsType ==
    ASSUME RowsTypeOK, NEW j \in Jobs, jobStage[j] < LastStage, AdvanceRows(j)
    PROVE  RowsTypeOK'
<1>1. jobStage[j] + 1 \in Stages
    BY LastStageAssumption DEF RowsTypeOK, Stages
<1>2. jobDoc[j] \in Docs \cup {NoDoc}
    BY DEF RowsTypeOK
<1>3. /\ nextJob \in Jobs
      /\ jobDoc' \in [Jobs -> Docs \cup {NoDoc}]
      /\ jobStage' \in [Jobs -> Stages]
      /\ nextJob' \in 1..(MaxJobs + 1)
    BY <1>1, <1>2, InsertJobType DEF AdvanceRows
<1> QED
    BY <1>3 DEF AdvanceRows, RowsTypeOK, JobStatus

\* ARQ's operations leave the queue well typed.
LEMMA QueueType ==
    ASSUME ArqTypeOK, NEW j,
           \/ EnqueueJob(j) \/ TakeJob(j) \/ RequeueJob(j) \/ FinishJob(j)
           \/ AbandonJob(j)
    PROVE  ArqTypeOK'
BY MaxTriesAssumption
   DEF ArqTypeOK, EnqueueJob, TakeJob, RequeueJob, FinishJob, AbandonJob,
       EntryStates

(***************************************************************************)
(* Types: the steps of the workers                                         *)
(***************************************************************************)

LEMMA RunnerStepType ==
    ASSUME RowsTypeOK, ArqTypeOK, RunnerTypeOK, RunnerNext
    PROVE  RowsTypeOK' /\ ArqTypeOK' /\ RunnerTypeOK'
<1> PICK j \in Jobs : Deliver(j) \/ RunStage(j) \/ Crash(j) \/ TimeOut(j) \/ Abandon(j)
    BY DEF RunnerNext
<1>rows. ASSUME UNCHANGED rowVars PROVE RowsTypeOK'
    BY <1>rows DEF RowsTypeOK, rowVars
<1>arq. ASSUME UNCHANGED arqVars PROVE ArqTypeOK'
    BY <1>arq DEF ArqTypeOK, arqVars
<1>labels. {"idle", "start_job", "start_doc", "start_commit", "load", "body",
            "fail_job", "fail_doc", "fail_commit", "complete_job",
            "complete_doc", "complete_commit", "enqueue", "return"} \subseteq Labels
    BY DEF Labels
<1>1. CASE Deliver(j)
    BY <1>1, <1>rows, <1>labels, QueueType, GotoType DEF Deliver
<1>2. CASE StartReadsJob(j)
    BY <1>2, <1>rows, <1>arq, <1>labels, GotoType, ReadJobType DEF StartReadsJob
<1>3. CASE StartReadsDoc(j)
  <2> DEFINE next == IF docStatus[jobDoc[j]] \in ActiveDoc
                       THEN "start_commit" ELSE "fail_commit"
  <2>1. next \in Labels
      BY <1>labels
  <2>2. CASE Goto(j, "return")
      BY <1>3, <2>2, <1>rows, <1>arq, <1>labels, GotoType DEF StartReadsDoc
  <2>3. CASE DocVisible(jobDoc[j]) /\ ReadDoc(j, next)
    <3> HIDE DEF next
    <3> QED BY <1>3, <2>1, <2>3, <1>rows, <1>arq, ReadDocType DEF StartReadsDoc
  <2> QED BY <1>3, <2>2, <2>3 DEF StartReadsDoc
<1>4. CASE StartCommits(j)
    BY <1>4, <1>arq, <1>labels, GotoType, StartRowsType DEF StartCommits
<1>5. CASE StartLosesRow(j)
    BY <1>5, <1>rows, <1>arq, <1>labels, GotoType DEF StartLosesRow
<1>6. CASE FnLoadsDocument(j)
    BY <1>6, <1>rows, <1>arq, <1>labels, GotoType DEF FnLoadsDocument
<1>7. CASE FnSucceeds(j)
  <2>1. RowsTypeOK' /\ UNCHANGED arqVars
      BY <1>7 DEF FnSucceeds, RowsTypeOK, arqVars
  <2> QED BY <2>1, <1>7, <1>arq, <1>labels, GotoType DEF FnSucceeds
<1>8. CASE FnFailsPermanently(j) \/ FnFailsLastTry(j) \/ AttemptLosesRow(j)
    BY <1>8, <1>rows, <1>arq, <1>labels, GotoType
       DEF FnFailsPermanently, FnFailsLastTry, AttemptLosesRow
<1>9. CASE FnFailsTransiently(j)
    BY <1>9, <1>rows, <1>labels, GotoType, QueueType DEF FnFailsTransiently
<1>10. CASE FailReadsJob(j)
    BY <1>10, <1>rows, <1>arq, <1>labels, GotoType, ReadJobType DEF FailReadsJob
<1>11. CASE FailReadsDoc(j)
    BY <1>11, <1>rows, <1>arq, <1>labels, GotoType, ReadDocType DEF FailReadsDoc
<1>12. CASE FailCommits(j)
    BY <1>12, <1>arq, <1>labels, GotoType, FailRowsType DEF FailCommits
<1>13. CASE FailLosesRow(j)
    BY <1>13, <1>rows, <1>arq, <1>labels, GotoType DEF FailLosesRow
<1>14. CASE CompleteReadsJob(j)
  <2>1. CASE jobStatus[j] \in ActiveJob /\ ReadJob(j, "complete_doc")
      BY <1>14, <2>1, <1>rows, <1>arq, <1>labels, ReadJobType DEF CompleteReadsJob
  <2>2. CASE \E label \in Labels : Goto(j, label)
      BY <1>14, <2>2, <1>rows, <1>arq, GotoType DEF CompleteReadsJob
  <2> QED BY <1>14, <2>1, <2>2, <1>labels DEF CompleteReadsJob, ActiveJob
<1>15. CASE CompleteReadsDoc(j)
  <2>1. CASE DocVisible(jobDoc[j]) /\ ReadDoc(j, "complete_commit")
      BY <1>15, <2>1, <1>rows, <1>arq, <1>labels, ReadDocType DEF CompleteReadsDoc
  <2>2. CASE Goto(j, "fail_job")
      BY <1>15, <2>2, <1>rows, <1>arq, <1>labels, GotoType DEF CompleteReadsDoc
  <2> QED BY <1>15, <2>1, <2>2 DEF CompleteReadsDoc, DocVisible, DocumentStatus
<1>16. CASE CompleteLastStage(j)
    BY <1>16, <1>arq, <1>labels, GotoType, IndexedRowsType DEF CompleteLastStage
<1>17. CASE CompleteStage(j)
  <2>1. RowsTypeOK' /\ nextJob \in Jobs
      BY <1>17, AdvanceRowsType DEF CompleteStage, AdvanceRows, InsertJob
  <2>2. RunnerTypeOK'
      BY <1>17, <2>1, <1>labels DEF CompleteStage, RunnerTypeOK
  <2> QED BY <1>17, <2>1, <2>2, <1>arq DEF CompleteStage
<1>18. CASE CompleteLosesRow(j)
    BY <1>18, <1>rows, <1>arq, <1>labels, GotoType DEF CompleteLosesRow
<1>19. CASE EnqueueNext(j)
    BY <1>19, <1>rows, <1>labels, GotoType, QueueType DEF EnqueueNext
<1>20. CASE EnqueueNextFails(j)
    BY <1>20, <1>rows, <1>arq, <1>labels, GotoType DEF EnqueueNextFails
<1>21. CASE Return(j)
    BY <1>21, <1>rows, <1>labels, GotoType, QueueType DEF Return
<1>22. CASE Crash(j)
    BY <1>22, <1>rows, <1>labels, GotoType, QueueType DEF Crash
<1>23. CASE TimeOut(j)
    BY <1>23, <1>rows, <1>labels, GotoType, QueueType DEF TimeOut
<1>24. CASE Abandon(j)
  <2>1. RunnerTypeOK'
      BY <1>24 DEF Abandon, RunnerTypeOK, execVars
  <2> QED BY <1>24, <2>1, <1>rows, QueueType DEF Abandon
<1> QED
    BY <1>1, <1>2, <1>3, <1>4, <1>5, <1>6, <1>7, <1>8, <1>9, <1>10, <1>11, <1>12,
       <1>13, <1>14, <1>15, <1>16, <1>17, <1>18, <1>19, <1>20, <1>21, <1>22,
       <1>23, <1>24 DEF RunStage

(***************************************************************************)
(* Types: the steps of the request handlers                                *)
(***************************************************************************)

\* A handler that is well typed can be replaced by one that is.
LEMMA RequestType ==
    ASSUME ApiTypeOK, NEW r, NEW state \in RequestState,
           req' = [req EXCEPT ![r] = state], UNCHANGED reprocessed
    PROVE  ApiTypeOK'
BY DEF ApiTypeOK

LEMMA EndRequestType ==
    ASSUME ApiTypeOK, NEW r, EndRequest(r), UNCHANGED reprocessed
    PROVE  ApiTypeOK'
<1>1. NoRequest \in RequestState
    BY LastStageAssumption DEF NoRequest, RequestState, ReqPcs, Stages
<1> QED BY <1>1, RequestType DEF EndRequest

LEMMA UploadStepType ==
    ASSUME RowsTypeOK, ArqTypeOK, ApiTypeOK, UploadNext
    PROVE  RowsTypeOK' /\ ArqTypeOK' /\ ApiTypeOK'
<1>rows. ASSUME UNCHANGED rowVars PROVE RowsTypeOK'
    BY <1>rows DEF RowsTypeOK, rowVars
<1>arq. ASSUME UNCHANGED arqVars PROVE ArqTypeOK'
    BY <1>arq DEF ArqTypeOK, arqVars
<1>stage. 1 \in Stages
    BY LastStageAssumption DEF Stages
<1>1. ASSUME NEW r \in Requests, NEW d \in Docs, UploadNew(r, d)
      PROVE  RowsTypeOK' /\ ArqTypeOK' /\ ApiTypeOK'
  <2>1. /\ nextJob \in Jobs
        /\ jobDoc' \in [Jobs -> Docs \cup {NoDoc}]
        /\ jobStage' \in [Jobs -> Stages]
        /\ nextJob' \in 1..(MaxJobs + 1)
      BY <1>1, <1>stage, InsertJobType DEF UploadNew
  <2>2. RowsTypeOK'
      BY <1>1, <2>1 DEF UploadNew, RowsTypeOK, NoRow
  <2>3. ApiTypeOK'
      BY <1>1, <2>1, <1>stage
         DEF UploadNew, ApiTypeOK, RequestState, NoRequest, ReqPcs
  <2> QED BY <1>1, <2>2, <2>3, <1>arq DEF UploadNew
<1>2. ASSUME NEW r \in Requests, NEW d \in Docs, UploadExisting(r, d)
      PROVE  RowsTypeOK' /\ ArqTypeOK' /\ ApiTypeOK'
  <2>1. ApiTypeOK'
      BY <1>2, <1>stage
         DEF UploadExisting, ApiTypeOK, RequestState, NoRequest, ReqPcs
  <2> QED BY <1>2, <2>1, <1>rows, <1>arq DEF UploadExisting
<1>3. ASSUME NEW r \in Requests, UploadFindsJob(r)
      PROVE  RowsTypeOK' /\ ArqTypeOK' /\ ApiTypeOK'
  <2>1. ASSUME NEW j \in Jobs,
               req' = [req EXCEPT ![r].pc = "enqueue", ![r].job = j]
        PROVE  ApiTypeOK'
    <3> DEFINE state == [req[r] EXCEPT !.pc = "enqueue", !.job = j]
    <3>1. req[r] \in RequestState
        BY DEF ApiTypeOK
    <3>2. state \in RequestState
        BY <3>1 DEF RequestState, ReqPcs
    <3>3. req' = [req EXCEPT ![r] = state]
        BY <2>1
    <3> QED BY <1>3, <3>2, <3>3, RequestType DEF UploadFindsJob
  <2>2. ApiTypeOK'
      BY <1>3, <2>1, EndRequestType DEF UploadFindsJob
  <2> QED BY <1>3, <2>2, <1>rows, <1>arq DEF UploadFindsJob
<1>4. ASSUME NEW r \in Requests, RequestEnqueues(r)
      PROVE  RowsTypeOK' /\ ArqTypeOK' /\ ApiTypeOK'
  <2>1. ApiTypeOK'
      BY <1>4 DEF RequestEnqueues, ApiTypeOK, RequestState, ReqPcs
  <2> QED BY <1>4, <2>1, <1>rows, QueueType DEF RequestEnqueues
<1>5. ASSUME NEW r \in Requests, RequestCommits(r)
      PROVE  RowsTypeOK' /\ ArqTypeOK' /\ ApiTypeOK'
  <2>1. RowsTypeOK'
      BY <1>5 DEF RequestCommits, RowsTypeOK, DocumentStatus, JobStatus
  <2> QED BY <1>5, <2>1, <1>arq, EndRequestType DEF RequestCommits
<1>6. ASSUME NEW r \in Requests, RequestAborts(r)
      PROVE  RowsTypeOK' /\ ArqTypeOK' /\ ApiTypeOK'
  <2>1. RowsTypeOK'
      BY <1>6 DEF RequestAborts, RowsTypeOK, NoRow
  <2> QED BY <1>6, <2>1, <1>arq, EndRequestType DEF RequestAborts
<1>7. ASSUME NEW d \in Docs, Delete(d)
      PROVE  RowsTypeOK' /\ ArqTypeOK' /\ ApiTypeOK'
  <2>1. RowsTypeOK'
      BY <1>7 DEF Delete, RowsTypeOK, NoRow
  <2>2. ApiTypeOK'
      BY <1>7 DEF Delete, ApiTypeOK, apiVars
  <2> QED BY <1>7, <2>1, <2>2, <1>arq DEF Delete
<1> QED
    BY <1>1, <1>2, <1>3, <1>4, <1>5, <1>6, <1>7 DEF UploadNext, RequestStep

LEMMA ReprocessStepType ==
    ASSUME RowsTypeOK, ArqTypeOK, ApiTypeOK, ReprocessNext
    PROVE  RowsTypeOK' /\ ArqTypeOK' /\ ApiTypeOK'
<1> PICK r \in Requests :
         \/ \E d \in Docs, s \in Stages : ReprocessLoads(r, d, s)
         \/ ReprocessStep(r)
    BY DEF ReprocessNext
<1>rows. ASSUME UNCHANGED rowVars PROVE RowsTypeOK'
    BY <1>rows DEF RowsTypeOK, rowVars
<1>arq. ASSUME UNCHANGED arqVars PROVE ArqTypeOK'
    BY <1>arq DEF ArqTypeOK, arqVars
<1>req. req[r] \in RequestState
    BY DEF ApiTypeOK
<1>1. ASSUME NEW d \in Docs, NEW s \in Stages, ReprocessLoads(r, d, s)
      PROVE  RowsTypeOK' /\ ArqTypeOK' /\ ApiTypeOK'
  <2>1. reprocessed' \in 0..MaxReprocess
    <3>1. /\ reprocessed < MaxReprocess
          /\ reprocessed' = reprocessed + 1
          /\ reprocessed \in 0..MaxReprocess
        BY <1>1 DEF ReprocessLoads, ApiTypeOK
    <3> QED BY <3>1, MaxReprocessAssumption
  <2>2. docStatus[d] \in DocumentStatus /\ docIndexedAt[d] \in BOOLEAN
      BY <1>1 DEF ReprocessLoads, DocVisible, RowsTypeOK
  <2>3. [NoRequest EXCEPT !.op = "reprocess", !.pc = "reset", !.doc = d, !.from = s,
                          !.status = docStatus[d], !.at = docIndexedAt[d]]
          \in RequestState
      BY <2>2 DEF NoRequest, RequestState, ReqPcs
  <2>4. ApiTypeOK'
      BY <1>1, <2>1, <2>3 DEF ReprocessLoads, ApiTypeOK
  <2> QED BY <1>1, <2>4, <1>rows, <1>arq DEF ReprocessLoads
<1>2. CASE ReprocessResets(r)
  <2>1. RowsTypeOK'
      BY <1>2 DEF ReprocessResets, SetIndexResults, RowsTypeOK, DocumentStatus
  <2>2. ApiTypeOK'
      BY <1>2 DEF ReprocessResets, ApiTypeOK, RequestState, ReqPcs
  <2> QED BY <1>2, <2>1, <2>2, <1>arq DEF ReprocessResets
<1>3. CASE ReprocessCreatesFromJob(r)
  <2>1. /\ nextJob \in Jobs
        /\ jobDoc' \in [Jobs -> Docs \cup {NoDoc}]
        /\ jobStage' \in [Jobs -> Stages]
        /\ nextJob' \in 1..(MaxJobs + 1)
      BY <1>3, <1>req, InsertJobType DEF ReprocessCreatesFromJob, RequestState
  <2>2. RowsTypeOK'
      BY <1>3, <2>1 DEF ReprocessCreatesFromJob, RowsTypeOK, JobStatus
  <2>3. ApiTypeOK'
      BY <1>3 DEF ReprocessCreatesFromJob, ApiTypeOK, RequestState, ReqPcs
  <2> QED BY <1>3, <2>2, <2>3, <1>arq DEF ReprocessCreatesFromJob
<1>4. CASE ReprocessCreatesExtractJob(r)
  <2>1. /\ nextJob \in Jobs
        /\ jobDoc' \in [Jobs -> Docs \cup {NoDoc}]
        /\ jobStage' \in [Jobs -> Stages]
        /\ nextJob' \in 1..(MaxJobs + 1)
    <3>1. 1 \in Stages
        BY LastStageAssumption DEF Stages
    <3>2. req[r].doc \in Docs \cup {NoDoc}
        BY <1>req DEF RequestState
    <3>3. InsertJob(req[r].doc, 1)
        BY <1>4 DEF ReprocessCreatesExtractJob
    <3> QED BY <3>1, <3>2, <3>3, InsertJobType
  <2>2. RowsTypeOK'
      BY <1>4, <2>1 DEF ReprocessCreatesExtractJob, RowsTypeOK, NoRow
  <2> DEFINE state == [req[r] EXCEPT !.pc = "enqueue", !.job = nextJob]
  <2>3. state \in RequestState
      BY <1>req, <2>1 DEF RequestState, ReqPcs
  <2>4. req' = [req EXCEPT ![r] = state]
      BY <1>4 DEF ReprocessCreatesExtractJob
  <2>5. ApiTypeOK'
      BY <1>4, <2>3, <2>4, RequestType DEF ReprocessCreatesExtractJob
  <2> QED BY <1>4, <2>2, <2>5, <1>arq DEF ReprocessCreatesExtractJob
<1>5. CASE ReprocessLosesDocument(r)
    BY <1>5, <1>rows, <1>arq, EndRequestType DEF ReprocessLosesDocument
<1> QED
    BY <1>1, <1>2, <1>3, <1>4, <1>5 DEF ReprocessStep

(***************************************************************************)
(* Types: the sweeper                                                      *)
(***************************************************************************)

LEMMA BackToLoopType ==
    ASSUME NEW todo \in SUBSET SweepEntries, BackToLoop(todo)
    PROVE  SweepTypeOK'
BY DEF SweepTypeOK, BackToLoop

LEMMA SweepStepType ==
    ASSUME RowsTypeOK, ArqTypeOK, SweepTypeOK, SweepNext
    PROVE  RowsTypeOK' /\ ArqTypeOK' /\ SweepTypeOK'
<1>rows. ASSUME UNCHANGED rowVars PROVE RowsTypeOK'
    BY <1>rows DEF RowsTypeOK, rowVars
<1>arq. ASSUME UNCHANGED arqVars PROVE ArqTypeOK'
    BY <1>arq DEF ArqTypeOK, arqVars
<1>todo. sweepTodo \in SUBSET SweepEntries
    BY DEF SweepTypeOK
<1>1. CASE SweepStarts
  <2>1. ASSUME NEW j \in StuckJobs PROVE Listed(j) \in SweepEntries
    <3>1. j \in Jobs
        BY DEF StuckJobs
    <3> QED BY <3>1 DEF Listed, SweepEntries
  <2>2. {Listed(j) : j \in StuckJobs} \in SUBSET SweepEntries
      BY <2>1
  <2> QED BY <1>1, <2>2, <1>rows, <1>arq, BackToLoopType DEF SweepStarts
<1>2. ASSUME NEW e \in SweepEntries, SweepRequeues(e)
      PROVE  RowsTypeOK' /\ ArqTypeOK' /\ SweepTypeOK'
  <2>1. sweepTodo \ {e} \in SUBSET SweepEntries
      BY <1>todo
  <2> QED BY <1>2, <2>1, <1>rows, QueueType, BackToLoopType DEF SweepRequeues
<1>3. ASSUME NEW e \in SweepEntries, SweepFailReadsJob(e)
      PROVE  RowsTypeOK' /\ ArqTypeOK' /\ SweepTypeOK'
  <2>1. sweepTodo \ {e} \in SUBSET SweepEntries
      BY <1>todo
  <2>2. SweepTypeOK'
      BY <1>3, <2>1, BackToLoopType DEF SweepFailReadsJob, SweepTypeOK
  <2> QED BY <1>3, <2>2, <1>rows, <1>arq DEF SweepFailReadsJob
<1>4. CASE SweepFailReadsDoc
  <2>1. SweepTypeOK'
      BY <1>4 DEF SweepFailReadsDoc, SweepTypeOK, DocVisible
  <2> QED BY <1>4, <2>1, <1>rows, <1>arq DEF SweepFailReadsDoc
<1>5. CASE SweepFailCommits
  <2>1. sweepTodo \ {sweepEntry} \in SUBSET SweepEntries
      BY <1>todo
  <2>2. SweepTypeOK'
      BY <1>5, <2>1, BackToLoopType DEF SweepFailCommits
  <2>3. RowsTypeOK'
      BY <1>5 DEF SweepFailCommits, FailRows, RowsTypeOK, DocumentStatus, JobStatus
  <2> QED BY <1>5, <2>2, <2>3, <1>arq DEF SweepFailCommits
<1>6. CASE SweepLosesRow \/ SweepAborts
    BY <1>6, <1>rows, <1>arq, BackToLoopType DEF SweepLosesRow, SweepAborts
<1> QED
    BY <1>1, <1>2, <1>3, <1>4, <1>5, <1>6 DEF SweepNext

(***************************************************************************)
(* Type correctness of the whole system                                    *)
(***************************************************************************)

\* Everything the program does, with the sweeper scheduled or not.
Anything == UploadSystem \/ Reprocessing \/ Sweeping \/ Aging

LEMMA InitType == Init => TypeOK
<1> SUFFICES ASSUME Init PROVE TypeOK
    OBVIOUS
<1>1. RowsTypeOK
    BY MaxJobsAssumption, LastStageAssumption
       DEF Init, RowsInit, RowsTypeOK, Stages, Ages, NoRow
<1>2. ArqTypeOK
    BY MaxTriesAssumption DEF Init, ArqInit, ArqTypeOK, EntryStates
<1>3. RunnerTypeOK
    BY DEF Init, RunnerInit, RunnerTypeOK, Labels
<1>4. ApiTypeOK
    BY LastStageAssumption, MaxReprocessAssumption
       DEF Init, ApiInit, ApiTypeOK, NoRequest, RequestState, ReqPcs, Stages
<1>5. SweepTypeOK
    BY DEF Init, SweepInit, SweepTypeOK
<1> QED
    BY <1>1, <1>2, <1>3, <1>4, <1>5 DEF TypeOK

\* Each process keeps its own variables and the shared ones well typed, and
\* does not touch the others'.
LEMMA StepType == TypeOK /\ [Anything]_vars => TypeOK'
<1> SUFFICES ASSUME TypeOK, [Anything]_vars PROVE TypeOK'
    OBVIOUS
<1> USE DEF TypeOK
<1>exec. ASSUME UNCHANGED execVars PROVE RunnerTypeOK'
    BY <1>exec DEF RunnerTypeOK, execVars
<1>api. ASSUME UNCHANGED apiVars PROVE ApiTypeOK'
    BY <1>api DEF ApiTypeOK, apiVars
<1>sweep. ASSUME UNCHANGED sweepVars PROVE SweepTypeOK'
    BY <1>sweep DEF SweepTypeOK, sweepVars
<1>arq. ASSUME UNCHANGED arqVars PROVE ArqTypeOK'
    BY <1>arq DEF ArqTypeOK, arqVars
<1>1. CASE Workers
    BY <1>1, RunnerStepType, <1>api, <1>sweep DEF Workers
<1>2. CASE Uploads
    BY <1>2, UploadStepType, <1>exec, <1>sweep DEF Uploads
<1>3. CASE Reprocessing
    BY <1>3, ReprocessStepType, <1>exec, <1>sweep DEF Reprocessing
<1>4. CASE Sweeping
    BY <1>4, SweepStepType, <1>exec, <1>api DEF Sweeping
<1>5. CASE Aging
  <2>1. RowsTypeOK'
      BY <1>5 DEF Aging, AgeJob, RowsTypeOK, Ages
  <2> QED BY <1>5, <2>1, <1>arq, <1>exec, <1>api, <1>sweep DEF Aging
<1>6. CASE UNCHANGED vars
  <2>1. RowsTypeOK'
      BY <1>6 DEF vars, rowVars, RowsTypeOK
  <2> QED BY <1>6, <2>1, <1>arq, <1>exec, <1>api, <1>sweep DEF vars
<1> QED
    BY <1>1, <1>2, <1>3, <1>4, <1>5, <1>6 DEF Anything, UploadSystem

\* The rows, the queue, the executions, the requests and the sweeper stay
\* within their types, whichever of the three systems runs.
THEOREM UploadTypeCorrect == UploadSpec => []TypeOK
<1>1. [UploadSystem]_vars => [Anything]_vars
    BY DEF Anything
<1> QED BY <1>1, InitType, StepType, PTL DEF UploadSpec

\* The same with reprocess requests.
THEOREM DeployedTypeCorrect == DeployedSpec => []TypeOK
<1>1. [DeployedSystem]_vars => [Anything]_vars
    BY DEF Anything, DeployedSystem
<1> QED BY <1>1, InitType, StepType, PTL DEF DeployedSpec

\* The same with the sweeper running, which uses stale lists.
THEOREM SweptTypeCorrect == SweptSpec => []TypeOK
<1>1. [SweptSystem]_vars => [Anything]_vars
    BY DEF Anything, SweptSystem
<1> QED BY <1>1, InitType, StepType, PTL DEF SweptSpec

(***************************************************************************)
(* Job rows: a finished job stays finished, a DONE job left a successor,   *)
(* and a committed document has a job.                                     *)
(*                                                                         *)
(* None of the three is inductive.  A worker writes the status it decided  *)
(* on in an earlier step, so terminal jobs stay terminal only because what *)
(* it read is still true (ReadsStayTrue); that holds because nobody else   *)
(* writes a job some worker has read, which for the requests means that a  *)
(* request commits only the row it flushed itself (RequestsOwnJobs), under *)
(* an id nobody had (NextJobIsFresh).                                      *)
(***************************************************************************)

\* What a handler does between two of its steps depends on who it is.
RequestPcs ==
    \A r \in Requests :
        /\ req[r].pc = "lookup" => req[r].op = "existing"
        /\ req[r].pc \in {"reset", "from", "extract"} => req[r].op = "reprocess"

\* The part of the invariant that is about rows and requests only.
RowInv ==
    /\ RequestPcs
    /\ NextJobIsFresh
    /\ RequestsOwnJobs
    /\ DoneHasSuccessor
    /\ DocumentHasJob

JobInv == TypeOK /\ RowInv /\ ReadsStayTrue

jobRows == <<jobDoc, jobStage, jobStatus, nextJob>>

(***************************************************************************)
(* Writes                                                                  *)
(***************************************************************************)

\* Nothing the invariant is about changes.
LEMMA RowsKept ==
    ASSUME RowInv, UNCHANGED <<docStatus, jobRows, apiVars>>
    PROVE  RowInv' /\ KeepsTerminalJobs
<1> USE DEF jobRows
<1>1. NextJobIsFresh'
    BY DEF RowInv, NextJobIsFresh
<1>2. RequestsOwnJobs'
    BY DEF RowInv, RequestsOwnJobs, Flushed, apiVars
<1>3. DoneHasSuccessor'
    BY DEF RowInv, DoneHasSuccessor, JobsOf, JobVisible
<1>4. DocumentHasJob'
    BY DEF RowInv, DocumentHasJob, JobsOf, JobVisible, DocVisible
<1>5. KeepsTerminalJobs
    BY DEF KeepsTerminalJobs
<1>6. RequestPcs'
    BY DEF RowInv, RequestPcs, apiVars
<1> QED BY <1>1, <1>2, <1>3, <1>4, <1>5, <1>6 DEF RowInv

\* A commit that writes the status of one visible, unfinished job, and of its
\* document, and creates no row.
LEMMA StatusWritten ==
    ASSUME TypeOK, RowInv, NEW j \in Jobs, NEW s \in JobStatus,
           jobStatus[j] \in ActiveJob,
           s = "DONE" => jobStage[j] = LastStage,
           jobStatus' = [jobStatus EXCEPT ![j] = s],
           UNCHANGED <<jobDoc, jobStage, nextJob, apiVars>>,
           \A d \in Docs : docStatus'[d] # docStatus[d] => d = jobDoc[j]
    PROVE  RowInv' /\ KeepsTerminalJobs
<1>type. /\ jobStatus \in [Jobs -> JobStatus \cup NoRow]
         /\ jobStage \in [Jobs -> Stages]
    BY DEF TypeOK, RowsTypeOK
<1>visible. JobVisible(j) /\ JobVisible(j)'
    BY <1>type DEF JobVisible, ActiveJob, JobStatus
<1>jobs. \A d : JobsOf(d)' = JobsOf(d)
    BY <1>type, <1>visible DEF JobsOf, JobVisible
<1>1. NextJobIsFresh'
    BY <1>type DEF RowInv, NextJobIsFresh, ActiveJob
<1>2. RequestsOwnJobs'
    BY <1>type DEF RowInv, RequestsOwnJobs, Flushed, apiVars, ActiveJob, JobStatus
<1>3. DoneHasSuccessor'
  <2> SUFFICES ASSUME NEW d \in Docs, NEW i \in JobsOf(d),
                      jobStatus'[i] = "DONE", jobStage[i] < LastStage
               PROVE  \E k \in JobsOf(d) : k > i /\ jobStage[k] = jobStage[i] + 1
      BY <1>jobs DEF DoneHasSuccessor
  <2>1. i \in Jobs /\ i # j
      BY <1>type, LastStageAssumption DEF JobsOf, Stages
  <2>2. jobStatus[i] = "DONE"
      BY <1>type, <2>1
  <2> QED BY <2>2 DEF RowInv, DoneHasSuccessor
<1>4. DocumentHasJob'
  <2> SUFFICES ASSUME NEW d \in Docs, DocVisible(d)' PROVE JobsOf(d) # {}
      BY <1>jobs DEF DocumentHasJob
  <2>1. CASE d = jobDoc[j]
      BY <2>1, <1>visible DEF JobsOf
  <2>2. CASE d # jobDoc[j]
      BY <2>2 DEF RowInv, DocumentHasJob, DocVisible
  <2> QED BY <2>1, <2>2
<1>5. KeepsTerminalJobs
    BY <1>type DEF KeepsTerminalJobs, ActiveJob, TerminalJob
<1>6. RequestPcs'
    BY DEF RowInv, RequestPcs, apiVars
<1> QED BY <1>1, <1>2, <1>3, <1>4, <1>5, <1>6 DEF RowInv

(***************************************************************************)
(* Reads                                                                   *)
(***************************************************************************)

\* The other executions are not disturbed by a step that only ever deletes
\* the jobs they have read.
Undisturbed(j) ==
    \A k \in Jobs : k # j /\ pc[k] \in InTransaction =>
        jobStatus'[k] \in {jobStatus[k], "DELETED"}

LEMMA GotoReads ==
    ASSUME TypeOK, ReadsStayTrue, NEW j \in Jobs,
           NEW label \in Labels \ InTransaction, Goto(j, label), Undisturbed(j)
    PROVE  ReadsStayTrue'
BY DEF TypeOK, RunnerTypeOK, ReadsStayTrue, Goto, Undisturbed

LEMMA ReadJobReads ==
    ASSUME TypeOK, ReadsStayTrue, NEW j \in Jobs, NEW label \in Labels,
           jobStatus[j] \in ActiveJob, ReadJob(j, label), UNCHANGED jobStatus
    PROVE  ReadsStayTrue'
BY DEF TypeOK, RunnerTypeOK, ReadsStayTrue, ReadJob

LEMMA ReadDocReads ==
    ASSUME TypeOK, ReadsStayTrue, NEW j \in Jobs, NEW label \in Labels,
           pc[j] \in InTransaction, ReadDoc(j, label), UNCHANGED jobStatus
    PROVE  ReadsStayTrue'
BY DEF TypeOK, RunnerTypeOK, ReadsStayTrue, ReadDoc

LEMMA OthersRead ==
    ASSUME ReadsStayTrue, UNCHANGED execVars,
           \A k \in Jobs : pc[k] \in InTransaction =>
               jobStatus'[k] \in {jobStatus[k], "DELETED"}
    PROVE  ReadsStayTrue'
BY DEF ReadsStayTrue, execVars

(***************************************************************************)
(* The steps of the workers                                                *)
(***************************************************************************)

\* A step that writes no row and leaves the executions as the lemmas above
\* allow.
LEMMA WorkerWritesNothing ==
    ASSUME JobInv, UNCHANGED <<docStatus, jobRows, apiVars>>, NEW j \in Jobs,
           \/ \E label \in Labels \ InTransaction : Goto(j, label)
           \/ \E label \in Labels : /\ jobStatus[j] \in ActiveJob
                                    /\ ReadJob(j, label)
           \/ \E label \in Labels : pc[j] \in InTransaction /\ ReadDoc(j, label)
           \/ UNCHANGED execVars
    PROVE  RowInv' /\ ReadsStayTrue' /\ KeepsTerminalJobs
<1>1. RowInv' /\ KeepsTerminalJobs
    BY RowsKept DEF JobInv
<1>2. UNCHANGED jobStatus /\ Undisturbed(j)
    BY DEF jobRows, Undisturbed
<1>3. ReadsStayTrue'
    BY <1>2, GotoReads, ReadJobReads, ReadDocReads, OthersRead DEF JobInv
<1> QED BY <1>1, <1>3

\* The four commits of a worker write the job it read, which is unfinished.
LEMMA WorkerCommits ==
    ASSUME JobInv, UNCHANGED <<jobDoc, jobStage, nextJob, apiVars>>,
           NEW j \in Jobs, pc[j] \in InTransaction, JobVisible(j),
           NEW s \in JobStatus, s = "DONE" => jobStage[j] = LastStage,
           jobStatus' = [jobStatus EXCEPT ![j] = s],
           \A d \in Docs : docStatus'[d] # docStatus[d] => d = jobDoc[j],
           NEW label \in Labels \ InTransaction, Goto(j, label)
    PROVE  RowInv' /\ ReadsStayTrue' /\ KeepsTerminalJobs
<1>1. jobStatus[j] \in ActiveJob
    BY DEF JobInv, ReadsStayTrue, JobVisible, JobStatus
<1>2. RowInv' /\ KeepsTerminalJobs
    BY <1>1, StatusWritten DEF JobInv
<1>3. Undisturbed(j)
    BY DEF Undisturbed, JobInv, TypeOK, RowsTypeOK
<1>4. ReadsStayTrue'
    BY <1>3, GotoReads DEF JobInv
<1> QED BY <1>2, <1>4

LEMMA StartCommitsStep ==
    ASSUME JobInv, NEW j \in Jobs, StartCommits(j), UNCHANGED apiVars
    PROVE  RowInv' /\ ReadsStayTrue' /\ KeepsTerminalJobs
<1>type. /\ jobStatus \in [Jobs -> JobStatus \cup NoRow]
         /\ docStatus \in [Docs -> DocumentStatus \cup NoRow]
    BY DEF JobInv, TypeOK, RowsTypeOK
<1>label. "load" \in Labels \ InTransaction
    BY DEF Labels, InTransaction
<1>open. pc[j] \in InTransaction
    BY DEF StartCommits, InTransaction
<1>docs. \A d \in Docs : docStatus'[d] # docStatus[d] => d = jobDoc[j]
    BY <1>type DEF StartCommits, StartRows
<1>1. CASE JobVisible(j)
  <2> DEFINE s == IF seenJob[j] = "QUEUED" THEN "RUNNING" ELSE jobStatus[j]
  <2>1. s \in JobStatus /\ s # "DONE"
      BY <1>1, <1>open DEF JobVisible, JobStatus, JobInv, ReadsStayTrue, ActiveJob
  <2>2. jobStatus' = [jobStatus EXCEPT ![j] = s]
      BY <1>type DEF StartCommits, StartRows
  <2> HIDE DEF s
  <2> QED BY <1>1, <2>1, <2>2, <1>open, <1>docs, <1>label, WorkerCommits
             DEF StartCommits, StartRows
<1>2. CASE ~JobVisible(j)
  <2>1. UNCHANGED <<docStatus, jobRows>>
      BY <1>2 DEF StartCommits, StartRows, jobRows
  <2> QED BY <2>1, <1>label, WorkerWritesNothing DEF StartCommits
<1> QED BY <1>1, <1>2

\* The new job is the successor its predecessor needs.
LEMMA CompleteStageStep ==
    ASSUME JobInv, NEW j \in Jobs, CompleteStage(j), UNCHANGED apiVars
    PROVE  RowInv' /\ ReadsStayTrue' /\ KeepsTerminalJobs
<1>type. /\ jobStatus \in [Jobs -> JobStatus \cup NoRow]
         /\ jobDoc \in [Jobs -> Docs \cup {NoDoc}]
         /\ jobStage \in [Jobs -> Stages]
         /\ nextJob \in Jobs
         /\ Jobs \subseteq Nat
    BY DEF JobInv, TypeOK, RowsTypeOK, CompleteStage, AdvanceRows, InsertJob, Jobs
<1>step. /\ jobStatus' = [jobStatus EXCEPT ![j] = "DONE", ![nextJob] = "QUEUED"]
         /\ jobDoc' = [jobDoc EXCEPT ![nextJob] = jobDoc[j]]
         /\ jobStage' = [jobStage EXCEPT ![nextJob] = jobStage[j] + 1]
         /\ nextJob' = nextJob + 1
         /\ docStatus' = docStatus
         /\ JobVisible(j)
    BY DEF CompleteStage, AdvanceRows, InsertJob
<1>fresh. jobStatus[nextJob] = "UNBORN"
    BY <1>type DEF JobInv, RowInv, NextJobIsFresh
<1>active. jobStatus[j] \in ActiveJob
    BY <1>step DEF CompleteStage, InTransaction, JobInv, ReadsStayTrue, JobVisible,
                   JobStatus
<1>older. j < nextJob
    BY <1>type, <1>active DEF JobInv, RowInv, NextJobIsFresh, ActiveJob
<1>1. NextJobIsFresh'
    BY <1>type, <1>step, <1>older DEF JobInv, RowInv, NextJobIsFresh
<1>2. RequestsOwnJobs'
    BY <1>type, <1>step, <1>fresh, <1>active
       DEF JobInv, RowInv, RequestsOwnJobs, Flushed, apiVars, ActiveJob
<1>jobs. ASSUME NEW d \in Docs, NEW k \in JobsOf(d) PROVE k \in JobsOf(d)'
    BY <1>type, <1>step, <1>fresh DEF JobsOf, JobVisible, JobStatus
<1>3. DoneHasSuccessor'
  <2> SUFFICES ASSUME NEW d \in Docs, NEW i \in JobsOf(d)',
                      jobStatus'[i] = "DONE", jobStage'[i] < LastStage
               PROVE  \E k \in JobsOf(d)' : k > i /\ jobStage'[k] = jobStage'[i] + 1
      BY DEF DoneHasSuccessor
  <2>1. i # nextJob /\ i \in Jobs
      BY <1>type, <1>step, <1>older DEF JobsOf
  <2>2. CASE i = j
    <3>1. nextJob \in JobsOf(d)'
        BY <2>1, <2>2, <1>type, <1>step DEF JobsOf, JobVisible, JobStatus
    <3> QED BY <3>1, <2>1, <2>2, <1>type, <1>step, <1>older
  <2>3. CASE i # j
    <3>1. i \in JobsOf(d) /\ jobStatus[i] = "DONE" /\ jobStage[i] < LastStage
        BY <2>1, <2>3, <1>type, <1>step DEF JobsOf, JobVisible
    <3>2. PICK k \in JobsOf(d) : k > i /\ jobStage[k] = jobStage[i] + 1
        BY <3>1 DEF JobInv, RowInv, DoneHasSuccessor
    <3>3. k # nextJob
        BY <3>2, <1>fresh DEF JobsOf, JobVisible, JobStatus
    <3>4. k \in Jobs /\ jobStage'[k] = jobStage[k] /\ jobStage'[i] = jobStage[i]
        BY <3>2, <3>3, <2>1, <1>type, <1>step DEF JobsOf
    <3> QED BY <3>2, <3>4, <1>jobs
  <2> QED BY <2>2, <2>3
<1>4. DocumentHasJob'
    BY <1>step, <1>jobs DEF JobInv, RowInv, DocumentHasJob, DocVisible
<1>5. KeepsTerminalJobs
    BY <1>type, <1>step, <1>fresh, <1>active
       DEF KeepsTerminalJobs, ActiveJob, TerminalJob
<1>6. ReadsStayTrue'
  <2> SUFFICES ASSUME NEW k \in Jobs, pc'[k] \in InTransaction
               PROVE  /\ seenJob'[k] \in ActiveJob
                      /\ jobStatus'[k] \in {seenJob'[k], "DELETED"}
      BY DEF ReadsStayTrue
  <2>1. k # j /\ pc[k] \in InTransaction /\ seenJob'[k] = seenJob[k]
      BY DEF CompleteStage, InTransaction, JobInv, TypeOK, RunnerTypeOK
  <2>2. seenJob[k] \in ActiveJob /\ jobStatus[k] \in {seenJob[k], "DELETED"}
      BY <2>1 DEF JobInv, ReadsStayTrue
  <2>3. k # nextJob
      BY <2>2, <1>fresh DEF ActiveJob
  <2> QED BY <2>1, <2>2, <2>3, <1>step, <1>type
<1>7. RequestPcs'
    BY DEF JobInv, RowInv, RequestPcs, apiVars
<1> QED BY <1>1, <1>2, <1>3, <1>4, <1>5, <1>6, <1>7 DEF RowInv

LEMMA WorkerStep ==
    ASSUME JobInv, Workers
    PROVE  RowInv' /\ ReadsStayTrue' /\ KeepsTerminalJobs
<1> PICK j \in Jobs : Deliver(j) \/ RunStage(j) \/ Crash(j) \/ TimeOut(j) \/ Abandon(j)
    BY DEF Workers, RunnerNext
<1>api. UNCHANGED apiVars
    BY DEF Workers
<1>same. ASSUME UNCHANGED rowVars PROVE UNCHANGED <<docStatus, jobRows, apiVars>>
    BY <1>same, <1>api DEF rowVars, jobRows
<1>out. {"idle", "start_job", "load", "body", "fail_job", "complete_job",
         "enqueue", "return"} \subseteq Labels \ InTransaction
    BY DEF Labels, InTransaction
<1>in. InTransaction \subseteq Labels
    BY DEF Labels, InTransaction
<1>goto. ASSUME UNCHANGED rowVars, NEW label \in Labels \ InTransaction, Goto(j, label)
         PROVE  RowInv' /\ ReadsStayTrue' /\ KeepsTerminalJobs
    BY <1>goto, <1>same, WorkerWritesNothing
<1>readJob. ASSUME UNCHANGED rowVars, NEW label \in InTransaction,
                   jobStatus[j] \in ActiveJob, ReadJob(j, label)
            PROVE  RowInv' /\ ReadsStayTrue' /\ KeepsTerminalJobs
    BY <1>readJob, <1>in, <1>same, WorkerWritesNothing
<1>readDoc. ASSUME UNCHANGED rowVars, NEW label \in InTransaction,
                   pc[j] \in InTransaction, ReadDoc(j, label)
            PROVE  RowInv' /\ ReadsStayTrue' /\ KeepsTerminalJobs
    BY <1>readDoc, <1>in, <1>same, WorkerWritesNothing
<1>1. CASE Deliver(j) \/ StartLosesRow(j)
    BY <1>1, <1>out, <1>goto DEF Deliver, StartLosesRow
<1>2. CASE StartReadsJob(j)
    BY <1>2, <1>out, <1>goto, <1>readJob DEF StartReadsJob, InTransaction
<1>3. CASE StartReadsDoc(j)
  <2>1. PICK label \in {"start_commit", "fail_commit"} :
             Goto(j, "return") \/ ReadDoc(j, label)
      BY <1>3 DEF StartReadsDoc
  <2>2. label \in InTransaction /\ pc[j] \in InTransaction /\ UNCHANGED rowVars
      BY <1>3 DEF StartReadsDoc, InTransaction
  <2> QED BY <2>1, <2>2, <1>out, <1>goto, <1>readDoc
<1>4. CASE StartCommits(j)
    BY <1>4, <1>api, StartCommitsStep
<1>5. CASE \/ FnLoadsDocument(j) \/ FnFailsPermanently(j) \/ FnFailsLastTry(j)
           \/ FnFailsTransiently(j) \/ AttemptLosesRow(j)
    BY <1>5, <1>out, <1>goto
       DEF FnLoadsDocument, FnFailsPermanently, FnFailsLastTry, FnFailsTransiently,
           AttemptLosesRow
<1>6. CASE FnSucceeds(j)
  <2>1. UNCHANGED <<docStatus, jobRows, apiVars>>
      BY <1>6, <1>api DEF FnSucceeds, jobRows
  <2> QED BY <1>6, <2>1, <1>out, WorkerWritesNothing DEF FnSucceeds
<1>7. CASE FailReadsJob(j)
    BY <1>7, <1>out, <1>goto, <1>readJob DEF FailReadsJob, InTransaction
<1>8. CASE FailReadsDoc(j)
    BY <1>8, <1>out, <1>goto, <1>readDoc DEF FailReadsDoc, InTransaction
<1>9. CASE FailCommits(j)
  <2>1. \A d \in Docs : docStatus'[d] # docStatus[d] => d = jobDoc[j]
      BY <1>9 DEF FailCommits, FailRows, JobInv, TypeOK, RowsTypeOK
  <2>2. pc[j] \in InTransaction /\ "FAILED" \in JobStatus /\ "FAILED" # "DONE"
      BY <1>9 DEF FailCommits, InTransaction, JobStatus
  <2> QED BY <1>9, <2>1, <2>2, <1>api, <1>out, WorkerCommits DEF FailCommits, FailRows
<1>10. CASE FailLosesRow(j) \/ CompleteLosesRow(j)
    BY <1>10, <1>out, <1>goto DEF FailLosesRow, CompleteLosesRow
<1>11. CASE CompleteReadsJob(j)
  <2>1. \/ jobStatus[j] \in ActiveJob /\ ReadJob(j, "complete_doc")
        \/ Goto(j, "fail_job") \/ Goto(j, "return")
      BY <1>11 DEF CompleteReadsJob, ActiveJob
  <2>2. "complete_doc" \in InTransaction /\ UNCHANGED rowVars
      BY <1>11 DEF CompleteReadsJob, InTransaction
  <2> QED BY <2>1, <2>2, <1>out, <1>goto, <1>readJob
<1>12. CASE CompleteReadsDoc(j)
    BY <1>12, <1>out, <1>goto, <1>readDoc DEF CompleteReadsDoc, InTransaction
<1>13. CASE CompleteLastStage(j)
  <2>1. \A d \in Docs : docStatus'[d] # docStatus[d] => d = jobDoc[j]
      BY <1>13 DEF CompleteLastStage, IndexedRows, JobInv, TypeOK, RowsTypeOK
  <2>2. pc[j] \in InTransaction /\ "DONE" \in JobStatus
      BY <1>13 DEF CompleteLastStage, InTransaction, JobStatus
  <2> QED BY <1>13, <2>1, <2>2, <1>api, <1>out, WorkerCommits
             DEF CompleteLastStage, IndexedRows
<1>14. CASE CompleteStage(j)
    BY <1>14, <1>api, CompleteStageStep
<1>15. CASE EnqueueNext(j) \/ EnqueueNextFails(j) \/ Return(j) \/ Crash(j) \/ TimeOut(j)
    BY <1>15, <1>out, <1>goto DEF EnqueueNext, EnqueueNextFails, Return, Crash, TimeOut
<1>16. CASE Abandon(j)
    BY <1>16, <1>same, WorkerWritesNothing DEF Abandon
<1> QED
    BY <1>1, <1>2, <1>3, <1>4, <1>5, <1>6, <1>7, <1>8, <1>9, <1>10, <1>11, <1>12,
       <1>13, <1>14, <1>15, <1>16 DEF RunStage

(***************************************************************************)
(* The steps of the request handlers                                       *)
(***************************************************************************)

\* A handler that writes no row and points at no job, or at a committed one.
LEMMA RequestWritesNothing ==
    ASSUME JobInv, UNCHANGED <<docStatus, jobRows, execVars>>,
           NEW r \in Requests,
           \A q \in Requests : q # r => req'[q] = req[q],
           ~Flushed(r)', RequestPcs',
           \A j \in Jobs : req'[r].job = j => jobStatus[j] \notin {"UNBORN", "UNCOMMITTED"}
    PROVE  RowInv' /\ ReadsStayTrue' /\ KeepsTerminalJobs
<1> USE DEF jobRows
<1>1. NextJobIsFresh' /\ DoneHasSuccessor' /\ DocumentHasJob'
    BY DEF JobInv, RowInv, NextJobIsFresh, DoneHasSuccessor, DocumentHasJob, JobsOf,
           JobVisible, DocVisible
<1>2. RequestsOwnJobs'
    BY DEF JobInv, RowInv, RequestsOwnJobs, Flushed
<1>3. KeepsTerminalJobs
    BY DEF KeepsTerminalJobs
<1>4. ReadsStayTrue'
    BY OthersRead DEF JobInv
<1> QED BY <1>1, <1>2, <1>3, <1>4 DEF RowInv

\* A handler flushes a job nobody has heard of under the next id.
LEMMA RequestFlushesJob ==
    ASSUME JobInv, UNCHANGED execVars, NEW r \in Requests, NEW d, NEW s \in Stages,
           InsertJob(d, s),
           jobStatus' = [jobStatus EXCEPT ![nextJob] = "UNCOMMITTED"],
           \A e \in Docs : DocVisible(e)' => DocVisible(e),
           \A q \in Requests : q # r => req'[q] = req[q],
           Flushed(r)', RequestPcs', req'[r].doc = d, req'[r].job = nextJob
    PROVE  RowInv' /\ ReadsStayTrue' /\ KeepsTerminalJobs
<1>type. /\ jobStatus \in [Jobs -> JobStatus \cup NoRow]
         /\ jobDoc \in [Jobs -> Docs \cup {NoDoc}]
         /\ jobStage \in [Jobs -> Stages]
         /\ nextJob \in Jobs /\ Jobs \subseteq Nat
    BY DEF JobInv, TypeOK, RowsTypeOK, InsertJob, Jobs
<1>step. /\ jobDoc' = [jobDoc EXCEPT ![nextJob] = d]
         /\ jobStage' = [jobStage EXCEPT ![nextJob] = s]
         /\ nextJob' = nextJob + 1
    BY DEF InsertJob
<1>fresh. jobStatus[nextJob] = "UNBORN"
    BY <1>type DEF JobInv, RowInv, NextJobIsFresh
<1>jobs. ASSUME NEW e \in Docs
         PROVE  /\ JobsOf(e)' = JobsOf(e) 
                /\ nextJob \notin JobsOf(e)
    BY <1>type, <1>step, <1>fresh DEF JobsOf, JobVisible, JobStatus
<1>1. NextJobIsFresh'
    BY <1>type, <1>step DEF JobInv, RowInv, NextJobIsFresh
<1>2. RequestsOwnJobs'
  <2> SUFFICES ASSUME NEW q \in Requests
               PROVE  /\ Flushed(q)' =>
                           /\ req'[q].job \in Jobs
                           /\ jobStatus'[req'[q].job] = "UNCOMMITTED"
                           /\ jobDoc'[req'[q].job] = req'[q].doc
                           /\ \A p \in Requests :
                                Flushed(p)' /\ req'[p].job = req'[q].job => p = q
                      /\ ~Flushed(q)' =>
                           \A j \in Jobs : req'[q].job = j =>
                               jobStatus'[j] \notin {"UNBORN", "UNCOMMITTED"}
      BY DEF RequestsOwnJobs
  <2>others. \A p \in Requests : p # r /\ Flushed(p) => req[p].job # nextJob
      BY <1>fresh DEF JobInv, RowInv, RequestsOwnJobs
  <2>1. CASE q = r
      BY <2>1, <2>others, <1>type, <1>step DEF Flushed
  <2>2. CASE q # r
    <3>1. Flushed(q)' <=> Flushed(q)
        BY <2>2 DEF Flushed
    <3>2. CASE Flushed(q)
      <4>1. /\ req[q].job \in Jobs /\ req[q].job # nextJob
            /\ jobStatus[req[q].job] = "UNCOMMITTED"
            /\ jobDoc[req[q].job] = req[q].doc
            /\ \A p \in Requests :
                    Flushed(p) /\ req[p].job = req[q].job => p = q
          BY <2>2, <3>2, <2>others DEF JobInv, RowInv, RequestsOwnJobs
      <4>2. \A p \in Requests : p # r => (Flushed(p)' <=> Flushed(p))
          BY DEF Flushed
      <4> QED BY <4>1, <4>2, <3>1, <3>2, <2>2, <1>type, <1>step
    <3>3. CASE ~Flushed(q)
      <4>1. \A j \in Jobs : req[q].job = j =>
                /\ j # nextJob
                /\ jobStatus[j] \notin {"UNBORN", "UNCOMMITTED"}
          BY <3>3, <1>fresh DEF JobInv, RowInv, RequestsOwnJobs
      <4> QED BY <4>1, <3>1, <3>3, <2>2, <1>type, <1>step
    <3> QED BY <3>2, <3>3
  <2> QED BY <2>1, <2>2
<1>3. DoneHasSuccessor'
  <2>1. \A i \in Jobs : i # nextJob => /\ jobStatus'[i] = jobStatus[i]
                                      /\ jobStage'[i] = jobStage[i]
      BY <1>type, <1>step
  <2> QED BY <2>1, <1>jobs DEF JobInv, RowInv, DoneHasSuccessor, JobsOf
<1>4. DocumentHasJob'
    BY <1>jobs DEF JobInv, RowInv, DocumentHasJob
<1>5. KeepsTerminalJobs
    BY <1>type, <1>fresh DEF KeepsTerminalJobs, TerminalJob
<1>6. ReadsStayTrue'
  <2>1. \A k \in Jobs : pc[k] \in InTransaction => jobStatus'[k] = jobStatus[k]
      BY <1>type, <1>fresh DEF JobInv, ReadsStayTrue, ActiveJob
  <2> QED BY <2>1, OthersRead DEF JobInv
<1> QED BY <1>1, <1>2, <1>3, <1>4, <1>5, <1>6 DEF RowInv

\* Enqueueing changes only how far the handler has come.
LEMMA RequestEnqueuesStep ==
    ASSUME JobInv, NEW r \in Requests, RequestEnqueues(r), UNCHANGED execVars
    PROVE  RowInv' /\ ReadsStayTrue' /\ KeepsTerminalJobs
<1>type. req \in [Requests -> RequestState]
    BY DEF JobInv, TypeOK, ApiTypeOK
<1>step. /\ req[r].pc = "enqueue"
         /\ req' = [req EXCEPT ![r].pc = "commit"]
         /\ UNCHANGED <<docStatus, jobRows>>
    BY DEF RequestEnqueues, rowVars, jobRows
<1>req. \A q \in Requests : /\ Flushed(q)' <=> Flushed(q)
                           /\ req'[q].job = req[q].job
                           /\ req'[q].doc = req[q].doc
    BY <1>type, <1>step DEF Flushed, RequestState
<1>1. RequestsOwnJobs'
    BY <1>req, <1>step DEF JobInv, RowInv, RequestsOwnJobs, jobRows
<1>2. RequestPcs'
    BY <1>type, <1>step DEF JobInv, RowInv, RequestPcs, RequestState
<1>3. NextJobIsFresh' /\ DoneHasSuccessor' /\ DocumentHasJob' /\ KeepsTerminalJobs
    BY <1>step DEF JobInv, RowInv, NextJobIsFresh, DoneHasSuccessor, DocumentHasJob,
                   JobsOf, JobVisible, DocVisible, KeepsTerminalJobs, jobRows
<1>4. ReadsStayTrue'
    BY <1>step, OthersRead DEF JobInv, jobRows
<1> QED BY <1>1, <1>2, <1>3, <1>4 DEF RowInv

\* A request commits the job it flushed, if it flushed one, and a document of
\* its own with it.
LEMMA RequestCommitsStep ==
    ASSUME JobInv, NEW r \in Requests, RequestCommits(r), UNCHANGED execVars
    PROVE  RowInv' /\ ReadsStayTrue' /\ KeepsTerminalJobs
<1>type. /\ req \in [Requests -> RequestState]
         /\ jobStatus \in [Jobs -> JobStatus \cup NoRow]
         /\ docStatus \in [Docs -> DocumentStatus \cup NoRow]
    BY DEF JobInv, TypeOK, ApiTypeOK, RowsTypeOK
<1>step. /\ req[r].pc = "commit"
         /\ docStatus' = IF req[r].op = "create"
                           THEN [docStatus EXCEPT ![req[r].doc] = "PENDING"]
                           ELSE docStatus
         /\ jobStatus' = IF req[r].op # "existing"
                           THEN [jobStatus EXCEPT ![req[r].job] = "QUEUED"]
                           ELSE jobStatus
         /\ req' = [req EXCEPT ![r] = NoRequest]
         /\ UNCHANGED <<jobDoc, jobStage, nextJob>>
    BY DEF RequestCommits, EndRequest
<1>new. ASSUME req[r].op # "existing"
        PROVE  /\ req[r].job \in Jobs
               /\ jobStatus[req[r].job] = "UNCOMMITTED"
               /\ jobDoc[req[r].job] = req[r].doc
    BY <1>new, <1>step DEF JobInv, RowInv, RequestsOwnJobs, Flushed
<1>keep. \A j \in Jobs : jobStatus[j] # "UNCOMMITTED" => jobStatus'[j] = jobStatus[j]
    BY <1>type, <1>step, <1>new
<1>change. \A j \in Jobs : jobStatus'[j] = jobStatus[j] \/ jobStatus'[j] = "QUEUED"
    BY <1>type, <1>step, <1>new
<1>jobs. ASSUME NEW d \in Docs, NEW j \in JobsOf(d) PROVE j \in JobsOf(d)'
    BY <1>step, <1>keep DEF JobsOf, JobVisible, JobStatus
<1>1. NextJobIsFresh'
    BY <1>step, <1>keep DEF JobInv, RowInv, NextJobIsFresh
<1>ended. ~Flushed(r)' /\ req'[r].job \notin Jobs
    BY <1>type, <1>step DEF Flushed, NoRequest, Jobs
<1>2. RequestsOwnJobs'
  <2> SUFFICES ASSUME NEW q \in Requests, q # r
               PROVE  /\ Flushed(q) =>
                           /\ req[q].job \in Jobs
                           /\ jobStatus'[req[q].job] = "UNCOMMITTED"
                           /\ jobDoc[req[q].job] = req[q].doc
                           /\ \A p \in Requests :
                                Flushed(p) /\ req[p].job = req[q].job => p = q
                      /\ ~Flushed(q) =>
                           \A j \in Jobs : req[q].job = j =>
                               jobStatus'[j] \notin {"UNBORN", "UNCOMMITTED"}
    <3>1. \A q \in Requests : q # r => (Flushed(q)' <=> Flushed(q)) /\ req'[q] = req[q]
        BY <1>type, <1>step DEF Flushed
    <3> QED BY <3>1, <1>ended, <1>step DEF RequestsOwnJobs
  <2>1. CASE Flushed(q)
    <3>1. /\ req[q].job \in Jobs
          /\ jobStatus[req[q].job] = "UNCOMMITTED"
          /\ jobDoc[req[q].job] = req[q].doc
          /\ \A p \in Requests : Flushed(p) /\ req[p].job = req[q].job => p = q
        BY <2>1 DEF JobInv, RowInv, RequestsOwnJobs
    <3>2. jobStatus'[req[q].job] = jobStatus[req[q].job]
        BY <3>1, <1>type, <1>step DEF Flushed
    <3> QED BY <2>1, <3>1, <3>2
  <2>2. CASE ~Flushed(q)
      BY <2>2, <1>keep DEF JobInv, RowInv, RequestsOwnJobs
  <2> QED BY <2>1, <2>2
<1>3. RequestPcs'
    BY <1>type, <1>step DEF JobInv, RowInv, RequestPcs, NoRequest
<1>4. DoneHasSuccessor'
  <2> SUFFICES ASSUME NEW d \in Docs, NEW i \in JobsOf(d)',
                      jobStatus'[i] = "DONE", jobStage[i] < LastStage
               PROVE  \E k \in JobsOf(d)' : k > i /\ jobStage[k] = jobStage[i] + 1
      BY <1>step DEF DoneHasSuccessor
  <2>1. i \in JobsOf(d) /\ jobStatus[i] = "DONE"
      BY <1>change, <1>step DEF JobsOf, JobVisible, JobStatus
  <2> QED BY <2>1, <1>jobs DEF JobInv, RowInv, DoneHasSuccessor
<1>5. DocumentHasJob'
  <2> SUFFICES ASSUME NEW d \in Docs, DocVisible(d)' PROVE JobsOf(d)' # {}
      BY DEF DocumentHasJob
  <2>1. CASE DocVisible(d)
      BY <2>1, <1>jobs DEF JobInv, RowInv, DocumentHasJob
  <2>2. CASE ~DocVisible(d)
    <3>1. req[r].op = "create" /\ d = req[r].doc
        BY <2>2, <1>type, <1>step DEF DocVisible
    <3>2. req[r].job \in JobsOf(d)'
        BY <3>1, <1>new, <1>type, <1>step DEF JobsOf, JobVisible, JobStatus
    <3> QED BY <3>2
  <2> QED BY <2>1, <2>2
<1>6. KeepsTerminalJobs
    BY <1>keep DEF KeepsTerminalJobs, TerminalJob
<1>7. ReadsStayTrue'
  <2>1. \A k \in Jobs : pc[k] \in InTransaction => jobStatus'[k] = jobStatus[k]
      BY <1>keep DEF JobInv, ReadsStayTrue, ActiveJob
  <2> QED BY <2>1, OthersRead DEF JobInv
<1> QED BY <1>1, <1>2, <1>3, <1>4, <1>5, <1>6, <1>7 DEF RowInv

\* Rows disappear: a document's jobs all at once and only with it.  Rows that
\* were not committed, and ids that were not drawn, are not seen to change.
LEMMA RowsDeleted ==
    ASSUME JobInv, UNCHANGED <<jobDoc, jobStage, nextJob, execVars>>,
           jobStatus' \in [Jobs -> JobStatus \cup NoRow],
           \A j \in Jobs : /\ jobStatus'[j] \in {jobStatus[j], "DELETED"}
                           /\ jobStatus[j] = "UNBORN" /\ jobDoc[j] = NoDoc
                                 => jobStatus'[j] = "UNBORN",
           \A e \in Docs : /\ DocVisible(e)' => DocVisible(e)
                           /\ \/ JobsOf(e)' = JobsOf(e)
                              \/ JobsOf(e)' = {} /\ ~DocVisible(e)'
    PROVE  /\ NextJobIsFresh' /\ DoneHasSuccessor' /\ DocumentHasJob'
           /\ ReadsStayTrue' /\ KeepsTerminalJobs
<1>1. NextJobIsFresh'
    BY DEF JobInv, RowInv, NextJobIsFresh
<1>2. DoneHasSuccessor'
  <2> SUFFICES ASSUME NEW d \in Docs, NEW i \in JobsOf(d)',
                      jobStatus'[i] = "DONE", jobStage[i] < LastStage
               PROVE  \E k \in JobsOf(d)' : k > i /\ jobStage[k] = jobStage[i] + 1
      BY DEF DoneHasSuccessor
  <2>1. JobsOf(d)' = JobsOf(d) /\ i \in Jobs
      BY DEF JobsOf
  <2>2. jobStatus[i] = "DONE"
      BY <2>1
  <2> QED BY <2>1, <2>2 DEF JobInv, RowInv, DoneHasSuccessor
<1>3. DocumentHasJob'
    BY DEF JobInv, RowInv, DocumentHasJob
<1>4. KeepsTerminalJobs
    BY DEF KeepsTerminalJobs
<1>5. ReadsStayTrue'
    BY OthersRead DEF JobInv
<1> QED BY <1>1, <1>2, <1>3, <1>4, <1>5

LEMMA RequestAbortsStep ==
    ASSUME JobInv, NEW r \in Requests, RequestAborts(r), UNCHANGED execVars
    PROVE  RowInv' /\ ReadsStayTrue' /\ KeepsTerminalJobs
<1>type. /\ req \in [Requests -> RequestState]
         /\ jobStatus \in [Jobs -> JobStatus \cup NoRow]
         /\ docStatus \in [Docs -> DocumentStatus \cup NoRow]
    BY DEF JobInv, TypeOK, ApiTypeOK, RowsTypeOK
<1>step. /\ docStatus' = [d \in Docs |->
                IF docStatus[d] = "UNCOMMITTED" /\ req[r].doc = d
                  THEN "DELETED" ELSE docStatus[d]]
         /\ jobStatus' = [j \in Jobs |->
                IF jobStatus[j] = "UNCOMMITTED" /\ req[r].job = j
                  THEN "DELETED" ELSE jobStatus[j]]
         /\ req' = [req EXCEPT ![r] = NoRequest]
         /\ UNCHANGED <<jobDoc, jobStage, nextJob>>
    BY DEF RequestAborts, EndRequest
<1>1. /\ NextJobIsFresh' /\ DoneHasSuccessor' /\ DocumentHasJob'
      /\ ReadsStayTrue' /\ KeepsTerminalJobs
  <2>1. jobStatus' \in [Jobs -> JobStatus \cup NoRow]
      BY <1>type, <1>step DEF NoRow
  <2>2. \A e \in Docs : (DocVisible(e)' => DocVisible(e)) /\ JobsOf(e)' = JobsOf(e)
      BY <1>type, <1>step DEF DocVisible, JobsOf, JobVisible, JobStatus, DocumentStatus
  <2> QED BY <1>step, <2>1, <2>2, RowsDeleted
<1>2. RequestsOwnJobs'
  <2>1. \A q \in Requests : q # r => (Flushed(q)' <=> Flushed(q)) /\ req'[q] = req[q]
      BY <1>type, <1>step DEF Flushed
  <2>2. ~Flushed(r)' /\ req'[r].job \notin Jobs
      BY <1>type, <1>step DEF Flushed, NoRequest, Jobs
  <2>3. ASSUME NEW q \in Requests, q # r, Flushed(q)
        PROVE  /\ req[q].job \in Jobs
               /\ jobStatus'[req[q].job] = "UNCOMMITTED"
               /\ jobDoc[req[q].job] = req[q].doc
               /\ \A p \in Requests : Flushed(p) /\ req[p].job = req[q].job => p = q
    <3>1. /\ req[q].job \in Jobs
          /\ jobStatus[req[q].job] = "UNCOMMITTED"
          /\ jobDoc[req[q].job] = req[q].doc
          /\ \A p \in Requests : Flushed(p) /\ req[p].job = req[q].job => p = q
        BY <2>3 DEF JobInv, RowInv, RequestsOwnJobs
    <3>2. req[r].job # req[q].job
        BY <2>3, <3>1 DEF JobInv, RowInv, RequestsOwnJobs
    <3> QED BY <3>1, <3>2, <1>step
  <2>4. ASSUME NEW q \in Requests, q # r, ~Flushed(q), NEW j \in Jobs, req[q].job = j
        PROVE  jobStatus'[j] \notin {"UNBORN", "UNCOMMITTED"}
      BY <2>4, <1>step DEF JobInv, RowInv, RequestsOwnJobs
  <2> QED BY <2>1, <2>2, <2>3, <2>4, <1>step DEF RequestsOwnJobs
<1>3. RequestPcs'
    BY <1>type, <1>step DEF JobInv, RowInv, RequestPcs, NoRequest
<1> QED BY <1>1, <1>2, <1>3 DEF RowInv

LEMMA DeleteStep ==
    ASSUME JobInv, NEW d \in Docs, Delete(d), UNCHANGED execVars
    PROVE  RowInv' /\ ReadsStayTrue' /\ KeepsTerminalJobs
<1>type. /\ jobStatus \in [Jobs -> JobStatus \cup NoRow]
         /\ docStatus \in [Docs -> DocumentStatus \cup NoRow]
    BY DEF JobInv, TypeOK, RowsTypeOK
<1>step. /\ docStatus' = [docStatus EXCEPT ![d] = "DELETED"]
         /\ jobStatus' = [j \in Jobs |-> IF jobDoc[j] = d THEN "DELETED"
                                                        ELSE jobStatus[j]]
         /\ \A j \in Jobs : ~(jobStatus[j] = "UNCOMMITTED" /\ jobDoc[j] = d)
         /\ UNCHANGED <<jobDoc, jobStage, nextJob, apiVars>>
    BY DEF Delete
<1>1. /\ NextJobIsFresh' /\ DoneHasSuccessor' /\ DocumentHasJob'
      /\ ReadsStayTrue' /\ KeepsTerminalJobs
  <2>1. jobStatus' \in [Jobs -> JobStatus \cup NoRow]
      BY <1>type, <1>step DEF NoRow
  <2>2. ~DocVisible(d)' /\ JobsOf(d)' = {}
      BY <1>type, <1>step DEF DocVisible, JobsOf, JobVisible, JobStatus, DocumentStatus
  <2>3. \A e \in Docs : e # d => /\ DocVisible(e)' => DocVisible(e)
                                 /\ JobsOf(e)' = JobsOf(e)
      BY <1>type, <1>step DEF DocVisible, JobsOf, JobVisible
  <2> QED BY <1>step, <2>1, <2>2, <2>3, DocsAssumption, RowsDeleted
<1>2. RequestsOwnJobs'
  <2>1. \A j \in Jobs : jobStatus'[j] = jobStatus[j] \/ jobStatus'[j] = "DELETED"
      BY <1>step
  <2>2. \A j \in Jobs : jobStatus[j] = "UNCOMMITTED" => jobStatus'[j] = "UNCOMMITTED"
      BY <1>step
  <2>3. \A q \in Requests : (Flushed(q)' <=> Flushed(q)) /\ req'[q] = req[q]
      BY <1>step DEF Flushed, apiVars
  <2> QED BY <2>1, <2>2, <2>3, <1>step DEF JobInv, RowInv, RequestsOwnJobs
<1>3. RequestPcs'
    BY <1>step DEF JobInv, RowInv, RequestPcs, apiVars
<1> QED BY <1>1, <1>2, <1>3 DEF RowInv

LEMMA UploadStep ==
    ASSUME JobInv, Uploads
    PROVE  RowInv' /\ ReadsStayTrue' /\ KeepsTerminalJobs
<1>type. /\ req \in [Requests -> RequestState]
         /\ jobStatus \in [Jobs -> JobStatus \cup NoRow]
         /\ docStatus \in [Docs -> DocumentStatus \cup NoRow]
    BY DEF JobInv, TypeOK, ApiTypeOK, RowsTypeOK
<1>exec. UNCHANGED execVars
    BY DEF Uploads
<1>pcs. RequestPcs
    BY DEF JobInv, RowInv
<1>1. ASSUME NEW r \in Requests, NEW d \in Docs, UploadNew(r, d)
      PROVE  RowInv' /\ ReadsStayTrue' /\ KeepsTerminalJobs
  <2>1. /\ \A q \in Requests : q # r => req'[q] = req[q]
        /\ req'[r] = [NoRequest EXCEPT !.op = "create", !.pc = "enqueue",
                                       !.doc = d, !.job = nextJob]
      BY <1>1, <1>type DEF UploadNew
  <2>2. /\ req'[r].op = "create" /\ req'[r].pc = "enqueue"
        /\ req'[r].doc = d /\ req'[r].job = nextJob
      BY <2>1 DEF NoRequest
  <2>3. Flushed(r)' /\ RequestPcs'
      BY <2>1, <2>2, <1>pcs DEF Flushed, RequestPcs
  <2>4. \A e \in Docs : DocVisible(e)' => DocVisible(e)
      BY <1>1, <1>type DEF UploadNew, DocVisible, DocumentStatus
  <2>5. /\ InsertJob(d, 1) /\ 1 \in Stages
        /\ jobStatus' = [jobStatus EXCEPT ![nextJob] = "UNCOMMITTED"]
      BY <1>1, LastStageAssumption DEF UploadNew, Stages
  <2> QED BY <2>1, <2>2, <2>3, <2>4, <2>5, <1>exec, RequestFlushesJob
<1>2. ASSUME NEW r \in Requests, NEW d \in Docs, UploadExisting(r, d)
      PROVE  RowInv' /\ ReadsStayTrue' /\ KeepsTerminalJobs
  <2>1. /\ \A q \in Requests : q # r => req'[q] = req[q]
        /\ req'[r] = [NoRequest EXCEPT !.op = "existing", !.pc = "lookup", !.doc = d]
        /\ UNCHANGED <<docStatus, jobRows>>
      BY <1>2, <1>type DEF UploadExisting, rowVars, jobRows
  <2>2. req'[r].op = "existing" /\ req'[r].pc = "lookup" /\ req'[r].job = 0
      BY <2>1 DEF NoRequest
  <2>3. ~Flushed(r)' /\ RequestPcs'
      BY <2>1, <2>2, <1>pcs DEF Flushed, RequestPcs
  <2>4. req'[r].job \notin Jobs
      BY <2>2, MaxJobsAssumption DEF Jobs
  <2> QED BY <2>1, <2>3, <2>4, <1>exec, RequestWritesNothing
<1>3. ASSUME NEW r \in Requests, UploadFindsJob(r)
      PROVE  RowInv' /\ ReadsStayTrue' /\ KeepsTerminalJobs
  <2>0. req[r].pc = "lookup" /\ req[r].op = "existing"
        /\ UNCHANGED <<docStatus, jobRows>>
      BY <1>3, <1>pcs DEF UploadFindsJob, RequestPcs, rowVars, jobRows
  <2>1. CASE EndRequest(r)
    <3>1. /\ \A q \in Requests : q # r => req'[q] = req[q]
          /\ req'[r] = NoRequest
        BY <2>1, <1>type DEF EndRequest
    <3>2. ~Flushed(r)' /\ RequestPcs' /\ req'[r].job \notin Jobs
        BY <3>1, <1>pcs DEF Flushed, RequestPcs, Jobs, NoRequest
    <3> QED BY <2>0, <3>1, <3>2, <1>exec, RequestWritesNothing
  <2>2. ASSUME NEW j \in Jobs, LatestJob(req[r].doc, j),
               req' = [req EXCEPT ![r].pc = "enqueue", ![r].job = j]
        PROVE  RowInv' /\ ReadsStayTrue' /\ KeepsTerminalJobs
    <3>1. /\ \A q \in Requests : q # r => req'[q] = req[q]
          /\ req'[r].op = "existing" /\ req'[r].pc = "enqueue" /\ req'[r].job = j
        BY <2>0, <2>2, <1>type DEF RequestState
    <3>2. ~Flushed(r)' /\ RequestPcs'
        BY <3>1, <1>pcs DEF Flushed, RequestPcs
    <3>3. jobStatus[j] \notin {"UNBORN", "UNCOMMITTED"}
        BY <2>2 DEF LatestJob, JobsOf, JobVisible, JobStatus
    <3> QED BY <2>0, <3>1, <3>2, <3>3, <1>exec, RequestWritesNothing
  <2> QED BY <1>3, <2>1, <2>2 DEF UploadFindsJob
<1> QED
    BY <1>1, <1>2, <1>3, <1>exec, RequestEnqueuesStep, RequestCommitsStep,
       RequestAbortsStep, DeleteStep DEF Uploads, UploadNext, RequestStep

\* The first commit of a reprocess changes a document, not its jobs.
LEMMA ReprocessResetsStep ==
    ASSUME JobInv, NEW r \in Requests, ReprocessResets(r), UNCHANGED execVars
    PROVE  RowInv' /\ ReadsStayTrue' /\ KeepsTerminalJobs
<1>type. /\ req \in [Requests -> RequestState]
         /\ docStatus \in [Docs -> DocumentStatus \cup NoRow]
    BY DEF JobInv, TypeOK, ApiTypeOK, RowsTypeOK
<1>step. /\ req[r].pc = "reset"
         /\ req' = [req EXCEPT ![r].pc = "from"]
         /\ UNCHANGED jobRows
    BY DEF ReprocessResets, jobRows
<1>docs. \A e \in Docs : DocVisible(e)' => DocVisible(e)
    BY <1>type DEF ReprocessResets, DocVisible
<1>req. \A q \in Requests : /\ Flushed(q)' <=> Flushed(q)
                            /\ req'[q].job = req[q].job
                            /\ req'[q].doc = req[q].doc
                            /\ req'[q].op = req[q].op
                            /\ req'[q].pc = IF q = r THEN "from" ELSE req[q].pc
    BY <1>type, <1>step DEF Flushed, RequestState
<1>1. RequestsOwnJobs'
    BY <1>req, <1>step DEF JobInv, RowInv, RequestsOwnJobs, jobRows
<1>2. RequestPcs'
    BY <1>req, <1>step DEF JobInv, RowInv, RequestPcs
<1>3. NextJobIsFresh' /\ DoneHasSuccessor' /\ DocumentHasJob' /\ KeepsTerminalJobs
    BY <1>step, <1>docs DEF JobInv, RowInv, NextJobIsFresh, DoneHasSuccessor,
                            DocumentHasJob, JobsOf, JobVisible, KeepsTerminalJobs,
                            jobRows
<1>4. ReadsStayTrue'
    BY <1>step, OthersRead DEF JobInv, jobRows
<1> QED BY <1>1, <1>2, <1>3, <1>4 DEF RowInv

\* The second commit of a reprocess adds a job under an id nobody had.
LEMMA ReprocessCreatesFromJobStep ==
    ASSUME JobInv, NEW r \in Requests, ReprocessCreatesFromJob(r), UNCHANGED execVars
    PROVE  RowInv' /\ ReadsStayTrue' /\ KeepsTerminalJobs
<1>type. /\ req \in [Requests -> RequestState]
         /\ jobStatus \in [Jobs -> JobStatus \cup NoRow]
         /\ jobDoc \in [Jobs -> Docs \cup {NoDoc}]
         /\ jobStage \in [Jobs -> Stages]
         /\ nextJob \in Jobs /\ Jobs \subseteq Nat
    BY DEF JobInv, TypeOK, ApiTypeOK, RowsTypeOK, ReprocessCreatesFromJob,
           InsertJob, Jobs
<1>step. /\ req[r].pc = "from" /\ req' = [req EXCEPT ![r].pc = "extract"]
         /\ jobStatus' = [jobStatus EXCEPT ![nextJob] = "QUEUED"]
         /\ jobDoc' = [jobDoc EXCEPT ![nextJob] = req[r].doc]
         /\ jobStage' = [jobStage EXCEPT ![nextJob] = req[r].from]
         /\ nextJob' = nextJob + 1
         /\ docStatus' = docStatus
    BY DEF ReprocessCreatesFromJob, InsertJob
<1>fresh. jobStatus[nextJob] = "UNBORN"
    BY <1>type DEF JobInv, RowInv, NextJobIsFresh
<1>old. \A j \in Jobs : j # nextJob => /\ jobStatus'[j] = jobStatus[j]
                                       /\ jobDoc'[j] = jobDoc[j]
                                       /\ jobStage'[j] = jobStage[j]
    BY <1>type, <1>step
<1>jobs. ASSUME NEW d \in Docs, NEW k \in JobsOf(d)
         PROVE  k \in JobsOf(d)' /\ k # nextJob /\ k \in Jobs
    BY <1>old, <1>fresh DEF JobsOf, JobVisible, JobStatus
<1>req. \A q \in Requests : /\ Flushed(q)' <=> Flushed(q)
                            /\ req'[q].job = req[q].job
                            /\ req'[q].doc = req[q].doc
                            /\ req'[q].op = req[q].op
                            /\ req'[q].pc = IF q = r THEN "extract" ELSE req[q].pc
    BY <1>type, <1>step DEF Flushed, RequestState
<1>1. NextJobIsFresh'
    BY <1>type, <1>step DEF JobInv, RowInv, NextJobIsFresh
<1>2. RequestsOwnJobs'
    BY <1>req, <1>old, <1>fresh DEF JobInv, RowInv, RequestsOwnJobs
<1>3. RequestPcs'
    BY <1>req, <1>step DEF JobInv, RowInv, RequestPcs
<1>4. DoneHasSuccessor'
  <2> SUFFICES ASSUME NEW d \in Docs, NEW i \in JobsOf(d)',
                      jobStatus'[i] = "DONE", jobStage'[i] < LastStage
               PROVE  \E k \in JobsOf(d)' : k > i /\ jobStage'[k] = jobStage'[i] + 1
      BY DEF DoneHasSuccessor
  <2>1. i # nextJob /\ i \in Jobs
      BY <1>type, <1>step DEF JobsOf
  <2>2. i \in JobsOf(d) /\ jobStatus[i] = "DONE" /\ jobStage[i] < LastStage
      BY <2>1, <1>old DEF JobsOf, JobVisible
  <2>3. PICK k \in JobsOf(d) : k > i /\ jobStage[k] = jobStage[i] + 1
      BY <2>2 DEF JobInv, RowInv, DoneHasSuccessor
  <2> QED BY <2>1, <2>3, <1>jobs, <1>old
<1>5. DocumentHasJob'
    BY <1>jobs, <1>step DEF JobInv, RowInv, DocumentHasJob, DocVisible
<1>6. KeepsTerminalJobs
    BY <1>old, <1>fresh DEF KeepsTerminalJobs, TerminalJob
<1>7. ReadsStayTrue'
  <2>1. \A k \in Jobs : pc[k] \in InTransaction => jobStatus'[k] = jobStatus[k]
      BY <1>old, <1>fresh DEF JobInv, ReadsStayTrue, ActiveJob
  <2> QED BY <2>1, OthersRead DEF JobInv
<1> QED BY <1>1, <1>2, <1>3, <1>4, <1>5, <1>6, <1>7 DEF RowInv

LEMMA ReprocessingStep ==
    ASSUME JobInv, Reprocessing
    PROVE  RowInv' /\ ReadsStayTrue' /\ KeepsTerminalJobs
<1>type. req \in [Requests -> RequestState]
    BY DEF JobInv, TypeOK, ApiTypeOK
<1>exec. UNCHANGED execVars
    BY DEF Reprocessing
<1>pcs. RequestPcs
    BY DEF JobInv, RowInv
<1>1. ASSUME NEW r \in Requests, NEW d \in Docs, NEW s \in Stages,
             ReprocessLoads(r, d, s)
      PROVE  RowInv' /\ ReadsStayTrue' /\ KeepsTerminalJobs
  <2>1. /\ \A q \in Requests : q # r => req'[q] = req[q]
        /\ req'[r] = [NoRequest EXCEPT !.op = "reprocess", !.pc = "reset", !.doc = d,
                                       !.from = s, !.status = docStatus[d],
                                       !.at = docIndexedAt[d]]
        /\ UNCHANGED <<docStatus, jobRows>>
      BY <1>1, <1>type DEF ReprocessLoads, rowVars, jobRows
  <2>2. req'[r].op = "reprocess" /\ req'[r].pc = "reset" /\ req'[r].job = 0
      BY <2>1 DEF NoRequest
  <2>3. ~Flushed(r)' /\ RequestPcs'
      BY <2>1, <2>2, <1>pcs DEF Flushed, RequestPcs
  <2>4. req'[r].job \notin Jobs
      BY <2>2, MaxJobsAssumption DEF Jobs
  <2> QED BY <2>1, <2>3, <2>4, <1>exec, RequestWritesNothing
<1>2. ASSUME NEW r \in Requests, ReprocessCreatesExtractJob(r)
      PROVE  RowInv' /\ ReadsStayTrue' /\ KeepsTerminalJobs
  <2>1. /\ \A q \in Requests : q # r => req'[q] = req[q]
        /\ req'[r].op = req[r].op /\ req'[r].doc = req[r].doc
        /\ req'[r].pc = "enqueue" /\ req'[r].job = nextJob
      BY <1>2, <1>type DEF ReprocessCreatesExtractJob, RequestState
  <2>2. req[r].op = "reprocess"
      BY <1>2, <1>pcs DEF ReprocessCreatesExtractJob, RequestPcs
  <2>3. Flushed(r)' /\ RequestPcs'
      BY <2>1, <2>2, <1>pcs DEF Flushed, RequestPcs
  <2>4. /\ InsertJob(req[r].doc, 1) /\ 1 \in Stages
        /\ jobStatus' = [jobStatus EXCEPT ![nextJob] = "UNCOMMITTED"]
        /\ \A e \in Docs : DocVisible(e)' => DocVisible(e)
      BY <1>2, LastStageAssumption DEF ReprocessCreatesExtractJob, Stages, DocVisible
  <2> QED BY <2>1, <2>3, <2>4, <1>exec, RequestFlushesJob
<1>3. ASSUME NEW r \in Requests, ReprocessLosesDocument(r)
      PROVE  RowInv' /\ ReadsStayTrue' /\ KeepsTerminalJobs
  <2>1. /\ \A q \in Requests : q # r => req'[q] = req[q]
        /\ req'[r] = NoRequest
        /\ UNCHANGED <<docStatus, jobRows>>
      BY <1>3, <1>type DEF ReprocessLosesDocument, EndRequest, rowVars, jobRows
  <2>2. ~Flushed(r)' /\ RequestPcs' /\ req'[r].job \notin Jobs
      BY <2>1, <1>pcs DEF Flushed, RequestPcs, Jobs, NoRequest
  <2> QED BY <2>1, <2>2, <1>exec, RequestWritesNothing
<1> QED
    BY <1>1, <1>2, <1>3, <1>exec, ReprocessResetsStep, ReprocessCreatesFromJobStep
       DEF Reprocessing, ReprocessNext, ReprocessStep

(***************************************************************************)
(* The invariant and what follows from it                                  *)
(***************************************************************************)

LEMMA JobInvInit == Init => JobInv
<1> SUFFICES ASSUME Init PROVE JobInv
    OBVIOUS
<1> USE DEF Init, RowsInit, RunnerInit, ApiInit
<1>1. TypeOK
    BY InitType
<1>2. RequestPcs /\ RequestsOwnJobs
    BY DEF RequestPcs, RequestsOwnJobs, Flushed, NoRequest, Jobs
<1>3. NextJobIsFresh
    BY DEF NextJobIsFresh
<1>4. DoneHasSuccessor /\ DocumentHasJob
    BY DEF DoneHasSuccessor, DocumentHasJob, JobsOf, JobVisible, JobStatus,
           DocVisible, DocumentStatus
<1>5. ReadsStayTrue
    BY DEF ReadsStayTrue, InTransaction
<1> QED BY <1>1, <1>2, <1>3, <1>4, <1>5 DEF JobInv, RowInv

LEMMA JobInvStep ==
    JobInv /\ [DeployedSystem]_vars => JobInv' /\ [KeepsTerminalJobs]_vars
<1> SUFFICES ASSUME JobInv, [DeployedSystem]_vars
             PROVE  JobInv' /\ [KeepsTerminalJobs]_vars
    OBVIOUS
<1>1. TypeOK'
    BY StepType DEF JobInv, DeployedSystem, Anything
<1>2. CASE UNCHANGED vars
  <2>1. UNCHANGED <<docStatus, jobRows, apiVars, execVars, jobStatus>>
      BY <1>2 DEF vars, rowVars, jobRows
  <2> QED BY <1>1, <1>2, <2>1, RowsKept, OthersRead DEF JobInv
<1>3. CASE DeployedSystem
    BY <1>1, <1>3, WorkerStep, UploadStep, ReprocessingStep
       DEF DeployedSystem, UploadSystem, JobInv
<1> QED BY <1>2, <1>3

LEMMA JobInvCorrect == DeployedSpec => []JobInv
BY JobInvInit, JobInvStep, PTL DEF DeployedSpec

\* No session changes a job under a transaction that read it: without row
\* locks, start_stage, fail_stage and complete_stage write what they decided
\* from a status that is still the row's, or fail on a deleted row.
THEOREM ReadsStayTrueCorrect == DeployedSpec => []ReadsStayTrue
BY JobInvCorrect, PTL DEF JobInv

\* complete_stage never leaves a DONE job without the job of the next stage.
THEOREM DoneHasSuccessorCorrect == DeployedSpec => []DoneHasSuccessor
BY JobInvCorrect, PTL DEF JobInv, RowInv

\* A committed document has a committed job, whatever handlers abort.
THEOREM DocumentHasJobCorrect == DeployedSpec => []DocumentHasJob
BY JobInvCorrect, PTL DEF JobInv, RowInv

\* A DONE or FAILED job keeps its status until its document is deleted.
THEOREM TerminalJobsStayCorrect == DeployedSpec => TerminalJobsStay
BY JobInvCorrect, JobInvStep, PTL DEF DeployedSpec, TerminalJobsStay

-----------------------------------------------------------------------------
(***************************************************************************)
(* What uploads, deletes, workers and the sweeper keep true of the jobs of *)
(* a document (SweptSpec): they form a chain, one per stage from the first *)
(* on, of which at most the last is unfinished, and while the document is  *)
(* not settled the last one is.                                            *)
(*                                                                         *)
(* The sweeper writes jobs that a worker has read, so what a transaction   *)
(* read may be false when it commits.  What saves the two properties is    *)
(* the chain: a job that has a successor is no longer executed (Chain), and*)
(* a document becomes unsettled only by the commit of its first start,     *)
(* which then revives the job as well (FirstStart).                        *)
(***************************************************************************)

\* A handler that holds a document and a job it has flushed.
Uploading(r) == req[r].pc \in {"enqueue", "commit"} /\ req[r].op = "create"

\* It holds the two rows nobody else can see; every other handler knows
\* committed rows only.
UploadRequests ==
    \A r \in Requests :
        /\ req[r].pc \in {"idle", "lookup", "enqueue", "commit"}
        /\ req[r].pc = "lookup" => req[r].op = "existing"
        /\ req[r].pc \in {"enqueue", "commit"} => req[r].op \in {"create", "existing"}
        /\ Uploading(r) =>
              /\ req[r].doc \in Docs /\ docStatus[req[r].doc] = "UNCOMMITTED"
              /\ req[r].job \in Jobs /\ jobStatus[req[r].job] = "UNCOMMITTED"
              /\ jobDoc[req[r].job] = req[r].doc
              /\ \A q \in Requests : Uploading(q) /\ req[q].doc = req[r].doc => q = r
        /\ ~Uploading(r) =>
              /\ req[r].doc \in Docs => docStatus[req[r].doc] \notin {"UNBORN", "UNCOMMITTED"}
              /\ req[r].job \in Jobs => jobStatus[req[r].job] \notin {"UNBORN", "UNCOMMITTED"}

\* A document and its jobs are committed together and deleted together.
RowsAgree ==
    \A j \in Jobs :
        /\ j >= nextJob => jobDoc[j] = NoDoc
        /\ jobDoc[j] = NoDoc => jobStatus[j] = "UNBORN"
        /\ jobDoc[j] \in Docs =>
              \/ /\ docStatus[jobDoc[j]] = "UNCOMMITTED" /\ jobStatus[j] = "UNCOMMITTED"
                 /\ jobStage[j] = 1
              \/ docStatus[jobDoc[j]] = "DELETED" /\ jobStatus[j] = "DELETED"
              \/ DocVisible(jobDoc[j]) /\ JobVisible(j)

Siblings(j, k) == jobDoc[j] \in Docs /\ jobDoc[k] = jobDoc[j]

\* A job that is not executed and will not be: start_stage rejects it.
Rest == {"idle", "start_job", "enqueue", "return"}
Finished(j) == jobStatus[j] \notin ActiveJob /\ pc[j] \in Rest

\* The jobs of a document have different stages, and only the one of the
\* greatest stage may be unfinished.
Chain ==
    \A j, k \in Jobs : Siblings(j, k) =>
        /\ jobStage[j] = jobStage[k] => j = k
        /\ jobStage[j] < jobStage[k] => Finished(j)

NoStageSkipped ==
    \A j \in Jobs : jobDoc[j] \in Docs =>
        \A s \in 1..(jobStage[j] - 1) : \E k \in Jobs : Siblings(j, k) /\ jobStage[k] = s

\* A job that is not committed is not found by a worker.
NotStarted ==
    \A j \in Jobs : jobStatus[j] \in {"UNBORN", "UNCOMMITTED"} =>
        pc[j] \in {"idle", "start_job", "return"}

\* While a document is PENDING nothing has been written since its upload, and
\* what its only job's worker and the sweeper have read says so.
Pending ==
    \A j \in Jobs : jobDoc[j] \in Docs /\ docStatus[jobDoc[j]] = "PENDING" =>
        /\ jobStatus[j] = "QUEUED" /\ jobStage[j] = 1
        /\ pc[j] \in {"idle", "start_job", "start_doc", "start_commit", "return"}
        /\ pc[j] \in {"start_doc", "start_commit"} => seenJob[j] = "QUEUED"
        /\ pc[j] = "start_commit" => seenDoc[j] = "PENDING"
        /\ sweepPc = "commit" /\ sweepEntry.job = j => sweepSaw = "PENDING"

\* A worker about to commit a document's first start has read QUEUED and
\* PENDING; since then the sweeper may have failed the two, and if it has it is
\* done with the job.
FirstStart ==
    \A j \in Jobs : pc[j] = "start_commit" /\ seenDoc[j] = "PENDING" =>
        /\ seenJob[j] = "QUEUED" /\ jobStage[j] = 1
        /\ \/ docStatus[jobDoc[j]] \in {"PENDING", "DELETED"}
           \/ docStatus[jobDoc[j]] = "FAILED" /\ jobStatus[j] = "FAILED" /\ sweepEntry.job # j

\* What a worker decides on.  A document that fail_stage found settled stays so.
WorkerReads ==
    \A j \in Jobs :
        /\ pc[j] \in InTransaction => seenJob[j] \in ActiveJob
        /\ pc[j] = "start_commit" => seenDoc[j] \in ActiveDoc
        /\ pc[j] = "complete_commit" => seenDoc[j] = "PROCESSING"
        /\ pc[j] = "fail_commit" /\ seenDoc[j] \notin ActiveDoc =>
              docStatus[jobDoc[j]] \notin ActiveDoc

SweeperReads ==
    /\ sweepPc = "loop" => sweepEntry = NoEntry
    /\ sweepPc # "loop" =>
          /\ sweepEntry \in SweepEntries
          /\ jobStatus[sweepEntry.job] \notin {"UNBORN", "UNCOMMITTED"}
    /\ sweepPc = "commit" /\ sweepSaw \notin ActiveDoc =>
          docStatus[jobDoc[sweepEntry.job]] \notin ActiveDoc

\* UnsettledHasActiveJob, said of the tables.
Driven ==
    \A d \in Docs : docStatus[d] \in ActiveDoc =>
        \E j \in Jobs : jobDoc[j] = d /\ jobStatus[j] \in ActiveJob

RowRules == UploadRequests /\ RowsAgree
ChainRules == Chain /\ NoStageSkipped
ReadRules == NotStarted /\ Pending /\ FirstStart /\ WorkerReads /\ SweeperReads

ChainInv == RowRules /\ ChainRules /\ ReadRules /\ Driven

SweptInv == TypeOK /\ ChainInv

rows == <<docStatus, jobDoc, jobStage, jobStatus, nextJob>>

(***************************************************************************)
(* Steps that write none of these rows                                     *)
(***************************************************************************)

\* A job somebody executes has a document, and a visible or deleted row.
LEMMA Started ==
    ASSUME SweptInv, NEW j \in Jobs, pc[j] \notin {"idle", "start_job", "return"}
    PROVE  jobDoc[j] \in Docs /\ jobStatus[j] \in JobStatus \cup {"DELETED"}
<1>1. jobStatus[j] \notin {"UNBORN", "UNCOMMITTED"}
    BY DEF SweptInv, ChainInv, ReadRules, NotStarted
<1> QED BY <1>1 DEF SweptInv, TypeOK, RowsTypeOK, ChainInv, RowRules, RowsAgree, NoRow

LEMMA RowRulesKept ==
    ASSUME RowRules, UNCHANGED <<rows, req>>
    PROVE  RowRules'
<1>1. UploadRequests'
    BY DEF RowRules, UploadRequests, Uploading, rows
<1>2. RowsAgree'
    BY DEF RowRules, RowsAgree, DocVisible, JobVisible, rows
<1> QED BY <1>1, <1>2 DEF RowRules

LEMMA DrivenKept ==
    ASSUME Driven, UNCHANGED rows
    PROVE  Driven'
BY DEF Driven, rows

LEMMA ChainKept ==
    ASSUME ChainRules, UNCHANGED rows, \A j \in Jobs : Finished(j) => Finished(j)'
    PROVE  ChainRules'
<1>1. Chain'
    BY DEF ChainRules, Chain, Siblings, rows
<1>2. NoStageSkipped'
    BY DEF ChainRules, NoStageSkipped, Siblings, rows
<1> QED BY <1>1, <1>2 DEF ChainRules

\* An execution goes back to rest, or from one stage of its work to the next.
LEMMA GotoKeeps ==
    ASSUME SweptInv, UNCHANGED <<rows, req, sweepVars>>,
           NEW j \in Jobs, NEW label \in Labels \ InTransaction, Goto(j, label),
           \/ label \in {"idle", "start_job", "return"}
           \/ pc[j] \notin Rest /\ docStatus[jobDoc[j]] # "PENDING"
    PROVE  ChainInv'
<1>type. /\ pc \in [Jobs -> Labels]
         /\ seenJob \in [Jobs -> ActiveJob \cup {"none"}]
         /\ seenDoc \in [Jobs -> DocumentStatus \cup {"none"}]
    BY DEF SweptInv, TypeOK, RunnerTypeOK
<1>step. /\ \A k \in Jobs : k # j => /\ pc'[k] = pc[k]
                                     /\ seenJob'[k] = seenJob[k]
                                     /\ seenDoc'[k] = seenDoc[k]
         /\ pc'[j] = label /\ label \notin InTransaction
         /\ UNCHANGED <<docStatus, jobDoc, jobStage, jobStatus, nextJob>>
         /\ UNCHANGED <<sweepPc, sweepEntry, sweepSaw>>
    BY <1>type DEF Goto, rows, sweepVars
<1>1. RowRules' /\ Driven'
    BY RowRulesKept, DrivenKept DEF SweptInv, ChainInv
<1>2. ChainRules'
  <2>1. \A k \in Jobs : Finished(k) => Finished(k)'
      BY <1>step DEF Finished, Rest
  <2> QED BY <2>1, ChainKept DEF SweptInv, ChainInv
<1>3. NotStarted'
    BY <1>step DEF SweptInv, ChainInv, ReadRules, NotStarted, Rest
<1>4. Pending'
    BY <1>step DEF SweptInv, ChainInv, ReadRules, Pending
<1>5. FirstStart' /\ WorkerReads'
    BY <1>step DEF SweptInv, ChainInv, ReadRules, FirstStart, WorkerReads, InTransaction
<1>6. SweeperReads'
    BY <1>step DEF SweptInv, ChainInv, ReadRules, SweeperReads
<1> QED BY <1>1, <1>2, <1>3, <1>4, <1>5, <1>6 DEF ChainInv, ReadRules

\* A transaction reads its job, which is unfinished.
LEMMA ReadJobKeeps ==
    ASSUME SweptInv, UNCHANGED <<rows, req, sweepVars>>,
           NEW j \in Jobs, NEW label \in {"start_doc", "fail_doc", "complete_doc"},
           label = "start_doc" \/ pc[j] \notin {"idle", "start_job", "start_doc", "start_commit", "return"},
           jobStatus[j] \in ActiveJob, ReadJob(j, label)
    PROVE  ChainInv'
<1>type. /\ pc \in [Jobs -> Labels]
         /\ seenJob \in [Jobs -> ActiveJob \cup {"none"}]
         /\ seenDoc \in [Jobs -> DocumentStatus \cup {"none"}]
    BY DEF SweptInv, TypeOK, RunnerTypeOK
<1>step. /\ \A k \in Jobs : k # j => pc'[k] = pc[k] /\ seenJob'[k] = seenJob[k]
         /\ pc'[j] = label /\ seenJob'[j] = jobStatus[j] /\ seenDoc' = seenDoc
         /\ UNCHANGED <<docStatus, jobDoc, jobStage, jobStatus, nextJob>>
         /\ UNCHANGED <<sweepPc, sweepEntry, sweepSaw>>
    BY <1>type DEF ReadJob, rows, sweepVars
<1>1. RowRules' /\ Driven'
    BY RowRulesKept, DrivenKept DEF SweptInv, ChainInv
<1>2. ChainRules'
  <2>1. \A k \in Jobs : Finished(k) => Finished(k)'
      BY <1>step DEF Finished
  <2> QED BY <2>1, ChainKept DEF SweptInv, ChainInv
<1>3. NotStarted'
    BY <1>step DEF SweptInv, ChainInv, ReadRules, NotStarted, ActiveJob
<1>4. Pending'
    BY <1>step DEF SweptInv, ChainInv, ReadRules, Pending
<1>5. FirstStart' /\ WorkerReads'
    BY <1>step DEF SweptInv, ChainInv, ReadRules, FirstStart, WorkerReads, InTransaction
<1>6. SweeperReads'
    BY <1>step DEF SweptInv, ChainInv, ReadRules, SweeperReads
<1> QED BY <1>1, <1>2, <1>3, <1>4, <1>5, <1>6 DEF ChainInv, ReadRules

\* Then its document.
LEMMA ReadDocKeeps ==
    ASSUME SweptInv, UNCHANGED <<rows, req, sweepVars>>, NEW j \in Jobs,
           NEW label \in {"start_commit", "fail_commit", "complete_commit"},
           ReadDoc(j, label), pc[j] \in {"start_doc", "fail_doc", "complete_doc"},
           label = "start_commit" => pc[j] = "start_doc" /\ docStatus[jobDoc[j]] \in ActiveDoc,
           label = "complete_commit" => docStatus[jobDoc[j]] = "PROCESSING",
           label = "fail_commit" /\ pc[j] = "start_doc" => docStatus[jobDoc[j]] \notin ActiveDoc
    PROVE  ChainInv'
<1>type. /\ pc \in [Jobs -> Labels]
         /\ seenJob \in [Jobs -> ActiveJob \cup {"none"}]
         /\ seenDoc \in [Jobs -> DocumentStatus \cup {"none"}]
    BY DEF SweptInv, TypeOK, RunnerTypeOK
<1>step. /\ \A k \in Jobs : k # j => pc'[k] = pc[k] /\ seenDoc'[k] = seenDoc[k]
         /\ pc'[j] = label /\ seenDoc'[j] = docStatus[jobDoc[j]] /\ seenJob' = seenJob
         /\ UNCHANGED <<docStatus, jobDoc, jobStage, jobStatus, nextJob>>
         /\ UNCHANGED <<sweepPc, sweepEntry, sweepSaw>>
    BY <1>type DEF ReadDoc, rows, sweepVars
<1>doc. jobDoc[j] \in Docs
    BY Started
<1>1. RowRules' /\ Driven'
    BY RowRulesKept, DrivenKept DEF SweptInv, ChainInv
<1>2. ChainRules'
  <2>1. \A k \in Jobs : Finished(k) => Finished(k)'
      BY <1>step DEF Finished, Rest
  <2> QED BY <2>1, ChainKept DEF SweptInv, ChainInv
<1>3. NotStarted'
    BY <1>step DEF SweptInv, ChainInv, ReadRules, NotStarted
<1>4. Pending'
    BY <1>step, <1>doc DEF SweptInv, ChainInv, ReadRules, Pending, ActiveDoc
<1>5. FirstStart'
    BY <1>step, <1>doc DEF SweptInv, ChainInv, ReadRules, FirstStart, Pending
<1>6. WorkerReads'
    BY <1>step, <1>doc DEF SweptInv, ChainInv, ReadRules, WorkerReads, InTransaction
<1>7. SweeperReads'
    BY <1>step DEF SweptInv, ChainInv, ReadRules, SweeperReads
<1> QED BY <1>1, <1>2, <1>3, <1>4, <1>5, <1>6, <1>7 DEF ChainInv, ReadRules

(***************************************************************************)
(* Steps that write a job and its document                                 *)
(***************************************************************************)

\* A job being executed is the last of its document.
LEMMA ExecutedIsLast ==
    ASSUME SweptInv, NEW j \in Jobs, pc[j] \notin Rest
    PROVE  /\ jobDoc[j] \in Docs
           /\ \A k \in Jobs : Siblings(j, k) /\ k # j =>
                 jobStage[k] < jobStage[j] /\ Finished(k)
<1>1. jobDoc[j] \in Docs
    BY Started DEF Rest
<1>2. ASSUME NEW k \in Jobs, Siblings(j, k), k # j
      PROVE  jobStage[k] < jobStage[j] /\ Finished(k)
  <2>1. jobStage[j] \in Nat /\ jobStage[k] \in Nat
      BY DEF SweptInv, TypeOK, RowsTypeOK, Stages
  <2>2. Siblings(k, j)
      BY <1>2 DEF Siblings
  <2>3. jobStage[k] # jobStage[j] /\ ~(jobStage[j] < jobStage[k])
      BY <1>2 DEF SweptInv, ChainInv, ChainRules, Chain, Finished
  <2>4. jobStage[k] < jobStage[j]
      BY <2>1, <2>3
  <2> QED BY <2>2, <2>4 DEF SweptInv, ChainInv, ChainRules, Chain
<1> QED BY <1>1, <1>2

\* fail_stage and the last complete_stage: the job is finished, and so is its
\* document, which may already be.
LEMMA WorkerSettles ==
    ASSUME SweptInv, NEW j \in Jobs, pc[j] \notin Rest, JobVisible(j),
           NEW s \in TerminalJob, jobStatus' = [jobStatus EXCEPT ![j] = s],
           NEW t \in {"INDEXED", "FAILED"},
           \/ docStatus' = [docStatus EXCEPT ![jobDoc[j]] = t]
           \/ docStatus' = docStatus /\ docStatus[jobDoc[j]] \notin ActiveDoc,
           UNCHANGED <<jobDoc, jobStage, nextJob, req, sweepVars>>, Goto(j, "return")
    PROVE  ChainInv'
<1>type. /\ pc \in [Jobs -> Labels]
         /\ jobStatus \in [Jobs -> JobStatus \cup NoRow]
         /\ docStatus \in [Docs -> DocumentStatus \cup NoRow]
    BY DEF SweptInv, TypeOK, RunnerTypeOK, RowsTypeOK
<1>exec. /\ \A k \in Jobs : k # j => /\ pc'[k] = pc[k]
                                     /\ seenJob'[k] = seenJob[k]
                                     /\ seenDoc'[k] = seenDoc[k]
         /\ pc'[j] = "return"
         /\ UNCHANGED <<sweepPc, sweepEntry, sweepSaw>>
    BY <1>type DEF Goto, SweptInv, TypeOK, RunnerTypeOK, sweepVars
<1>last. /\ jobDoc[j] \in Docs
         /\ \A k \in Jobs : Siblings(j, k) /\ k # j =>
               jobStage[k] < jobStage[j] /\ Finished(k)
    BY ExecutedIsLast
<1>visible. DocVisible(jobDoc[j])
    BY <1>last DEF SweptInv, ChainInv, RowRules, RowsAgree, JobVisible, JobStatus
<1>rows. /\ \A k \in Jobs : k # j => jobStatus'[k] = jobStatus[k]
         /\ jobStatus'[j] = s
         /\ \A d \in Docs : d # jobDoc[j] => docStatus'[d] = docStatus[d]
         /\ docStatus'[jobDoc[j]] \in {"INDEXED", "FAILED"}
    BY <1>type, <1>last, <1>visible DEF DocVisible, DocumentStatus, ActiveDoc
<1>1. UploadRequests'
    BY <1>rows, <1>visible DEF SweptInv, ChainInv, RowRules, UploadRequests, Uploading,
       JobVisible, JobStatus, DocVisible, DocumentStatus, TerminalJob
<1>2. RowsAgree'
    BY <1>rows, <1>visible DEF SweptInv, ChainInv, RowRules, RowsAgree,
       JobVisible, JobStatus, DocVisible, DocumentStatus, TerminalJob
<1>3. Chain'
  <2>1. \A k \in Jobs : Finished(k) \/ k = j => Finished(k)'
      BY <1>rows, <1>exec DEF Finished, Rest, TerminalJob, ActiveJob
  <2> QED BY <2>1 DEF SweptInv, ChainInv, ChainRules, Chain, Siblings
<1>4. NoStageSkipped'
    BY DEF SweptInv, ChainInv, ChainRules, NoStageSkipped, Siblings
<1>5. NotStarted'
    BY <1>rows, <1>exec DEF SweptInv, ChainInv, ReadRules, NotStarted, TerminalJob
<1>6. Pending'
    BY <1>rows, <1>exec DEF SweptInv, ChainInv, ReadRules, Pending
<1>7. FirstStart'
  <2> SUFFICES ASSUME NEW k \in Jobs, k # j, pc[k] = "start_commit", seenDoc[k] = "PENDING"
               PROVE  /\ jobStatus'[k] = jobStatus[k]
                      /\ docStatus'[jobDoc[k]] = docStatus[jobDoc[k]]
      BY <1>exec DEF SweptInv, ChainInv, ReadRules, FirstStart
  <2>1. jobDoc[k] \in Docs
      BY Started
  <2>2. jobDoc[k] # jobDoc[j]
      BY <1>last DEF Siblings, Finished, Rest
  <2> QED BY <2>1, <2>2, <1>rows
<1>8. WorkerReads'
  <2>1. ASSUME NEW k \in Jobs, pc[k] = "fail_commit"
        PROVE  jobDoc[k] \in Docs
      BY <2>1, Started
  <2> QED BY <2>1, <1>rows, <1>exec
          DEF SweptInv, ChainInv, ReadRules, WorkerReads, InTransaction, ActiveDoc
<1>9. SweeperReads'
  <2>1. sweepPc # "loop" => sweepEntry.job \in Jobs /\ jobDoc[sweepEntry.job] \in Docs
      BY DEF SweptInv, ChainInv, ReadRules, RowRules, SweeperReads, SweepEntries, RowsAgree,
             TypeOK, RowsTypeOK
  <2> QED BY <2>1, <1>rows, <1>exec
          DEF SweptInv, ChainInv, ReadRules, SweeperReads, ActiveDoc, TerminalJob
<1>10. Driven'
  <2>1. ASSUME NEW d \in Docs, docStatus'[d] \in ActiveDoc
        PROVE  \E k \in Jobs : jobDoc'[k] = d /\ jobStatus'[k] \in ActiveJob
    <3>1. d # jobDoc[j] /\ docStatus[d] \in ActiveDoc
        BY <2>1, <1>rows DEF ActiveDoc
    <3> QED BY <3>1, <1>rows DEF SweptInv, ChainInv, Driven
  <2> QED BY <2>1 DEF Driven
<1> QED BY <1>1, <1>2, <1>3, <1>4, <1>5, <1>6, <1>7, <1>8, <1>9, <1>10
        DEF ChainInv, RowRules, ChainRules, ReadRules

\* start_stage.  What it read may be false by now; it writes a document only
\* for the first start of its only job, and then both rows.
LEMMA WorkerStarts ==
    ASSUME SweptInv, NEW j \in Jobs, StartCommits(j), UNCHANGED <<req, sweepVars>>
    PROVE  ChainInv'
<1>type. /\ pc \in [Jobs -> Labels]
         /\ jobStatus \in [Jobs -> JobStatus \cup NoRow]
         /\ docStatus \in [Docs -> DocumentStatus \cup NoRow]
    BY DEF SweptInv, TypeOK, RunnerTypeOK, RowsTypeOK
<1>exec. /\ \A k \in Jobs : k # j => /\ pc'[k] = pc[k]
                                     /\ seenJob'[k] = seenJob[k]
                                     /\ seenDoc'[k] = seenDoc[k]
         /\ pc[j] = "start_commit" /\ pc'[j] = "load"
         /\ UNCHANGED <<jobDoc, jobStage, nextJob, req, sweepPc, sweepEntry, sweepSaw>>
    BY <1>type DEF StartCommits, StartRows, Goto, SweptInv, TypeOK, RunnerTypeOK, sweepVars
<1>last. /\ jobDoc[j] \in Docs
         /\ \A k \in Jobs : Siblings(j, k) /\ k # j =>
               jobStage[k] < jobStage[j] /\ Finished(k)
    BY <1>exec, ExecutedIsLast DEF Rest
<1>reads. seenJob[j] \in ActiveJob /\ seenDoc[j] \in ActiveDoc
    BY <1>exec DEF SweptInv, ChainInv, ReadRules, WorkerReads, InTransaction
<1>1. CASE seenJob[j] = "RUNNING" /\ seenDoc[j] = "PROCESSING"
  <2>1. UNCHANGED <<rows, req, sweepVars>> /\ Goto(j, "load")
      BY <1>1, <1>exec DEF StartCommits, StartRows, rows
  <2>2. docStatus[jobDoc[j]] # "PENDING"
      BY <1>1, <1>exec, <1>last DEF SweptInv, ChainInv, ReadRules, Pending
  <2> QED BY <2>1, <2>2, <1>exec, GotoKeeps DEF Rest, Labels, InTransaction
<1>2. CASE JobVisible(j) /\ ~(seenJob[j] = "RUNNING" /\ seenDoc[j] = "PROCESSING")
  <2>visible. DocVisible(jobDoc[j]) /\ JobVisible(j)
      BY <1>2, <1>last DEF SweptInv, ChainInv, RowRules, RowsAgree, JobVisible, JobStatus
  <2>first. seenDoc[j] = "PENDING" =>
              /\ seenJob[j] = "QUEUED"
              /\ docStatus[jobDoc[j]] = "PENDING" \/ sweepEntry.job # j
              /\ \A k \in Jobs : Siblings(j, k) => k = j
    <3>1. seenDoc[j] = "PENDING" => jobStage[j] = 1
        BY <1>exec DEF SweptInv, ChainInv, ReadRules, FirstStart
    <3>2. \A k \in Jobs : jobStage[k] \in Nat \ {0}
        BY DEF SweptInv, TypeOK, RowsTypeOK, Stages
    <3>3. seenDoc[j] = "PENDING" => \A k \in Jobs : Siblings(j, k) => k = j
        BY <3>1, <3>2, <1>last
    <3> QED BY <3>3, <1>exec, <2>visible DEF SweptInv, ChainInv, ReadRules, FirstStart,
            DocVisible, DocumentStatus
  <2>rows. /\ \A k \in Jobs : k # j => jobStatus'[k] = jobStatus[k]
           /\ jobStatus'[j] = "RUNNING"
           /\ \A d \in Docs : d # jobDoc[j] => docStatus'[d] = docStatus[d]
           /\ docStatus'[jobDoc[j]] = IF seenDoc[j] = "PENDING" THEN "PROCESSING"
                                      ELSE docStatus[jobDoc[j]]
      BY <1>2, <1>type, <1>last, <1>reads, <2>first
         DEF StartCommits, StartRows, ActiveJob, ActiveDoc
  <2>settled. docStatus'[jobDoc[j]] # "PENDING"
      BY <2>rows, <1>exec, <1>last DEF SweptInv, ChainInv, ReadRules, Pending
  <2>docs. \A d \in Docs : docStatus'[d] = docStatus[d] \/ DocVisible(d)'
      BY <2>rows DEF DocVisible, DocumentStatus
  <2>1. UploadRequests'
      BY <2>rows, <2>visible, <1>exec DEF SweptInv, ChainInv, RowRules, UploadRequests,
         Uploading, JobVisible, JobStatus, DocVisible, DocumentStatus
  <2>2. RowsAgree'
      BY <2>rows, <2>visible, <1>exec DEF SweptInv, ChainInv, RowRules, RowsAgree,
         JobVisible, JobStatus, DocVisible, DocumentStatus
  <2>3. Chain'
    <3>1. \A k \in Jobs : Finished(k) => Finished(k)'
        BY <2>rows, <1>exec DEF Finished, Rest
    <3> QED BY <3>1, <1>exec DEF SweptInv, ChainInv, ChainRules, Chain, Siblings
  <2>4. NoStageSkipped'
      BY <1>exec DEF SweptInv, ChainInv, ChainRules, NoStageSkipped, Siblings
  <2>5. NotStarted'
      BY <2>rows, <1>exec DEF SweptInv, ChainInv, ReadRules, NotStarted
  <2>6. Pending'
      BY <2>rows, <2>settled, <1>exec DEF SweptInv, ChainInv, ReadRules, Pending
  <2>7. FirstStart'
    <3> SUFFICES ASSUME NEW k \in Jobs, k # j, pc[k] = "start_commit", seenDoc[k] = "PENDING"
                 PROVE  /\ jobStatus'[k] = jobStatus[k]
                        /\ docStatus'[jobDoc[k]] = docStatus[jobDoc[k]]
        BY <1>exec DEF SweptInv, ChainInv, ReadRules, FirstStart
    <3>1. jobDoc[k] \in Docs
        BY Started
    <3>2. jobDoc[k] # jobDoc[j]
        BY <1>last DEF Siblings, Finished, Rest
    <3> QED BY <3>1, <3>2, <2>rows
  <2>8. WorkerReads'
    <3>1. ASSUME NEW k \in Jobs, k # j, pc[k] = "fail_commit"
          PROVE  /\ jobDoc[k] \in Docs
                 /\ docStatus'[jobDoc[k]] = docStatus[jobDoc[k]]
      <4>1. jobDoc[k] \in Docs
          BY <3>1, Started
      <4>2. jobDoc[k] # jobDoc[j]
          BY <3>1, <1>last DEF Siblings, Finished, Rest
      <4> QED BY <4>1, <4>2, <2>rows
    <3> QED BY <3>1, <1>exec DEF SweptInv, ChainInv, ReadRules, WorkerReads, InTransaction
  <2>9. SweeperReads'
    <3>1. ASSUME sweepPc = "commit", sweepSaw \notin ActiveDoc
          PROVE  docStatus'[jobDoc[sweepEntry.job]] \notin ActiveDoc
      <4>1. sweepEntry.job \in Jobs /\ jobDoc[sweepEntry.job] \in Docs
          BY <3>1 DEF SweptInv, ChainInv, ReadRules, RowRules, SweeperReads, SweepEntries,
                      RowsAgree, TypeOK, RowsTypeOK
      <4>2. docStatus[jobDoc[sweepEntry.job]] \notin ActiveDoc
          BY <3>1 DEF SweptInv, ChainInv, ReadRules, SweeperReads
      <4>3. CASE jobDoc[sweepEntry.job] # jobDoc[j] \/ seenDoc[j] # "PENDING"
          BY <4>1, <4>2, <4>3, <2>rows
      <4>4. CASE jobDoc[sweepEntry.job] = jobDoc[j] /\ seenDoc[j] = "PENDING"
        <5>1. sweepEntry.job = j
            BY <4>1, <4>4, <1>last, <2>first DEF Siblings
        <5>2. docStatus[jobDoc[j]] = "PENDING"
            BY <5>1, <4>4, <2>first
        <5> QED BY <5>1, <5>2, <4>2 DEF ActiveDoc
      <4> QED BY <4>3, <4>4
    <3>2. ASSUME sweepPc # "loop"
          PROVE  /\ sweepEntry \in SweepEntries
                 /\ jobStatus'[sweepEntry.job] \notin {"UNBORN", "UNCOMMITTED"}
      <4>1. /\ sweepEntry \in SweepEntries /\ sweepEntry.job \in Jobs
            /\ jobStatus[sweepEntry.job] \notin {"UNBORN", "UNCOMMITTED"}
          BY <3>2 DEF SweptInv, ChainInv, ReadRules, SweeperReads, SweepEntries
      <4> QED BY <4>1, <2>rows
    <3> QED BY <3>1, <3>2, <1>exec DEF SweptInv, ChainInv, ReadRules, SweeperReads
  <2>10. Driven'
    <3>1. ASSUME NEW d \in Docs, docStatus'[d] \in ActiveDoc
          PROVE  \E k \in Jobs : jobDoc'[k] = d /\ jobStatus'[k] \in ActiveJob
      <4>1. CASE d = jobDoc[j]
          BY <4>1, <2>rows, <1>exec DEF ActiveJob
      <4>2. CASE d # jobDoc[j]
          BY <3>1, <4>2, <2>rows, <1>exec DEF SweptInv, ChainInv, Driven
      <4> QED BY <4>1, <4>2
    <3> QED BY <3>1 DEF Driven
  <2> QED BY <2>1, <2>2, <2>3, <2>4, <2>5, <2>6, <2>7, <2>8, <2>9, <2>10
          DEF ChainInv, RowRules, ChainRules, ReadRules
<1> QED BY <1>1, <1>2 DEF StartCommits

\* The sweeper's fail_stage.
LEMMA SweeperFails ==
    ASSUME SweptInv, SweepFailCommits, UNCHANGED <<req, execVars>>
    PROVE  ChainInv'
<1> DEFINE j == sweepEntry.job
<1>type. /\ jobStatus \in [Jobs -> JobStatus \cup NoRow]
         /\ docStatus \in [Docs -> DocumentStatus \cup NoRow]
         /\ j \in Jobs
    BY DEF SweptInv, TypeOK, RowsTypeOK, SweepFailCommits, ChainInv, ReadRules,
           SweeperReads, SweepEntries
<1>exec. /\ UNCHANGED <<jobDoc, jobStage, nextJob, req, pc, seenJob, seenDoc>>
         /\ sweepPc' = "loop" /\ sweepEntry' = NoEntry /\ sweepPc = "commit"
         /\ sweepEntry'.job \notin Jobs
    BY DEF SweepFailCommits, FailRows, BackToLoop, execVars, NoEntry, Jobs
<1>visible. jobDoc[j] \in Docs /\ DocVisible(jobDoc[j]) /\ JobVisible(j)
    BY <1>type DEF SweepFailCommits, SweptInv, ChainInv, RowRules, RowsAgree, JobVisible,
       JobStatus, TypeOK, RowsTypeOK
<1>settled. sweepSaw \notin ActiveDoc => docStatus[jobDoc[j]] \notin ActiveDoc
    BY <1>exec DEF SweptInv, ChainInv, ReadRules, SweeperReads
<1>rows. /\ \A k \in Jobs : k # j => jobStatus'[k] = jobStatus[k]
         /\ jobStatus'[j] = "FAILED"
         /\ \A d \in Docs : d # jobDoc[j] => docStatus'[d] = docStatus[d]
         /\ docStatus'[jobDoc[j]] \in {"INDEXED", "FAILED"}
         /\ sweepSaw \in ActiveDoc => docStatus'[jobDoc[j]] = "FAILED"
    BY <1>type, <1>visible, <1>settled DEF SweepFailCommits, FailRows, DocVisible,
       DocumentStatus, ActiveDoc
<1> HIDE DEF j
<1>1. UploadRequests'
    BY <1>rows, <1>visible, <1>exec DEF SweptInv, ChainInv, RowRules, UploadRequests,
       Uploading, JobVisible, JobStatus, DocVisible, DocumentStatus
<1>2. RowsAgree'
    BY <1>rows, <1>visible, <1>exec DEF SweptInv, ChainInv, RowRules, RowsAgree,
       JobVisible, JobStatus, DocVisible, DocumentStatus
<1>3. Chain'
  <2>1. \A k \in Jobs : Finished(k) => Finished(k)'
      BY <1>rows, <1>exec DEF Finished, ActiveJob
  <2> QED BY <2>1, <1>exec DEF SweptInv, ChainInv, ChainRules, Chain, Siblings
<1>4. NoStageSkipped'
    BY <1>exec DEF SweptInv, ChainInv, ChainRules, NoStageSkipped, Siblings
<1>5. NotStarted'
    BY <1>rows, <1>exec DEF SweptInv, ChainInv, ReadRules, NotStarted
<1>6. Pending'
    BY <1>rows, <1>exec DEF SweptInv, ChainInv, ReadRules, Pending
<1>7. FirstStart'
  <2> SUFFICES ASSUME NEW k \in Jobs, pc[k] = "start_commit", seenDoc[k] = "PENDING"
               PROVE  \/ docStatus'[jobDoc[k]] \in {"PENDING", "DELETED"}
                      \/ docStatus'[jobDoc[k]] = "FAILED" /\ jobStatus'[k] = "FAILED"
      BY <1>exec DEF SweptInv, ChainInv, ReadRules, FirstStart
  <2>1. jobDoc[k] \in Docs
      BY Started
  <2>2. \/ docStatus[jobDoc[k]] \in {"PENDING", "DELETED"}
        \/ docStatus[jobDoc[k]] = "FAILED" /\ jobStatus[k] = "FAILED" /\ k # j
      BY DEF SweptInv, ChainInv, ReadRules, FirstStart, j
  <2>3. CASE jobDoc[k] # jobDoc[j]
      BY <2>1, <2>2, <2>3, <1>rows
  <2>4. CASE jobDoc[k] = jobDoc[j]
    <3>1. k = j
      <4>1. jobStage[k] = 1
          BY DEF SweptInv, ChainInv, ReadRules, FirstStart
      <4>2. jobStage[j] \in Nat \ {0}
          BY <1>type DEF SweptInv, TypeOK, RowsTypeOK, Stages
      <4>3. ~(jobStage[j] < jobStage[k])
          BY <4>1, <4>2
      <4> QED BY <4>3, <2>1, <2>4, <1>type, ExecutedIsLast DEF Siblings, Rest
    <3>2. docStatus[jobDoc[j]] = "PENDING"
        BY <3>1, <2>2, <1>visible DEF DocVisible, DocumentStatus
    <3> QED BY <3>1, <3>2, <1>rows, <1>settled DEF ActiveDoc
  <2> QED BY <2>3, <2>4
<1>8. WorkerReads'
  <2>1. ASSUME NEW k \in Jobs, pc[k] = "fail_commit"
        PROVE  jobDoc[k] \in Docs
      BY <2>1, Started
  <2> QED BY <2>1, <1>rows, <1>exec
          DEF SweptInv, ChainInv, ReadRules, WorkerReads, InTransaction, ActiveDoc
<1>9. SweeperReads'
    BY <1>exec DEF SweeperReads
<1>10. Driven'
  <2>1. ASSUME NEW d \in Docs, docStatus'[d] \in ActiveDoc
        PROVE  \E k \in Jobs : jobDoc'[k] = d /\ jobStatus'[k] \in ActiveJob
    <3>1. d # jobDoc[j] /\ docStatus[d] \in ActiveDoc
        BY <2>1, <1>rows DEF ActiveDoc
    <3> QED BY <3>1, <1>rows, <1>exec DEF SweptInv, ChainInv, Driven
  <2> QED BY <2>1 DEF Driven
<1> QED BY <1>1, <1>2, <1>3, <1>4, <1>5, <1>6, <1>7, <1>8, <1>9, <1>10
        DEF ChainInv, RowRules, ChainRules, ReadRules

(***************************************************************************)
(* Steps that insert a job                                                 *)
(***************************************************************************)

\* What is true of an id that was not drawn yet.
LEMMA FreshJob ==
    ASSUME SweptInv, nextJob \in Jobs
    PROVE  /\ jobDoc[nextJob] = NoDoc /\ jobStatus[nextJob] = "UNBORN"
           /\ pc[nextJob] \in {"idle", "start_job", "return"}
           /\ sweepEntry.job # nextJob
           /\ \A r \in Requests : req[r].job # nextJob
<1>1. jobDoc[nextJob] = NoDoc /\ jobStatus[nextJob] = "UNBORN"
    BY DEF SweptInv, ChainInv, RowRules, RowsAgree, Jobs
<1>2. pc[nextJob] \in {"idle", "start_job", "return"}
    BY <1>1 DEF SweptInv, ChainInv, ReadRules, NotStarted
<1>3. sweepEntry.job # nextJob
    BY <1>1 DEF SweptInv, ChainInv, ReadRules, SweeperReads, NoEntry, SweepEntries, Jobs
<1>4. \A r \in Requests : req[r].job # nextJob
    BY <1>1 DEF SweptInv, ChainInv, RowRules, UploadRequests
<1> QED BY <1>1, <1>2, <1>3, <1>4

\* complete_stage before the last stage: the chain grows by one job.
LEMMA WorkerAdvances ==
    ASSUME SweptInv, NEW j \in Jobs, CompleteStage(j), UNCHANGED <<req, sweepVars>>
    PROVE  ChainInv'
<1> DEFINE s == jobStage[j] + 1
<1>n. nextJob \in Jobs
    BY DEF CompleteStage, AdvanceRows, InsertJob
<1> PICK n \in Jobs : n = nextJob
    BY <1>n
<1>type. /\ pc \in [Jobs -> Labels]
         /\ jobStatus \in [Jobs -> JobStatus \cup NoRow]
         /\ jobDoc \in [Jobs -> Docs \cup {NoDoc}]
         /\ jobStage \in [Jobs -> Stages] /\ jobStage \in [Jobs -> Nat \ {0}]
         /\ Jobs \subseteq Nat
    BY DEF SweptInv, TypeOK, RunnerTypeOK, RowsTypeOK, Stages, Jobs
<1>exec. /\ \A k \in Jobs : k # j => /\ pc'[k] = pc[k]
                                     /\ seenJob'[k] = seenJob[k]
                                     /\ seenDoc'[k] = seenDoc[k]
         /\ pc[j] = "complete_commit" /\ pc'[j] = "enqueue"
         /\ UNCHANGED <<docStatus, req, sweepPc, sweepEntry, sweepSaw>>
         /\ nextJob' = n + 1
    BY <1>type DEF CompleteStage, AdvanceRows, InsertJob, SweptInv, TypeOK, RunnerTypeOK,
       sweepVars
<1>last. /\ jobDoc[j] \in Docs
         /\ \A k \in Jobs : Siblings(j, k) /\ k # j =>
               jobStage[k] < jobStage[j] /\ Finished(k)
    BY <1>exec, ExecutedIsLast DEF Rest
<1>visible. JobVisible(j) /\ DocVisible(jobDoc[j]) /\ docStatus[jobDoc[j]] # "PENDING"
  <2>1. JobVisible(j)
      BY DEF CompleteStage
  <2>2. docStatus[jobDoc[j]] # "PENDING"
      BY <1>exec, <1>last DEF SweptInv, ChainInv, ReadRules, Pending
  <2> QED BY <2>1, <2>2, <1>last DEF SweptInv, ChainInv, RowRules, RowsAgree, JobVisible,
          JobStatus
<1>fresh. /\ jobDoc[n] = NoDoc /\ jobStatus[n] = "UNBORN" /\ n # j
          /\ pc[n] \in {"idle", "start_job", "return"}
          /\ sweepEntry.job # n /\ \A r \in Requests : req[r].job # n
    BY <1>exec, <1>visible, FreshJob DEF JobVisible, JobStatus
<1>rows. /\ \A k \in Jobs : k # n => jobDoc'[k] = jobDoc[k] /\ jobStage'[k] = jobStage[k]
         /\ \A k \in Jobs : k # n /\ k # j => jobStatus'[k] = jobStatus[k]
         /\ jobStatus'[j] = "DONE" /\ jobStatus'[n] = "QUEUED"
         /\ jobDoc'[n] = jobDoc[j] /\ jobStage'[n] = s
    BY <1>type, <1>exec, <1>fresh DEF CompleteStage, AdvanceRows, InsertJob
<1> HIDE DEF s
<1>1. UploadRequests'
    BY <1>rows, <1>visible, <1>exec, <1>fresh DEF SweptInv, ChainInv, RowRules,
       UploadRequests, Uploading, JobVisible, JobStatus
<1>2. RowsAgree'
  <2>1. \A k \in Jobs : k >= nextJob' => k # n /\ k # j /\ k >= nextJob
    <3>1. \A k \in Jobs : k >= n + 1 => k # n /\ k >= n
        BY <1>type, <1>exec
    <3>2. ~(j >= n)
        BY <1>last, DocsAssumption DEF SweptInv, ChainInv, RowRules, RowsAgree
    <3> QED BY <3>1, <3>2, <1>exec
  <2> QED BY <2>1, <1>rows, <1>visible, <1>exec, <1>last, <1>fresh, DocsAssumption
          DEF SweptInv, ChainInv, RowRules, RowsAgree, JobVisible, JobStatus, DocVisible
<1>3. Chain'
  <2> SUFFICES ASSUME NEW x \in Jobs, NEW y \in Jobs, Siblings(x, y)'
               PROVE  /\ jobStage'[x] = jobStage'[y] => x = y
                      /\ jobStage'[x] < jobStage'[y] => Finished(x)'
      BY DEF Chain
  <2>1. \A k \in Jobs : (Finished(k) /\ k # n) \/ k = j => Finished(k)'
      BY <1>rows, <1>exec DEF Finished, Rest, ActiveJob
  <2>2. \A k \in Jobs : jobDoc'[k] = jobDoc[j] => k = n \/ k = j \/ Siblings(j, k)
      BY <1>rows, <1>last DEF Siblings
  <2>3. \A k \in Jobs : jobDoc'[k] = jobDoc[j] /\ k # n => jobStage'[k] < s /\ Finished(k)'
    <3> SUFFICES ASSUME NEW k \in Jobs, jobDoc'[k] = jobDoc[j], k # n
                 PROVE  jobStage'[k] < s /\ Finished(k)'
        OBVIOUS
    <3>1. jobStage[k] \in Nat /\ jobStage[j] \in Nat
        BY <1>type
    <3> QED BY <3>1, <2>1, <2>2, <1>rows, <1>last DEF s
  <2>4. CASE x = n \/ y = n
    <3>1. jobStage[x] \in Nat /\ jobStage[y] \in Nat /\ s \in Nat
      <4>1. jobStage[x] \in Nat /\ jobStage[y] \in Nat /\ jobStage[j] \in Nat
          BY <1>type
      <4> QED BY <4>1 DEF s
    <3>2. (x = n => y = n \/ jobStage'[y] < s) /\ (y = n => x = n \/ jobStage'[x] < s)
        BY <2>4, <2>3, <1>rows DEF Siblings
    <3> QED BY <3>1, <3>2, <2>3, <2>4, <1>rows DEF Siblings
  <2>5. CASE x # n /\ y # n
      BY <2>5, <2>1, <1>rows DEF SweptInv, ChainInv, ChainRules, Chain, Siblings
  <2> QED BY <2>4, <2>5
<1>4. NoStageSkipped'
  <2>old. \A k \in Jobs : jobDoc[k] \in Docs => k # n
      BY <1>fresh, DocsAssumption
  <2>1. ASSUME NEW k \in Jobs, k # n, jobDoc'[k] \in Docs, NEW t \in 1..(jobStage'[k] - 1)
        PROVE  \E i \in Jobs : Siblings(k, i)' /\ jobStage'[i] = t
    <3>1. PICK i \in Jobs : Siblings(k, i) /\ jobStage[i] = t
        BY <2>1, <1>rows DEF SweptInv, ChainInv, ChainRules, NoStageSkipped
    <3> QED BY <3>1, <2>1, <2>old, <1>rows DEF Siblings
  <2>2. ASSUME NEW t \in 1..(jobStage'[n] - 1)
        PROVE  \E i \in Jobs : Siblings(n, i)' /\ jobStage'[i] = t
    <3>1. t \in 1..(jobStage[j] - 1) \/ t = jobStage[j]
      <4>1. jobStage[j] \in Nat
          BY <1>type
      <4> QED BY <4>1, <1>rows DEF s
    <3>2. PICK i \in Jobs : i # n /\ jobDoc[i] = jobDoc[j] /\ jobStage[i] = t
        BY <3>1, <2>old, <1>last, <1>fresh DEF SweptInv, ChainInv, ChainRules, NoStageSkipped,
           Siblings
    <3> QED BY <3>2, <1>rows, <1>last DEF Siblings
  <2> QED BY <2>1, <2>2 DEF NoStageSkipped
<1>5. NotStarted'
    BY <1>rows, <1>exec, <1>fresh DEF SweptInv, ChainInv, ReadRules, NotStarted
<1>6. Pending'
    BY <1>rows, <1>exec, <1>visible, <1>fresh DEF SweptInv, ChainInv, ReadRules, Pending
<1>7. FirstStart'
    BY <1>rows, <1>exec, <1>fresh DEF SweptInv, ChainInv, ReadRules, FirstStart
<1>8. WorkerReads'
    BY <1>rows, <1>exec, <1>fresh DEF SweptInv, ChainInv, ReadRules, WorkerReads,
       InTransaction
<1>9. SweeperReads'
    BY <1>rows, <1>exec, <1>fresh DEF SweptInv, ChainInv, ReadRules, SweeperReads,
       SweepEntries
<1>10. Driven'
  <2>1. ASSUME NEW d \in Docs, docStatus'[d] \in ActiveDoc
        PROVE  \E k \in Jobs : jobDoc'[k] = d /\ jobStatus'[k] \in ActiveJob
    <3>1. CASE d = jobDoc[j]
        BY <3>1, <1>rows, <1>exec DEF ActiveJob
    <3>2. CASE d # jobDoc[j]
      <4>1. PICK k \in Jobs : jobDoc[k] = d /\ jobStatus[k] \in ActiveJob
          BY <2>1, <1>exec DEF SweptInv, ChainInv, Driven
      <4> QED BY <4>1, <3>2, <1>rows, <1>fresh DEF ActiveJob
    <3> QED BY <3>1, <3>2
  <2> QED BY <2>1 DEF Driven
<1> QED BY <1>1, <1>2, <1>3, <1>4, <1>5, <1>6, <1>7, <1>8, <1>9, <1>10
        DEF ChainInv, RowRules, ChainRules, ReadRules

\* get_or_create of a new document: its first job is flushed with it.
LEMMA HandlerUploads ==
    ASSUME SweptInv, NEW r \in Requests, NEW d \in Docs, UploadNew(r, d),
           UNCHANGED <<execVars, sweepVars>>
    PROVE  ChainInv'
<1>n. nextJob \in Jobs
    BY DEF UploadNew, InsertJob
<1> PICK n \in Jobs : n = nextJob
    BY <1>n
<1>type. /\ req \in [Requests -> RequestState]
         /\ docStatus \in [Docs -> DocumentStatus \cup NoRow]
         /\ jobStatus \in [Jobs -> JobStatus \cup NoRow]
         /\ jobDoc \in [Jobs -> Docs \cup {NoDoc}]
         /\ jobStage \in [Jobs -> Stages]
         /\ Jobs \subseteq Nat
    BY DEF SweptInv, TypeOK, RowsTypeOK, ApiTypeOK, Jobs
<1>fresh. /\ jobDoc[n] = NoDoc /\ jobStatus[n] = "UNBORN"
          /\ pc[n] \in {"idle", "start_job", "return"}
          /\ sweepEntry.job # n /\ \A q \in Requests : req[q].job # n
    BY <1>n, FreshJob
<1>childless. \A k \in Jobs : jobDoc[k] # d
    BY DEF UploadNew, SweptInv, ChainInv, RowRules, RowsAgree, DocVisible, DocumentStatus
<1>rows. /\ \A k \in Jobs : k # n => /\ jobDoc'[k] = jobDoc[k]
                                     /\ jobStage'[k] = jobStage[k]
                                     /\ jobStatus'[k] = jobStatus[k]
         /\ jobDoc'[n] = d /\ jobStage'[n] = 1 /\ jobStatus'[n] = "UNCOMMITTED"
         /\ nextJob' = n + 1
         /\ docStatus[d] = "UNBORN" /\ docStatus'[d] = "UNCOMMITTED"
         /\ \A e \in Docs : e # d => docStatus'[e] = docStatus[e]
         /\ UNCHANGED <<pc, seenJob, seenDoc, sweepPc, sweepEntry, sweepSaw>>
    BY <1>type DEF UploadNew, InsertJob, execVars, sweepVars
<1>req. /\ \A q \in Requests : q # r => req'[q] = req[q]
        /\ req'[r].op = "create" /\ req'[r].pc = "enqueue"
        /\ req'[r].doc = d /\ req'[r].job = n
        /\ req[r].pc = "idle"
    BY <1>type DEF UploadNew, NoRequest, Idle
<1>1. UploadRequests'
    BY <1>rows, <1>req, <1>fresh, DocsAssumption
       DEF SweptInv, ChainInv, RowRules, UploadRequests, Uploading
<1>2. RowsAgree'
  <2>1. \A k \in Jobs : k >= n + 1 => k # n /\ k >= n
      BY <1>type
  <2> QED BY <2>1, <1>rows, <1>childless, DocsAssumption
          DEF SweptInv, ChainInv, RowRules, RowsAgree, JobVisible, DocVisible
<1>3. Chain'
  <2>1. ASSUME NEW x \in Jobs, NEW y \in Jobs, Siblings(x, y)', x = n \/ y = n
        PROVE  x = y
      BY <2>1, <1>rows, <1>childless DEF Siblings
  <2>2. ASSUME NEW x \in Jobs, NEW y \in Jobs, Siblings(x, y)', x # n, y # n
        PROVE  /\ jobStage'[x] = jobStage'[y] => x = y
               /\ jobStage'[x] < jobStage'[y] => Finished(x)'
      BY <2>2, <1>rows DEF SweptInv, ChainInv, ChainRules, Chain, Siblings, Finished
  <2>3. ~(jobStage'[n] < jobStage'[n])
      BY <1>rows
  <2> QED BY <2>1, <2>2, <2>3 DEF Chain
<1>4. NoStageSkipped'
  <2>1. ASSUME NEW k \in Jobs, k # n, jobDoc'[k] \in Docs, NEW t \in 1..(jobStage'[k] - 1)
        PROVE  \E i \in Jobs : Siblings(k, i)' /\ jobStage'[i] = t
    <3>1. PICK i \in Jobs : Siblings(k, i) /\ jobStage[i] = t
        BY <2>1, <1>rows DEF SweptInv, ChainInv, ChainRules, NoStageSkipped
    <3> QED BY <3>1, <2>1, <1>rows, <1>fresh, DocsAssumption DEF Siblings
  <2>2. 1..(jobStage'[n] - 1) = {}
      BY <1>rows
  <2> QED BY <2>1, <2>2 DEF NoStageSkipped
<1>5. NotStarted'
    BY <1>rows, <1>fresh DEF SweptInv, ChainInv, ReadRules, NotStarted
<1>6. Pending'
    BY <1>rows DEF SweptInv, ChainInv, ReadRules, Pending
<1>7. FirstStart'
    BY <1>rows, <1>fresh, <1>childless, Started
       DEF SweptInv, ChainInv, ReadRules, FirstStart
<1>8. WorkerReads'
  <2>1. ASSUME NEW k \in Jobs, pc[k] = "fail_commit"
        PROVE  k # n /\ jobDoc[k] \in Docs
      BY <2>1, <1>fresh, Started
  <2> QED BY <2>1, <1>rows, <1>childless
          DEF SweptInv, ChainInv, ReadRules, WorkerReads, InTransaction
<1>9. SweeperReads'
  <2>1. sweepPc # "loop" => sweepEntry.job \in Jobs /\ jobDoc[sweepEntry.job] \in Docs
      BY DEF SweptInv, ChainInv, ReadRules, RowRules, SweeperReads, SweepEntries, RowsAgree,
             TypeOK, RowsTypeOK
  <2> QED BY <2>1, <1>rows, <1>fresh, <1>childless
          DEF SweptInv, ChainInv, ReadRules, SweeperReads
<1>10. Driven'
  <2>1. ASSUME NEW e \in Docs, docStatus'[e] \in ActiveDoc
        PROVE  \E k \in Jobs : jobDoc'[k] = e /\ jobStatus'[k] \in ActiveJob
    <3>1. e # d
        BY <2>1, <1>rows DEF ActiveDoc
    <3>2. PICK k \in Jobs : jobDoc[k] = e /\ jobStatus[k] \in ActiveJob
        BY <2>1, <3>1, <1>rows DEF SweptInv, ChainInv, Driven
    <3> QED BY <3>2, <1>rows, <1>fresh DEF ActiveJob
  <2> QED BY <2>1 DEF Driven
<1> QED BY <1>1, <1>2, <1>3, <1>4, <1>5, <1>6, <1>7, <1>8, <1>9, <1>10
        DEF ChainInv, RowRules, ChainRules, ReadRules

(***************************************************************************)
(* Steps that end an upload, and deletes                                   *)
(***************************************************************************)

\* The only job of a document that is not committed.
LEMMA UploadedJob ==
    ASSUME SweptInv, NEW r \in Requests, Uploading(r)
    PROVE  /\ req[r].doc \in Docs /\ docStatus[req[r].doc] = "UNCOMMITTED"
           /\ req[r].job \in Jobs /\ jobStatus[req[r].job] = "UNCOMMITTED"
           /\ jobStage[req[r].job] = 1
           /\ \A k \in Jobs : jobDoc[k] = req[r].doc <=> k = req[r].job
           /\ pc[req[r].job] \in {"idle", "start_job", "return"}
           /\ sweepEntry.job # req[r].job
<1>1. /\ req[r].doc \in Docs /\ docStatus[req[r].doc] = "UNCOMMITTED"
      /\ req[r].job \in Jobs /\ jobStatus[req[r].job] = "UNCOMMITTED"
      /\ jobDoc[req[r].job] = req[r].doc
    BY DEF SweptInv, ChainInv, RowRules, UploadRequests
<1>2. \A k \in Jobs : jobDoc[k] = req[r].doc => jobStage[k] = 1
    BY <1>1 DEF SweptInv, ChainInv, RowRules, RowsAgree, DocVisible, DocumentStatus
<1>3. \A k \in Jobs : jobDoc[k] = req[r].doc => k = req[r].job
    BY <1>1, <1>2 DEF SweptInv, ChainInv, ChainRules, Chain, Siblings
<1>4. pc[req[r].job] \in {"idle", "start_job", "return"}
    BY <1>1 DEF SweptInv, ChainInv, ReadRules, NotStarted
<1>5. sweepEntry.job # req[r].job
    BY <1>1 DEF SweptInv, ChainInv, ReadRules, SweeperReads, NoEntry, Jobs
<1> QED BY <1>1, <1>2, <1>3, <1>4, <1>5

\* Committing a document and its job together, or deleting (or rolling back)
\* a document and its jobs together.
LEMMA DocumentChanges ==
    ASSUME SweptInv, NEW d \in Docs, UploadRequests',
           UNCHANGED <<jobDoc, jobStage, nextJob, execVars, sweepVars>>,
           NEW s, NEW t,
           \/ s = "DELETED" /\ t = "DELETED"
           \/ /\ s = "QUEUED" /\ t = "PENDING"
              /\ \E r \in Requests : Uploading(r) /\ req[r].doc = d,
           docStatus' = [docStatus EXCEPT ![d] = t],
           \A k \in Jobs : jobStatus'[k] = IF jobDoc[k] = d THEN s ELSE jobStatus[k]
    PROVE  ChainInv'
<1>type. docStatus \in [Docs -> DocumentStatus \cup NoRow]
    BY DEF SweptInv, TypeOK, RowsTypeOK
<1>rows. /\ docStatus'[d] = t
         /\ \A e \in Docs : e # d => docStatus'[e] = docStatus[e]
         /\ UNCHANGED <<pc, seenJob, seenDoc, sweepPc, sweepEntry, sweepSaw>>
    BY <1>type DEF execVars, sweepVars
<1>commit. t # "DELETED" =>
             /\ s = "QUEUED" /\ t = "PENDING"
             /\ \E j \in Jobs : jobDoc[j] = d
             /\ \A k \in Jobs : jobDoc[k] = d =>
                  /\ jobStage[k] = 1 /\ sweepEntry.job # k
                  /\ pc[k] \in {"idle", "start_job", "return"}
                  /\ \A i \in Jobs : jobDoc[i] = d => i = k
    BY UploadedJob
<1>2. RowsAgree'
    BY <1>rows, <1>commit DEF SweptInv, ChainInv, RowRules, RowsAgree, JobVisible,
       JobStatus, DocVisible, DocumentStatus
<1>3. Chain'
  <2> SUFFICES ASSUME NEW x \in Jobs, NEW y \in Jobs, Siblings(x, y), jobStage[x] < jobStage[y]
               PROVE  Finished(x)'
      BY DEF SweptInv, ChainInv, ChainRules, Chain, Siblings
  <2>1. Finished(x)
      BY DEF SweptInv, ChainInv, ChainRules, Chain
  <2>2. jobDoc[x] = d => t = "DELETED"
    <3>1. jobStage[y] \in Nat
        BY DEF SweptInv, TypeOK, RowsTypeOK, Stages
    <3> QED BY <3>1, <1>commit DEF Siblings
  <2> QED BY <2>1, <2>2, <1>rows DEF Finished, ActiveJob
<1>4. NoStageSkipped'
    BY DEF SweptInv, ChainInv, ChainRules, NoStageSkipped, Siblings
<1>5. NotStarted'
    BY <1>rows DEF SweptInv, ChainInv, ReadRules, NotStarted
<1>6. Pending'
    BY <1>rows, <1>commit DEF SweptInv, ChainInv, ReadRules, Pending
<1>7. FirstStart'
    BY <1>rows, <1>commit, Started DEF SweptInv, ChainInv, ReadRules, FirstStart
<1>8. WorkerReads'
  <2>1. ASSUME NEW k \in Jobs, pc[k] = "fail_commit"
        PROVE  jobDoc[k] \in Docs /\ (jobDoc[k] = d => t = "DELETED")
      BY <2>1, <1>commit, Started
  <2> QED BY <2>1, <1>rows
          DEF SweptInv, ChainInv, ReadRules, WorkerReads, InTransaction, ActiveDoc
<1>9. SweeperReads'
  <2>1. sweepPc # "loop" => /\ sweepEntry.job \in Jobs /\ jobDoc[sweepEntry.job] \in Docs
                            /\ jobDoc[sweepEntry.job] = d => t = "DELETED"
      BY <1>commit DEF SweptInv, ChainInv, ReadRules, RowRules, SweeperReads, SweepEntries,
                       RowsAgree, TypeOK, RowsTypeOK
  <2> QED BY <2>1, <1>rows
          DEF SweptInv, ChainInv, ReadRules, SweeperReads, ActiveDoc
<1>10. Driven'
  <2>1. ASSUME NEW e \in Docs, docStatus'[e] \in ActiveDoc
        PROVE  \E k \in Jobs : jobDoc'[k] = e /\ jobStatus'[k] \in ActiveJob
    <3>1. CASE e = d
        BY <2>1, <3>1, <1>rows, <1>commit DEF ActiveDoc, ActiveJob
    <3>2. CASE e # d
        BY <2>1, <3>2, <1>rows DEF SweptInv, ChainInv, Driven
    <3> QED BY <3>1, <3>2
  <2> QED BY <2>1 DEF Driven
<1> QED BY <1>2, <1>3, <1>4, <1>5, <1>6, <1>7, <1>8, <1>9, <1>10
        DEF ChainInv, RowRules, ChainRules, ReadRules

LEMMA NothingWritten ==
    ASSUME SweptInv, UNCHANGED <<rows, execVars, sweepVars>>, UploadRequests'
    PROVE  ChainInv'
<1>rows. UNCHANGED <<docStatus, jobDoc, jobStage, jobStatus, nextJob,
                     pc, seenJob, seenDoc, sweepPc, sweepEntry, sweepSaw>>
    BY DEF rows, execVars, sweepVars
<1>1. RowsAgree' /\ Driven'
    BY <1>rows DEF SweptInv, ChainInv, RowRules, RowsAgree, DocVisible, JobVisible, Driven
<1>2. ChainRules'
  <2>1. \A k \in Jobs : Finished(k) => Finished(k)'
      BY <1>rows DEF Finished
  <2> QED BY <2>1, ChainKept DEF SweptInv, ChainInv
<1>3. NotStarted' /\ Pending'
    BY <1>rows DEF SweptInv, ChainInv, ReadRules, NotStarted, Pending
<1>4. FirstStart' /\ WorkerReads' /\ SweeperReads'
    BY <1>rows DEF SweptInv, ChainInv, ReadRules, FirstStart, WorkerReads, SweeperReads
<1> QED BY <1>1, <1>2, <1>3, <1>4 DEF ChainInv, RowRules, ReadRules

\* A handler that holds no flushed rows goes on, or ends.
LEMMA HandlerMoves ==
    ASSUME SweptInv, NEW r \in Requests, ~Uploading(r),
           UNCHANGED <<rows, execVars, sweepVars>>,
           \A q \in Requests : q # r => req'[q] = req[q],
           ~Uploading(r)',
           req'[r].pc \in {"idle", "lookup", "enqueue", "commit"},
           req'[r].pc # "idle" => req'[r].op = "existing",
           req'[r].doc \in Docs =>
              docStatus[req'[r].doc] \notin {"UNBORN", "UNCOMMITTED"},
           req'[r].job \in Jobs =>
              jobStatus[req'[r].job] \notin {"UNBORN", "UNCOMMITTED"}
    PROVE  ChainInv'
<1>1. UploadRequests'
    BY DEF SweptInv, ChainInv, RowRules, UploadRequests, Uploading, rows
<1> QED BY <1>1, NothingWritten

\* A handler ends, and with it the isolation of what it flushed.
LEMMA HandlerEnds ==
    ASSUME SweptInv, NEW r \in Requests, Uploading(r), EndRequest(r),
           UNCHANGED <<jobDoc, jobStage, nextJob, execVars, sweepVars>>,
           NEW s, NEW t,
           \/ s = "DELETED" /\ t = "DELETED"
           \/ s = "QUEUED" /\ t = "PENDING",
           docStatus' = [docStatus EXCEPT ![req[r].doc] = t],
           jobStatus' = [jobStatus EXCEPT ![req[r].job] = s]
    PROVE  ChainInv'
<1>type. /\ req \in [Requests -> RequestState]
         /\ docStatus \in [Docs -> DocumentStatus \cup NoRow]
         /\ jobStatus \in [Jobs -> JobStatus \cup NoRow]
    BY DEF SweptInv, TypeOK, RowsTypeOK, ApiTypeOK
<1>1. \/ s = "DELETED" /\ t = "DELETED"
      \/ /\ s = "QUEUED" /\ t = "PENDING"
         /\ \E q \in Requests : Uploading(q) /\ req[q].doc = req[r].doc
    OBVIOUS
<1>2. /\ req[r].doc \in Docs /\ req[r].job \in Jobs
      /\ \A k \in Jobs : jobDoc[k] = req[r].doc <=> k = req[r].job
    BY UploadedJob
<1>3. \A k \in Jobs : jobStatus'[k] = IF jobDoc[k] = req[r].doc THEN s ELSE jobStatus[k]
    BY <1>2, <1>type
<1>4. UploadRequests'
  <2>1. /\ \A q \in Requests : q # r => req'[q] = req[q]
        /\ req'[r].pc = "idle" /\ req'[r].doc \notin Docs /\ req'[r].job \notin Jobs
      BY <1>type, DocsAssumption DEF EndRequest, NoRequest, Jobs
  <2>2. /\ \A k \in Jobs : jobStatus'[k] = s \/ jobStatus'[k] = jobStatus[k]
        /\ \A k \in Jobs : k # req[r].job => jobStatus'[k] = jobStatus[k]
        /\ \A e \in Docs : docStatus'[e] = t \/ docStatus'[e] = docStatus[e]
        /\ \A e \in Docs : e # req[r].doc => docStatus'[e] = docStatus[e]
      BY <1>type
  <2>3. ASSUME NEW q \in Requests, q # r, Uploading(q)
        PROVE  req[q].doc # req[r].doc /\ req[q].job # req[r].job
      BY <2>3 DEF SweptInv, ChainInv, RowRules, UploadRequests
  <2> QED BY <1>1, <1>2, <2>1, <2>2, <2>3
          DEF SweptInv, ChainInv, RowRules, UploadRequests, Uploading
<1> QED BY <1>1, <1>2, <1>3, <1>4, DocumentChanges

LEMMA UploadsKeepChain ==
    ASSUME SweptInv, Uploads
    PROVE  ChainInv'
<1>type. /\ req \in [Requests -> RequestState]
         /\ docStatus \in [Docs -> DocumentStatus \cup NoRow]
         /\ jobStatus \in [Jobs -> JobStatus \cup NoRow]
    BY DEF SweptInv, TypeOK, RowsTypeOK, ApiTypeOK
<1>exec. UNCHANGED <<execVars, sweepVars>>
    BY DEF Uploads
<1>none. 0 \notin Jobs
    BY DEF Jobs
<1>ends. ASSUME NEW r \in Requests, EndRequest(r)
         PROVE  /\ \A q \in Requests : q # r => req'[q] = req[q]
                /\ req'[r].pc = "idle" /\ ~Uploading(r)'
                /\ req'[r].doc \notin Docs /\ req'[r].job \notin Jobs
    BY <1>ends, <1>type, <1>none, DocsAssumption DEF EndRequest, NoRequest, Uploading
<1>1. ASSUME NEW r \in Requests, NEW d \in Docs, UploadNew(r, d)
      PROVE  ChainInv'
    BY <1>1, <1>exec, HandlerUploads
<1>2. ASSUME NEW r \in Requests, NEW d \in Docs, UploadExisting(r, d)
      PROVE  ChainInv'
  <2>1. /\ \A q \in Requests : q # r => req'[q] = req[q]
        /\ req'[r].op = "existing" /\ req'[r].pc = "lookup"
        /\ req'[r].doc = d /\ req'[r].job = 0
      BY <1>2, <1>type DEF UploadExisting, NoRequest
  <2>2. ~Uploading(r) /\ ~Uploading(r)'
      BY <1>2, <2>1 DEF UploadExisting, Idle, Uploading
  <2>3. UNCHANGED rows /\ docStatus[d] \notin {"UNBORN", "UNCOMMITTED"}
      BY <1>2 DEF UploadExisting, rowVars, rows, DocVisible, DocumentStatus
  <2> QED BY <2>1, <2>2, <2>3, <1>none, <1>exec, HandlerMoves
<1>3. ASSUME NEW r \in Requests, UploadFindsJob(r)
      PROVE  ChainInv'
  <2>1. /\ UNCHANGED rows /\ ~Uploading(r) /\ req[r].op = "existing"
        /\ req[r].doc \in Docs => docStatus[req[r].doc] \notin {"UNBORN", "UNCOMMITTED"}
      BY <1>3 DEF UploadFindsJob, rowVars, rows, Uploading, SweptInv, ChainInv, RowRules,
         UploadRequests
  <2>2. CASE EndRequest(r)
      BY <2>1, <2>2, <1>ends, <1>exec, HandlerMoves
  <2>3. ASSUME NEW j \in Jobs, LatestJob(req[r].doc, j),
               req' = [req EXCEPT ![r].pc = "enqueue", ![r].job = j]
        PROVE  ChainInv'
    <3>1. /\ \A q \in Requests : q # r => req'[q] = req[q]
          /\ req'[r].op = "existing" /\ req'[r].pc = "enqueue"
          /\ req'[r].doc = req[r].doc /\ req'[r].job = j
        BY <2>1, <2>3, <1>type DEF RequestState
    <3>2. ~Uploading(r)' /\ jobStatus[j] \notin {"UNBORN", "UNCOMMITTED"}
        BY <2>3, <3>1 DEF Uploading, LatestJob, JobsOf, JobVisible, JobStatus
    <3> QED BY <2>1, <3>1, <3>2, <1>exec, HandlerMoves
  <2> QED BY <1>3, <2>2, <2>3 DEF UploadFindsJob
<1>4. ASSUME NEW r \in Requests, RequestEnqueues(r)
      PROVE  ChainInv'
  <2>1. /\ \A q \in Requests : q # r => req'[q] = req[q]
        /\ req'[r].op = req[r].op /\ req'[r].pc = "commit" /\ req[r].pc = "enqueue"
        /\ req'[r].doc = req[r].doc /\ req'[r].job = req[r].job
        /\ UNCHANGED <<docStatus, jobDoc, jobStage, jobStatus, nextJob>>
      BY <1>4, <1>type DEF RequestEnqueues, RequestState, rowVars
  <2>2. UploadRequests'
      BY <2>1 DEF SweptInv, ChainInv, RowRules, UploadRequests, Uploading
  <2> QED BY <2>1, <2>2, <1>exec, NothingWritten DEF rows
<1>5. ASSUME NEW r \in Requests, RequestCommits(r)
      PROVE  ChainInv'
  <2>1. /\ req[r].pc = "commit" /\ req[r].op \in {"create", "existing"}
        /\ UNCHANGED <<jobDoc, jobStage, nextJob>> /\ EndRequest(r)
      BY <1>5 DEF RequestCommits, SweptInv, ChainInv, RowRules, UploadRequests
  <2>2. CASE Uploading(r)
    <3>1. /\ docStatus' = [docStatus EXCEPT ![req[r].doc] = "PENDING"]
          /\ jobStatus' = [jobStatus EXCEPT ![req[r].job] = "QUEUED"]
        BY <1>5, <2>2 DEF RequestCommits, Uploading
    <3> QED BY <2>1, <2>2, <3>1, <1>exec, HandlerEnds
  <2>3. CASE ~Uploading(r)
    <3>1. req[r].op = "existing" /\ UNCHANGED rows /\ EndRequest(r)
        BY <1>5, <2>1, <2>3 DEF RequestCommits, Uploading, rows
    <3> QED BY <2>3, <3>1, <1>ends, <1>exec, HandlerMoves
  <2> QED BY <2>2, <2>3
<1>6. ASSUME NEW r \in Requests, RequestAborts(r)
      PROVE  ChainInv'
  <2>1. EndRequest(r) /\ UNCHANGED <<jobDoc, jobStage, nextJob>>
      BY <1>6 DEF RequestAborts
  <2>2. CASE Uploading(r)
    <3>1. /\ docStatus[req[r].doc] = "UNCOMMITTED"
          /\ jobStatus[req[r].job] = "UNCOMMITTED"
        BY <2>2, UploadedJob
    <3>2. /\ docStatus' = [docStatus EXCEPT ![req[r].doc] = "DELETED"]
          /\ jobStatus' = [jobStatus EXCEPT ![req[r].job] = "DELETED"]
        BY <1>6, <3>1, <1>type DEF RequestAborts
    <3> QED BY <2>1, <2>2, <3>2, <1>exec, HandlerEnds
  <2>3. CASE ~Uploading(r)
    <3>1. /\ \A e \in Docs : ~(docStatus[e] = "UNCOMMITTED" /\ req[r].doc = e)
          /\ \A k \in Jobs : ~(jobStatus[k] = "UNCOMMITTED" /\ req[r].job = k)
        BY <2>3 DEF SweptInv, ChainInv, RowRules, UploadRequests
    <3>2. docStatus' = docStatus /\ jobStatus' = jobStatus
        BY <1>6, <3>1, <1>type DEF RequestAborts
    <3> QED BY <2>1, <2>3, <3>2, <1>ends, <1>exec, HandlerMoves DEF rows
  <2> QED BY <2>2, <2>3
<1>7. ASSUME NEW d \in Docs, Delete(d)
      PROVE  ChainInv'
  <2>1. /\ docStatus' = [docStatus EXCEPT ![d] = "DELETED"]
        /\ jobStatus' = [k \in Jobs |-> IF jobDoc[k] = d THEN "DELETED" ELSE jobStatus[k]]
        /\ UNCHANGED <<jobDoc, jobStage, nextJob, req>>
        /\ DocVisible(d)
      BY <1>7 DEF Delete, apiVars
  <2>2. ASSUME NEW k \in Jobs, jobStatus[k] = "UNCOMMITTED"
        PROVE  jobDoc[k] # d
      BY <2>1, <2>2 DEF SweptInv, ChainInv, RowRules, RowsAgree, DocVisible, DocumentStatus,
         JobVisible, JobStatus
  <2>3. UploadRequests'
    <3>1. /\ \A k \in Jobs : /\ jobStatus[k] = "UNCOMMITTED" => jobStatus'[k] = jobStatus[k]
                             /\ jobStatus'[k] \in {jobStatus[k], "DELETED"}
          /\ \A e \in Docs : /\ docStatus[e] = "UNCOMMITTED" => docStatus'[e] = docStatus[e]
                             /\ docStatus'[e] \in {docStatus[e], "DELETED"}
        BY <2>1, <2>2, <1>type DEF DocVisible, DocumentStatus
    <3> QED BY <3>1, <2>1 DEF SweptInv, ChainInv, RowRules, UploadRequests, Uploading
  <2> QED BY <2>1, <2>3, <1>exec, DocumentChanges
<1> QED
    BY <1>1, <1>2, <1>3, <1>4, <1>5, <1>6, <1>7 DEF Uploads, UploadNext, RequestStep

(***************************************************************************)
(* The other steps, and the theorems                                       *)
(***************************************************************************)

LEMMA WorkersKeepChain ==
    ASSUME SweptInv, Workers
    PROVE  ChainInv'
<1> PICK j \in Jobs : Deliver(j) \/ RunStage(j) \/ Crash(j) \/ TimeOut(j) \/ Abandon(j)
    BY DEF Workers, RunnerNext
<1>others. UNCHANGED <<req, sweepVars>>
    BY DEF Workers, apiVars
<1>rows. UNCHANGED rowVars => UNCHANGED rows
    BY DEF rowVars, rows
<1>doc. pc[j] \notin {"idle", "start_job", "return"} => jobDoc[j] \in Docs
    BY Started
<1>pending. docStatus[jobDoc[j]] = "PENDING" =>
               pc[j] \in {"idle", "start_job", "start_doc", "start_commit", "return"}
    BY <1>doc DEF SweptInv, ChainInv, ReadRules, Pending
<1>back. ASSUME UNCHANGED rowVars, NEW label \in {"idle", "start_job", "return"},
                Goto(j, label)
         PROVE  ChainInv'
    BY <1>back, <1>others, <1>rows, GotoKeeps DEF Labels, InTransaction
<1>on. ASSUME UNCHANGED rowVars, NEW label \in {"body", "fail_job", "complete_job"},
              pc[j] \in {"load", "body", "complete_job", "complete_doc"}, Goto(j, label)
       PROVE  ChainInv'
    BY <1>on, <1>others, <1>rows, <1>pending, GotoKeeps DEF Labels, InTransaction, Rest
<1>1. CASE Deliver(j) \/ Return(j) \/ Crash(j) \/ TimeOut(j) \/ FnFailsTransiently(j)
    BY <1>1, <1>back DEF Deliver, Return, Crash, TimeOut, FnFailsTransiently
<1>2. CASE \/ StartLosesRow(j) \/ AttemptLosesRow(j) \/ FailLosesRow(j)
           \/ CompleteLosesRow(j) \/ EnqueueNext(j) \/ EnqueueNextFails(j)
    BY <1>2, <1>back DEF StartLosesRow, AttemptLosesRow, FailLosesRow,
       CompleteLosesRow, EnqueueNext, EnqueueNextFails
<1>3. CASE StartReadsJob(j)
    BY <1>3, <1>back, <1>others, <1>rows, ReadJobKeeps DEF StartReadsJob
<1>4. CASE StartReadsDoc(j)
  <2> DEFINE label == IF docStatus[jobDoc[j]] \in ActiveDoc
                        THEN "start_commit" ELSE "fail_commit"
  <2>1. CASE Goto(j, "return")
      BY <1>4, <2>1, <1>back DEF StartReadsDoc
  <2>2. CASE ReadDoc(j, label)
    <3>1. label \in {"start_commit", "fail_commit"}
        OBVIOUS
    <3>2. /\ label = "start_commit" => docStatus[jobDoc[j]] \in ActiveDoc
          /\ label = "fail_commit" => docStatus[jobDoc[j]] \notin ActiveDoc
        OBVIOUS
    <3> HIDE DEF label
    <3> QED BY <1>4, <2>2, <3>1, <3>2, <1>others, <1>rows, ReadDocKeeps DEF StartReadsDoc
  <2> QED BY <1>4, <2>1, <2>2 DEF StartReadsDoc
<1>5. CASE StartCommits(j)
    BY <1>5, <1>others, WorkerStarts
<1>6. CASE FnLoadsDocument(j) \/ FnFailsPermanently(j) \/ FnFailsLastTry(j)
    BY <1>6, <1>on DEF FnLoadsDocument, FnFailsPermanently, FnFailsLastTry
<1>7. CASE FnSucceeds(j)
  <2>1. UNCHANGED rows /\ pc[j] = "body" /\ Goto(j, "complete_job")
      BY <1>7 DEF FnSucceeds, rows
  <2> QED BY <2>1, <1>others, <1>pending, GotoKeeps DEF Labels, InTransaction, Rest
<1>8. CASE FailReadsJob(j)
    BY <1>8, <1>back, <1>others, <1>rows, ReadJobKeeps DEF FailReadsJob
<1>9. CASE FailReadsDoc(j)
    BY <1>9, <1>back, <1>others, <1>rows, ReadDocKeeps DEF FailReadsDoc
<1>10. CASE FailCommits(j)
  <2>1. /\ pc[j] = "fail_commit" /\ JobVisible(j) /\ Goto(j, "return")
        /\ jobStatus' = [jobStatus EXCEPT ![j] = "FAILED"]
        /\ UNCHANGED <<jobDoc, jobStage, nextJob>>
        /\ \/ docStatus' = [docStatus EXCEPT ![jobDoc[j]] = "FAILED"]
           \/ docStatus' = docStatus /\ seenDoc[j] \notin ActiveDoc
      BY <1>10 DEF FailCommits, FailRows
  <2>2. seenDoc[j] \notin ActiveDoc => docStatus[jobDoc[j]] \notin ActiveDoc
      BY <2>1 DEF SweptInv, ChainInv, ReadRules, WorkerReads
  <2>3. "FAILED" \in TerminalJob
      BY DEF TerminalJob
  <2>4. pc[j] \notin Rest
      BY <2>1 DEF Rest
  <2> QED BY <2>1, <2>2, <2>3, <2>4, <1>others, WorkerSettles
<1>11. CASE CompleteReadsJob(j)
    BY <1>11, <1>back, <1>on, <1>others, <1>rows, ReadJobKeeps
       DEF CompleteReadsJob, ActiveJob
<1>12. CASE CompleteReadsDoc(j)
    BY <1>12, <1>on, <1>others, <1>rows, ReadDocKeeps DEF CompleteReadsDoc
<1>13. CASE CompleteLastStage(j)
  <2>1. /\ pc[j] = "complete_commit" /\ JobVisible(j) /\ Goto(j, "return")
        /\ jobStatus' = [jobStatus EXCEPT ![j] = "DONE"]
        /\ UNCHANGED <<jobDoc, jobStage, nextJob>>
        /\ docStatus' = [docStatus EXCEPT ![jobDoc[j]] = "INDEXED"]
      BY <1>13 DEF CompleteLastStage, IndexedRows
  <2>2. "DONE" \in TerminalJob
      BY DEF TerminalJob
  <2>3. pc[j] \notin Rest
      BY <2>1 DEF Rest
  <2> QED BY <2>1, <2>2, <2>3, <1>others, WorkerSettles
<1>14. CASE CompleteStage(j)
    BY <1>14, <1>others, WorkerAdvances
<1>15. CASE Abandon(j)
    BY <1>15, <1>others, <1>rows, RowRulesKept, NothingWritten
       DEF Abandon, SweptInv, ChainInv, RowRules
<1> QED
    BY <1>1, <1>2, <1>3, <1>4, <1>5, <1>6, <1>7, <1>8, <1>9, <1>10, <1>11, <1>12,
       <1>13, <1>14, <1>15 DEF RunStage

LEMMA SweeperKeepsChain ==
    ASSUME SweptInv, Sweeping
    PROVE  ChainInv'
<1>others. UNCHANGED <<req, execVars>>
    BY DEF Sweeping, apiVars
<1>moves. ASSUME UNCHANGED rowVars, SweeperReads',
                 sweepPc' = "commit" => sweepSaw' = docStatus[jobDoc[sweepEntry'.job]],
                 \A j \in Jobs : sweepEntry'.job = j =>
                    sweepEntry.job = j \/ jobStatus[j] \in ActiveJob
          PROVE  ChainInv'
  <2>rows. UNCHANGED <<docStatus, jobDoc, jobStage, jobStatus, nextJob,
                       req, pc, seenJob, seenDoc>>
      BY <1>moves, <1>others DEF rowVars, execVars
  <2>1. RowRules' /\ Driven'
      BY <2>rows, RowRulesKept, DrivenKept DEF SweptInv, ChainInv, rows
  <2>2. ChainRules'
    <3>1. \A k \in Jobs : Finished(k) => Finished(k)'
        BY <2>rows DEF Finished
    <3> QED BY <3>1, <2>rows, ChainKept DEF SweptInv, ChainInv, rows
  <2>3. NotStarted' /\ WorkerReads'
      BY <2>rows DEF SweptInv, ChainInv, ReadRules, NotStarted, WorkerReads
  <2>4. Pending'
      BY <2>rows, <1>moves DEF SweptInv, ChainInv, ReadRules, Pending
  <2>5. FirstStart'
      BY <2>rows, <1>moves DEF SweptInv, ChainInv, ReadRules, FirstStart, ActiveJob
  <2> QED BY <2>1, <2>2, <2>3, <2>4, <2>5, <1>moves DEF ChainInv, ReadRules
<1>none. 0 \notin Jobs
    BY DEF Jobs
<1>loop. ASSUME UNCHANGED rowVars, NEW todo, BackToLoop(todo)
         PROVE  ChainInv'
  <2>1. SweeperReads' /\ sweepPc' = "loop" /\ sweepEntry'.job = 0
      BY <1>loop DEF BackToLoop, SweeperReads, NoEntry
  <2> QED BY <2>1, <1>none, <1>loop, <1>moves
<1>1. CASE SweepStarts \/ SweepLosesRow \/ SweepAborts
    BY <1>1, <1>loop DEF SweepStarts, SweepLosesRow, SweepAborts
<1>2. ASSUME NEW e \in SweepEntries, SweepRequeues(e)
      PROVE  ChainInv'
    BY <1>2, <1>loop DEF SweepRequeues
<1>3. ASSUME NEW e \in SweepEntries, SweepFailReadsJob(e)
      PROVE  ChainInv'
  <2>1. CASE BackToLoop(sweepTodo \ {e})
      BY <1>3, <2>1, <1>loop DEF SweepFailReadsJob
  <2>2. CASE jobStatus[e.job] \in ActiveJob /\ sweepPc' = "doc" /\ sweepEntry' = e
    <3>1. UNCHANGED rowVars
        BY <1>3 DEF SweepFailReadsJob
    <3>2. SweeperReads'
        BY <2>2, <3>1 DEF SweeperReads, ActiveJob, rowVars
    <3> QED BY <2>2, <3>1, <3>2, <1>moves
  <2> QED BY <1>3, <2>1, <2>2 DEF SweepFailReadsJob
<1>4. CASE SweepFailReadsDoc
  <2>1. /\ UNCHANGED rowVars /\ sweepPc = "doc" /\ sweepPc' = "commit"
        /\ sweepEntry' = sweepEntry
        /\ sweepSaw' = docStatus[jobDoc[sweepEntry.job]]
      BY <1>4 DEF SweepFailReadsDoc
  <2>2. SweeperReads'
      BY <2>1 DEF SweptInv, ChainInv, ReadRules, SweeperReads, rowVars
  <2> QED BY <2>1, <2>2, <1>moves
<1>5. CASE SweepFailCommits
    BY <1>5, <1>others, SweeperFails
<1> QED
    BY <1>1, <1>2, <1>3, <1>4, <1>5 DEF Sweeping, SweepNext

LEMMA SweptInvInit == Init => SweptInv
<1> SUFFICES ASSUME Init PROVE SweptInv
    OBVIOUS
<1> USE DEF Init, RowsInit, RunnerInit, ApiInit, SweepInit
<1>1. RowRules
    BY DocsAssumption DEF RowRules, UploadRequests, Uploading, RowsAgree, NoRequest, Jobs
<1>2. ChainRules
    BY DocsAssumption DEF ChainRules, Chain, NoStageSkipped, Siblings
<1>3. ReadRules
    BY DocsAssumption DEF ReadRules, NotStarted, Pending, FirstStart, WorkerReads,
       SweeperReads, InTransaction
<1>4. Driven
    BY DEF Driven, ActiveDoc
<1> QED BY <1>1, <1>2, <1>3, <1>4, InitType DEF SweptInv, ChainInv

LEMMA SweptInvStep == SweptInv /\ [SweptSystem]_vars => SweptInv'
<1> SUFFICES ASSUME SweptInv, [SweptSystem]_vars PROVE SweptInv'
    OBVIOUS
<1>1. TypeOK'
    BY StepType DEF SweptInv, SweptSystem, Anything
<1>2. ChainInv'
  <2>still. ASSUME UNCHANGED <<rows, req, execVars, sweepVars>> PROVE ChainInv'
      BY <2>still, RowRulesKept, NothingWritten DEF SweptInv, ChainInv, RowRules
  <2>1. CASE Workers \/ Uploads \/ Sweeping
      BY <2>1, WorkersKeepChain, UploadsKeepChain, SweeperKeepsChain
  <2>2. CASE Aging
    <3>1. UNCHANGED <<rows, req, execVars, sweepVars>>
        BY <2>2 DEF Aging, AgeJob, rows, apiVars
    <3> QED BY <3>1, <2>still
  <2>3. CASE UNCHANGED vars
    <3>1. UNCHANGED <<rows, req, execVars, sweepVars>>
        BY <2>3 DEF vars, rowVars, rows, apiVars
    <3> QED BY <3>1, <2>still
  <2> QED BY <2>1, <2>2, <2>3 DEF SweptSystem, UploadSystem
<1> QED BY <1>1, <1>2 DEF SweptInv

LEMMA SweptInvCorrect == SweptSpec => []SweptInv
BY SweptInvInit, SweptInvStep, PTL DEF SweptSpec

\* Uploads alone are a part of the system with the sweeper.
LEMMA UploadSweptInv == UploadSpec => []SweptInv
<1>1. [UploadSystem]_vars => [SweptSystem]_vars
    BY DEF SweptSystem
<1> QED BY <1>1, SweptInvInit, SweptInvStep, PTL DEF UploadSpec

\* At most one unfinished job per document, although the sweeper fails and
\* requeues jobs that workers are executing and start_stage revives a job the
\* sweeper failed under it.
THEOREM OneActiveJobCorrect == SweptSpec => []OneActiveJob
<1>1. SweptInv => OneActiveJob
  <2> SUFFICES ASSUME SweptInv, NEW d \in Docs,
                      NEW j \in ActiveJobsOf(d), NEW k \in ActiveJobsOf(d)
               PROVE  j = k
      BY DEF OneActiveJob
  <2>1. /\ j \in Jobs /\ k \in Jobs /\ Siblings(j, k) /\ Siblings(k, j)
        /\ ~Finished(j) /\ ~Finished(k)
      BY DEF ActiveJobsOf, JobsOf, Siblings, Finished
  <2>2. jobStage[j] \in Nat /\ jobStage[k] \in Nat
      BY <2>1 DEF SweptInv, TypeOK, RowsTypeOK, Stages
  <2>3. jobStage[j] = jobStage[k]
    <3>1. ~(jobStage[j] < jobStage[k]) /\ ~(jobStage[k] < jobStage[j])
        BY <2>1 DEF SweptInv, ChainInv, ChainRules, Chain
    <3> QED BY <3>1, <2>2
  <2> QED BY <2>1, <2>3 DEF SweptInv, ChainInv, ChainRules, Chain
<1> QED BY <1>1, SweptInvCorrect, PTL

\* A document that is PENDING or PROCESSING has a QUEUED or RUNNING job: no
\* order of failures, crashes and sweeps takes the row away that a recovery
\* starts from.
THEOREM UnsettledHasActiveJobCorrect == SweptSpec => []UnsettledHasActiveJob
<1>1. SweptInv => UnsettledHasActiveJob
    BY DEF SweptInv, ChainInv, Driven, UnsettledHasActiveJob, ActiveJobsOf, JobsOf,
           JobVisible, ActiveJob, JobStatus
<1> QED BY <1>1, SweptInvCorrect, PTL
=============================================================================
