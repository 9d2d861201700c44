--------------------------- MODULE DocumentState ---------------------------
(***************************************************************************)
(* GET /documents/{id}: the read model a client polls.  The handler reads  *)
(* the document row, then its jobs, in two statements of a READ COMMITTED  *)
(* transaction, so a stage may complete or the document may be deleted in  *)
(* between; it composes the status of the first read with the stages of    *)
(* the second.                                                             *)
(***************************************************************************)
EXTENDS IngestionPipeline, FiniteSets

VARIABLE poll   \* the document a poll has read and the status it read

stateVars == <<vars, poll>>

NoPoll == [doc |-> NoDoc, status |-> "none"]

NoStage == LastStage + 1   \* current_stage is None

\* JobRepository.latest_by_stage maps stage s to job j: the newest by
\* created_at.
LatestByStage(d, s, j) ==
    /\ j \in JobsOf(d) /\ jobStage[j] = s
    /\ \A k \in JobsOf(d) : jobStage[k] = s => k <= j

\* The StageStates of a document: a stage without a job shows as QUEUED.
StageState(d) ==
    [s \in Stages |->
        IF \E j \in Jobs : LatestByStage(d, s, j)
          THEN jobStatus[CHOOSE j \in Jobs : LatestByStage(d, s, j)]
          ELSE "QUEUED"]

\* progress, in stages.
DoneCount(d) == Cardinality({s \in Stages : StageState(d)[s] = "DONE"})

FirstOf(S) == IF S = {} THEN NoStage ELSE CHOOSE s \in S : \A t \in S : s <= t

\* Mutant: the second pass is missing.
CurrentStageRunningOnly(status, state) ==
    IF status = "FAILED" THEN NoStage
    ELSE FirstOf({s \in Stages : state[s] = "RUNNING"})

\* _current_stage: the first stage that is RUNNING, else the first that is
\* not DONE; none for a FAILED document.
CurrentStage(status, state) ==
    LET running == {s \in Stages : state[s] = "RUNNING"}
        unfinished == {s \in Stages : state[s] # "DONE"}
    IN  IF status = "FAILED" THEN NoStage
        ELSE FirstOf(IF running # {} THEN running ELSE unfinished)

-----------------------------------------------------------------------------

PollReadsDocument(d) ==
    /\ poll = NoPoll
    /\ DocVisible(d)
    /\ poll' = [doc |-> d, status |-> docStatus[d]]

\* The second read and the response; Report is what it would say now.
PollReadsJobs ==
    /\ poll # NoPoll
    /\ poll' = NoPoll

Report ==
    LET d == poll.doc
    IN  [status |-> poll.status,
         progress |-> DoneCount(d),
         stages |-> StageState(d),
         current |-> CurrentStage(poll.status, StageState(d))]

Polling == /\ (\E d \in Docs : PollReadsDocument(d)) \/ PollReadsJobs
           /\ UNCHANGED vars

PolledSystem == (DeployedSystem /\ UNCHANGED poll) \/ Polling

PolledSpec == Init /\ poll = NoPoll /\ [][PolledSystem]_stateVars

-----------------------------------------------------------------------------

\* Whatever happens between the two reads of a poll, short of a delete or a
\* reprocess, its answer makes sense: INDEXED comes with every stage DONE; FAILED with a
\* stage that FAILED and no current stage; and for a document that was moving
\* every stage before the current one is DONE and no later one has started,
\* so a client that waits for current_stage to become null is not stopped
\* early.
PollIsCoherent ==
    poll # NoPoll /\ DocVisible(poll.doc) /\ reprocessed = 0 =>
        LET c == Report.current
        IN  /\ Report.status = "INDEXED" =>
                  Report.progress = LastStage /\ c = NoStage
            /\ Report.status = "FAILED" =>
                  /\ Report.progress < LastStage
                  /\ \E s \in Stages : Report.stages[s] = "FAILED"
            /\ Report.status \in ActiveDoc =>
                  /\ Report.progress = c - 1
                  /\ c = NoStage <=> docStatus[poll.doc] = "INDEXED"
                  /\ \A s \in Stages : s > c =>
                        \A j \in JobsOf(poll.doc) : jobStage[j] # s
=============================================================================
