-------------------------- MODULE PipelineSweeper --------------------------
(***************************************************************************)
(* sweep_pipeline: one pass lists the stuck jobs in a session of its own,  *)
(* then goes through that list, failing a job with Ingester.fail_stage in  *)
(* a fresh session or putting it back in the queue.  A listed job may have *)
(* moved on by the time its turn comes.                                    *)
(***************************************************************************)
EXTENDS ArqQueue

VARIABLES
    sweepTodo,   \* the jobs listed and not handled yet
    sweepPc,     \* "loop", or the open fail_stage: "doc" (the job is read),
                 \* "commit" (the document too)
    sweepEntry,  \* the entry of sweepTodo being failed
    sweepSaw     \* the document status fail_stage read

sweepVars == <<sweepTodo, sweepPc, sweepEntry, sweepSaw>>

\* requeue: QUEUED and not too old when it was listed.
SweepEntries == [job : Jobs, requeue : BOOLEAN]
NoEntry == [job |-> 0, requeue |-> FALSE]

SweepTypeOK ==
    /\ sweepTodo \subseteq SweepEntries
    /\ sweepPc \in {"loop", "doc", "commit"}
    /\ sweepEntry \in SweepEntries \cup {NoEntry}
    /\ sweepSaw \in DocumentStatus \cup {"none"}

SweepInit ==
    /\ sweepTodo = {}
    /\ sweepPc = "loop"
    /\ sweepEntry = NoEntry
    /\ sweepSaw = "none"

\* Mutants: only one of the two statuses is listed.
StuckRunning == {j \in Jobs : jobStatus[j] = "RUNNING" /\ jobAge[j] # "fresh"}
StuckQueued == {j \in Jobs : jobStatus[j] = "QUEUED" /\ jobAge[j] # "fresh"}

\* JobRepository.list_stuck.
StuckJobs == {j \in Jobs : jobStatus[j] \in ActiveJob /\ jobAge[j] # "fresh"}

\* RUNNING jobs and jobs past GIVE_UP_AFTER are to be failed, other QUEUED
\* jobs requeued.
Listed(j) ==
    [job |-> j, requeue |-> jobStatus[j] = "QUEUED" /\ jobAge[j] = "stuck"]

BackToLoop(todo) ==
    /\ sweepTodo' = todo
    /\ sweepPc' = "loop"
    /\ sweepEntry' = NoEntry
    /\ sweepSaw' = "none"

SweepStarts ==
    /\ sweepPc = "loop" /\ sweepTodo = {}
    /\ StuckJobs # {}
    /\ BackToLoop({Listed(j) : j \in StuckJobs})
    /\ UNCHANGED <<rowVars, arqVars>>

SweepRequeues(e) ==
    /\ sweepPc = "loop" /\ e \in sweepTodo
    /\ e.requeue
    /\ EnqueueJob(e.job)
    /\ BackToLoop(sweepTodo \ {e})
    /\ UNCHANGED rowVars

\* fail_stage reads the job: missing or finished, there is nothing to do.
SweepFailReadsJob(e) ==
    /\ sweepPc = "loop" /\ e \in sweepTodo
    /\ ~e.requeue
    /\ IF jobStatus[e.job] \in ActiveJob
         THEN /\ sweepPc' = "doc"
              /\ sweepEntry' = e
              /\ UNCHANGED <<sweepTodo, sweepSaw>>
         ELSE BackToLoop(sweepTodo \ {e})
    /\ UNCHANGED <<rowVars, arqVars>>

SweepFailReadsDoc ==
    /\ sweepPc = "doc"
    /\ DocVisible(jobDoc[sweepEntry.job])
    /\ sweepPc' = "commit"
    /\ sweepSaw' = docStatus[jobDoc[sweepEntry.job]]
    /\ UNCHANGED <<sweepTodo, sweepEntry, rowVars, arqVars>>

SweepFailCommits ==
    /\ sweepPc = "commit"
    /\ JobVisible(sweepEntry.job)
    /\ FailRows(sweepEntry.job, sweepSaw)
    /\ BackToLoop(sweepTodo \ {sweepEntry})
    /\ UNCHANGED arqVars

\* An UPDATE of a row deleted since fail_stage read it raises; the loop does
\* not catch it, and the rest of the list is dropped.
SweepLosesRow ==
    /\ \/ sweepPc = "doc" /\ ~DocVisible(jobDoc[sweepEntry.job])
       \/ sweepPc = "commit" /\ ~JobVisible(sweepEntry.job)
    /\ BackToLoop({})
    /\ UNCHANGED <<rowVars, arqVars>>

\* Redis or the database raises, or the worker running the cron job dies.
SweepAborts ==
    /\ sweepTodo # {}
    /\ BackToLoop({})
    /\ UNCHANGED <<rowVars, arqVars>>

SweepNext ==
    \/ SweepStarts
    \/ \E e \in SweepEntries : SweepRequeues(e) \/ SweepFailReadsJob(e)
    \/ SweepFailReadsDoc \/ SweepFailCommits
    \/ SweepLosesRow \/ SweepAborts
=============================================================================
