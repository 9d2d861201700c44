------------------------------ MODULE ArqQueue ------------------------------
(***************************************************************************)
(* The ARQ queue in Redis, as src/ uses it: every task is enqueued with    *)
(* _job_id equal to the id of its job row, so the queue holds at most one  *)
(* entry per row.  ARQ is a library; its behaviour here is what the code   *)
(* and the settings (max_tries, keep_result, retry_jobs) rely on.          *)
(***************************************************************************)
EXTENDS IngestionRows

CONSTANT MaxTries    \* WorkerSettings.max_tries

ASSUME MaxTriesAssumption == MaxTries \in Nat \ {0}

VARIABLES
    queue,      \* the state of the ARQ entry with this _job_id
    jobTry      \* ctx["job_try"] of its latest delivery

arqVars == <<queue, jobTry>>

\* No key in Redis; waiting for a worker; being executed (in-progress key);
\* finished, its result kept for keep_result or already expired.
EntryStates == {"none", "queued", "running", "result"}

ArqTypeOK ==
    /\ queue \in [Jobs -> EntryStates]
    /\ jobTry \in [Jobs -> 0..MaxTries]

ArqInit ==
    /\ queue = [j \in Jobs |-> "none"]
    /\ jobTry = [j \in Jobs |-> 0]

\* redis.enqueue_job(..., _job_id=j) returns None and changes nothing while
\* the entry exists, or its result until keep_result has elapsed.
EnqueueJob(j) ==
    /\ \/ /\ queue[j] \in {"none", "result"}
          /\ queue' = [queue EXCEPT ![j] = "queued"]
       \/ /\ queue[j] # "none"
          /\ UNCHANGED queue
    /\ UNCHANGED jobTry

\* A worker takes the entry: one more try.
TakeJob(j) ==
    /\ queue[j] = "queued"
    /\ jobTry[j] < MaxTries
    /\ queue' = [queue EXCEPT ![j] = "running"]
    /\ jobTry' = [jobTry EXCEPT ![j] = @ + 1]

\* The entry goes back to the queue: Retry, a cancelled task (retry_jobs),
\* or a dead worker whose in-progress key expired.
RequeueJob(j) ==
    /\ queue' = [queue EXCEPT ![j] = "queued"]
    /\ UNCHANGED jobTry

\* ARQ records a result, whether the function returned, raised or timed out.
FinishJob(j) ==
    /\ queue' = [queue EXCEPT ![j] = "result"]
    /\ jobTry' = [jobTry EXCEPT ![j] = 0]

\* An entry that was delivered max_tries times is finished as failed without
\* calling the function.
AbandonJob(j) ==
    /\ queue[j] = "queued"
    /\ jobTry[j] >= MaxTries
    /\ FinishJob(j)
=============================================================================
