----------------------------- MODULE Embedding -----------------------------
(***************************************************************************)
(* The EMBED stage inside one worker process.  do_embed cuts the chunks    *)
(* into batches; a TaskGroup runs one coroutine per batch, at most         *)
(* Concurrency of them past a semaphore, each retried with backoff; every  *)
(* attempt hands the batch to a thread (asyncio.to_thread), and all        *)
(* threads share one model, loaded on first use under a module lock and    *)
(* used under the model's own lock.  asyncio can cancel a coroutine but    *)
(* not a thread: when a try of the stage times out or fails, its threads   *)
(* go on, next to those of the following try.                              *)
(***************************************************************************)
EXTENDS Naturals, FiniteSets

CONSTANTS
    Calls,          \* executions of the EMBED stage in this process
    LastBatch,      \* batches of a call
    Concurrency,    \* permits of a call's semaphore
    MaxRetries,     \* attempts of a batch (4 in the code)
    MaxTries,       \* tries of the stage (job_settings.max_tries)
    PoolSize,       \* threads of asyncio's default executor
    MaxLoads        \* bound: how often the model is loaded

ASSUME BatchAssumption == LastBatch \in Nat \ {0}
ASSUME ConcurrencyAssumption == Concurrency \in Nat \ {0}
ASSUME RetriesAssumption == MaxRetries \in Nat \ {0}
ASSUME TriesAssumption == MaxTries \in Nat \ {0}
ASSUME PoolAssumption == PoolSize \in Nat \ {0}
ASSUME LoadsAssumption == MaxLoads \in Nat \ {0}

Batches == 1..LastBatch
Tries == 1..MaxTries

\* The thread of a try's batch; its attempts follow one another, so they are
\* never in two threads at once.
Threads == Calls \X Batches \X Tries

Nobody == <<>>

VARIABLES
    stage,      \* [Calls -> what run_stage makes of the call]
    try,        \* [Calls -> job_try]
    cause,      \* [Calls -> why the last try failed]
    batch,      \* [Calls -> [Batches -> state of the batch's coroutine]]
    attempt,    \* [Calls -> [Batches -> attempts begun in this try]]
    thread,     \* [Threads -> what the thread of a batch is doing]
    loads,      \* models loaded so far; _CACHE holds the last one, if any
    cacheLock,  \* who holds _CACHE_LOCK
    encodeLock  \* who holds the lock that is cached with the model

callVars == <<stage, try, cause, batch, attempt>>
modelVars == <<loads, cacheLock, encodeLock>>
vars == <<callVars, thread, modelVars>>

Failures == {"permanent", "transient"}

\* "queued" is submitted to the executor and not taken by a thread.
Working == {"lookup", "slow_path", "load", "encode_wait", "encode"}
Returned == {"ok"} \cup Failures
ThreadStates == {"none", "queued"} \cup Working \cup Returned

\* Coroutines that are past the semaphore.
Permitted == {"trying", "backoff"}
BatchStates == {"waiting", "ok", "cancelled"} \cup Permitted \cup Failures

TypeOK ==
    /\ stage \in [Calls -> {"idle", "running", "retry", "done", "failed"}]
    /\ try \in [Calls -> 0..MaxTries]
    /\ cause \in [Calls -> {"none", "timeout"} \cup Failures]
    /\ batch \in [Calls -> [Batches -> BatchStates]]
    /\ attempt \in [Calls -> [Batches -> 0..MaxRetries]]
    /\ thread \in [Threads -> ThreadStates]
    /\ loads \in 0..MaxLoads
    /\ cacheLock \in Threads \cup {Nobody}
    /\ encodeLock \in Threads \cup {Nobody}

Init ==
    /\ stage = [c \in Calls |-> "idle"]
    /\ try = [c \in Calls |-> 0]
    /\ cause = [c \in Calls |-> "none"]
    /\ batch = [c \in Calls |-> [b \in Batches |-> "waiting"]]
    /\ attempt = [c \in Calls |-> [b \in Batches |-> 0]]
    /\ thread = [t \in Threads |-> "none"]
    /\ loads = 0
    /\ cacheLock = Nobody
    /\ encodeLock = Nobody

-----------------------------------------------------------------------------
(***************************************************************************)
(* Threads                                                                 *)
(***************************************************************************)

Goes(t, from, to) ==
    /\ thread[t] = from
    /\ thread' = [thread EXCEPT ![t] = to]
    /\ UNCHANGED callVars

\* The coroutine that awaits a thread, if it has not been cancelled.
Awaited(t) == stage[t[1]] = "running" /\ try[t[1]] = t[3] /\ batch[t[1]][t[2]] = "trying"

\* What a thread ends with goes to its coroutine, or nowhere.
Ends(t, from, outcome) == Goes(t, from, IF Awaited(t) THEN outcome ELSE "none")

Starts(t) ==
    /\ Goes(t, "queued", "lookup")
    /\ Cardinality({u \in Threads : thread[u] \in Working}) < PoolSize
    /\ UNCHANGED modelVars

\* get_or_load's fast path: a lookup without the lock.
LooksUp(t) ==
    /\ Goes(t, "lookup", IF loads > 0 THEN "encode_wait" ELSE "slow_path")
    /\ UNCHANGED modelVars

\* Mutant: the second lookup is missing.
EntersSlowPathUnchecked(t) ==
    /\ cacheLock = Nobody
    /\ Goes(t, "slow_path", "load")
    /\ cacheLock' = t
    /\ UNCHANGED <<loads, encodeLock>>

\* The slow path: the second lookup, with _CACHE_LOCK held.
EntersSlowPath(t) ==
    /\ cacheLock = Nobody
    /\ IF loads > 0
         THEN Goes(t, "slow_path", "encode_wait") /\ UNCHANGED cacheLock
         ELSE Goes(t, "slow_path", "load") /\ cacheLock' = t
    /\ UNCHANGED <<loads, encodeLock>>

\* The model is cached together with a new lock.
Loads(t) ==
    /\ loads < MaxLoads
    /\ Goes(t, "load", "encode_wait")
    /\ loads' = loads + 1
    /\ cacheLock' = Nobody
    /\ encodeLock' = Nobody

\* Mutant: acquire and release instead of a with block.
LoadFailsHoldingLock(t, kind) ==
    /\ Ends(t, "load", kind)
    /\ UNCHANGED modelVars

\* The loader's error leaves nothing in the cache.
LoadFails(t, kind) ==
    /\ Ends(t, "load", kind)
    /\ cacheLock' = Nobody
    /\ UNCHANGED <<loads, encodeLock>>

\* Mutant: model.encode outside the lock.
TakesModelUnlocked(t) ==
    /\ Goes(t, "encode_wait", "encode")
    /\ encodeLock' = t
    /\ UNCHANGED <<loads, cacheLock>>

TakesModel(t) ==
    /\ encodeLock = Nobody
    /\ Goes(t, "encode_wait", "encode")
    /\ encodeLock' = t
    /\ UNCHANGED <<loads, cacheLock>>

\* model.encode returns or raises; a result of the wrong shape is permanent.
Encodes(t, outcome) ==
    /\ Ends(t, "encode", outcome)
    /\ encodeLock' = IF encodeLock = t THEN Nobody ELSE encodeLock
    /\ UNCHANGED <<loads, cacheLock>>

ThreadStep(t) ==
    \/ Starts(t) \/ LooksUp(t) \/ EntersSlowPath(t) \/ Loads(t) \/ TakesModel(t)
    \/ \E kind \in Failures : LoadFails(t, kind)
    \/ \E outcome \in Returned : Encodes(t, outcome)

-----------------------------------------------------------------------------
(***************************************************************************)
(* The coroutines of a call, in the event loop                             *)
(***************************************************************************)

Own(c, b) == <<c, b, try[c]>>

\* client.embed_passages: the batch is submitted to the executor.
Submits(c, b) ==
    /\ thread' = [thread EXCEPT ![Own(c, b)] = "queued"]
    /\ batch' = [batch EXCEPT ![c][b] = "trying"]
    /\ attempt' = [attempt EXCEPT ![c][b] = @ + 1]
    /\ UNCHANGED <<stage, try, cause, modelVars>>

\* Mutant: no semaphore.
EntersAtOnce(c, b) ==
    /\ stage[c] = "running" /\ batch[c][b] = "waiting"
    /\ Submits(c, b)

\* one_batch passes the semaphore.
Enters(c, b) ==
    /\ stage[c] = "running" /\ batch[c][b] = "waiting"
    /\ Cardinality({a \in Batches : batch[c][a] \in Permitted}) < Concurrency
    /\ Submits(c, b)

Retries(c, b) ==
    /\ stage[c] = "running" /\ batch[c][b] = "backoff"
    /\ Submits(c, b)

\* with_async_backoff and _embed_with_retry: a transient failure is retried
\* until the attempts are used up, a permanent one is not.
Receives(c, b) ==
    LET outcome == thread[Own(c, b)]
    IN  /\ stage[c] = "running" /\ batch[c][b] = "trying"
        /\ outcome \in Returned
        /\ thread' = [thread EXCEPT ![Own(c, b)] = "none"]
        /\ batch' = [batch EXCEPT ![c][b] =
                        IF outcome = "transient" /\ attempt[c][b] < MaxRetries
                          THEN "backoff" ELSE outcome]
        /\ UNCHANGED <<stage, try, cause, attempt, modelVars>>

\* Cancelled coroutines: what no thread has taken leaves the executor's
\* queue; what a thread works on is only no longer awaited.
Cancels(c) ==
    /\ thread' = [t \in Threads |->
                    IF t[1] = c /\ thread[t] \notin Working THEN "none" ELSE thread[t]]
    /\ batch' = [batch EXCEPT ![c] = [b \in Batches |->
                    IF @[b] \in {"waiting"} \cup Permitted THEN "cancelled" ELSE @[b]]]

\* The except clauses of run_stage.  A TaskGroup raises an ExceptionGroup,
\* which none of _PERMANENT_ERRORS matches, whatever its members are; and a
\* timeout is a TransientEmbeddingError.  So no kind of failure is final.
FailsTry(c, why) ==
    /\ cause' = [cause EXCEPT ![c] = why]
    /\ stage' = [stage EXCEPT ![c] = IF try[c] < MaxTries THEN "retry" ELSE "failed"]
    /\ UNCHANGED <<try, attempt, modelVars>>

\* The TaskGroup learns that a batch has failed, cancels the others and raises.
Aborts(c) ==
    /\ stage[c] = "running"
    /\ \E b \in Batches : batch[c][b] \in Failures
    /\ Cancels(c)
    /\ FailsTry(c, IF \E b \in Batches : batch[c][b] = "permanent"
                     THEN "permanent" ELSE "transient")

\* Mutant: the coroutine waits for its threads before it ends.
TimesOutAfterThreads(c) ==
    /\ stage[c] = "running"
    /\ \A b \in Batches : thread[Own(c, b)] \notin Working
    /\ Cancels(c)
    /\ FailsTry(c, "timeout")

\* Ingester.embed: embed_timeout_s have passed.
TimesOut(c) ==
    /\ stage[c] = "running"
    /\ Cancels(c)
    /\ FailsTry(c, "timeout")

\* do_embed returns; the artifact is stored and the stage completed elsewhere.
Completes(c) ==
    /\ stage[c] = "running"
    /\ \A b \in Batches : batch[c][b] = "ok"
    /\ stage' = [stage EXCEPT ![c] = "done"]
    /\ UNCHANGED <<try, cause, batch, attempt, thread, modelVars>>

\* ARQ delivers the job, again after a Retry.
Delivers(c) ==
    /\ stage[c] \in {"idle", "retry"}
    /\ stage' = [stage EXCEPT ![c] = "running"]
    /\ try' = [try EXCEPT ![c] = @ + 1]
    /\ batch' = [batch EXCEPT ![c] = [b \in Batches |-> "waiting"]]
    /\ attempt' = [attempt EXCEPT ![c] = [b \in Batches |-> 0]]
    /\ UNCHANGED <<cause, thread, modelVars>>

CallStep(c) ==
    \/ Delivers(c) \/ Aborts(c) \/ TimesOut(c) \/ Completes(c)
    \/ \E b \in Batches : Enters(c, b) \/ Retries(c, b) \/ Receives(c, b)

Next == (\E t \in Threads : ThreadStep(t)) \/ (\E c \in Calls : CallStep(c))

Spec == Init /\ [][Next]_vars

\* The timer fires and ARQ redelivers.  Nothing is assumed of the threads: a
\* load or an encode may hang for ever, with or without a lock.
FairSpec ==
    /\ Spec
    /\ \A c \in Calls : WF_vars(TimesOut(c)) /\ WF_vars(Delivers(c))

-----------------------------------------------------------------------------
(***************************************************************************)
(* Properties                                                              *)
(***************************************************************************)

\* The model is loaded once per process, however many threads, of however
\* many tries and calls, ask for it first: two copies may not fit in memory,
\* and they would be used under two locks.
LoadedOnce == loads <= 1

\* _CACHE_LOCK is held exactly while a model is being loaded and the model's
\* lock exactly while it is used, on every path out, by threads that are
\* awaited or not: at most one thread uses the model, and no failure leaves a
\* lock behind that would block every later call.
LocksMatchWork ==
    /\ \A t \in Threads : thread[t] = "load" <=> cacheLock = t
    /\ \A t \in Threads : thread[t] = "encode" <=> encodeLock = t

\* The semaphore bounds the coroutines of a try; what it is for is bounding
\* the threads, and those outlive the try: a call occupies at most Concurrency
\* threads per try it has begun.
ThreadsAreBounded ==
    \A c \in Calls :
        Cardinality({t \in Threads : t[1] = c /\ thread[t] \in Working})
            <= Concurrency * try[c]

\* A call that ARQ has taken ends, done or failed, even if every thread hangs
\* with the model's lock.
CallsSettle ==
    \A c \in Calls : stage[c] = "running" ~> stage[c] \in {"done", "failed"}

\* do_embed's docstring: "PermanentEmbeddingError: The embedder returned a
\* malformed vector. Not retryable."
PermanentIsFinal ==
    \A c \in Calls : stage[c] = "retry" => cause[c] # "permanent"
=============================================================================
