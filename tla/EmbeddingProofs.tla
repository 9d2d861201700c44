-------------------------- MODULE EmbeddingProofs --------------------------
(***************************************************************************)
(* The model is loaded once, its locks are held exactly while they are     *)
(* needed, and the threads of a call stay bounded although they outlive    *)
(* the tries that started them; for any number of calls, batches, tries,   *)
(* retries and threads.                                                    *)
(*                                                                         *)
(* The locks and the one load are proved together: a thread enters the     *)
(* model's lock only after the load, and the load, which makes a new lock, *)
(* happens only once, so that no thread is inside the old one.             *)
(*                                                                         *)
(* The bound on the threads counts those of earlier tries and those of the *)
(* try that is running separately: nobody joins the former, and the latter *)
(* are of batches that are past the semaphore.                             *)
(***************************************************************************)
EXTENDS Embedding, FunctionTheorems, FiniteSetTheorems, TLAPS

\* A call that may be delivered has a try left.
TriesLeft ==
    \A c \in Calls :
        /\ stage[c] \in {"idle", "retry"} => try[c] < MaxTries
        /\ stage[c] = "running" => try[c] # 0

\* No thread belongs to a try that was not begun, and none to a batch of the
\* running try that does not await it.
OwnThreads ==
    /\ \A t \in Threads : t[3] > try[t[1]] => thread[t] = "none"
    /\ \A c \in Calls, b \in Batches :
          stage[c] = "running" /\ batch[c][b] # "trying" => thread[Own(c, b)] = "none"

\* Only the try that is running waits for the executor or has results to read.
Owed == {"queued"} \cup Returned

OwedToRunning ==
    \A t \in Threads : thread[t] \in Owed => stage[t[1]] = "running" /\ try[t[1]] = t[3]

\* A model is used after it was loaded and loaded while there is none.
LoadsFirst ==
    /\ \A t \in Threads : thread[t] = "load" => loads = 0
    /\ \A t \in Threads : thread[t] \in {"encode_wait", "encode"} => loads > 0

\* A batch that waits to be submitted has an attempt left.
AttemptsLeft ==
    \A c \in Calls, b \in Batches :
        stage[c] = "running" /\ batch[c][b] \in {"waiting", "backoff"} =>
            attempt[c][b] < MaxRetries

CallRules == TriesLeft /\ AttemptsLeft /\ OwnThreads /\ OwedToRunning
ModelRules == LoadsFirst /\ LoadedOnce /\ LocksMatchWork

EmbeddingInv == TypeOK /\ CallRules /\ ModelRules

Busy(c) == {t \in Threads : t[1] = c /\ thread[t] \in Working}
Earlier(c) == {t \in Busy(c) : t[3] # try[c]}
Admitted(c) == {b \in Batches : batch[c][b] \in Permitted}

\* The bound on a call's threads, with those of earlier tries counted apart
\* from the batches the semaphore has admitted to the running one.
Counted(c) ==
    /\ IsFiniteSet(Busy(c))
    /\ stage[c] = "running" =>
          /\ Cardinality(Earlier(c)) <= Concurrency * (try[c] - 1)
          /\ Cardinality(Admitted(c)) <= Concurrency
    /\ stage[c] # "running" => Cardinality(Busy(c)) <= Concurrency * try[c]

BoundInv == EmbeddingInv /\ \A c \in Calls : Counted(c)

(***************************************************************************)
(* Types                                                                   *)
(***************************************************************************)

LEMMA ThreadParts ==
    ASSUME NEW t \in Threads
    PROVE  /\ t[1] \in Calls /\ t[2] \in Batches /\ t[3] \in Tries
           /\ t = <<t[1], t[2], t[3]>> /\ t # Nobody
BY DEF Threads, Nobody

LEMMA OwnIsThread ==
    ASSUME NEW c \in Calls, NEW b \in Batches, try[c] \in Tries
    PROVE  /\ Own(c, b) \in Threads
           /\ Own(c, b)[1] = c /\ Own(c, b)[2] = b /\ Own(c, b)[3] = try[c]
BY DEF Own, Threads

LEMMA ThreadType ==
    ASSUME TypeOK, NEW t \in Threads, ThreadStep(t)
    PROVE  TypeOK'
<1> USE DEF TypeOK, Goes, Ends, callVars, modelVars, ThreadStates, Working, Returned, Failures
<1>1. CASE Starts(t) \/ LooksUp(t) \/ EntersSlowPath(t) \/ TakesModel(t)
    BY <1>1 DEF Starts, LooksUp, EntersSlowPath, TakesModel
<1>2. CASE Loads(t)
  <2>1. loads + 1 \in 0..MaxLoads
      BY <1>2, LoadsAssumption DEF Loads
  <2> QED BY <1>2, <2>1 DEF Loads
<1>3. ASSUME NEW kind \in Failures, LoadFails(t, kind) PROVE TypeOK'
    BY <1>3 DEF LoadFails
<1>4. ASSUME NEW outcome \in Returned, Encodes(t, outcome) PROVE TypeOK'
    BY <1>4 DEF Encodes
<1> QED BY <1>1, <1>2, <1>3, <1>4 DEF ThreadStep

LEMMA SubmitsType ==
    ASSUME TypeOK, NEW c \in Calls, NEW b \in Batches, Submits(c, b),
           try[c] \in Tries, attempt[c][b] < MaxRetries
    PROVE  TypeOK'
<1> USE DEF TypeOK
<1>1. thread' \in [Threads -> ThreadStates]
    BY DEF Submits, ThreadStates
<1>2. batch' \in [Calls -> [Batches -> BatchStates]]
    BY DEF Submits, BatchStates, Permitted
<1>3. attempt' \in [Calls -> [Batches -> 0..MaxRetries]]
  <2>1. attempt[c][b] + 1 \in 0..MaxRetries
      BY RetriesAssumption
  <2> QED BY <2>1 DEF Submits
<1> QED BY <1>1, <1>2, <1>3 DEF Submits, modelVars

LEMMA CallType ==
    ASSUME EmbeddingInv, NEW c \in Calls, CallStep(c)
    PROVE  TypeOK'
<1>type. TypeOK /\ TriesLeft /\ AttemptsLeft
    BY DEF EmbeddingInv, CallRules
<1>try. stage[c] = "running" => try[c] \in Tries
    BY <1>type, TriesAssumption DEF TypeOK, TriesLeft, Tries
<1>1. CASE Delivers(c)
  <2>1. try[c] + 1 \in 0..MaxTries
      BY <1>1, <1>type, TriesAssumption DEF Delivers, TypeOK, TriesLeft
  <2>2. [b \in Batches |-> "waiting"] \in [Batches -> BatchStates]
      BY DEF BatchStates
  <2>3. [b \in Batches |-> 0] \in [Batches -> 0..MaxRetries]
      BY RetriesAssumption
  <2> QED BY <1>1, <1>type, <2>1, <2>2, <2>3 DEF Delivers, TypeOK, modelVars
<1>ends. ASSUME Cancels(c), NEW why \in {"timeout"} \cup Failures, FailsTry(c, why)
         PROVE  TypeOK'
  <2>1. thread' \in [Threads -> ThreadStates]
      BY <1>ends, <1>type DEF Cancels, TypeOK, ThreadStates
  <2>2. batch' \in [Calls -> [Batches -> BatchStates]]
      BY <1>ends, <1>type DEF Cancels, TypeOK, BatchStates
  <2> QED BY <1>ends, <1>type, <2>1, <2>2 DEF FailsTry, TypeOK, modelVars
<1>2. CASE Aborts(c)
    BY <1>2, <1>ends DEF Aborts, Failures
<1>3. CASE TimesOut(c)
    BY <1>3, <1>ends DEF TimesOut
<1>4. CASE Completes(c)
    BY <1>4, <1>type DEF Completes, TypeOK, modelVars
<1>5. ASSUME NEW b \in Batches, Enters(c, b) \/ Retries(c, b) PROVE TypeOK'
    BY <1>5, <1>type, <1>try, SubmitsType DEF Enters, Retries, AttemptsLeft
<1>6. ASSUME NEW b \in Batches, Receives(c, b) PROVE TypeOK'
  <2>1. thread' \in [Threads -> ThreadStates]
      BY <1>6, <1>type DEF Receives, TypeOK, ThreadStates
  <2>2. batch' \in [Calls -> [Batches -> BatchStates]]
      BY <1>6, <1>type DEF Receives, TypeOK, BatchStates, Permitted, Returned
  <2> QED BY <1>6, <1>type, <2>1, <2>2 DEF Receives, TypeOK, modelVars
<1> QED BY <1>1, <1>2, <1>3, <1>4, <1>5, <1>6 DEF CallStep

(***************************************************************************)
(* Calls and their threads                                                 *)
(***************************************************************************)

\* A thread's step leaves the coroutines alone, and what it ends with is owed
\* to one that awaits it.
LEMMA ThreadKeepsCalls ==
    ASSUME EmbeddingInv, NEW t \in Threads, NEW from \in {"queued"} \cup Working,
           NEW to \in Working \cup Returned \cup {"none"}, Goes(t, from, to),
           to \in Returned => Awaited(t)
    PROVE  CallRules'
<1> USE DEF EmbeddingInv, CallRules, Goes, callVars
<1>type. thread \in [Threads -> ThreadStates]
    BY DEF TypeOK
<1>1. TriesLeft' /\ AttemptsLeft'
    BY DEF TriesLeft, AttemptsLeft
<1>from. from \notin {"none"} \cup Returned
    BY DEF Working, Returned, Failures
<1>2. OwnThreads'
    BY <1>type, <1>from DEF OwnThreads, Own
<1>3. OwedToRunning'
  <2>1. to # "queued"
      BY DEF Working, Returned, Failures
  <2> QED BY <1>type, <2>1 DEF OwedToRunning, Owed, Awaited, Working, Returned, Failures
<1> QED BY <1>1, <1>2, <1>3

LEMMA ThreadStepKeepsCalls ==
    ASSUME EmbeddingInv, NEW t \in Threads, ThreadStep(t)
    PROVE  CallRules'
<1> USE DEF Working, Returned, Failures
<1>1. ASSUME NEW from \in {"queued"} \cup Working, NEW outcome \in Returned,
             Ends(t, from, outcome)
      PROVE  CallRules'
    BY <1>1, ThreadKeepsCalls DEF Ends
<1>2. CASE Starts(t) \/ LooksUp(t) \/ EntersSlowPath(t) \/ Loads(t) \/ TakesModel(t)
  <2>1. PICK from \in {"queued"} \cup Working, to \in Working : Goes(t, from, to)
      BY <1>2 DEF Starts, LooksUp, EntersSlowPath, Loads, TakesModel
  <2> QED BY <2>1, ThreadKeepsCalls
<1>3. ASSUME NEW kind \in Failures, LoadFails(t, kind) PROVE CallRules'
    BY <1>1, <1>3 DEF LoadFails
<1>4. ASSUME NEW outcome \in Returned, Encodes(t, outcome) PROVE CallRules'
    BY <1>1, <1>4 DEF Encodes
<1> QED BY <1>2, <1>3, <1>4 DEF ThreadStep

LEMMA RunningOwns ==
    ASSUME TypeOK, TriesLeft
    PROVE  \A c \in Calls, b \in Batches : stage[c] = "running" => Own(c, b) \in Threads
BY TriesAssumption, OwnIsThread DEF TypeOK, TriesLeft, Tries

\* A batch of the running try is submitted: its thread was free.
LEMMA SubmitsKeeps ==
    ASSUME EmbeddingInv, NEW c \in Calls, NEW b \in Batches, Submits(c, b),
           stage[c] = "running", batch[c][b] \in {"waiting", "backoff"}
    PROVE  /\ CallRules' /\ ModelRules'
           /\ Own(c, b) \in Threads /\ thread[Own(c, b)] = "none"
           /\ thread' = [thread EXCEPT ![Own(c, b)] = "queued"]
<1> USE DEF EmbeddingInv, CallRules
<1>type. /\ thread \in [Threads -> ThreadStates]
         /\ batch \in [Calls -> [Batches -> BatchStates]]
         /\ attempt \in [Calls -> [Batches -> 0..MaxRetries]]
    BY DEF TypeOK
<1>own. /\ Own(c, b) \in Threads /\ thread[Own(c, b)] = "none"
        /\ Own(c, b)[1] = c /\ Own(c, b)[2] = b /\ Own(c, b)[3] = try[c]
  <2>1. try[c] \in Tries
      BY TriesAssumption DEF TypeOK, TriesLeft, Tries
  <2> QED BY <2>1, OwnIsThread DEF OwnThreads
<1>1. TriesLeft' /\ AttemptsLeft'
    BY <1>type DEF TriesLeft, AttemptsLeft, Submits
<1>2. OwnThreads'
  <2>1. \A t \in Threads : t[3] > try[t[1]] => t # Own(c, b)
      BY <1>own DEF TypeOK
  <2>2. \A d \in Calls, a \in Batches :
            Own(d, a)' = Own(d, a) /\ (Own(d, a) = Own(c, b) => d = c /\ a = b)
      BY DEF Own, Submits
  <2>3. \A d \in Calls, a \in Batches : d # c \/ a # b => batch'[d][a] = batch[d][a]
      BY <1>type DEF Submits
  <2>4. batch'[c][b] = "trying"
      BY <1>type DEF Submits
  <2>5. /\ UNCHANGED <<stage, try>>
        /\ \A t \in Threads : t # Own(c, b) => thread'[t] = thread[t]
      BY <1>type DEF Submits
  <2>6. \A t \in Threads : t[3] > try'[t[1]] => thread'[t] = "none"
      BY <2>1, <2>5 DEF OwnThreads
  <2>7. ASSUME NEW d \in Calls, NEW a \in Batches,
               stage'[d] = "running", batch'[d][a] # "trying"
        PROVE  thread'[Own(d, a)'] = "none"
    <3>1. try[d] \in Tries
        BY <2>5, <2>7, TriesAssumption DEF TypeOK, TriesLeft, Tries
    <3>2. Own(d, a) \in Threads /\ Own(d, a) # Own(c, b)
        BY <2>2, <2>4, <2>7, <3>1, OwnIsThread
    <3> QED BY <2>2, <2>3, <2>4, <2>5, <2>7, <3>2 DEF OwnThreads
  <2> QED BY <2>6, <2>7 DEF OwnThreads
<1>3. OwedToRunning'
    BY <1>type, <1>own DEF OwedToRunning, Submits
<1>4. ModelRules'
    BY <1>type, <1>own DEF ModelRules, LoadsFirst, LoadedOnce, LocksMatchWork, Submits,
       modelVars
<1> QED BY <1>own, <1>1, <1>2, <1>3, <1>4 DEF Submits

\* The other steps of a call keep every working thread where it is and free
\* threads only.
Frees ==
    \A t \in Threads : \/ thread'[t] = thread[t]
                       \/ thread[t] \notin Working /\ thread'[t] = "none"

LEMMA FreesKeepsModel ==
    ASSUME ModelRules, Frees, UNCHANGED modelVars
    PROVE  ModelRules'
BY DEF ModelRules, LoadsFirst, LoadedOnce, LocksMatchWork, modelVars, Frees, Working

LEMMA ReceivesKeeps ==
    ASSUME EmbeddingInv, NEW c \in Calls, NEW b \in Batches, Receives(c, b)
    PROVE  CallRules' /\ ModelRules' /\ Frees
<1> USE DEF EmbeddingInv, CallRules
<1>type. /\ thread \in [Threads -> ThreadStates]
         /\ batch \in [Calls -> [Batches -> BatchStates]]
    BY DEF TypeOK
<1>frees. Frees
    BY <1>type DEF Receives, Frees, Working, Returned, Failures
<1>1. TriesLeft' /\ AttemptsLeft'
    BY <1>type DEF TriesLeft, AttemptsLeft, Receives, Returned, Failures
<1>2. OwnThreads'
  <2>1. \A d \in Calls, a \in Batches : stage[d] = "running" => Own(d, a) \in Threads
      BY RunningOwns
  <2>2. ASSUME NEW d \in Calls, NEW a \in Batches,
               stage[d] = "running", batch'[d][a] # "trying"
        PROVE  thread'[Own(d, a)] = "none"
    <3>1. CASE d = c /\ a = b
        BY <1>type, <2>1, <2>2, <3>1 DEF Receives
    <3>2. CASE ~(d = c /\ a = b)
      <4>1. batch'[d][a] = batch[d][a]
          BY <1>type, <3>2 DEF Receives
      <4> QED BY <2>1, <2>2, <4>1, <1>frees DEF OwnThreads, Frees
    <3> QED BY <3>1, <3>2
  <2> QED BY <2>2, <1>frees DEF OwnThreads, Own, Receives, Frees
<1>3. OwedToRunning'
    BY <1>frees DEF OwedToRunning, Receives, Frees, Owed, Returned, Failures
<1> QED BY <1>1, <1>2, <1>3, <1>frees, FreesKeepsModel DEF Receives

LEMMA EndOfTryKeeps ==
    ASSUME EmbeddingInv, NEW c \in Calls, stage[c] = "running",
           Cancels(c), NEW why, FailsTry(c, why)
    PROVE  CallRules' /\ ModelRules' /\ Frees
<1> USE DEF EmbeddingInv, CallRules
<1>type. /\ thread \in [Threads -> ThreadStates]
         /\ batch \in [Calls -> [Batches -> BatchStates]]
         /\ stage \in [Calls -> {"idle", "running", "retry", "done", "failed"}]
    BY DEF TypeOK
<1>frees. Frees
    BY DEF Cancels, Frees
<1>stage. /\ stage'[c] # "running" /\ (stage'[c] = "retry" => try[c] < MaxTries)
          /\ stage'[c] # "idle"
          /\ \A d \in Calls : d # c => stage'[d] = stage[d] /\ batch'[d] = batch[d]
          /\ UNCHANGED <<try, attempt>>
    BY <1>type DEF FailsTry, Cancels
<1>1. TriesLeft' /\ AttemptsLeft'
    BY <1>stage DEF TriesLeft, AttemptsLeft
<1>2. OwnThreads'
  <2>1. \A d \in Calls, a \in Batches : stage[d] = "running" => Own(d, a) \in Threads
      BY RunningOwns
  <2>2. \A d \in Calls : stage'[d] = "running" => stage[d] = "running" /\ batch'[d] = batch[d]
      BY <1>stage
  <2> QED BY <1>stage, <1>frees, <2>1, <2>2 DEF OwnThreads, Own, Frees
<1>3. OwedToRunning'
  <2>1. \A t \in Threads : t[1] = c => thread'[t] \notin Owed
      BY DEF Cancels, Owed, Working, Returned, Failures
  <2>2. \A t \in Threads : t[1] \in Calls /\ (t[1] # c => thread'[t] = thread[t])
      BY ThreadParts DEF Cancels
  <2> QED BY <2>1, <2>2, <1>stage DEF OwedToRunning
<1> QED BY <1>1, <1>2, <1>3, <1>frees, FreesKeepsModel DEF FailsTry

\* A try begins with threads nobody has used, and with nothing owed to it.
LEMMA DeliversKeeps ==
    ASSUME EmbeddingInv, NEW c \in Calls, Delivers(c)
    PROVE  CallRules'
<1> USE DEF EmbeddingInv, CallRules
<1>type. /\ try \in [Calls -> 0..MaxTries] /\ try[c] \in Nat
         /\ stage \in [Calls -> {"idle", "running", "retry", "done", "failed"}]
         /\ batch \in [Calls -> [Batches -> BatchStates]]
         /\ attempt \in [Calls -> [Batches -> 0..MaxRetries]]
    BY DEF TypeOK
<1>step. /\ stage[c] # "running" /\ stage'[c] = "running"
         /\ try'[c] = try[c] + 1 /\ try'[c] \in Tries
         /\ \A b \in Batches : attempt'[c][b] = 0
         /\ \A d \in Calls : d # c => /\ stage'[d] = stage[d] /\ try'[d] = try[d]
                                      /\ batch'[d] = batch[d] /\ attempt'[d] = attempt[d]
         /\ UNCHANGED thread
    BY <1>type, TriesAssumption DEF Delivers, TriesLeft, Tries
<1>1. TriesLeft' /\ AttemptsLeft'
  <2>1. TriesLeft'
      BY <1>type, <1>step DEF TriesLeft, Tries
  <2>2. AttemptsLeft'
      BY <1>type, <1>step, RetriesAssumption DEF AttemptsLeft
  <2> QED BY <2>1, <2>2
<1>2. OwnThreads'
  <2>1. ASSUME NEW t \in Threads, t[3] > try'[t[1]] PROVE thread'[t] = "none"
    <3>1. t[1] \in Calls /\ t[3] \in Nat
        BY ThreadParts DEF Tries
    <3> QED BY <3>1, <2>1, <1>type, <1>step DEF OwnThreads
  <2>2. ASSUME NEW d \in Calls, NEW b \in Batches, stage'[d] = "running", batch'[d][b] # "trying"
        PROVE  thread'[Own(d, b)'] = "none"
    <3>1. CASE d # c
        BY <2>2, <3>1, <1>step DEF OwnThreads, Own
    <3>2. CASE d = c
      <4>1. Own(c, b)' \in Threads /\ Own(c, b)'[1] = c /\ Own(c, b)'[3] > try[c]
          BY <1>type, <1>step DEF Own, Threads
      <4> QED BY <3>2, <4>1, <1>step DEF OwnThreads
    <3> QED BY <3>1, <3>2
  <2> QED BY <2>1, <2>2 DEF OwnThreads
<1>3. OwedToRunning'
    BY <1>step, ThreadParts DEF OwedToRunning
<1> QED BY <1>1, <1>2, <1>3

LEMMA CompletesKeeps ==
    ASSUME EmbeddingInv, NEW c \in Calls, Completes(c)
    PROVE  CallRules'
<1> USE DEF EmbeddingInv, CallRules
<1>step. /\ stage[c] = "running" /\ stage'[c] = "done"
         /\ \A d \in Calls : d # c => stage'[d] = stage[d]
         /\ UNCHANGED <<try, batch, attempt, thread>>
    BY DEF Completes, TypeOK
<1>1. TriesLeft' /\ AttemptsLeft'
    BY <1>step DEF TriesLeft, AttemptsLeft
<1>2. OwnThreads'
    BY <1>step DEF OwnThreads, Own
<1>3. OwedToRunning'
  <2>1. ASSUME NEW t \in Threads, thread[t] \in Owed PROVE t[1] # c
    <3>1. t[1] \in Calls /\ t[2] \in Batches /\ t = <<t[1], t[2], t[3]>>
        BY ThreadParts
    <3>2. t[1] = c => t = Own(c, t[2])
        BY <2>1, <3>1 DEF OwedToRunning, Own
    <3>3. t[1] = c => thread[t] = "none"
        BY <3>1, <3>2, <1>step DEF Completes, OwnThreads
    <3> QED BY <2>1, <3>3 DEF Owed, Returned, Failures
  <2> QED BY <2>1, <1>step, ThreadParts DEF OwedToRunning
<1> QED BY <1>1, <1>2, <1>3

LEMMA CallStepKeeps ==
    ASSUME EmbeddingInv, NEW c \in Calls, CallStep(c)
    PROVE  CallRules' /\ ModelRules'
<1>1. CASE Delivers(c) \/ Completes(c)
  <2>1. UNCHANGED <<thread, modelVars>>
      BY <1>1 DEF Delivers, Completes
  <2>2. Frees
      BY <2>1 DEF Frees
  <2> QED BY <1>1, <2>1, <2>2, DeliversKeeps, CompletesKeeps, FreesKeepsModel DEF EmbeddingInv
<1>2. CASE Aborts(c) \/ TimesOut(c)
    BY <1>2, EndOfTryKeeps DEF Aborts, TimesOut
<1>3. ASSUME NEW b \in Batches, Enters(c, b) \/ Retries(c, b)
      PROVE  CallRules' /\ ModelRules'
    BY <1>3, SubmitsKeeps DEF Enters, Retries
<1>4. ASSUME NEW b \in Batches, Receives(c, b)
      PROVE  CallRules' /\ ModelRules'
    BY <1>4, ReceivesKeeps
<1> QED BY <1>1, <1>2, <1>3, <1>4 DEF CallStep

(***************************************************************************)
(* The model                                                               *)
(***************************************************************************)

\* Loads makes a new lock; nobody can be inside the old one, since nobody has
\* passed a load yet.
LEMMA ThreadStepKeepsModel ==
    ASSUME EmbeddingInv, NEW t \in Threads, ThreadStep(t)
    PROVE  ModelRules'
<1> USE DEF EmbeddingInv, ModelRules, LoadsFirst, LoadedOnce, LocksMatchWork, Goes
<1>type. /\ thread \in [Threads -> ThreadStates] /\ loads \in Nat /\ t # Nobody
         /\ \A u \in Threads : u # Nobody
    BY ThreadParts DEF TypeOK
<1>1. CASE Starts(t)
    BY <1>1, <1>type DEF Starts, modelVars
<1>2. CASE LooksUp(t)
    BY <1>2, <1>type DEF LooksUp, modelVars
<1>3. CASE EntersSlowPath(t)
    BY <1>3, <1>type DEF EntersSlowPath
<1>4. CASE Loads(t)
  <2>1. loads = 0 /\ loads' = 1
      BY <1>4, <1>type DEF Loads
  <2>2. \A u \in Threads : thread[u] \notin {"encode_wait", "encode"}
      BY <2>1
  <2> QED BY <1>4, <2>1, <2>2, <1>type DEF Loads
<1>5. CASE TakesModel(t)
    BY <1>5, <1>type DEF TakesModel
<1>6. ASSUME NEW kind \in Failures, LoadFails(t, kind) PROVE ModelRules'
    BY <1>6, <1>type DEF LoadFails, Ends, Failures
<1>7. ASSUME NEW outcome \in Returned, Encodes(t, outcome) PROVE ModelRules'
    BY <1>7, <1>type DEF Encodes, Ends, Returned, Failures
<1> QED BY <1>1, <1>2, <1>3, <1>4, <1>5, <1>6, <1>7 DEF ThreadStep

LEMMA EmbeddingInvInit == Init => EmbeddingInv
<1> SUFFICES ASSUME Init PROVE EmbeddingInv
    OBVIOUS
<1>1. TypeOK
    BY TriesAssumption, RetriesAssumption, LoadsAssumption
       DEF Init, TypeOK, BatchStates, ThreadStates
<1>2. CallRules
    BY TriesAssumption, ThreadParts
       DEF Init, CallRules, TriesLeft, AttemptsLeft, OwnThreads, OwedToRunning, Owed,
           Returned, Failures
<1>3. ModelRules
    BY ThreadParts DEF Init, ModelRules, LoadsFirst, LoadedOnce, LocksMatchWork
<1> QED BY <1>1, <1>2, <1>3 DEF EmbeddingInv

LEMMA EmbeddingInvStep == EmbeddingInv /\ [Next]_vars => EmbeddingInv'
<1> SUFFICES ASSUME EmbeddingInv, [Next]_vars PROVE EmbeddingInv'
    OBVIOUS
<1>1. ASSUME NEW t \in Threads, ThreadStep(t) PROVE EmbeddingInv'
    BY <1>1, ThreadType, ThreadStepKeepsCalls, ThreadStepKeepsModel DEF EmbeddingInv
<1>2. ASSUME NEW c \in Calls, CallStep(c) PROVE EmbeddingInv'
    BY <1>2, CallType, CallStepKeeps DEF EmbeddingInv
<1>3. CASE UNCHANGED vars
    BY <1>3 DEF vars, callVars, modelVars, EmbeddingInv, TypeOK, CallRules, TriesLeft,
       AttemptsLeft, OwnThreads, Own, OwedToRunning, ModelRules, LoadsFirst, LoadedOnce,
       LocksMatchWork
<1> QED BY <1>1, <1>2, <1>3 DEF Next

LEMMA EmbeddingInvCorrect == Spec => []EmbeddingInv
BY EmbeddingInvInit, EmbeddingInvStep, PTL DEF Spec

\* The model is loaded once per process, however many threads ask for it first.
THEOREM LoadedOnceCorrect == Spec => []LoadedOnce
BY EmbeddingInvCorrect, PTL DEF EmbeddingInv, ModelRules

\* _CACHE_LOCK and the model's lock are held exactly while a model is loaded and
\* used: at most one thread uses it, and no path leaves a lock behind.
THEOREM LocksMatchWorkCorrect == Spec => []LocksMatchWork
BY EmbeddingInvCorrect, PTL DEF EmbeddingInv, ModelRules

(***************************************************************************)
(* Counting threads                                                        *)
(***************************************************************************)

LEMMA AdmittedIsFinite ==
    ASSUME NEW c \in Calls
    PROVE  IsFiniteSet(Admitted(c)) /\ IsFiniteSet(Admitted(c)')
<1>1. IsFiniteSet(Batches)
    BY BatchAssumption, FS_Interval DEF Batches
<1>2. Admitted(c) \in SUBSET Batches /\ Admitted(c)' \in SUBSET Batches
    BY DEF Admitted
<1> QED BY <1>1, <1>2, FS_Subset

\* The working threads of the running try are of different admitted batches.
LEMMA RunningIsBounded ==
    ASSUME EmbeddingInv, NEW c \in Calls, Counted(c), stage[c] = "running"
    PROVE  Cardinality(Busy(c)) <= Concurrency * try[c]
<1> DEFINE Now == {t \in Busy(c) : t[3] = try[c]}
           f == [t \in Now |-> t[2]]
<1>type. try[c] \in Nat /\ try[c] # 0 /\ Concurrency \in Nat
    BY ConcurrencyAssumption DEF EmbeddingInv, TypeOK, CallRules, TriesLeft
<1>1. \A t \in Now : t = Own(c, t[2]) /\ t[2] \in Admitted(c)
  <2> SUFFICES ASSUME NEW t \in Now PROVE t = Own(c, t[2]) /\ t[2] \in Admitted(c)
      OBVIOUS
  <2>1. t \in Threads /\ t[1] = c /\ t[3] = try[c] /\ thread[t] \in Working
      BY DEF Busy
  <2>2. t[2] \in Batches /\ t = Own(c, t[2])
      BY <2>1, ThreadParts DEF Own
  <2>3. batch[c][t[2]] = "trying"
      BY <2>1, <2>2 DEF EmbeddingInv, CallRules, OwnThreads, Working
  <2> QED BY <2>2, <2>3 DEF Admitted, Permitted
<1>2. f \in Injection(Now, Admitted(c))
  <2>1. f \in [Now -> Admitted(c)]
      BY <1>1
  <2>2. \A t, u \in Now : f[t] = f[u] => t = u
      BY <1>1
  <2> QED BY <2>1, <2>2, Fun_IsInj
<1>3. IsFiniteSet(Now) /\ Cardinality(Now) <= Cardinality(Admitted(c))
  <2> HIDE DEF Now, f
  <2> QED BY <1>2, AdmittedIsFinite, FS_Injection
<1>4. Earlier(c) \in SUBSET Busy(c) /\ Busy(c) = Earlier(c) \cup Now
    BY DEF Earlier
<1>5. IsFiniteSet(Earlier(c))
    BY <1>4, FS_Subset DEF Counted
<1>6. Cardinality(Busy(c)) <= Cardinality(Earlier(c)) + Cardinality(Now)
  <2> HIDE DEF Now
  <2>1. Cardinality(Earlier(c) \cap Now) \in Nat
      BY <1>5, FS_Intersection, FS_CardinalityType
  <2>2. Cardinality(Earlier(c) \cup Now)
            = Cardinality(Earlier(c)) + Cardinality(Now) - Cardinality(Earlier(c) \cap Now)
      BY <1>3, <1>5, FS_Union
  <2>3. Cardinality(Earlier(c)) \in Nat /\ Cardinality(Now) \in Nat
      BY <1>3, <1>5, FS_CardinalityType
  <2> QED BY <1>4, <2>1, <2>2, <2>3
<1>7. /\ Cardinality(Earlier(c)) \in Nat /\ Cardinality(Now) \in Nat
      /\ Cardinality(Busy(c)) \in Nat /\ Cardinality(Admitted(c)) \in Nat
    BY <1>3, <1>5, AdmittedIsFinite, FS_CardinalityType DEF Counted
<1>8. Cardinality(Busy(c)) <= Concurrency * (try[c] - 1) + Concurrency
  <2>1. Concurrency * (try[c] - 1) \in Int
      BY <1>type
  <2> HIDE DEF Now
  <2> QED BY <1>3, <1>6, <1>7, <2>1, <1>type DEF Counted
<1>9. Concurrency * (try[c] - 1) + Concurrency = Concurrency * try[c]
    BY <1>type
<1> QED BY <1>8, <1>9

\* A call whose threads only end, in the same try.
LEMMA CountKept ==
    ASSUME EmbeddingInv, NEW c \in Calls, Counted(c),
           stage'[c] = stage[c], try'[c] = try[c], Busy(c)' \subseteq Busy(c),
           Admitted(c)' \subseteq Admitted(c)
    PROVE  Counted(c)'
<1>type. Concurrency * (try[c] - 1) \in Int /\ Concurrency * try[c] \in Int
    BY ConcurrencyAssumption DEF EmbeddingInv, TypeOK
<1>1. Busy(c)' \in SUBSET Busy(c) /\ Earlier(c)' \in SUBSET Earlier(c)
      /\ Admitted(c)' \in SUBSET Admitted(c) /\ Earlier(c) \in SUBSET Busy(c)
    BY DEF Earlier
<1>2. IsFiniteSet(Busy(c)) /\ IsFiniteSet(Earlier(c)) /\ IsFiniteSet(Admitted(c))
    BY <1>1, AdmittedIsFinite, FS_Subset DEF Counted
<1>3. /\ IsFiniteSet(Busy(c)') /\ Cardinality(Busy(c)') <= Cardinality(Busy(c))
      /\ IsFiniteSet(Earlier(c)') /\ Cardinality(Earlier(c)') <= Cardinality(Earlier(c))
      /\ IsFiniteSet(Admitted(c)') /\ Cardinality(Admitted(c)') <= Cardinality(Admitted(c))
    BY <1>1, <1>2, FS_Subset
<1>4. /\ Cardinality(Busy(c)) \in Nat /\ Cardinality(Busy(c)') \in Nat
      /\ Cardinality(Earlier(c)) \in Nat /\ Cardinality(Earlier(c)') \in Nat
      /\ Cardinality(Admitted(c)) \in Nat /\ Cardinality(Admitted(c)') \in Nat
    BY <1>2, <1>3, FS_CardinalityType
<1> QED BY <1>type, <1>3, <1>4, ConcurrencyAssumption DEF Counted

LEMMA ThreadStepCounts ==
    ASSUME BoundInv, NEW t \in Threads, ThreadStep(t)
    PROVE  \A c \in Calls : Counted(c)'
<1> USE DEF BoundInv, Goes, callVars
<1>type. thread \in [Threads -> ThreadStates] /\ UNCHANGED callVars
    BY DEF EmbeddingInv, TypeOK, ThreadStep, Starts, LooksUp, EntersSlowPath, Loads,
       TakesModel, LoadFails, Encodes, Ends
<1>same. \A c \in Calls : stage'[c] = stage[c] /\ try'[c] = try[c] /\ Admitted(c)' = Admitted(c)
    BY <1>type DEF Admitted
<1>keeps. ASSUME \A u \in Threads : thread'[u] \in Working => thread[u] \in Working
          PROVE  \A c \in Calls : Counted(c)'
  <2>1. \A c \in Calls : Busy(c)' \subseteq Busy(c)
      BY <1>keeps DEF Busy
  <2> QED BY <2>1, <1>same, CountKept
<1>1. CASE Starts(t)
  <2>1. /\ stage[t[1]] = "running" /\ try[t[1]] = t[3] /\ t[1] \in Calls
      BY <1>1, ThreadParts DEF Starts, EmbeddingInv, CallRules, OwedToRunning, Owed
  <2>2. \A u \in Threads : u # t => thread'[u] = thread[u]
      BY <1>1, <1>type DEF Starts
  <2>3. Busy(t[1])' = Busy(t[1]) \cup {t}
      BY <1>1, <1>type, <2>2 DEF Busy, Starts, Working
  <2>4. Earlier(t[1])' = Earlier(t[1])
      BY <2>1, <2>3, <1>same DEF Earlier
  <2>5. IsFiniteSet(Busy(t[1])')
      BY <2>1, <2>3, FS_AddElement DEF Counted
  <2>6. Counted(t[1])'
      BY <2>1, <2>4, <2>5, <1>same DEF Counted
  <2>7. ASSUME NEW c \in Calls, c # t[1] PROVE Counted(c)'
    <3>1. Busy(c)' = Busy(c)
        BY <2>2, <2>7 DEF Busy
    <3> QED BY <3>1, <1>same, CountKept
  <2> QED BY <2>6, <2>7
<1>2. CASE ~Starts(t)
  <2>1. thread[t] \in Working /\ \A u \in Threads : u # t => thread'[u] = thread[u]
      BY <1>2, <1>type DEF ThreadStep, LooksUp, EntersSlowPath, Loads, TakesModel,
         LoadFails, Encodes, Ends, Working
  <2> QED BY <2>1, <1>keeps
<1> QED BY <1>1, <1>2

\* A call that ends its try keeps the threads it has.
LEMMA EndOfTryCounts ==
    ASSUME BoundInv, NEW c \in Calls, stage[c] = "running", stage'[c] # "running",
           try'[c] = try[c], Frees
    PROVE  Counted(c)'
<1>1. Cardinality(Busy(c)) <= Concurrency * try[c]
    BY RunningIsBounded DEF BoundInv
<1>2. Busy(c)' \in SUBSET Busy(c)
    BY DEF Frees, Busy, Working
<1>3. /\ IsFiniteSet(Busy(c)') /\ Cardinality(Busy(c)') <= Cardinality(Busy(c))
      /\ Cardinality(Busy(c)) \in Nat /\ Cardinality(Busy(c)') \in Nat
    BY <1>2, FS_Subset, FS_CardinalityType DEF BoundInv, Counted
<1>4. Concurrency * try[c] \in Int
    BY ConcurrencyAssumption DEF BoundInv, EmbeddingInv, TypeOK
<1> QED BY <1>1, <1>3, <1>4 DEF Counted

\* Steps of a call leave what is counted of the others.
LEMMA OthersCounted ==
    ASSUME BoundInv, NEW c \in Calls,
           \A d \in Calls : d # c => /\ stage'[d] = stage[d] /\ try'[d] = try[d]
                                     /\ batch'[d] = batch[d],
           \A t \in Threads : thread'[t] \in Working => thread[t] \in Working,
           Counted(c)'
    PROVE  \A d \in Calls : Counted(d)'
<1>1. ASSUME NEW d \in Calls, d # c PROVE Counted(d)'
  <2>1. Busy(d)' \subseteq Busy(d) /\ Admitted(d)' \subseteq Admitted(d)
      BY <1>1 DEF Busy, Admitted
  <2> QED BY <1>1, <2>1, CountKept DEF BoundInv
<1> QED BY <1>1

LEMMA CallStepCounts ==
    ASSUME BoundInv, NEW c \in Calls, CallStep(c)
    PROVE  \A d \in Calls : Counted(d)'
<1> USE DEF BoundInv
<1>inv. EmbeddingInv /\ Counted(c)
    OBVIOUS
<1>type. /\ thread \in [Threads -> ThreadStates] /\ try[c] \in Nat /\ Concurrency \in Nat
         /\ stage \in [Calls -> {"idle", "running", "retry", "done", "failed"}]
         /\ try \in [Calls -> 0..MaxTries]
         /\ batch \in [Calls -> [Batches -> BatchStates]]
    BY ConcurrencyAssumption DEF EmbeddingInv, TypeOK
<1>1. CASE Delivers(c)
  <2>1. /\ stage[c] # "running" /\ stage'[c] = "running" /\ try'[c] = try[c] + 1
        /\ UNCHANGED thread
        /\ \A b \in Batches : batch'[c][b] = "waiting"
        /\ \A d \in Calls : d # c => /\ stage'[d] = stage[d] /\ try'[d] = try[d]
                                     /\ batch'[d] = batch[d]
      BY <1>1, <1>type, TriesAssumption DEF Delivers
  <2>2. Busy(c)' = Busy(c)
      BY <2>1 DEF Busy
  <2>3. \A t \in Busy(c) : t[3] # try[c] + 1
      BY <1>type, ThreadParts DEF Busy, EmbeddingInv, CallRules, OwnThreads, Working, Tries
  <2>4. Earlier(c)' = Busy(c)
      BY <2>1, <2>2, <2>3 DEF Earlier
  <2>5. Admitted(c)' = {}
      BY <2>1 DEF Admitted, Permitted
  <2>6. Counted(c)'
    <3>1. Cardinality(Admitted(c)') <= Concurrency
        BY <2>5, <1>type, FS_EmptySet
    <3>2. try'[c] - 1 = try[c]
        BY <2>1, <1>type
    <3> QED BY <2>1, <2>2, <2>4, <3>1, <3>2 DEF Counted
  <2> QED BY <2>1, <2>6, OthersCounted
<1>2. CASE Aborts(c) \/ TimesOut(c)
  <2>1. PICK why : stage[c] = "running" /\ Cancels(c) /\ FailsTry(c, why)
      BY <1>2 DEF Aborts, TimesOut
  <2>2. /\ Frees /\ stage'[c] # "running" /\ UNCHANGED try
        /\ \A d \in Calls : d # c => stage'[d] = stage[d] /\ batch'[d] = batch[d]
      BY <1>type, <2>1 DEF Frees, Cancels, FailsTry
  <2>3. Counted(c)'
      BY <2>1, <2>2, EndOfTryCounts
  <2> QED BY <2>2, <2>3, OthersCounted DEF Frees, Working
<1>3. CASE Completes(c)
  <2>1. /\ Frees /\ stage[c] = "running" /\ stage'[c] # "running" /\ UNCHANGED <<try, batch>>
        /\ \A d \in Calls : d # c => stage'[d] = stage[d]
      BY <1>3, <1>type DEF Frees, Completes
  <2>2. Counted(c)'
      BY <2>1, EndOfTryCounts
  <2> QED BY <2>1, <2>2, OthersCounted DEF Frees, Working
<1>submits. ASSUME NEW b \in Batches, stage[c] = "running", Submits(c, b),
                   batch[c][b] \in {"waiting", "backoff"},
                   Cardinality(Admitted(c)') <= Concurrency
            PROVE  \A d \in Calls : Counted(d)'
  <2>1. \A t \in Threads : thread'[t] \in Working <=> thread[t] \in Working
      BY <1>submits, <1>type, SubmitsKeeps DEF Working
  <2>2. Busy(c)' = Busy(c) /\ Earlier(c)' = Earlier(c)
      BY <2>1, <1>submits DEF Busy, Earlier, Submits
  <2>3. Counted(c)'
      BY <2>2, <1>submits DEF Counted, Submits
  <2>4. /\ UNCHANGED <<stage, try>> /\ \A d \in Calls : d # c => batch'[d] = batch[d]
      BY <1>submits, <1>type DEF Submits
  <2> QED BY <2>1, <2>3, <2>4, OthersCounted
<1>4. ASSUME NEW b \in Batches, Enters(c, b) PROVE \A d \in Calls : Counted(d)'
  <2>1. Admitted(c)' = Admitted(c) \cup {b} /\ b \notin Admitted(c)
      BY <1>4, <1>type DEF Enters, Submits, Admitted, Permitted
  <2>2. Cardinality(Admitted(c)) < Concurrency
      BY <1>4 DEF Enters, Admitted
  <2>3. IsFiniteSet(Admitted(c)) /\ Cardinality(Admitted(c)) \in Nat
      BY AdmittedIsFinite, FS_CardinalityType
  <2>4. Cardinality(Admitted(c)') = Cardinality(Admitted(c)) + 1
      BY <2>1, <2>3, FS_AddElement
  <2>5. Cardinality(Admitted(c)') <= Concurrency
      BY <2>2, <2>3, <2>4, <1>type
  <2> QED BY <1>4, <2>5, <1>submits DEF Enters
<1>5. ASSUME NEW b \in Batches, Retries(c, b) PROVE \A d \in Calls : Counted(d)'
  <2>1. Admitted(c)' = Admitted(c)
      BY <1>5, <1>type DEF Retries, Submits, Admitted, Permitted
  <2> QED BY <1>5, <2>1, <1>submits, <1>inv DEF Retries, Counted
<1>6. ASSUME NEW b \in Batches, Receives(c, b) PROVE \A d \in Calls : Counted(d)'
  <2>1. /\ UNCHANGED <<stage, try>> /\ \A d \in Calls : d # c => batch'[d] = batch[d]
        /\ Frees
      BY <1>6, <1>type, ReceivesKeeps DEF Receives
  <2>2. Admitted(c)' \subseteq Admitted(c)
      BY <1>6, <1>type DEF Receives, Admitted, Permitted
  <2>3. Busy(c)' \subseteq Busy(c)
      BY <2>1 DEF Frees, Busy, Working
  <2>4. Counted(c)'
      BY <2>1, <2>2, <2>3, CountKept
  <2> QED BY <2>1, <2>4, OthersCounted DEF Frees, Working
<1> QED BY <1>1, <1>2, <1>3, <1>4, <1>5, <1>6 DEF CallStep

LEMMA BoundInvInit == Init => BoundInv
<1> SUFFICES ASSUME Init, NEW c \in Calls PROVE Counted(c)
    BY EmbeddingInvInit DEF BoundInv
<1>1. Busy(c) = {} /\ stage[c] = "idle" /\ try[c] = 0
    BY DEF Init, Busy, Working
<1> QED BY <1>1, FS_EmptySet, ConcurrencyAssumption DEF Counted

LEMMA BoundInvStep == BoundInv /\ [Next]_vars => BoundInv'
<1> SUFFICES ASSUME BoundInv, [Next]_vars PROVE BoundInv'
    OBVIOUS
<1>1. EmbeddingInv'
    BY EmbeddingInvStep DEF BoundInv
<1>2. CASE UNCHANGED vars
    BY <1>1, <1>2 DEF vars, callVars, BoundInv, Counted, Busy, Earlier, Admitted
<1> QED BY <1>1, <1>2, ThreadStepCounts, CallStepCounts DEF Next, BoundInv

\* A call occupies at most Concurrency threads per try it has begun, although
\* asyncio cannot cancel the threads of a try that timed out.
THEOREM ThreadsAreBoundedCorrect == Spec => []ThreadsAreBounded
<1>1. BoundInv => ThreadsAreBounded
  <2> SUFFICES ASSUME BoundInv, NEW c \in Calls
               PROVE  Cardinality(Busy(c)) <= Concurrency * try[c]
      BY DEF ThreadsAreBounded, Busy
  <2> QED BY RunningIsBounded DEF BoundInv, Counted
<1> QED BY <1>1, BoundInvInit, BoundInvStep, PTL DEF Spec
=============================================================================
