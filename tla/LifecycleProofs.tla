-------------------------- MODULE LifecycleProofs --------------------------
(***************************************************************************)
(* Uploads, workers, retries and crashes together implement the lifecycle  *)
(* of a document (UploadSpec => ImplementsLifecycle), and the status of a  *)
(* document agrees with the statuses of its jobs.                          *)
(*                                                                         *)
(* Without the sweeper both things a transaction has read are still true   *)
(* when it commits, unless the rows are deleted: the job because nobody    *)
(* else writes it (ReadsStayTrue), the document because the other jobs of  *)
(* the chain are finished (DocReads).  So every commit writes the one      *)
(* unfinished job of a document that is not settled, after jobs that are   *)
(* all DONE (Tip), and every step has one of a few effects on the tables   *)
(* (Effect), from which the properties and the refinement follow.          *)
(* A poll reads twice; what it has read of a settled document stays true   *)
(* (PollReads), and the jobs of a document end at one stage (Reached).     *)
(***************************************************************************)
EXTENDS PipelineProofs, DocumentState, FiniteSetTheorems

\* What the rows of a document say together.
Told(d) ==
    /\ docStatus[d] = "PENDING" =>
          \A j \in JobsOf(d) : jobStatus[j] = "QUEUED" /\ jobStage[j] = 1
    /\ docStatus[d] = "PROCESSING" =>
          \A j \in JobsOf(d) : jobStatus[j] # "FAILED"
    /\ docStatus[d] = "FAILED" =>
          /\ \A j \in JobsOf(d) : jobStatus[j] \notin ActiveJob
          /\ \E j \in JobsOf(d) : jobStatus[j] = "FAILED"
    /\ docStatus[d] = "INDEXED" =>
          /\ \A j \in JobsOf(d) : jobStatus[j] = "DONE"
          /\ \E j \in JobsOf(d) : jobStage[j] = LastStage
          /\ docChunks[d] /\ docIndexedAt[d]
    /\ \A j, k \in JobsOf(d) : jobStage[j] < jobStage[k] => jobStatus[j] = "DONE"

\* Only a delete makes false what a transaction read of its document.
Commits == {"start_commit", "fail_commit", "complete_commit"}

DocReads ==
    \A j \in Jobs : pc[j] \in Commits =>
        docStatus[jobDoc[j]] \in {seenDoc[j], "DELETED"}

\* The last stage has left its chunks when it is completed.
Completing == {"complete_job", "complete_doc", "complete_commit"}

ChunksWritten ==
    \A j \in Jobs : pc[j] \in Completing /\ JobVisible(j) /\ jobStage[j] = LastStage =>
        docChunks[jobDoc[j]]

ExecRules == DocReads /\ ChunksWritten

UploadInv == SweptInv /\ JobInv /\ ExecRules /\ \A d \in Docs : Told(d)

(***************************************************************************)
(* What a step does to the tables                                          *)
(***************************************************************************)

SameDoc(d) ==
    /\ docStatus'[d] = docStatus[d]
    /\ docIndexedAt'[d] = docIndexedAt[d]
    /\ docChunks[d] => docChunks'[d]
    /\ JobsOf(d)' = JobsOf(d)
    /\ \A j \in JobsOf(d) : jobStage'[j] = jobStage[j] /\ jobStatus'[j] = jobStatus[j]

\* The document is flushed by an upload.
Hidden(d) ==
    /\ docStatus[d] = "UNBORN" /\ docStatus'[d] = "UNCOMMITTED"
    /\ JobsOf(d) = {} /\ JobsOf(d)' = {}

\* It is committed with its first job.
Appears(d) ==
    /\ docStatus[d] = "UNCOMMITTED" /\ docStatus'[d] = "PENDING"
    /\ JobsOf(d) = {}
    /\ \A j \in JobsOf(d)' : jobStatus'[j] = "QUEUED" /\ jobStage'[j] = 1

\* It is rolled back or deleted.
Vanishes(d) ==
    /\ docStatus[d] # "DELETED" /\ docStatus'[d] = "DELETED"
    /\ JobsOf(d)' = {}

\* j is the one unfinished job of a document that is not settled.
Tip(d, j) ==
    /\ docStatus[d] \in ActiveDoc
    /\ j \in JobsOf(d) /\ jobStatus[j] \in ActiveJob
    /\ \A k \in JobsOf(d) : k # j => jobStage[k] < jobStage[j] /\ jobStatus[k] = "DONE"

\* A worker writes the tip's status and the document's.
Works(d, j, s, t) ==
    /\ Tip(d, j)
    /\ docStatus'[d] = t /\ jobStatus'[j] = s
    /\ JobsOf(d)' = JobsOf(d)
    /\ \A k \in JobsOf(d) : /\ jobStage'[k] = jobStage[k]
                            /\ k # j => jobStatus'[k] = jobStatus[k]

Starts(d, j) == Works(d, j, "RUNNING", "PROCESSING")
Fails(d, j) == Works(d, j, "FAILED", "FAILED")
Finishes(d, j) ==
    /\ Works(d, j, "DONE", "INDEXED")
    /\ docStatus[d] = "PROCESSING" /\ jobStage[j] = LastStage
    /\ docChunks'[d] /\ docIndexedAt'[d]

\* Or it creates the job of the next stage.
Advances(d, j) ==
    /\ Tip(d, j)
    /\ docStatus[d] = "PROCESSING" /\ docStatus'[d] = "PROCESSING"
    /\ jobStage[j] < LastStage /\ jobStatus'[j] = "DONE"
    /\ \A k \in JobsOf(d) : /\ jobStage'[k] = jobStage[k]
                            /\ k # j => jobStatus'[k] = jobStatus[k]
    /\ \E n \in Jobs : /\ n \notin JobsOf(d) /\ JobsOf(d)' = JobsOf(d) \cup {n}
                       /\ jobStage'[n] = jobStage[j] + 1 /\ jobStatus'[n] = "QUEUED"

Changes(d) ==
    \/ Hidden(d) \/ Appears(d) \/ Vanishes(d)
    \/ \E j \in Jobs : Starts(d, j) \/ Fails(d, j) \/ Finishes(d, j) \/ Advances(d, j)

Effect ==
    \/ \A d \in Docs : SameDoc(d)
    \/ \E d \in Docs : Changes(d) /\ \A e \in Docs : e # d => SameDoc(e)

\* A document's story stays consistent.
LEMMA SameIsTold ==
    ASSUME NEW d \in Docs, Told(d), SameDoc(d)
    PROVE  Told(d)'
BY DEF Told, SameDoc

LEMMA ChangeIsTold ==
    ASSUME TypeOK, NEW d \in Docs, Changes(d)
    PROVE  Told(d)'
<1>type. jobStage \in [Jobs -> Stages] /\ Stages \subseteq Nat
    BY DEF TypeOK, RowsTypeOK, Stages
<1>1. CASE Hidden(d) \/ Appears(d) \/ Vanishes(d)
    BY <1>1 DEF Told, Hidden, Appears, Vanishes
<1>2. ASSUME NEW j \in Jobs, NEW s, NEW t, Works(d, j, s, t)
      PROVE  /\ docStatus'[d] = t /\ j \in JobsOf(d)'
             /\ jobStatus'[j] = s
             /\ \A k \in JobsOf(d)' : k # j => jobStatus'[k] = "DONE"
             /\ \A i, k \in JobsOf(d)' : jobStage'[i] < jobStage'[k] => jobStatus'[i] = "DONE"
  <2>1. \A i, k \in JobsOf(d) : jobStage[i] < jobStage[k] => i # j
    <3> SUFFICES ASSUME NEW k \in JobsOf(d), jobStage[j] < jobStage[k] PROVE FALSE
        OBVIOUS
    <3>1. jobStage[j] \in Nat /\ jobStage[k] \in Nat
        BY <1>type DEF JobsOf
    <3>2. k # j
        BY <3>1
    <3> QED BY <3>1, <3>2, <1>2 DEF Works, Tip
  <2> QED BY <2>1, <1>2 DEF Works, Tip
<1>3. ASSUME NEW j \in Jobs, Starts(d, j) \/ Fails(d, j) \/ Finishes(d, j)
      PROVE  Told(d)'
  <2>1. CASE Starts(d, j)
      BY <2>1, <1>2 DEF Starts, Told
  <2>2. CASE Fails(d, j)
      BY <2>2, <1>2 DEF Fails, Told, ActiveJob
  <2>3. CASE Finishes(d, j)
    <3>1. jobStage'[j] = LastStage
        BY <2>3 DEF Finishes, Works, Tip
    <3>2. Works(d, j, "DONE", "INDEXED") /\ docChunks'[d] /\ docIndexedAt'[d]
        BY <2>3 DEF Finishes
    <3> QED BY <3>1, <3>2, <1>2 DEF Told
  <2> QED BY <1>3, <2>1, <2>2, <2>3
<1>4. ASSUME NEW j \in Jobs, Advances(d, j)
      PROVE  Told(d)'
  <2>1. PICK n \in Jobs : /\ n \notin JobsOf(d) /\ JobsOf(d)' = JobsOf(d) \cup {n}
                          /\ jobStage'[n] = jobStage[j] + 1 /\ jobStatus'[n] = "QUEUED"
      BY <1>4 DEF Advances
  <2>2. \A k \in JobsOf(d) : jobStatus'[k] = "DONE" /\ ~(jobStage'[n] < jobStage'[k])
    <3> SUFFICES ASSUME NEW k \in JobsOf(d)
                 PROVE  jobStatus'[k] = "DONE" /\ ~(jobStage'[n] < jobStage'[k])
        OBVIOUS
    <3>1. jobStage[j] \in Nat /\ jobStage[k] \in Nat
        BY <1>type DEF JobsOf
    <3>2. jobStage'[k] = jobStage[k] /\ (k = j \/ jobStage[k] < jobStage[j])
          /\ jobStatus'[k] = "DONE"
        BY <1>4 DEF Advances, Tip
    <3> QED BY <3>1, <3>2, <2>1
  <2>3. ~(jobStage'[n] < jobStage'[n])
    <3>1. jobStage[j] \in Nat
        BY <1>type
    <3> QED BY <3>1, <2>1
  <2>4. docStatus'[d] = "PROCESSING"
      BY <1>4 DEF Advances
  <2> QED BY <2>1, <2>2, <2>3, <2>4 DEF Told
<1> QED BY <1>1, <1>3, <1>4 DEF Changes

LEMMA EffectIsTold ==
    ASSUME TypeOK, Effect, \A d \in Docs : Told(d)
    PROVE  \A d \in Docs : Told(d)'
BY SameIsTold, ChangeIsTold DEF Effect

(***************************************************************************)
(* An effect is a step of the lifecycle                                    *)
(***************************************************************************)

\* The stages before the tip are the ones completed.
LEMMA DoneBelowTip ==
    ASSUME SweptInv, NEW d \in Docs, NEW j \in Jobs, Tip(d, j)
    PROVE  StagesDone(d) = 1..(jobStage[j] - 1)
<1>type. jobStage \in [Jobs -> Nat \ {0}]
    BY DEF SweptInv, TypeOK, RowsTypeOK, Stages
<1>tip. /\ jobDoc[j] = d /\ DocVisible(d) /\ jobStatus[j] # "DONE"
        /\ \A k \in JobsOf(d) : k # j => jobStage[k] < jobStage[j] /\ jobStatus[k] = "DONE"
    BY DEF Tip, JobsOf, ActiveJob, ActiveDoc, DocVisible, DocumentStatus
<1>1. ASSUME NEW s \in StagesDone(d)
      PROVE  s \in 1..(jobStage[j] - 1)
  <2>1. PICK k \in JobsOf(d) : jobStatus[k] = "DONE" /\ jobStage[k] = s
      BY DEF StagesDone
  <2>2. jobStage[k] \in Nat \ {0} /\ jobStage[j] \in Nat \ {0}
      BY <1>type DEF JobsOf
  <2>3. jobStage[k] < jobStage[j]
      BY <2>1, <1>tip
  <2> QED BY <2>1, <2>2, <2>3
<1>2. ASSUME NEW s \in 1..(jobStage[j] - 1)
      PROVE  s \in StagesDone(d)
  <2>1. PICK k \in Jobs : Siblings(j, k) /\ jobStage[k] = s
      BY <1>tip DEF SweptInv, ChainInv, ChainRules, NoStageSkipped
  <2>2. k # j
    <3>1. jobStage[j] \in Nat
        BY <1>type
    <3> QED BY <2>1, <3>1
  <2>3. k \in JobsOf(d)
      BY <2>1, <1>tip DEF Siblings, JobsOf, SweptInv, ChainInv, RowRules, RowsAgree,
         DocVisible, DocumentStatus
  <2> QED BY <2>1, <2>2, <2>3, <1>tip DEF StagesDone
<1> QED BY <1>1, <1>2

LEMMA SameIsStutter ==
    ASSUME NEW d \in Docs, SameDoc(d)
    PROVE  PhaseOf(d)' = PhaseOf(d) /\ StagesDone(d)' = StagesDone(d)
<1>1. PhaseOf(d)' = PhaseOf(d)
    BY DEF SameDoc, PhaseOf
<1>2. StagesDone(d)' = StagesDone(d)
    BY DEF SameDoc, StagesDone
<1> QED BY <1>1, <1>2

\* The phase and the completed stages of the document that changes.
LEMMA ChangeIsMove ==
    ASSUME SweptInv, NEW d \in Docs, Changes(d)
    PROVE  \/ PhaseOf(d)' = PhaseOf(d) /\ StagesDone(d)' = StagesDone(d)
           \/ /\ PhaseOf(d) = "absent" /\ PhaseOf(d)' = "PENDING"
              /\ StagesDone(d)' = StagesDone(d)
           \/ /\ PhaseOf(d) = "PENDING" /\ PhaseOf(d)' = "PROCESSING"
              /\ StagesDone(d)' = StagesDone(d)
           \/ /\ PhaseOf(d) \in {"PENDING", "PROCESSING"} /\ PhaseOf(d)' = "FAILED"
              /\ StagesDone(d)' = StagesDone(d)
           \/ /\ PhaseOf(d) = "PROCESSING" /\ PhaseOf(d)' = "PROCESSING"
              /\ \E s \in 1..LastStage : /\ s < LastStage
                                         /\ StagesDone(d) = 1..(s - 1)
                                         /\ StagesDone(d)' = 1..s
           \/ /\ PhaseOf(d) = "PROCESSING" /\ PhaseOf(d)' = "INDEXED"
              /\ StagesDone(d) = 1..(LastStage - 1) /\ StagesDone(d)' = 1..LastStage
           \/ /\ PhaseOf(d) \in Lifecycle!Phases \ {"gone"} /\ PhaseOf(d)' = "gone"
              /\ StagesDone(d)' = {}
<1>type. /\ jobStage \in [Jobs -> Nat \ {0}] /\ jobStage \in [Jobs -> 1..LastStage]
         /\ docStatus[d] \in DocumentStatus \cup NoRow
    BY DEF SweptInv, TypeOK, RowsTypeOK, Stages
<1>1. CASE Hidden(d)
    BY <1>1 DEF Hidden, PhaseOf, StagesDone
<1>2. CASE Appears(d)
  <2>1. PhaseOf(d) = "absent" /\ PhaseOf(d)' = "PENDING"
      BY <1>2 DEF Appears, PhaseOf
  <2>2. StagesDone(d) = {} /\ StagesDone(d)' = {}
      BY <1>2 DEF Appears, StagesDone
  <2> QED BY <2>1, <2>2
<1>3. CASE Vanishes(d)
  <2>1. PhaseOf(d)' = "gone" /\ StagesDone(d)' = {}
      BY <1>3 DEF Vanishes, PhaseOf, StagesDone
  <2>2. PhaseOf(d) \in Lifecycle!Phases \ {"gone"}
      BY <1>3, <1>type DEF Vanishes, PhaseOf, Lifecycle!Phases, DocumentStatus, NoRow
  <2> QED BY <2>1, <2>2
<1>works. ASSUME NEW j \in Jobs, NEW s, NEW t, Works(d, j, s, t)
          PROVE  /\ PhaseOf(d) = docStatus[d] /\ docStatus[d] \in {"PENDING", "PROCESSING"}
                 /\ t \in DocumentStatus => PhaseOf(d)' = t
                 /\ s # "DONE" => StagesDone(d)' = StagesDone(d)
                 /\ s = "DONE" => StagesDone(d)' = StagesDone(d) \cup {jobStage[j]}
  <2>1. PhaseOf(d) = docStatus[d] /\ docStatus[d] \in {"PENDING", "PROCESSING"}
      BY <1>works DEF Works, Tip, PhaseOf, ActiveDoc
  <2>2. t \in DocumentStatus => PhaseOf(d)' = t
      BY <1>works DEF Works, PhaseOf, DocumentStatus
  <2>3. s # "DONE" => StagesDone(d)' = StagesDone(d)
      BY <1>works DEF Works, Tip, StagesDone, ActiveJob
  <2>4. s = "DONE" => StagesDone(d)' = StagesDone(d) \cup {jobStage[j]}
      BY <1>works DEF Works, Tip, StagesDone, ActiveJob
  <2> QED BY <2>1, <2>2, <2>3, <2>4
<1>4. ASSUME NEW j \in Jobs, Starts(d, j)
      PROVE  /\ PhaseOf(d) \in {"PENDING", "PROCESSING"} /\ PhaseOf(d)' = "PROCESSING"
             /\ StagesDone(d)' = StagesDone(d)
    BY <1>4, <1>works DEF Starts, DocumentStatus
<1>5. ASSUME NEW j \in Jobs, Fails(d, j)
      PROVE  /\ PhaseOf(d) \in {"PENDING", "PROCESSING"} /\ PhaseOf(d)' = "FAILED"
             /\ StagesDone(d)' = StagesDone(d)
    BY <1>5, <1>works DEF Fails, DocumentStatus
<1>6. ASSUME NEW j \in Jobs, Finishes(d, j)
      PROVE  /\ PhaseOf(d) = "PROCESSING" /\ PhaseOf(d)' = "INDEXED"
             /\ StagesDone(d) = 1..(LastStage - 1) /\ StagesDone(d)' = 1..LastStage
  <2>1. /\ Works(d, j, "DONE", "INDEXED") /\ Tip(d, j)
        /\ docStatus[d] = "PROCESSING" /\ jobStage[j] = LastStage
      BY <1>6 DEF Finishes, Works
  <2>2. PhaseOf(d) = "PROCESSING" /\ PhaseOf(d)' = "INDEXED"
      BY <2>1, <1>works DEF DocumentStatus
  <2>3. StagesDone(d) = 1..(LastStage - 1)
      BY <2>1, DoneBelowTip
  <2>4. StagesDone(d)' = StagesDone(d) \cup {LastStage}
      BY <2>1, <1>works
  <2> QED BY <2>2, <2>3, <2>4, LastStageAssumption
<1>7. ASSUME NEW j \in Jobs, Advances(d, j)
      PROVE  /\ PhaseOf(d) = "PROCESSING" /\ PhaseOf(d)' = "PROCESSING"
             /\ \E s \in 1..LastStage : /\ s < LastStage
                                        /\ StagesDone(d) = 1..(s - 1)
                                        /\ StagesDone(d)' = 1..s
  <2>1. PhaseOf(d) = "PROCESSING" /\ PhaseOf(d)' = "PROCESSING"
      BY <1>7 DEF Advances, PhaseOf
  <2>2. /\ jobStage[j] \in 1..LastStage /\ jobStage[j] < LastStage
        /\ StagesDone(d) = 1..(jobStage[j] - 1)
      BY <1>7, <1>type, DoneBelowTip DEF Advances
  <2>3. StagesDone(d)' = StagesDone(d) \cup {jobStage[j]}
      BY <1>7 DEF Advances, Tip, StagesDone, ActiveJob
  <2>4. StagesDone(d)' = 1..jobStage[j]
      BY <2>2, <2>3, LastStageAssumption
  <2> QED BY <2>1, <2>2, <2>4
<1> QED BY <1>1, <1>2, <1>3, <1>4, <1>5, <1>6, <1>7 DEF Changes

\* Every effect is a step of the lifecycle, or a stutter.
LEMMA EffectIsStep ==
    ASSUME SweptInv, Effect
    PROVE  [Lifecycle!LifecycleNext]_(Lifecycle!lifecycleVars)
<1> DEFINE phase == [d \in Docs |-> PhaseOf(d)]
           done == [d \in Docs |-> StagesDone(d)]
<1>1. CASE \A d \in Docs : SameDoc(d)
  <2>1. phase' = phase /\ done' = done
      BY <1>1, SameIsStutter
  <2> QED BY <2>1 DEF Lifecycle!lifecycleVars
<1>2. ASSUME NEW d \in Docs, Changes(d), \A e \in Docs : e # d => SameDoc(e)
      PROVE  [Lifecycle!LifecycleNext]_(Lifecycle!lifecycleVars)
  <2>1. /\ phase' = [phase EXCEPT ![d] = PhaseOf(d)']
        /\ done' = [done EXCEPT ![d] = StagesDone(d)']
    <3>1. \A e \in Docs : e # d => /\ PhaseOf(e)' = PhaseOf(e)
                                   /\ StagesDone(e)' = StagesDone(e)
        BY <1>2, SameIsStutter
    <3> QED BY <3>1
  <2>2. phase[d] = PhaseOf(d) /\ done[d] = StagesDone(d)
      OBVIOUS
  <2>3. CASE PhaseOf(d)' = PhaseOf(d) /\ StagesDone(d)' = StagesDone(d)
    <3>1. phase' = phase /\ done' = done
        BY <2>1, <2>3
    <3> QED BY <3>1 DEF Lifecycle!lifecycleVars
  <2>4. CASE /\ PhaseOf(d) = "absent" /\ PhaseOf(d)' = "PENDING"
             /\ StagesDone(d)' = StagesDone(d)
    <3>1. Lifecycle!Submit(d)
        BY <2>1, <2>4 DEF Lifecycle!Submit, Lifecycle!Move
    <3> QED BY <3>1 DEF Lifecycle!LifecycleNext
  <2>5. CASE /\ PhaseOf(d) = "PENDING" /\ PhaseOf(d)' = "PROCESSING"
             /\ StagesDone(d)' = StagesDone(d)
    <3>1. Lifecycle!Begin(d)
        BY <2>1, <2>5 DEF Lifecycle!Begin, Lifecycle!Move
    <3> QED BY <3>1 DEF Lifecycle!LifecycleNext
  <2>6. CASE /\ PhaseOf(d) \in {"PENDING", "PROCESSING"} /\ PhaseOf(d)' = "FAILED"
             /\ StagesDone(d)' = StagesDone(d)
    <3>1. Lifecycle!Fail(d)
        BY <2>1, <2>6 DEF Lifecycle!Fail, Lifecycle!Move
    <3> QED BY <3>1 DEF Lifecycle!LifecycleNext
  <2>7. CASE /\ PhaseOf(d) = "PROCESSING" /\ PhaseOf(d)' = "PROCESSING"
             /\ \E s \in 1..LastStage : /\ s < LastStage
                                        /\ StagesDone(d) = 1..(s - 1)
                                        /\ StagesDone(d)' = 1..s
    <3>1. PICK s \in 1..LastStage : /\ s < LastStage
                                    /\ StagesDone(d) = 1..(s - 1)
                                    /\ StagesDone(d)' = 1..s
        BY <2>7
    <3>2. phase' = phase
        BY <2>1, <2>7
    <3>3. Lifecycle!CompleteStage(d, s)
        BY <2>1, <2>7, <3>1, <3>2 DEF Lifecycle!CompleteStage
    <3> QED BY <3>3 DEF Lifecycle!LifecycleNext
  <2>8. CASE /\ PhaseOf(d) = "PROCESSING" /\ PhaseOf(d)' = "INDEXED"
             /\ StagesDone(d) = 1..(LastStage - 1) /\ StagesDone(d)' = 1..LastStage
    <3>1. Lifecycle!CompleteLastStage(d)
        BY <2>1, <2>8 DEF Lifecycle!CompleteLastStage, Lifecycle!Move
    <3> QED BY <3>1 DEF Lifecycle!LifecycleNext
  <2>9. CASE /\ PhaseOf(d) \in Lifecycle!Phases \ {"gone"} /\ PhaseOf(d)' = "gone"
             /\ StagesDone(d)' = {}
    <3>1. Lifecycle!Remove(d)
        BY <2>1, <2>9 DEF Lifecycle!Remove, Lifecycle!Move
    <3> QED BY <3>1 DEF Lifecycle!LifecycleNext
  <2> QED BY <1>2, <2>3, <2>4, <2>5, <2>6, <2>7, <2>8, <2>9, ChangeIsMove
<1> QED BY <1>1, <1>2 DEF Effect

LEMMA InitIsInit == Init => Lifecycle!LifecycleInit
<1> SUFFICES ASSUME Init PROVE Lifecycle!LifecycleInit
    OBVIOUS
<1>1. \A d \in Docs : PhaseOf(d) = "absent"
    BY DEF Init, RowsInit, PhaseOf
<1>2. \A d \in Docs : StagesDone(d) = {}
    BY DEF Init, RowsInit, StagesDone, JobsOf, JobVisible, JobStatus
<1> QED BY <1>1, <1>2 DEF Lifecycle!LifecycleInit

(***************************************************************************)
(* The effects of the workers' steps                                       *)
(***************************************************************************)

\* What a step must leave to an execution it is not a step of.
Spares(k) ==
    /\ jobDoc'[k] = jobDoc[k] /\ jobStage'[k] = jobStage[k]
    /\ JobVisible(k)' => JobVisible(k) /\ (docChunks[jobDoc[k]] => docChunks'[jobDoc[k]])
    /\ docStatus'[jobDoc[k]] \in {docStatus[jobDoc[k]], "DELETED"}

LEMMA ExecKept ==
    ASSUME ExecRules, NEW j \in Jobs,
           \A k \in Jobs : k # j => pc'[k] = pc[k] /\ seenDoc'[k] = seenDoc[k],
           \A k \in Jobs : k # j /\ pc[k] \in Commits \cup Completing => Spares(k),
           pc'[j] \in Commits => docStatus'[jobDoc'[j]] \in {seenDoc'[j], "DELETED"},
           pc'[j] \in Completing /\ JobVisible(j)' /\ jobStage'[j] = LastStage =>
               docChunks'[jobDoc'[j]]
    PROVE  ExecRules'
<1>1. DocReads'
    BY DEF ExecRules, DocReads, Spares
<1>2. ChunksWritten'
    BY DEF ExecRules, ChunksWritten, Spares
<1> QED BY <1>1, <1>2 DEF ExecRules

LEMMA NothingChanges ==
    ASSUME UNCHANGED <<docStatus, docIndexedAt, jobDoc, jobStage, jobStatus>>,
           \A d \in Docs : docChunks[d] => docChunks'[d]
    PROVE  Effect
BY DEF Effect, SameDoc, JobsOf, JobVisible

\* A worker's step that writes at most chunks.
LEMMA QuietStep ==
    ASSUME UploadInv, NEW j \in Jobs,
           UNCHANGED <<docStatus, docIndexedAt, jobDoc, jobStage, jobStatus>>,
           \A d \in Docs : docChunks[d] => docChunks'[d],
           \A k \in Jobs : k # j => pc'[k] = pc[k] /\ seenDoc'[k] = seenDoc[k],
           pc'[j] \in Commits => seenDoc'[j] = docStatus[jobDoc[j]],
           pc'[j] \in Completing =>
              \/ pc[j] \in Completing
              \/ jobStage[j] = LastStage => docChunks'[jobDoc[j]]
    PROVE  Effect /\ ExecRules'
<1>1. ASSUME NEW k \in Jobs, pc[k] \in Commits \cup Completing
      PROVE  jobDoc[k] \in Docs
  <2>1. pc[k] \notin {"idle", "start_job", "return"}
      BY <1>1 DEF Commits, Completing
  <2> QED BY <2>1, Started DEF UploadInv
<1>2. \A k \in Jobs : pc[k] \in Commits \cup Completing => Spares(k)
    BY <1>1 DEF Spares, JobVisible
<1>3. pc'[j] \in Completing /\ JobVisible(j)' /\ jobStage'[j] = LastStage =>
         docChunks'[jobDoc'[j]]
    BY <1>1 DEF UploadInv, ExecRules, ChunksWritten, JobVisible
<1>4. ExecRules'
    BY <1>2, <1>3, ExecKept DEF UploadInv
<1> QED BY <1>4, NothingChanges

\* What a worker that is about to commit knows of the rows.
LEMMA TipOf ==
    ASSUME UploadInv, NEW j \in Jobs, pc[j] \in Commits, JobVisible(j)
    PROVE  /\ jobDoc[j] \in Docs /\ Tip(jobDoc[j], j)
           /\ jobStatus[j] = seenJob[j] /\ docStatus[jobDoc[j]] = seenDoc[j]
           /\ \A k \in Jobs : k # j /\ pc[k] \in Commits \cup Completing =>
                 jobDoc[k] \in Docs /\ jobDoc[k] # jobDoc[j]
<1>d. /\ jobDoc[j] \in Docs
      /\ \A k \in Jobs : Siblings(j, k) /\ k # j => jobStage[k] < jobStage[j] /\ Finished(k)
    BY ExecutedIsLast DEF UploadInv, Commits, Rest
<1> PICK d \in Docs : d = jobDoc[j]
    BY <1>d
<1>1. jobStatus[j] = seenJob[j] /\ jobStatus[j] \in ActiveJob
    BY DEF UploadInv, JobInv, ReadsStayTrue, InTransaction, Commits, JobVisible, JobStatus
<1>2. DocVisible(d) /\ j \in JobsOf(d)
    BY DEF UploadInv, SweptInv, ChainInv, RowRules, RowsAgree, JobVisible, JobStatus, JobsOf
<1>told. Told(d)
    BY DEF UploadInv
<1>3. docStatus[d] = seenDoc[j]
    BY <1>2 DEF UploadInv, ExecRules, DocReads, DocVisible, DocumentStatus
<1>4. docStatus[d] \in ActiveDoc
  <2>1. docStatus[d] # "FAILED"
      BY <1>1, <1>2, <1>told DEF Told
  <2>2. docStatus[d] # "INDEXED"
    <3>1. jobStatus[j] # "DONE"
        BY <1>1 DEF ActiveJob
    <3> QED BY <3>1, <1>2, <1>told DEF Told
  <2>3. docStatus[d] \in DocumentStatus
      BY <1>2 DEF DocVisible
  <2> QED BY <2>1, <2>2, <2>3 DEF DocumentStatus, ActiveDoc
<1>5. \A k \in JobsOf(d) : k # j => jobStage[k] < jobStage[j] /\ jobStatus[k] = "DONE"
    BY <1>d, <1>2, <1>told DEF Told, JobsOf, Siblings
<1>6. ASSUME NEW k \in Jobs, k # j, pc[k] \in Commits \cup Completing
      PROVE  jobDoc[k] \in Docs /\ jobDoc[k] # jobDoc[j]
  <2>1. pc[k] \notin Rest
      BY <1>6 DEF Commits, Completing, Rest
  <2>2. jobDoc[k] \in Docs
      BY <2>1, Started DEF UploadInv, Rest
  <2> QED BY <2>1, <2>2, <1>6, <1>d DEF Siblings, Finished
<1> QED BY <1>d, <1>1, <1>2, <1>3, <1>4, <1>5, <1>6 DEF Tip

\* A commit of a worker that writes the status of its job and its document.
LEMMA WorkerWorks ==
    ASSUME UploadInv, NEW j \in Jobs, pc[j] \in Commits, JobVisible(j),
           NEW s \in JobStatus, NEW t,
           jobStatus' = [jobStatus EXCEPT ![j] = s],
           docStatus' = [docStatus EXCEPT ![jobDoc[j]] = t],
           UNCHANGED <<docChunks, jobDoc, jobStage>>,
           \A e \in Docs : e # jobDoc[j] => docIndexedAt'[e] = docIndexedAt[e],
           NEW label \in Labels \ (Commits \cup Completing), Goto(j, label)
    PROVE  /\ jobDoc[j] \in Docs /\ Works(jobDoc[j], j, s, t)
           /\ \A e \in Docs : e # jobDoc[j] => SameDoc(e)
           /\ ExecRules'
<1>type. /\ pc \in [Jobs -> Labels] /\ seenDoc \in [Jobs -> DocumentStatus \cup {"none"}]
         /\ jobStatus \in [Jobs -> JobStatus \cup NoRow]
         /\ docStatus \in [Docs -> DocumentStatus \cup NoRow]
    BY DEF UploadInv, JobInv, TypeOK, RunnerTypeOK, RowsTypeOK
<1>tip. /\ jobDoc[j] \in Docs /\ Tip(jobDoc[j], j)
        /\ \A k \in Jobs : k # j /\ pc[k] \in Commits \cup Completing =>
              jobDoc[k] \in Docs /\ jobDoc[k] # jobDoc[j]
    BY TipOf
<1>jobs. \A e : JobsOf(e)' = JobsOf(e)
    BY <1>type DEF JobsOf, JobVisible
<1>1. Works(jobDoc[j], j, s, t)
    BY <1>type, <1>tip, <1>jobs DEF Works, JobsOf
<1>2. \A e \in Docs : e # jobDoc[j] => SameDoc(e)
    BY <1>type, <1>jobs DEF SameDoc, JobsOf
<1>3. ExecRules'
  <2>1. \A k \in Jobs : k # j /\ pc[k] \in Commits \cup Completing => Spares(k)
      BY <1>type, <1>tip DEF Spares, JobVisible
  <2>2. /\ \A k \in Jobs : k # j => pc'[k] = pc[k] /\ seenDoc'[k] = seenDoc[k]
        /\ pc'[j] \notin Commits \cup Completing
      BY <1>type DEF Goto
  <2> QED BY <2>1, <2>2, ExecKept DEF UploadInv
<1> QED BY <1>tip, <1>1, <1>2, <1>3

LEMMA StartsEffect ==
    ASSUME UploadInv, NEW j \in Jobs, StartCommits(j)
    PROVE  Effect /\ ExecRules'
<1>type. /\ jobStatus \in [Jobs -> JobStatus \cup NoRow]
         /\ docStatus \in [Docs -> DocumentStatus \cup NoRow]
         /\ pc \in [Jobs -> Labels] /\ seenDoc \in [Jobs -> DocumentStatus \cup {"none"}]
    BY DEF UploadInv, JobInv, TypeOK, RunnerTypeOK, RowsTypeOK
<1>step. /\ pc[j] = "start_commit" /\ Goto(j, "load")
         /\ UNCHANGED <<docChunks, docIndexedAt, jobDoc, jobStage>>
    BY DEF StartCommits, StartRows
<1>reads. seenJob[j] \in ActiveJob /\ seenDoc[j] \in ActiveDoc
    BY <1>step DEF UploadInv, SweptInv, ChainInv, ReadRules, WorkerReads, InTransaction
<1>1. CASE JobVisible(j)
  <2>tip. /\ jobDoc[j] \in Docs
          /\ jobStatus[j] = seenJob[j] /\ docStatus[jobDoc[j]] = seenDoc[j]
      BY <1>1, <1>step, TipOf DEF Commits
  <2>1. jobStatus' = [jobStatus EXCEPT ![j] = "RUNNING"]
      BY <1>type, <1>reads, <2>tip DEF StartCommits, StartRows, ActiveJob
  <2>2. docStatus' = [docStatus EXCEPT ![jobDoc[j]] = "PROCESSING"]
      BY <1>type, <1>reads, <2>tip DEF StartCommits, StartRows, ActiveDoc
  <2>3. "load" \in Labels \ (Commits \cup Completing) /\ "RUNNING" \in JobStatus
      BY DEF Labels, Commits, Completing, JobStatus
  <2>4. /\ Starts(jobDoc[j], j) /\ ExecRules'
        /\ \A e \in Docs : e # jobDoc[j] => SameDoc(e)
    <3>1. pc[j] \in Commits
        BY <1>step DEF Commits
    <3> QED BY <1>1, <1>step, <2>1, <2>2, <2>3, <3>1, WorkerWorks DEF Starts
  <2> QED BY <2>4, <2>tip DEF Effect, Changes
<1>2. CASE ~JobVisible(j)
  <2>1. UNCHANGED <<docStatus, jobStatus>>
      BY <1>2 DEF StartCommits, StartRows
  <2>2. \A k \in Jobs : k # j => pc'[k] = pc[k] /\ seenDoc'[k] = seenDoc[k]
      BY <1>type, <1>step DEF Goto
  <2>3. pc'[j] \notin Commits /\ pc'[j] \notin Completing
      BY <1>type, <1>step DEF Goto, Commits, Completing
  <2> QED BY <1>step, <2>1, <2>2, <2>3, QuietStep
<1> QED BY <1>1, <1>2

LEMMA AdvancesEffect ==
    ASSUME UploadInv, NEW j \in Jobs, CompleteStage(j)
    PROVE  Effect /\ ExecRules'
<1>n. nextJob \in Jobs
    BY DEF CompleteStage, AdvanceRows, InsertJob
<1> PICK n \in Jobs : n = nextJob
    BY <1>n
<1>type. /\ pc \in [Jobs -> Labels] /\ seenDoc \in [Jobs -> DocumentStatus \cup {"none"}]
         /\ jobStatus \in [Jobs -> JobStatus \cup NoRow]
         /\ jobDoc \in [Jobs -> Docs \cup {NoDoc}]
         /\ jobStage \in [Jobs -> Stages]
    BY DEF UploadInv, JobInv, TypeOK, RunnerTypeOK, RowsTypeOK
<1>tip. /\ jobDoc[j] \in Docs /\ Tip(jobDoc[j], j)
        /\ docStatus[jobDoc[j]] = seenDoc[j]
        /\ \A k \in Jobs : k # j /\ pc[k] \in Commits \cup Completing =>
              jobDoc[k] \in Docs /\ jobDoc[k] # jobDoc[j]
    BY TipOf DEF CompleteStage, Commits
<1> PICK d \in Docs : d = jobDoc[j]
    BY <1>tip
<1>reads. docStatus[d] = "PROCESSING"
    BY <1>tip DEF CompleteStage, UploadInv, SweptInv, ChainInv, ReadRules, WorkerReads
<1>fresh. /\ jobDoc[n] = NoDoc /\ jobStatus[n] = "UNBORN"
          /\ pc[n] \in {"idle", "start_job", "return"}
    BY <1>n, FreshJob DEF UploadInv
<1>rows. /\ \A k \in Jobs : k # n => jobDoc'[k] = jobDoc[k] /\ jobStage'[k] = jobStage[k]
         /\ \A k \in Jobs : k # n /\ k # j => jobStatus'[k] = jobStatus[k]
         /\ n # j /\ jobStatus'[j] = "DONE" /\ jobStatus'[n] = "QUEUED"
         /\ jobDoc'[n] = d /\ jobStage'[n] = jobStage[j] + 1
         /\ JobVisible(j) /\ jobStage[j] < LastStage
         /\ UNCHANGED <<docStatus, docChunks, docIndexedAt>>
    BY <1>type, <1>fresh DEF CompleteStage, AdvanceRows, InsertJob, JobVisible, JobStatus
<1>jobs. /\ JobsOf(d)' = JobsOf(d) \cup {n} /\ n \notin JobsOf(d)
         /\ \A e \in Docs : e # d => JobsOf(e)' = JobsOf(e) /\ n \notin JobsOf(e)
    BY <1>rows, <1>fresh DEF JobsOf, JobVisible, JobStatus
<1>1. Advances(d, j)
  <2>1. \A k \in JobsOf(d) : /\ jobStage'[k] = jobStage[k]
                             /\ k # j => jobStatus'[k] = jobStatus[k]
      BY <1>rows, <1>jobs DEF JobsOf
  <2> QED BY <2>1, <1>tip, <1>reads, <1>rows, <1>jobs DEF Advances
<1>2. \A e \in Docs : e # d => SameDoc(e)
  <2> SUFFICES ASSUME NEW e \in Docs, e # d PROVE SameDoc(e)
      OBVIOUS
  <2>1. \A k \in JobsOf(e) : k \in Jobs /\ k # n /\ k # j
      BY <1>jobs DEF JobsOf
  <2> QED BY <2>1, <1>rows, <1>jobs DEF SameDoc
<1>3. ExecRules'
  <2>1. \A k \in Jobs : k # j /\ pc[k] \in Commits \cup Completing => Spares(k)
      BY <1>rows, <1>fresh DEF Spares, JobVisible, Commits, Completing
  <2>2. /\ \A k \in Jobs : k # j => pc'[k] = pc[k] /\ seenDoc'[k] = seenDoc[k]
        /\ pc'[j] \notin Commits /\ pc'[j] \notin Completing
      BY <1>type DEF CompleteStage, Commits, Completing
  <2> QED BY <2>1, <2>2, ExecKept DEF UploadInv
<1> QED BY <1>1, <1>2, <1>3 DEF Effect, Changes

LEMMA WorkersEffect ==
    ASSUME UploadInv, Workers
    PROVE  Effect /\ ExecRules'
<1> PICK j \in Jobs : Deliver(j) \/ RunStage(j) \/ Crash(j) \/ TimeOut(j) \/ Abandon(j)
    BY DEF Workers, RunnerNext
<1>type. /\ pc \in [Jobs -> Labels] /\ seenDoc \in [Jobs -> DocumentStatus \cup {"none"}]
         /\ docChunks \in [Docs -> BOOLEAN] /\ jobStage \in [Jobs -> Stages]
    BY DEF UploadInv, JobInv, TypeOK, RunnerTypeOK, RowsTypeOK
<1>doc. pc[j] \notin {"idle", "start_job", "return"} => jobDoc[j] \in Docs
    BY Started DEF UploadInv
<1>goto. ASSUME UNCHANGED rowVars, NEW label \in Labels \ (Commits \cup Completing),
                Goto(j, label)
         PROVE  Effect /\ ExecRules'
  <2>1. /\ \A k \in Jobs : k # j => pc'[k] = pc[k] /\ seenDoc'[k] = seenDoc[k]
        /\ pc'[j] \notin Commits /\ pc'[j] \notin Completing
      BY <1>goto, <1>type DEF Goto
  <2> QED BY <1>goto, <2>1, QuietStep DEF rowVars
<1>read. ASSUME UNCHANGED rowVars, NEW label \in Labels,
                ReadJob(j, label) \/ ReadDoc(j, label),
                label \in Commits => ReadDoc(j, label),
                label \in Completing => pc[j] \in Completing
         PROVE  Effect /\ ExecRules'
  <2>1. /\ \A k \in Jobs : k # j => pc'[k] = pc[k] /\ seenDoc'[k] = seenDoc[k]
        /\ pc'[j] = label
        /\ label \in Commits => seenDoc'[j] = docStatus[jobDoc[j]]
      BY <1>read, <1>type DEF ReadJob, ReadDoc
  <2> QED BY <1>read, <2>1, QuietStep DEF rowVars
<1>out. {"idle", "start_job", "load", "body", "fail_job", "enqueue", "return"}
            \subseteq Labels \ (Commits \cup Completing)
    BY DEF Labels, Commits, Completing
<1>in. {"start_doc", "start_commit", "fail_doc", "fail_commit", "complete_doc",
        "complete_commit"} \subseteq Labels
    BY DEF Labels
<1>1. CASE Deliver(j) \/ Return(j) \/ Crash(j) \/ TimeOut(j) \/ FnFailsTransiently(j)
    BY <1>1, <1>out, <1>goto DEF Deliver, Return, Crash, TimeOut, FnFailsTransiently
<1>2. CASE \/ StartLosesRow(j) \/ AttemptLosesRow(j) \/ FailLosesRow(j)
           \/ CompleteLosesRow(j) \/ EnqueueNext(j) \/ EnqueueNextFails(j)
    BY <1>2, <1>out, <1>goto DEF StartLosesRow, AttemptLosesRow, FailLosesRow,
       CompleteLosesRow, EnqueueNext, EnqueueNextFails
<1>3. CASE FnLoadsDocument(j) \/ FnFailsPermanently(j) \/ FnFailsLastTry(j)
    BY <1>3, <1>out, <1>goto DEF FnLoadsDocument, FnFailsPermanently, FnFailsLastTry
<1>4. CASE FnSucceeds(j)
  <2>1. /\ pc[j] = "body" /\ Goto(j, "complete_job")
        /\ UNCHANGED <<docStatus, docIndexedAt, jobDoc, jobStage, jobStatus>>
        /\ docChunks' = IF jobStage[j] = LastStage
                          THEN [docChunks EXCEPT ![jobDoc[j]] = TRUE]
                          ELSE docChunks
      BY <1>4 DEF FnSucceeds
  <2>2. jobDoc[j] \in Docs
      BY <2>1, <1>doc
  <2>3. /\ \A d \in Docs : docChunks[d] => docChunks'[d]
        /\ jobStage[j] = LastStage => docChunks'[jobDoc[j]]
      BY <2>1, <2>2, <1>type
  <2>4. /\ \A k \in Jobs : k # j => pc'[k] = pc[k] /\ seenDoc'[k] = seenDoc[k]
        /\ pc'[j] \notin Commits
      BY <2>1, <1>type DEF Goto, Commits
  <2> QED BY <2>1, <2>3, <2>4, QuietStep
<1>5. CASE StartReadsJob(j)
    BY <1>5, <1>out, <1>in, <1>goto, <1>read DEF StartReadsJob, Commits, Completing
<1>6. CASE StartReadsDoc(j)
  <2>1. PICK label \in {"start_commit", "fail_commit"} :
             Goto(j, "return") \/ ReadDoc(j, label)
      BY <1>6 DEF StartReadsDoc
  <2>2. UNCHANGED rowVars /\ label \notin Completing
      BY <1>6 DEF StartReadsDoc, Completing
  <2> QED BY <2>1, <2>2, <1>out, <1>in, <1>goto, <1>read
<1>7. CASE StartCommits(j)
    BY <1>7, StartsEffect
<1>8. CASE FailReadsJob(j)
    BY <1>8, <1>out, <1>in, <1>goto, <1>read DEF FailReadsJob, Commits, Completing
<1>9. CASE FailReadsDoc(j)
    BY <1>9, <1>out, <1>in, <1>goto, <1>read DEF FailReadsDoc, Commits, Completing
<1>10. CASE CompleteReadsJob(j)
    BY <1>10, <1>out, <1>in, <1>goto, <1>read DEF CompleteReadsJob, Commits, Completing
<1>11. CASE CompleteReadsDoc(j)
    BY <1>11, <1>out, <1>in, <1>goto, <1>read DEF CompleteReadsDoc, Commits, Completing
<1>12. CASE FailCommits(j)
  <2>1. /\ pc[j] \in Commits /\ JobVisible(j) /\ Goto(j, "return")
        /\ jobStatus' = [jobStatus EXCEPT ![j] = "FAILED"]
        /\ UNCHANGED <<docChunks, docIndexedAt, jobDoc, jobStage>>
      BY <1>12 DEF FailCommits, FailRows, Commits
  <2>2. jobDoc[j] \in Docs /\ seenDoc[j] \in ActiveDoc
      BY <2>1, TipOf DEF Tip
  <2>3. docStatus' = [docStatus EXCEPT ![jobDoc[j]] = "FAILED"]
      BY <1>12, <2>2 DEF FailCommits, FailRows
  <2>4. /\ Fails(jobDoc[j], j) /\ ExecRules'
        /\ \A e \in Docs : e # jobDoc[j] => SameDoc(e)
      BY <2>1, <2>3, <1>out, WorkerWorks DEF Fails, JobStatus
  <2> QED BY <2>2, <2>4 DEF Effect, Changes
<1>13. CASE CompleteLastStage(j)
  <2>1. /\ pc[j] = "complete_commit" /\ JobVisible(j) /\ Goto(j, "return")
        /\ jobStage[j] = LastStage
        /\ jobStatus' = [jobStatus EXCEPT ![j] = "DONE"]
        /\ docStatus' = [docStatus EXCEPT ![jobDoc[j]] = "INDEXED"]
        /\ docIndexedAt' = [docIndexedAt EXCEPT ![jobDoc[j]] = TRUE]
        /\ UNCHANGED <<docChunks, jobDoc, jobStage>>
      BY <1>13 DEF CompleteLastStage, IndexedRows
  <2>2. pc[j] \in Commits /\ pc[j] \in Completing
      BY <2>1 DEF Commits, Completing
  <2>3. /\ jobDoc[j] \in Docs /\ docStatus[jobDoc[j]] = "PROCESSING"
      BY <2>1, <2>2, TipOf DEF UploadInv, SweptInv, ChainInv, ReadRules, WorkerReads
  <2>4. docChunks[jobDoc[j]]
      BY <2>1, <2>2 DEF UploadInv, ExecRules, ChunksWritten
  <2>5. /\ docIndexedAt'[jobDoc[j]]
        /\ \A e \in Docs : e # jobDoc[j] => docIndexedAt'[e] = docIndexedAt[e]
      BY <2>1, <2>3 DEF UploadInv, JobInv, TypeOK, RowsTypeOK
  <2>6. /\ Works(jobDoc[j], j, "DONE", "INDEXED") /\ ExecRules'
        /\ \A e \in Docs : e # jobDoc[j] => SameDoc(e)
      BY <2>1, <2>2, <2>5, <1>out, WorkerWorks DEF JobStatus
  <2>7. Finishes(jobDoc[j], j)
      BY <2>1, <2>3, <2>4, <2>5, <2>6 DEF Finishes
  <2> QED BY <2>3, <2>6, <2>7 DEF Effect, Changes
<1>14. CASE CompleteStage(j)
    BY <1>14, AdvancesEffect
<1>15. CASE Abandon(j)
  <2>1. UNCHANGED <<rowVars, execVars>>
      BY <1>15 DEF Abandon
  <2> QED BY <2>1, NothingChanges DEF rowVars, execVars, UploadInv, ExecRules, DocReads,
          ChunksWritten, JobVisible
<1> QED
    BY <1>1, <1>2, <1>3, <1>4, <1>5, <1>6, <1>7, <1>8, <1>9, <1>10, <1>11, <1>12,
       <1>13, <1>14, <1>15 DEF RunStage

(***************************************************************************)
(* The effects of the handlers' steps                                      *)
(***************************************************************************)

\* The executions see of a handler's step only deleted rows.
LEMMA HandlersSpare ==
    ASSUME UploadInv, UNCHANGED execVars,
           \A k \in Jobs : pc[k] \in Commits \cup Completing => Spares(k)
    PROVE  ExecRules'
<1>1. DocReads'
    BY DEF UploadInv, ExecRules, DocReads, Spares, execVars
<1>2. ChunksWritten'
    BY DEF UploadInv, ExecRules, ChunksWritten, Spares, execVars
<1> QED BY <1>1, <1>2 DEF ExecRules

LEMMA HandlerQuiet ==
    ASSUME UploadInv, UNCHANGED <<rowVars, execVars>>
    PROVE  Effect /\ ExecRules'
<1>1. Effect
    BY NothingChanges DEF rowVars
<1>2. \A k \in Jobs : pc[k] \in Commits \cup Completing => Spares(k)
    BY DEF Spares, rowVars, JobVisible
<1> QED BY <1>1, <1>2, HandlersSpare

\* The rows of a document that is not committed and of its job are committed
\* or rolled back, or the rows of a committed document are deleted.
LEMMA RowsChangeTogether ==
    ASSUME UploadInv, UNCHANGED <<jobDoc, jobStage, execVars>>,
           NEW d \in Docs, NEW s, NEW t,
           \/ s = "DELETED" /\ t = "DELETED" /\ docStatus[d] # "DELETED"
           \/ /\ s = "QUEUED" /\ t = "PENDING"
              /\ \E r \in Requests : Uploading(r) /\ req[r].doc = d,
           docStatus' = [docStatus EXCEPT ![d] = t],
           \A k \in Jobs : jobStatus'[k] = IF jobDoc[k] = d THEN s ELSE jobStatus[k],
           \A e \in Docs : e # d => /\ docIndexedAt'[e] = docIndexedAt[e]
                                    /\ docChunks'[e] = docChunks[e]
    PROVE  Effect /\ ExecRules'
<1>type. docStatus \in [Docs -> DocumentStatus \cup NoRow]
    BY DEF UploadInv, JobInv, TypeOK, RowsTypeOK
<1>1. \A e \in Docs : e # d => SameDoc(e)
    BY <1>type DEF SameDoc, JobsOf, JobVisible
<1>commit. s = "QUEUED" => /\ docStatus[d] = "UNCOMMITTED"
                           /\ \A k \in Jobs : jobDoc[k] = d =>
                                 /\ jobStage[k] = 1 /\ ~JobVisible(k)
                                 /\ pc[k] \in {"idle", "start_job", "return"}
    BY UploadedJob DEF UploadInv, JobVisible, JobStatus
<1>2. Changes(d)
  <2>1. CASE s = "DELETED" /\ t = "DELETED" /\ docStatus[d] # "DELETED"
    <3>1. JobsOf(d)' = {}
        BY <2>1 DEF JobsOf, JobVisible, JobStatus
    <3> QED BY <2>1, <3>1, <1>type DEF Changes, Vanishes
  <2>2. CASE s = "QUEUED" /\ t = "PENDING"
    <3>1. JobsOf(d) = {} /\ docStatus[d] = "UNCOMMITTED" /\ docStatus'[d] = "PENDING"
        BY <2>2, <1>commit, <1>type DEF JobsOf
    <3>2. \A k \in JobsOf(d)' : jobStatus'[k] = "QUEUED" /\ jobStage'[k] = 1
        BY <2>2, <1>commit DEF JobsOf
    <3> QED BY <3>1, <3>2 DEF Changes, Appears
  <2> QED BY <2>1, <2>2
<1>3. ExecRules'
  <2>1. ASSUME NEW k \in Jobs, pc[k] \in Commits \cup Completing
        PROVE  Spares(k)
    <3>1. jobDoc[k] \in Docs /\ (jobDoc[k] = d => s = "DELETED" /\ t = "DELETED")
      <4>1. pc[k] \notin {"idle", "start_job", "return"}
          BY <2>1 DEF Commits, Completing
      <4> QED BY <4>1, <1>commit, Started DEF UploadInv
    <3> QED BY <3>1, <1>type DEF Spares, JobVisible, JobStatus
  <2> QED BY <2>1, HandlersSpare
<1> QED BY <1>1, <1>2, <1>3 DEF Effect

LEMMA UploadsEffect ==
    ASSUME UploadInv, Uploads
    PROVE  Effect /\ ExecRules'
<1>type. /\ docStatus \in [Docs -> DocumentStatus \cup NoRow]
         /\ jobStatus \in [Jobs -> JobStatus \cup NoRow]
         /\ jobDoc \in [Jobs -> Docs \cup {NoDoc}]
         /\ jobStage \in [Jobs -> Stages]
         /\ docChunks \in [Docs -> BOOLEAN] /\ docIndexedAt \in [Docs -> BOOLEAN]
    BY DEF UploadInv, JobInv, TypeOK, RowsTypeOK
<1>exec. UNCHANGED execVars
    BY DEF Uploads
<1>1. ASSUME NEW r \in Requests, NEW d \in Docs, UploadNew(r, d)
      PROVE  Effect /\ ExecRules'
  <2>n. nextJob \in Jobs
      BY <1>1 DEF UploadNew, InsertJob
  <2> PICK n \in Jobs : n = nextJob
      BY <2>n
  <2>fresh. jobStatus[n] = "UNBORN" /\ pc[n] \in {"idle", "start_job", "return"}
      BY <2>n, FreshJob DEF UploadInv
  <2>rows. /\ \A k \in Jobs : k # n => /\ jobDoc'[k] = jobDoc[k]
                                       /\ jobStage'[k] = jobStage[k]
                                       /\ jobStatus'[k] = jobStatus[k]
           /\ jobStatus'[n] = "UNCOMMITTED"
           /\ docStatus[d] = "UNBORN" /\ docStatus'[d] = "UNCOMMITTED"
           /\ \A e \in Docs : e # d => docStatus'[e] = docStatus[e]
           /\ UNCHANGED <<docChunks, docIndexedAt>>
      BY <1>1, <1>type DEF UploadNew, InsertJob
  <2>jobs. \A e \in Docs : JobsOf(e)' = JobsOf(e) /\ n \notin JobsOf(e)
      BY <2>rows, <2>fresh DEF JobsOf, JobVisible, JobStatus
  <2>childless. \A k \in Jobs : jobDoc[k] # d
      BY <2>rows DEF UploadInv, SweptInv, ChainInv, RowRules, RowsAgree, DocVisible,
         DocumentStatus
  <2>1. Hidden(d)
      BY <2>rows, <2>jobs, <2>childless DEF Hidden, JobsOf
  <2>2. \A e \in Docs : e # d => SameDoc(e)
      BY <2>rows, <2>jobs DEF SameDoc, JobsOf
  <2>3. \A k \in Jobs : pc[k] \in Commits \cup Completing => Spares(k)
    <3> SUFFICES ASSUME NEW k \in Jobs, pc[k] \in Commits \cup Completing
                 PROVE  Spares(k)
        OBVIOUS
    <3>1. pc[k] \notin {"idle", "start_job", "return"}
        BY DEF Commits, Completing
    <3>2. k # n /\ jobDoc[k] \in Docs /\ jobDoc[k] # d
        BY <3>1, <2>fresh, <2>childless, Started DEF UploadInv
    <3> QED BY <3>2, <2>rows DEF Spares, JobVisible
  <2> QED BY <2>1, <2>2, <2>3, <1>exec, HandlersSpare DEF Effect, Changes
<1>2. ASSUME NEW r \in Requests,
             \/ \E d \in Docs : UploadExisting(r, d)
             \/ UploadFindsJob(r) \/ RequestEnqueues(r)
      PROVE  Effect /\ ExecRules'
  <2>1. UNCHANGED <<rowVars, execVars>>
      BY <1>2, <1>exec DEF UploadExisting, UploadFindsJob, RequestEnqueues
  <2> QED BY <2>1, HandlerQuiet
<1>ends. ASSUME NEW r \in Requests, Uploading(r), NEW s, NEW t,
                \/ s = "DELETED" /\ t = "DELETED"
                \/ s = "QUEUED" /\ t = "PENDING",
                docStatus' = [docStatus EXCEPT ![req[r].doc] = t],
                jobStatus' = [jobStatus EXCEPT ![req[r].job] = s],
                UNCHANGED <<docChunks, docIndexedAt, jobDoc, jobStage>>
         PROVE  Effect /\ ExecRules'
  <2>1. /\ req[r].doc \in Docs /\ docStatus[req[r].doc] = "UNCOMMITTED"
        /\ \A k \in Jobs : jobDoc[k] = req[r].doc <=> k = req[r].job
      BY <1>ends, UploadedJob DEF UploadInv
  <2>2. \A k \in Jobs : jobStatus'[k] = IF jobDoc[k] = req[r].doc THEN s ELSE jobStatus[k]
      BY <1>ends, <2>1, <1>type
  <2> QED BY <1>ends, <2>1, <2>2, <1>exec, RowsChangeTogether
<1>3. ASSUME NEW r \in Requests, RequestCommits(r)
      PROVE  Effect /\ ExecRules'
  <2>1. CASE Uploading(r)
    <3>1. /\ docStatus' = [docStatus EXCEPT ![req[r].doc] = "PENDING"]
          /\ jobStatus' = [jobStatus EXCEPT ![req[r].job] = "QUEUED"]
          /\ UNCHANGED <<docChunks, docIndexedAt, jobDoc, jobStage>>
        BY <1>3, <2>1 DEF RequestCommits, Uploading
    <3> QED BY <2>1, <3>1, <1>ends
  <2>2. CASE ~Uploading(r)
    <3>1. req[r].op = "existing"
        BY <1>3, <2>2 DEF RequestCommits, Uploading, UploadInv, SweptInv, ChainInv, RowRules,
           UploadRequests
    <3>2. UNCHANGED <<rowVars, execVars>>
        BY <1>3, <3>1, <1>exec DEF RequestCommits, rowVars
    <3> QED BY <3>2, HandlerQuiet
  <2> QED BY <2>1, <2>2
<1>4. ASSUME NEW r \in Requests, RequestAborts(r)
      PROVE  Effect /\ ExecRules'
  <2>1. CASE Uploading(r)
    <3>1. docStatus[req[r].doc] = "UNCOMMITTED" /\ jobStatus[req[r].job] = "UNCOMMITTED"
        BY <2>1, UploadedJob DEF UploadInv
    <3>2. /\ docStatus' = [docStatus EXCEPT ![req[r].doc] = "DELETED"]
          /\ jobStatus' = [jobStatus EXCEPT ![req[r].job] = "DELETED"]
          /\ UNCHANGED <<docChunks, docIndexedAt, jobDoc, jobStage>>
        BY <1>4, <3>1, <1>type DEF RequestAborts
    <3> QED BY <2>1, <3>2, <1>ends
  <2>2. CASE ~Uploading(r)
    <3>1. /\ \A e \in Docs : ~(docStatus[e] = "UNCOMMITTED" /\ req[r].doc = e)
          /\ \A k \in Jobs : ~(jobStatus[k] = "UNCOMMITTED" /\ req[r].job = k)
        BY <2>2 DEF UploadInv, SweptInv, ChainInv, RowRules, UploadRequests
    <3>2. UNCHANGED <<rowVars, execVars>>
        BY <1>4, <3>1, <1>type, <1>exec DEF RequestAborts, rowVars
    <3> QED BY <3>2, HandlerQuiet
  <2> QED BY <2>1, <2>2
<1>5. ASSUME NEW d \in Docs, Delete(d)
      PROVE  Effect /\ ExecRules'
  <2>1. /\ docStatus' = [docStatus EXCEPT ![d] = "DELETED"] /\ docStatus[d] # "DELETED"
        /\ \A k \in Jobs : jobStatus'[k] = IF jobDoc[k] = d THEN "DELETED" ELSE jobStatus[k]
        /\ \A e \in Docs : e # d => /\ docIndexedAt'[e] = docIndexedAt[e]
                                    /\ docChunks'[e] = docChunks[e]
        /\ UNCHANGED <<jobDoc, jobStage>>
      BY <1>5, <1>type DEF Delete, DocVisible, DocumentStatus
  <2> QED BY <2>1, <1>exec, RowsChangeTogether
<1> QED
    BY <1>1, <1>2, <1>3, <1>4, <1>5 DEF Uploads, UploadNext, RequestStep

(***************************************************************************)
(* The invariant                                                           *)
(***************************************************************************)

LEMMA UploadInvInit == Init => UploadInv
<1> SUFFICES ASSUME Init PROVE UploadInv
    OBVIOUS
<1>1. SweptInv /\ JobInv
    BY SweptInvInit, JobInvInit
<1>2. ExecRules
    BY DEF Init, RunnerInit, ExecRules, DocReads, ChunksWritten, Commits, Completing
<1>3. \A d \in Docs : Told(d)
    BY DEF Init, RowsInit, Told, JobsOf, JobVisible, JobStatus
<1> QED BY <1>1, <1>2, <1>3 DEF UploadInv

LEMMA UploadInvStep ==
    UploadInv /\ [UploadSystem]_vars => UploadInv' /\ Effect
<1> SUFFICES ASSUME UploadInv, [UploadSystem]_vars PROVE UploadInv' /\ Effect
    OBVIOUS
<1>1. SweptInv' /\ JobInv'
  <2>1. [SweptSystem]_vars /\ [DeployedSystem]_vars
      BY DEF SweptSystem, DeployedSystem
  <2> QED BY <2>1, SweptInvStep, JobInvStep DEF UploadInv
<1>2. Effect /\ ExecRules'
  <2>1. CASE UNCHANGED vars
      BY <2>1, HandlerQuiet DEF vars
  <2> QED BY <2>1, WorkersEffect, UploadsEffect DEF UploadSystem
<1>3. \A d \in Docs : Told(d)'
    BY <1>2, EffectIsTold DEF UploadInv, JobInv
<1> QED BY <1>1, <1>2, <1>3 DEF UploadInv

LEMMA UploadInvCorrect == UploadSpec => []UploadInv
BY UploadInvInit, UploadInvStep, PTL DEF UploadSpec

(***************************************************************************)
(* The properties                                                          *)
(***************************************************************************)

\* A document has at most one job of each stage, and one of a later stage only
\* after the job of the stage before it is DONE.
THEOREM StageChainCorrect == UploadSpec => []StageChain
<1>1. UploadInv => StageChain
  <2> SUFFICES ASSUME UploadInv, NEW d \in Docs, NEW j \in JobsOf(d)
               PROVE  /\ \A k \in JobsOf(d) : jobStage[k] = jobStage[j] => k = j
                      /\ jobStage[j] > 1 =>
                            \E k \in JobsOf(d) : /\ jobStage[k] = jobStage[j] - 1
                                                 /\ jobStatus[k] = "DONE"
      BY DEF StageChain
  <2>1. /\ j \in Jobs /\ jobDoc[j] = d /\ JobVisible(j) /\ jobStage[j] \in Nat
        /\ Told(d) /\ Chain /\ NoStageSkipped /\ RowsAgree
      BY DEF JobsOf, UploadInv, SweptInv, TypeOK, RowsTypeOK, Stages, ChainInv, ChainRules,
             RowRules
  <2>2. ASSUME NEW k \in JobsOf(d), jobStage[k] = jobStage[j] PROVE k = j
      BY <2>1, <2>2 DEF JobsOf, Chain, Siblings
  <2>3. ASSUME jobStage[j] > 1
        PROVE  \E k \in JobsOf(d) : jobStage[k] = jobStage[j] - 1 /\ jobStatus[k] = "DONE"
    <3>1. PICK k \in Jobs : Siblings(j, k) /\ jobStage[k] = jobStage[j] - 1
      <4>1. jobStage[j] - 1 \in 1..(jobStage[j] - 1)
          BY <2>1, <2>3
      <4> QED BY <2>1, <4>1 DEF NoStageSkipped
    <3>2. k \in JobsOf(d)
        BY <2>1, <3>1 DEF RowsAgree, Siblings, JobsOf, JobVisible, JobStatus, DocVisible,
           DocumentStatus
    <3>3. jobStage[k] < jobStage[j]
        BY <2>1, <3>1
    <3> QED BY <2>1, <3>1, <3>2, <3>3 DEF Told
  <2> QED BY <2>2, <2>3
<1> QED BY <1>1, UploadInvCorrect, PTL

\* The document's status and its jobs' statuses tell the same story.
THEOREM StatusAgreesCorrect == UploadSpec => []StatusAgrees
<1>1. UploadInv => StatusAgrees
    BY DEF UploadInv, Told, StatusAgrees, ActiveJobsOf
<1> QED BY <1>1, UploadInvCorrect, PTL

\* An INDEXED document has been through its last stage and has its chunks.
THEOREM IndexedIsSearchableCorrect == UploadSpec => []IndexedIsSearchable
<1>1. UploadInv => IndexedIsSearchable
    BY DEF UploadInv, Told, IndexedIsSearchable
<1> QED BY <1>1, UploadInvCorrect, PTL

\* Two stages of one document never execute at the same time.
THEOREM OneStageAtATimeCorrect == UploadSpec => []OneStageAtATime
<1>1. SweptInv => OneStageAtATime
  <2> SUFFICES ASSUME SweptInv, NEW j \in Jobs, NEW k \in Jobs, jobDoc[j] = jobDoc[k],
                      pc[j] \in {"load", "body"}, pc[k] \in {"load", "body"}
               PROVE  j = k
      BY DEF OneStageAtATime
  <2>1. pc[j] \notin Rest /\ pc[k] \notin Rest
      BY DEF Rest
  <2> QED BY <2>1, ExecutedIsLast DEF Siblings, Finished
<1> QED BY <1>1, UploadSweptInv, PTL

\* Uploads, workers, retries and crashes together implement the lifecycle of a
\* document: each stage completes exactly once and in order.
THEOREM UploadImplementsLifecycle == UploadSpec => ImplementsLifecycle
<1>1. UploadInv /\ [UploadSystem]_vars => [Lifecycle!LifecycleNext]_(Lifecycle!lifecycleVars)
    BY UploadInvStep, EffectIsStep DEF UploadInv
<1> QED
    BY <1>1, InitIsInit, UploadInvCorrect, PTL
       DEF UploadSpec, ImplementsLifecycle, Lifecycle!LifecycleSpec

(***************************************************************************)
(* The answer of a poll (PolledSpec)                                       *)
(***************************************************************************)

\* What a poll has read of a document that settled stays true until a delete.
PollReads ==
    poll # NoPoll =>
        /\ poll.doc \in Docs /\ poll.status \in DocumentStatus
        /\ poll.status \in {"INDEXED", "FAILED"} =>
              docStatus[poll.doc] \in {poll.status, "DELETED"}

\* Until the first reprocess request, this is a system of uploads.
PollInv == JobInv /\ (reprocessed = 0 => UploadInv /\ PollReads)

\* The jobs of a document are DONE up to one stage, and after it there are none.
Reached(d, t) ==
    /\ t \in 1..NoStage
    /\ \A s \in Stages : s < t => StageState(d)[s] = "DONE"
    /\ \A s \in Stages : s > t => /\ StageState(d)[s] = "QUEUED"
                                  /\ \A j \in JobsOf(d) : jobStage[j] # s
    /\ t # NoStage =>
          StageState(d)[t] \in IF docStatus[d] = "FAILED" THEN {"FAILED"} ELSE ActiveJob
    /\ t = NoStage <=> docStatus[d] = "INDEXED"

\* The state of a stage is the status of its only job.
LEMMA StageStateIs ==
    ASSUME UploadInv, NEW d \in Docs, NEW s \in Stages
    PROVE  /\ \A j \in JobsOf(d) : jobStage[j] = s => StageState(d)[s] = jobStatus[j]
           /\ (\A j \in JobsOf(d) : jobStage[j] # s) => StageState(d)[s] = "QUEUED"
<1>1. \A j, k \in JobsOf(d) : jobStage[j] = jobStage[k] => j = k
    BY DEF UploadInv, SweptInv, ChainInv, ChainRules, Chain, Siblings, JobsOf
<1>2. ASSUME NEW j \in JobsOf(d), jobStage[j] = s
      PROVE  StageState(d)[s] = jobStatus[j]
  <2>1. j \in Jobs /\ j <= j
      BY DEF JobsOf, Jobs
  <2>2. \A k \in Jobs : LatestByStage(d, s, k) <=> k = j
      BY <1>1, <1>2, <2>1 DEF LatestByStage
  <2>3. (CHOOSE k \in Jobs : LatestByStage(d, s, k)) = j
      BY <2>1, <2>2
  <2> QED BY <2>1, <2>2, <2>3 DEF StageState
<1>3. ASSUME \A j \in JobsOf(d) : jobStage[j] # s
      PROVE  StageState(d)[s] = "QUEUED"
    BY <1>3 DEF StageState, LatestByStage
<1> QED BY <1>2, <1>3

LEMMA VisibleIsReached ==
    ASSUME UploadInv, NEW d \in Docs, DocVisible(d)
    PROVE  \E t \in 1..NoStage : Reached(d, t)
<1>type. /\ LastStage \in Nat \ {0} /\ NoStage = LastStage + 1 /\ Stages = 1..LastStage
         /\ \A j \in JobsOf(d) : jobStage[j] \in Stages
         /\ Told(d)
    BY LastStageAssumption DEF UploadInv, JobInv, TypeOK, RowsTypeOK, JobsOf, NoStage, Stages
<1>before. ASSUME NEW j \in JobsOf(d), NEW s \in Stages, s < jobStage[j]
           PROVE  \E k \in JobsOf(d) : jobStage[k] = s
  <2>1. j \in Jobs /\ jobDoc[j] = d /\ JobVisible(j) /\ s \in 1..(jobStage[j] - 1)
      BY <1>before, <1>type DEF JobsOf
  <2>2. PICK k \in Jobs : Siblings(j, k) /\ jobStage[k] = s
      BY <2>1 DEF UploadInv, SweptInv, ChainInv, ChainRules, NoStageSkipped
  <2>3. k \in JobsOf(d)
      BY <2>1, <2>2 DEF UploadInv, SweptInv, ChainInv, RowRules, RowsAgree, Siblings, JobsOf,
         JobVisible, JobStatus, DocVisible, DocumentStatus
  <2> QED BY <2>2, <2>3
<1>1. CASE docStatus[d] = "INDEXED"
  <2>1. PICK j \in JobsOf(d) : jobStage[j] = LastStage
      BY <1>1, <1>type DEF Told
  <2>2. ASSUME NEW s \in Stages PROVE StageState(d)[s] = "DONE"
    <3>1. PICK k \in JobsOf(d) : jobStage[k] = s
      <4>1. s < LastStage \/ s = LastStage
          BY <1>type
      <4> QED BY <4>1, <2>1, <1>before
    <3> QED BY <3>1, <1>1, <1>type, StageStateIs DEF Told
  <2>3. Reached(d, NoStage)
      BY <2>2, <1>1, <1>type DEF Reached
  <2> QED BY <2>3, <1>type
<1>2. CASE docStatus[d] # "INDEXED"
  <2>1. PICK j \in JobsOf(d) :
           jobStatus[j] \in IF docStatus[d] = "FAILED" THEN {"FAILED"} ELSE ActiveJob
    <3>1. CASE docStatus[d] = "FAILED"
        BY <3>1, <1>type DEF Told
    <3>2. CASE docStatus[d] \in ActiveDoc
      <4>1. PICK j \in Jobs : jobDoc[j] = d /\ jobStatus[j] \in ActiveJob
          BY <3>2 DEF UploadInv, SweptInv, ChainInv, Driven
      <4>2. j \in JobsOf(d)
          BY <4>1 DEF JobsOf, JobVisible, JobStatus, ActiveJob
      <4> QED BY <4>1, <4>2, <3>2 DEF ActiveDoc
    <3> QED BY <3>1, <3>2, <1>2 DEF DocVisible, DocumentStatus, ActiveDoc
  <2>2. jobStatus[j] # "DONE" /\ jobStage[j] \in Stages
      BY <2>1, <1>type DEF ActiveJob
  <2>3. ASSUME NEW s \in Stages, s < jobStage[j] PROVE StageState(d)[s] = "DONE"
    <3>1. PICK k \in JobsOf(d) : jobStage[k] = s
        BY <2>3, <1>before
    <3>2. jobStatus[k] = "DONE"
        BY <2>3, <3>1, <1>type DEF Told
    <3> QED BY <3>1, <3>2, StageStateIs
  <2>4. ASSUME NEW s \in Stages, s > jobStage[j]
        PROVE  StageState(d)[s] = "QUEUED" /\ \A k \in JobsOf(d) : jobStage[k] # s
    <3>1. \A k \in JobsOf(d) : jobStage[k] # s
      <4> SUFFICES ASSUME NEW k \in JobsOf(d), jobStage[k] = s PROVE FALSE
          OBVIOUS
      <4>1. jobStage[j] < jobStage[k]
          BY <2>2, <2>4, <1>type
      <4> QED BY <4>1, <2>2, <1>type DEF Told
    <3> QED BY <3>1, StageStateIs
  <2>5. StageState(d)[jobStage[j]] = jobStatus[j]
      BY <2>2, StageStateIs
  <2>6. jobStage[j] \in 1..NoStage /\ jobStage[j] # NoStage
      BY <2>2, <1>type
  <2>7. Reached(d, jobStage[j])
      BY <2>1, <2>3, <2>4, <2>5, <2>6, <1>2 DEF Reached
  <2> QED BY <2>6, <2>7
<1> QED BY <1>1, <1>2

\* Progress and the current stage tell which stage was reached.
LEMMA ReachedIsReported ==
    ASSUME NEW d, NEW t, Reached(d, t), NEW status, status # "FAILED"
    PROVE  DoneCount(d) = t - 1 /\ CurrentStage(status, StageState(d)) = t
<1>type. /\ LastStage \in Nat /\ NoStage = LastStage + 1 /\ Stages = 1..LastStage
         /\ t \in 1..NoStage
    BY LastStageAssumption DEF Reached, NoStage, Stages
<1>state. \A s \in Stages : /\ StageState(d)[s] = "DONE" <=> s < t
                            /\ StageState(d)[s] = "RUNNING" => s = t
  <2> SUFFICES ASSUME NEW s \in Stages
               PROVE  /\ StageState(d)[s] = "DONE" <=> s < t
                      /\ StageState(d)[s] = "RUNNING" => s = t
      OBVIOUS
  <2>1. CASE s < t
      BY <2>1 DEF Reached
  <2>2. CASE s > t
      BY <2>2, <1>type DEF Reached
  <2>3. CASE s = t
    <3>1. t # NoStage /\ ~(s < t)
        BY <2>3, <1>type
    <3> QED BY <2>3, <3>1 DEF Reached, ActiveJob
  <2> QED BY <2>1, <2>2, <2>3, <1>type
<1>1. DoneCount(d) = t - 1
  <2>1. {s \in Stages : StageState(d)[s] = "DONE"} = 1..(t - 1)
      BY <1>state, <1>type
  <2>2. Cardinality(1..(t - 1)) = t - 1
      BY <1>type, FS_Interval
  <2> QED BY <2>1, <2>2 DEF DoneCount
<1>2. CurrentStage(status, StageState(d)) = t
  <2> DEFINE running == {s \in Stages : StageState(d)[s] = "RUNNING"}
             unfinished == {s \in Stages : StageState(d)[s] # "DONE"}
  <2>1. running # {} => running = {t} /\ FirstOf(running) = t
    <3>1. running # {} => running = {t}
        BY <1>state
    <3>2. FirstOf({t}) = t
        BY <1>type DEF FirstOf
    <3> QED BY <3>1, <3>2
  <2>2. FirstOf(unfinished) = t
    <3>1. unfinished = t..LastStage
        BY <1>state, <1>type
    <3>2. CASE t = NoStage
        BY <3>1, <3>2, <1>type DEF FirstOf
    <3>3. CASE t # NoStage
      <4>1. t \in unfinished /\ \A s \in unfinished : s \in Nat /\ t <= s
          BY <3>1, <3>3, <1>type
      <4>2. (CHOOSE s \in unfinished : \A u \in unfinished : s <= u) = t
          BY <4>1
      <4> QED BY <4>1, <4>2 DEF FirstOf
    <3> QED BY <3>2, <3>3
  <2> QED BY <2>1, <2>2 DEF CurrentStage
<1> QED BY <1>1, <1>2

LEMMA CoherentWhenRead ==
    PollInv => PollIsCoherent
<1> SUFFICES ASSUME PollInv, poll # NoPoll, DocVisible(poll.doc), reprocessed = 0
             PROVE  LET c == Report.current
                    IN  /\ Report.status = "INDEXED" =>
                              Report.progress = LastStage /\ c = NoStage
                        /\ Report.status = "FAILED" =>
                              /\ Report.progress < LastStage
                              /\ \E s \in Stages : Report.stages[s] = "FAILED"
                        /\ Report.status \in ActiveDoc =>
                              /\ Report.progress = c - 1
                              /\ c = NoStage <=> docStatus[poll.doc] = "INDEXED"
                              /\ \A s \in Stages : s > c =>
                                    \A j \in JobsOf(poll.doc) : jobStage[j] # s
    BY DEF PollIsCoherent
<1> DEFINE d == poll.doc
<1>type. /\ LastStage \in Nat /\ NoStage = LastStage + 1 /\ Stages = 1..LastStage
         /\ d \in Docs /\ UploadInv
    BY LastStageAssumption DEF NoStage, Stages, PollInv, PollReads
<1>reads. poll.status \in {"INDEXED", "FAILED"} => docStatus[d] = poll.status
    BY DEF PollInv, PollReads, DocVisible, DocumentStatus
<1>report. /\ Report.status = poll.status /\ Report.progress = DoneCount(d)
           /\ Report.stages = StageState(d)
           /\ Report.current = CurrentStage(poll.status, StageState(d))
    BY DEF Report
<1>1. PICK t \in 1..NoStage : Reached(d, t)
    BY <1>type, VisibleIsReached
<1>2. DoneCount(d) = t - 1
  <2>1. "PENDING" # "FAILED"
      OBVIOUS
  <2> QED BY <1>1, <2>1, ReachedIsReported
<1>3. poll.status # "FAILED" => Report.current = t
    BY <1>1, <1>report, ReachedIsReported
<1>4. t = NoStage <=> docStatus[d] = "INDEXED"
    BY <1>1 DEF Reached
<1>5. CASE poll.status = "INDEXED"
    BY <1>5, <1>type, <1>reads, <1>report, <1>2, <1>3, <1>4 DEF ActiveDoc
<1>6. CASE poll.status = "FAILED"
  <2>1. docStatus[d] = "FAILED"
      BY <1>6, <1>reads
  <2>2. t \in Stages /\ t - 1 < LastStage
      BY <2>1, <1>4, <1>type
  <2>3. StageState(d)[t] = "FAILED"
      BY <2>1, <1>1, <1>4 DEF Reached
  <2> QED BY <1>6, <2>2, <2>3, <1>2, <1>report DEF ActiveDoc
<1>7. CASE poll.status \notin {"INDEXED", "FAILED"}
  <2>1. \A s \in Stages : s > t => \A j \in JobsOf(d) : jobStage[j] # s
      BY <1>1 DEF Reached
  <2> QED BY <1>7, <2>1, <1>report, <1>2, <1>3, <1>4
<1> QED BY <1>5, <1>6, <1>7

\* A document that settled stays as it is, or is deleted.
LEMMA SettledStays ==
    ASSUME Effect, NEW d \in Docs
    PROVE  /\ docStatus[d] \in {"INDEXED", "FAILED"} => docStatus'[d] \in {docStatus[d], "DELETED"}
           /\ docStatus[d] = "DELETED" => docStatus'[d] = "DELETED"
<1>1. CASE SameDoc(d)
    BY <1>1 DEF SameDoc
<1>2. CASE Changes(d)
    BY <1>2 DEF Changes, Hidden, Appears, Vanishes, Starts, Fails, Finishes, Advances, Works,
       Tip, ActiveDoc
<1> QED BY <1>1, <1>2 DEF Effect

\* The first reprocess request ends what PollInv says of uploads.
LEMMA NoReprocessYet ==
    ASSUME UploadInv, DeployedSystem, reprocessed' = 0
    PROVE  UploadSystem
<1>1. ASSUME NEW r \in Requests, ReprocessStep(r)
      PROVE  FALSE
    BY <1>1 DEF ReprocessStep, ReprocessResets, ReprocessCreatesFromJob,
       ReprocessCreatesExtractJob, ReprocessLosesDocument, UploadInv, SweptInv, ChainInv,
       RowRules, UploadRequests
<1>2. ASSUME NEW r \in Requests, NEW d \in Docs, NEW s \in Stages, ReprocessLoads(r, d, s)
      PROVE  FALSE
  <2>1. reprocessed \in Nat
      BY MaxReprocessAssumption DEF UploadInv, JobInv, TypeOK, ApiTypeOK
  <2> QED BY <1>2, <2>1 DEF ReprocessLoads
<1> QED BY <1>1, <1>2 DEF DeployedSystem, Reprocessing, ReprocessNext

LEMMA ReprocessedGrows ==
    ASSUME JobInv, [DeployedSystem]_vars, reprocessed' = 0
    PROVE  reprocessed = 0
<1>1. reprocessed \in Nat
    BY MaxReprocessAssumption DEF JobInv, TypeOK, ApiTypeOK
<1>2. CASE UNCHANGED reprocessed
    BY <1>2
<1>3. CASE reprocessed' = reprocessed + 1
    BY <1>1, <1>3
<1>4. UNCHANGED reprocessed \/ reprocessed' = reprocessed + 1
  <2>1. CASE UNCHANGED vars \/ Workers
      BY <2>1 DEF vars, apiVars, Workers
  <2>2. CASE Uploads
    <3>1. ASSUME NEW r \in Requests, NEW d \in Docs,
                 UploadNew(r, d) \/ UploadExisting(r, d)
          PROVE  UNCHANGED reprocessed
        BY <3>1 DEF UploadNew, UploadExisting
    <3>2. ASSUME NEW r \in Requests, RequestStep(r)
          PROVE  UNCHANGED reprocessed
        BY <3>2 DEF RequestStep, UploadFindsJob, RequestEnqueues, RequestCommits, RequestAborts
    <3>3. ASSUME NEW d \in Docs, Delete(d)
          PROVE  UNCHANGED reprocessed
        BY <3>3 DEF Delete, apiVars
    <3> QED BY <2>2, <3>1, <3>2, <3>3 DEF Uploads, UploadNext
  <2>3. CASE Reprocessing
      BY <2>3 DEF Reprocessing, ReprocessNext, ReprocessLoads, ReprocessStep, ReprocessResets,
         ReprocessCreatesFromJob, ReprocessCreatesExtractJob, ReprocessLosesDocument
  <2> QED BY <2>1, <2>2, <2>3 DEF DeployedSystem, UploadSystem
<1> QED BY <1>2, <1>3, <1>4

LEMMA PollInvStep ==
    PollInv /\ [PolledSystem]_stateVars => PollInv'
<1> SUFFICES ASSUME PollInv, [PolledSystem]_stateVars
             PROVE  PollInv'
    OBVIOUS
<1>1. CASE DeployedSystem /\ UNCHANGED poll
  <2>1. JobInv'
      BY <1>1, JobInvStep DEF PollInv
  <2>2. ASSUME reprocessed' = 0
        PROVE  UploadInv' /\ PollReads'
    <3>1. UploadInv /\ PollReads
        BY <1>1, <2>2, ReprocessedGrows DEF PollInv
    <3>2. UploadInv' /\ Effect
        BY <1>1, <2>2, <3>1, NoReprocessYet, UploadInvStep
    <3>3. PollReads'
        BY <1>1, <3>1, <3>2, SettledStays DEF PollReads, NoPoll
    <3> QED BY <3>2, <3>3
  <2> QED BY <2>1, <2>2 DEF PollInv
<1>2. CASE UNCHANGED vars
  <2>1. JobInv' /\ UNCHANGED <<docStatus, reprocessed>>
      BY <1>2, JobInvStep DEF PollInv, vars, rowVars, apiVars
  <2>2. UploadInv => UploadInv'
      BY <1>2, UploadInvStep
  <2>3. PollReads => PollReads'
    <3>1. CASE UNCHANGED poll
        BY <2>1, <3>1 DEF PollReads, NoPoll
    <3>2. CASE PollReadsJobs
        BY <3>2 DEF PollReadsJobs, PollReads, NoPoll
    <3>3. ASSUME NEW d \in Docs, PollReadsDocument(d)
          PROVE  PollReads'
        BY <2>1, <3>3 DEF PollReadsDocument, PollReads, NoPoll, DocVisible
    <3> QED BY <1>2, <3>1, <3>2, <3>3 DEF PolledSystem, Polling, stateVars
  <2> QED BY <2>1, <2>2, <2>3 DEF PollInv
<1> QED BY <1>1, <1>2 DEF PolledSystem, Polling, stateVars

\* The two reads of a poll make one answer: a client that waits for the
\* current stage to become null is not stopped early.
THEOREM PollIsCoherentCorrect == PolledSpec => []PollIsCoherent
<1>1. Init /\ poll = NoPoll => PollInv
    BY JobInvInit, UploadInvInit DEF PollInv, PollReads
<1>2. PollInv /\ [PolledSystem]_stateVars => PollInv'
    BY PollInvStep
<1> QED BY <1>1, <1>2, CoherentWhenRead, PTL DEF PolledSpec

=============================================================================
