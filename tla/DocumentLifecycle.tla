------------------------- MODULE DocumentLifecycle -------------------------
(***************************************************************************)
(* What the pipeline promises about one upload, without jobs, workers,     *)
(* queues or sessions: a document is submitted, its stages complete one    *)
(* after the other, each exactly once, and it ends INDEXED after the last  *)
(* stage or FAILED before.  It can be removed at any time.                 *)
(***************************************************************************)
EXTENDS Naturals

CONSTANTS Docs, LastStage

VARIABLES
    phase,   \* the status a client polls; "absent" before, "gone" after
    done     \* the stages completed

lifecycleVars == <<phase, done>>

Phases == {"absent", "PENDING", "PROCESSING", "INDEXED", "FAILED", "gone"}

LifecycleInit ==
    /\ phase = [d \in Docs |-> "absent"]
    /\ done = [d \in Docs |-> {}]

Move(d, from, to) ==
    /\ phase[d] \in from
    /\ phase' = [phase EXCEPT ![d] = to]

Submit(d) == Move(d, {"absent"}, "PENDING") /\ UNCHANGED done

Begin(d) == Move(d, {"PENDING"}, "PROCESSING") /\ UNCHANGED done

\* Stage s is the first one not completed, and not the last of all.
CompleteStage(d, s) ==
    /\ phase[d] = "PROCESSING"
    /\ s < LastStage
    /\ done[d] = 1..(s - 1)
    /\ done' = [done EXCEPT ![d] = 1..s]
    /\ UNCHANGED phase

CompleteLastStage(d) ==
    /\ done[d] = 1..(LastStage - 1)
    /\ Move(d, {"PROCESSING"}, "INDEXED")
    /\ done' = [done EXCEPT ![d] = 1..LastStage]

Fail(d) == Move(d, {"PENDING", "PROCESSING"}, "FAILED") /\ UNCHANGED done

Remove(d) ==
    /\ Move(d, Phases \ {"gone"}, "gone")
    /\ done' = [done EXCEPT ![d] = {}]

LifecycleNext ==
    \E d \in Docs :
        \/ Submit(d) \/ Begin(d)
        \/ \E s \in 1..LastStage : CompleteStage(d, s)
        \/ CompleteLastStage(d)
        \/ Fail(d) \/ Remove(d)

LifecycleSpec == LifecycleInit /\ [][LifecycleNext]_lifecycleVars
=============================================================================
