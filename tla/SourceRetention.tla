-------------------------- MODULE SourceRetention --------------------------
(***************************************************************************)
(* Who keeps a source file: the upload that stores it and then commits a   *)
(* document, the delete that removes the row and then the object, and      *)
(* sweep_orphans, which removes objects no document refers to.  A document *)
(* is named by the upload that created it.                                 *)
(***************************************************************************)
EXTENDS ObjectStorage

CONSTANT MaxDeletes     \* MAX_DELETES_PER_RUN

ASSUME MaxDeletesAssumption == MaxDeletes \in Nat \ {0}

VARIABLES
    row,            \* the document row of each upload
    sweep           \* the pass of sweep_orphans that is running

SweepState ==
    [pc : {"idle", "list", "delete"}, live : SUBSET Keys, todo : SUBSET Keys,
     key : Keys \cup {"none"}, deleted : 0..(MaxDeletes - 1)]

NoSweep == [pc |-> "idle", live |-> {}, todo |-> {}, key |-> "none", deleted |-> 0]

vars == <<storeVars, putVars, removal, row, sweep>>

TypeOK ==
    /\ StorageTypeOK
    /\ row \in [Uploads -> {"none", "flushed", "live", "gone"}]
    /\ sweep \in SweepState

Init ==
    /\ StorageInit
    /\ row = [u \in Uploads |-> "none"]
    /\ sweep = NoSweep

LiveKeys == {key[u] : u \in {v \in Uploads : row[v] = "live"}}

(***************************************************************************)
(* The upload and delete handlers                                          *)
(***************************************************************************)

\* put_stream, the first thing the upload handler does.
Puts(u) == PutStep(u) /\ UNCHANGED <<row, sweep>>

\* get_or_create: the user's document with this content, or a new row.
Registers(u) ==
    /\ pc[u] = "stored"
    /\ IF key[u] \in LiveKeys
         THEN Goto(u, "done") /\ UNCHANGED row
         ELSE Goto(u, "commit") /\ row' = [row EXCEPT ![u] = "flushed"]
    /\ UNCHANGED <<storeVars, key, dedup, removal, sweep>>

Commits(u) ==
    /\ pc[u] = "commit"
    /\ row' = [row EXCEPT ![u] = "live"]
    /\ Goto(u, "done")
    /\ UNCHANGED <<storeVars, key, dedup, removal, sweep>>

\* The handler raises after put_stream, or dies at any time.  The object
\* stays, without a document.
Aborts(u) ==
    /\ pc[u] \in PutPcs \cup HandlerPcs
    /\ Goto(u, "died")
    /\ row' = [row EXCEPT ![u] = "none"]
    /\ UNCHANGED <<storeVars, key, dedup, removal, sweep>>

\* delete_user_document commits the row's deletion first, then removes the
\* object under the key it captured.
DeletesRow(u) ==
    /\ row[u] = "live"
    /\ row' = [row EXCEPT ![u] = "gone"]
    /\ removal' = [removal EXCEPT ![u] = "unlink"]
    /\ UNCHANGED <<storeVars, putVars, sweep>>

Removes(u) == RemovalStep(u) /\ UNCHANGED <<row, sweep>>

(***************************************************************************)
(* sweep_orphans                                                           *)
(***************************************************************************)

\* GRACE_PERIOD passes.  It is chosen to exceed the time an upload is in
\* flight: the object did not exist when the upload looked.  A pass computes
\* its cutoff when it starts, so nothing becomes old while a pass runs.
InFlight(u) == pc[u] \in (PutPcs \ {"check"}) \cup HandlerPcs

Age(k) ==
    /\ object[k] = "fresh" /\ sweep.pc = "idle"
    /\ \A u \in Uploads : key[u] = k /\ InFlight(u) => dedup[u]
    /\ object' = [object EXCEPT ![k] = "old"]
    /\ UNCHANGED <<backend, dir, partial, putVars, removal, row, sweep>>

\* Mutant: the keys of deleted documents are still loaded.
SweepLoadsDeleted ==
    /\ sweep.pc = "idle"
    /\ sweep' = [NoSweep EXCEPT !.pc = "list", !.todo = Keys,
                               !.live = {key[u] : u \in {v \in Uploads : row[v] # "none"}}]
    /\ UNCHANGED <<storeVars, putVars, removal, row>>

\* The keys of all documents are loaded, in a session of their own.
SweepLoads ==
    /\ sweep.pc = "idle"
    /\ sweep' = [NoSweep EXCEPT !.pc = "list", !.live = LiveKeys, !.todo = Keys]
    /\ UNCHANGED <<storeVars, putVars, removal, row>>

\* The listing yields what is in storage; what is referenced or recent stays.
SweepSkips(k) ==
    /\ sweep.pc = "list" /\ k \in sweep.todo
    /\ \/ ~Present(k)
       \/ k \in sweep.live
       \/ backend = "s3" /\ object[k] = "fresh"
    /\ sweep' = [sweep EXCEPT !.todo = @ \ {k}]
    /\ UNCHANGED <<storeVars, putVars, removal, row>>

\* Mutant: the grace period is not applied.
SweepCondemnsRecent(k) ==
    /\ sweep.pc = "list" /\ k \in sweep.todo
    /\ backend = "s3" /\ Present(k) /\ k \notin sweep.live
    /\ sweep' = [sweep EXCEPT !.pc = "delete", !.key = k, !.todo = @ \ {k}]
    /\ UNCHANGED <<storeVars, putVars, removal, row>>

\* An old object without a reference is going to be deleted.
SweepCondemns(k) ==
    /\ sweep.pc = "list" /\ k \in sweep.todo
    /\ backend = "s3" /\ object[k] = "old" /\ k \notin sweep.live
    /\ sweep' = [sweep EXCEPT !.pc = "delete", !.key = k, !.todo = @ \ {k}]
    /\ UNCHANGED <<storeVars, putVars, removal, row>>

\* LocalStorage.list_keys yields floats where _within_grace needs datetimes:
\* the first object without a reference ends the pass with an error.
SweepRaises(k) ==
    /\ sweep.pc = "list" /\ k \in sweep.todo
    /\ backend = "local" /\ Present(k) /\ k \notin sweep.live
    /\ sweep' = NoSweep
    /\ UNCHANGED <<storeVars, putVars, removal, row>>

\* Mutant: the cap is compared before the deletion is counted.
SweepDeletesOneMore ==
    /\ sweep.pc = "delete"
    /\ object' = [object EXCEPT ![sweep.key] = "absent"]
    /\ sweep' = IF sweep.deleted = MaxDeletes
                  THEN NoSweep
                  ELSE [sweep EXCEPT !.pc = "list", !.key = "none", !.deleted = @ + 1]
    /\ UNCHANGED <<backend, dir, partial, putVars, removal, row>>

\* A pass that has deleted enough leaves the rest to the next one.
SweepDeletes ==
    /\ sweep.pc = "delete"
    /\ object' = [object EXCEPT ![sweep.key] = "absent"]
    /\ sweep' = IF sweep.deleted + 1 = MaxDeletes
                  THEN NoSweep
                  ELSE [sweep EXCEPT !.pc = "list", !.key = "none", !.deleted = @ + 1]
    /\ UNCHANGED <<backend, dir, partial, putVars, removal, row>>

SweepDeleteFails ==
    /\ sweep.pc = "delete"
    /\ sweep' = [sweep EXCEPT !.pc = "list", !.key = "none"]
    /\ UNCHANGED <<storeVars, putVars, removal, row>>

SweepEnds ==
    /\ sweep.pc = "list" /\ sweep.todo = {}
    /\ sweep' = NoSweep
    /\ UNCHANGED <<storeVars, putVars, removal, row>>

\* The listing raises, or the worker dies.
SweepAborts ==
    /\ sweep.pc # "idle"
    /\ sweep' = NoSweep
    /\ UNCHANGED <<storeVars, putVars, removal, row>>

SweepVisits(k) == SweepSkips(k) \/ SweepCondemns(k) \/ SweepRaises(k)

SweepStep ==
    \/ SweepLoads
    \/ \E k \in Keys : SweepVisits(k)
    \/ SweepDeletes \/ SweepDeleteFails \/ SweepEnds \/ SweepAborts

Handlers ==
    \E u \in Uploads :
        \/ Puts(u) \/ Registers(u) \/ Commits(u) \/ Aborts(u)
        \/ DeletesRow(u) \/ Removes(u)

Next == Handlers \/ SweepStep \/ \E k \in Keys : Age(k)

Spec == Init /\ [][Next]_vars

\* Handlers end; time passes; passes keep being started, and they are not
\* always interrupted before the listing has come to a given key.
Fairness ==
    /\ \A u \in Uploads :
          WF_vars(Puts(u) \/ Registers(u) \/ Commits(u) \/ Aborts(u) \/ Removes(u))
    /\ WF_vars(SweepLoads) /\ WF_vars(SweepEnds)
    /\ SF_vars(SweepDeletes)
    /\ \A k \in Keys : SF_vars(Age(k)) /\ SF_vars(SweepVisits(k))

FairSpec == Spec /\ Fairness

-----------------------------------------------------------------------------
(***************************************************************************)
(* Properties                                                              *)
(***************************************************************************)

\* A document whose own upload wrote its file keeps that file, whatever the
\* sweeper and other uploads do, unless a document with the same key was
\* deleted: the grace period covers the time before the row is committed, and
\* the loaded keys the time after.
WrittenSourceStays ==
    \A u \in Uploads :
        row[u] = "live" /\ ~dedup[u] =>
            \/ Present(key[u])
            \/ \E v \in Uploads : key[v] = key[u] /\ row[v] = "gone"

\* put_stream of LocalStorage leaves no temporary file behind, however it
\* ends, unless the process dies.
LocalCleansUp ==
    backend = "local" =>
        \A u \in partial : pc[u] \in PutPcs \cup {"died"}

\* An object nothing refers to and nobody is working with.
Orphan(k) ==
    /\ Present(k) /\ k \notin LiveKeys
    /\ \A u \in Uploads : key[u] = k => pc[u] \notin PutPcs \cup HandlerPcs

\* sweep_orphans "deletes storage objects that no document row references":
\* over S3Storage, what an aborted upload or a failed delete left is removed
\* in the end, in batches, over failing deletes and interrupted passes.  Over
\* LocalStorage no pass gets that far (SweepRaises).
OrphansAreSwept ==
    \A k \in Keys : (backend = "s3" /\ Orphan(k)) ~> ~Orphan(k)
=============================================================================
