---------------------------- MODULE SourceProofs ----------------------------
(***************************************************************************)
(* A document whose upload wrote its file keeps it, for any number of      *)
(* uploads, keys and deletions per pass.                                   *)
(***************************************************************************)
EXTENDS SourceRetention, TLAPS

\* A document with this key was deleted.
Deleted(k) == \E v \in Uploads : key[v] = k /\ row[v] = "gone"

\* Rows exist only after put_stream, and only deleted ones have their object
\* removed by a handler.
RowsFollowPuts ==
    \A u \in Uploads :
        /\ row[u] = "flushed" => pc[u] = "commit"
        /\ row[u] \in {"live", "gone"} => pc[u] = "done"
        /\ removal[u] # "none" => row[u] = "gone"

\* While an upload that found no object is in flight, the object is not old.
InFlightIsRecent ==
    \A u \in Uploads : InFlight(u) /\ ~dedup[u] => object[key[u]] # "old"

\* What an upload has stored is there until it commits.
StoredIsPresent ==
    \A u \in Uploads :
        pc[u] \in {"unstage"} \cup HandlerPcs /\ ~dedup[u] =>
            Present(key[u]) \/ Deleted(key[u])

\* A document the running pass does not know of was committed after the pass
\* had started, so its object is recent.
UnknownIsRecent ==
    \A u \in Uploads :
        sweep.pc # "idle" /\ row[u] = "live" /\ ~dedup[u] /\ key[u] \notin sweep.live =>
            object[key[u]] # "old" \/ Deleted(key[u])

\* The object the sweeper is about to delete is there, and no upload wrote it
\* that is in flight or has a document.
CondemnedIsUnused ==
    sweep.pc = "delete" =>
        /\ Present(sweep.key) \/ Deleted(sweep.key)
        /\ \A u \in Uploads :
              key[u] = sweep.key /\ ~dedup[u] /\ (InFlight(u) \/ row[u] = "live") =>
                  Deleted(sweep.key)

SourceRules ==
    /\ RowsFollowPuts /\ InFlightIsRecent /\ StoredIsPresent
    /\ UnknownIsRecent /\ CondemnedIsUnused /\ WrittenSourceStays

SourceInv == TypeOK /\ SourceRules

(***************************************************************************)
(* Types                                                                   *)
(***************************************************************************)

LEMMA NoSweepType == NoSweep \in SweepState
BY MaxDeletesAssumption DEF NoSweep, SweepState

LEMMA SourceInitType == Init => TypeOK
<1> SUFFICES ASSUME Init PROVE TypeOK
    OBVIOUS
<1>1. StorageTypeOK
    BY BackendsAssumption DEF Init, StorageInit, StorageTypeOK
<1> QED BY <1>1, NoSweepType DEF Init, TypeOK

LEMMA PutsType ==
    ASSUME TypeOK, NEW u \in Uploads, Puts(u)
    PROVE  TypeOK'
<1> USE DEF TypeOK, StorageTypeOK, Goto, PutPcs, HandlerPcs, EndPcs, storeVars
<1>1. CASE PutStreams(u)
    BY <1>1 DEF PutStreams, Puts
<1>2. CASE PutDeduplicates(u)
    BY <1>2 DEF PutDeduplicates, Puts
<1>3. CASE PutIsNew(u)
    BY <1>3 DEF PutIsNew, Puts
<1>4. CASE LocalMakesDir(u)
    BY <1>4 DEF LocalMakesDir, Puts
<1>5. CASE LocalReplaces(u)
    BY <1>5 DEF LocalReplaces, Puts
<1>6. CASE S3Puts(u)
    BY <1>6 DEF S3Puts, Puts
<1>7. CASE S3Completes(u)
    BY <1>7 DEF S3Completes, Puts
<1>8. CASE S3Copies(u)
    BY <1>8 DEF S3Copies, Puts
<1>9. CASE S3Unstages(u)
    BY <1>9 DEF S3Unstages, Puts
<1>10. CASE PutFails(u)
    BY <1>10 DEF PutFails, Puts
<1> QED BY <1>1, <1>2, <1>3, <1>4, <1>5, <1>6, <1>7, <1>8, <1>9, <1>10 DEF Puts, PutStep
LEMMA HandlerType ==
    ASSUME TypeOK, Handlers
    PROVE  TypeOK'
<1> PICK u \in Uploads :
         \/ Puts(u) \/ Registers(u) \/ Commits(u) \/ Aborts(u)
         \/ DeletesRow(u) \/ Removes(u)
    BY DEF Handlers
<1> USE DEF TypeOK, StorageTypeOK, Goto, EndPcs, HandlerPcs, storeVars, putVars
<1>1. CASE Puts(u)
    BY <1>1, PutsType
<1>2. CASE Registers(u)
    BY <1>2 DEF Registers
<1>3. CASE Commits(u)
    BY <1>3 DEF Commits
<1>4. CASE Aborts(u)
    BY <1>4 DEF Aborts
<1>5. CASE DeletesRow(u)
    BY <1>5 DEF DeletesRow
<1>6. CASE Removes(u)
    BY <1>6 DEF Removes, RemovalStep, LocalUnlinks, LocalRemovesDir, S3Deletes,
                RemovalFails
<1> QED BY <1>1, <1>2, <1>3, <1>4, <1>5, <1>6

LEMMA SweepType ==
    ASSUME TypeOK, SweepStep
    PROVE  TypeOK'
<1> USE DEF TypeOK, StorageTypeOK, storeVars, putVars
<1>1. CASE SweepLoads
  <2>1. LiveKeys \subseteq Keys
      BY DEF LiveKeys
  <2>2. sweep' \in SweepState
      BY <1>1, <2>1, NoSweepType DEF SweepLoads, SweepState
  <2> QED BY <1>1, <2>2 DEF SweepLoads
<1>2. ASSUME NEW k \in Keys, SweepSkips(k) PROVE TypeOK'
    BY <1>2 DEF SweepSkips, SweepState
<1>3. ASSUME NEW k \in Keys, SweepCondemns(k) PROVE TypeOK'
    BY <1>3 DEF SweepCondemns, SweepState
<1>4. ASSUME NEW k \in Keys, SweepRaises(k) PROVE TypeOK'
    BY <1>4, NoSweepType DEF SweepRaises
<1>5. CASE SweepDeletes
  <2>1. CASE sweep.deleted + 1 = MaxDeletes
      BY <1>5, <2>1, NoSweepType DEF SweepDeletes
  <2>2. CASE sweep.deleted + 1 # MaxDeletes
    <3>1. sweep.deleted + 1 \in 0..(MaxDeletes - 1)
        BY <2>2, MaxDeletesAssumption DEF SweepState
    <3>2. sweep' \in SweepState
        BY <1>5, <2>2, <3>1 DEF SweepDeletes, SweepState
    <3> QED BY <1>5, <3>2 DEF SweepDeletes
  <2> QED BY <2>1, <2>2
<1>6. CASE SweepDeleteFails
    BY <1>6 DEF SweepDeleteFails, SweepState
<1>7. CASE SweepEnds \/ SweepAborts
    BY <1>7, NoSweepType DEF SweepEnds, SweepAborts
<1> QED BY <1>1, <1>2, <1>3, <1>4, <1>5, <1>6, <1>7 DEF SweepStep, SweepVisits

LEMMA SourceStepType ==
    ASSUME TypeOK, [Next]_vars
    PROVE  TypeOK'
<1>1. ASSUME NEW k \in Keys, Age(k) PROVE TypeOK'
    BY <1>1 DEF Age, TypeOK, StorageTypeOK, putVars
<1>2. CASE UNCHANGED vars
    BY <1>2 DEF vars, storeVars, putVars, TypeOK, StorageTypeOK
<1> QED BY <1>1, <1>2, HandlerType, SweepType DEF Next

\* No pass deletes more than MAX_DELETES_PER_RUN objects; the rest is shape.
THEOREM SourceTypeCorrect == Spec => []TypeOK
BY SourceInitType, SourceStepType, PTL DEF Spec
(***************************************************************************)
(* The invariant                                                           *)
(***************************************************************************)

LEMMA SourceInvInit == Init => SourceInv
<1> SUFFICES ASSUME Init PROVE SourceInv
    OBVIOUS
<1>1. RowsFollowPuts /\ InFlightIsRecent /\ StoredIsPresent
    BY DEF Init, StorageInit, RowsFollowPuts, InFlightIsRecent, InFlight,
           StoredIsPresent, PutPcs, HandlerPcs
<1>2. UnknownIsRecent /\ CondemnedIsUnused /\ WrittenSourceStays
    BY DEF Init, NoSweep, UnknownIsRecent, CondemnedIsUnused, WrittenSourceStays
<1> QED BY <1>1, <1>2, SourceInitType DEF SourceInv, SourceRules

\* An upload that finds no object was not preceded by the sweeper: what the
\* sweeper condemned is there unless a delete has taken it.
LEMMA PutsKeep ==
    ASSUME SourceInv, NEW u \in Uploads, Puts(u)
    PROVE  SourceRules'
<1> USE DEF SourceInv, SourceRules, TypeOK, StorageTypeOK, RowsFollowPuts,
            InFlightIsRecent, StoredIsPresent, UnknownIsRecent, CondemnedIsUnused,
            WrittenSourceStays, InFlight, Present, Deleted, PutPcs, HandlerPcs,
            Goto, storeVars, putVars
<1>1. CASE PutStreams(u)
    BY <1>1 DEF PutStreams, Puts
<1>2. CASE PutDeduplicates(u)
    BY <1>2 DEF PutDeduplicates, Puts
<1>3. CASE PutIsNew(u)
    BY <1>3 DEF PutIsNew, Puts
<1>4. CASE LocalMakesDir(u)
    BY <1>4 DEF LocalMakesDir, Puts
<1>5. CASE LocalReplaces(u)
    BY <1>5 DEF LocalReplaces, Puts
<1>6. CASE S3Puts(u)
    BY <1>6 DEF S3Puts, Puts
<1>7. CASE S3Completes(u)
    BY <1>7 DEF S3Completes, Puts
<1>8. CASE S3Copies(u)
    BY <1>8 DEF S3Copies, Puts
<1>9. CASE S3Unstages(u)
    BY <1>9 DEF S3Unstages, Puts
<1>10. CASE PutFails(u)
    BY <1>10 DEF PutFails, Puts
<1> QED BY <1>1, <1>2, <1>3, <1>4, <1>5, <1>6, <1>7, <1>8, <1>9, <1>10 DEF Puts, PutStep

\* A commit turns what InFlightIsRecent and StoredIsPresent say of the upload
\* into what UnknownIsRecent and WrittenSourceStays say of its document.
LEMMA HandlersKeep ==
    ASSUME SourceInv, NEW u \in Uploads,
           \/ Registers(u) \/ Commits(u) \/ Aborts(u) \/ DeletesRow(u) \/ Removes(u)
    PROVE  SourceRules'
<1> USE DEF SourceInv, SourceRules, TypeOK, StorageTypeOK, RowsFollowPuts,
            InFlightIsRecent, StoredIsPresent, UnknownIsRecent, CondemnedIsUnused,
            WrittenSourceStays, InFlight, Present, Deleted, PutPcs, HandlerPcs,
            Goto, storeVars, putVars
<1>1. CASE Registers(u)
    BY <1>1 DEF Registers
<1>2. CASE Commits(u)
    BY <1>2 DEF Commits
<1>3. CASE Aborts(u)
    BY <1>3 DEF Aborts
<1>4. CASE DeletesRow(u)
    BY <1>4 DEF DeletesRow
<1>5. CASE Removes(u)
  <2>1. row[u] = "gone"
      BY <1>5 DEF Removes, RemovalStep, LocalUnlinks, LocalRemovesDir, S3Deletes,
                  RemovalFails
  <2>2. CASE LocalUnlinks(u)
      BY <1>5, <2>1, <2>2 DEF Removes, LocalUnlinks
  <2>3. CASE S3Deletes(u)
      BY <1>5, <2>1, <2>3 DEF Removes, S3Deletes
  <2>4. CASE LocalRemovesDir(u) \/ RemovalFails(u)
      BY <1>5, <2>1, <2>4 DEF Removes, LocalRemovesDir, RemovalFails
  <2> QED BY <1>5, <2>2, <2>3, <2>4 DEF Removes, RemovalStep
<1> QED BY <1>1, <1>2, <1>3, <1>4, <1>5

\* Only old objects without a known reference are condemned; by UnknownIsRecent
\* and InFlightIsRecent nobody who wrote them needs them.
LEMMA SweepKeeps ==
    ASSUME SourceInv, SweepStep
    PROVE  SourceRules'
<1> USE DEF SourceInv, SourceRules, TypeOK, StorageTypeOK, RowsFollowPuts,
            InFlightIsRecent, StoredIsPresent, UnknownIsRecent, CondemnedIsUnused,
            WrittenSourceStays, InFlight, Present, Deleted, PutPcs, HandlerPcs,
            Goto, storeVars, putVars
<1>1. CASE SweepLoads
    BY <1>1 DEF SweepLoads, LiveKeys, NoSweep
<1>2. ASSUME NEW k \in Keys, SweepSkips(k) PROVE SourceRules'
    BY <1>2 DEF SweepSkips
<1>3. ASSUME NEW k \in Keys, SweepCondemns(k) PROVE SourceRules'
    BY <1>3 DEF SweepCondemns
<1>4. CASE SweepDeletes
    BY <1>4 DEF SweepDeletes, NoSweep
<1>5. CASE SweepDeleteFails
    BY <1>5 DEF SweepDeleteFails
<1>6. CASE SweepEnds \/ SweepAborts \/ \E k \in Keys : SweepRaises(k)
    BY <1>6 DEF SweepEnds, SweepAborts, SweepRaises, NoSweep
<1> QED BY <1>1, <1>2, <1>3, <1>4, <1>5, <1>6 DEF SweepStep, SweepVisits

\* Nothing becomes old during a pass or under an upload in flight.
LEMMA AgeKeeps ==
    ASSUME SourceInv, NEW k \in Keys, Age(k)
    PROVE  SourceRules'
<1> USE DEF SourceInv, SourceRules, TypeOK, StorageTypeOK, RowsFollowPuts,
            InFlightIsRecent, StoredIsPresent, UnknownIsRecent, CondemnedIsUnused,
            WrittenSourceStays, InFlight, Present, Deleted, PutPcs, HandlerPcs,
            Goto, storeVars, putVars
<1> QED BY DEF Age
LEMMA SourceInvStep == SourceInv /\ [Next]_vars => SourceInv'
<1> SUFFICES ASSUME SourceInv, [Next]_vars PROVE SourceInv'
    OBVIOUS
<1>1. TypeOK'
    BY SourceStepType DEF SourceInv
<1>2. SourceRules'
  <2>1. CASE Handlers
      BY <2>1, PutsKeep, HandlersKeep DEF Handlers
  <2>2. CASE SweepStep
      BY <2>2, SweepKeeps
  <2>3. CASE \E k \in Keys : Age(k)
      BY <2>3, AgeKeeps
  <2>4. CASE UNCHANGED vars
      BY <2>4 DEF vars, storeVars, putVars, SourceInv, SourceRules, RowsFollowPuts,
                  InFlightIsRecent, StoredIsPresent, UnknownIsRecent,
                  CondemnedIsUnused, WrittenSourceStays, InFlight, Present, Deleted
  <2> QED BY <2>1, <2>2, <2>3, <2>4 DEF Next
<1> QED BY <1>1, <1>2 DEF SourceInv

\* A document whose own upload wrote its file keeps it unless a document with
\* the same key was deleted: the order of sweep_orphans (cutoff, then keys,
\* then listing) and the grace period are enough against every interleaving.
THEOREM WrittenSourceStaysCorrect == Spec => []WrittenSourceStays
BY SourceInvInit, SourceInvStep, PTL DEF Spec, SourceInv, SourceRules

(***************************************************************************)
(* Temporary files of LocalStorage                                         *)
(***************************************************************************)

\* LocalStorage makes none of the calls of S3Storage, so its put_stream has only
\* the exits that remove the temporary file.
LocalCalls ==
    backend = "local" => \A u \in Uploads : pc[u] \notin {"put", "complete", "copy", "unstage"}

LocalInv == TypeOK /\ LocalCalls /\ LocalCleansUp

LEMMA LocalInvInit == Init => LocalInv
BY SourceInitType DEF Init, StorageInit, LocalInv, LocalCalls, LocalCleansUp

LEMMA LocalInvStep == LocalInv /\ [Next]_vars => LocalInv'
<1> SUFFICES ASSUME LocalInv, [Next]_vars PROVE LocalInv'
    OBVIOUS
<1>1. TypeOK'
    BY SourceStepType DEF LocalInv
<1>2. LocalCalls' /\ LocalCleansUp'
  <2> USE DEF LocalInv, LocalCalls, LocalCleansUp, TypeOK, StorageTypeOK, PutPcs
  <2>still. ASSUME UNCHANGED <<backend, partial, pc>> PROVE LocalCalls' /\ LocalCleansUp'
      BY <2>still
  <2>1. ASSUME NEW u \in Uploads, PutStep(u) PROVE LocalCalls' /\ LocalCleansUp'
      BY <2>1 DEF PutStep, PutStreams, PutDeduplicates, PutIsNew, LocalMakesDir,
         LocalReplaces, S3Puts, S3Completes, S3Copies, S3Unstages, PutFails, Goto, storeVars
  <2>2. ASSUME NEW u \in Uploads, Registers(u) \/ Commits(u) \/ Aborts(u)
        PROVE  LocalCalls' /\ LocalCleansUp'
      BY <2>2 DEF Registers, Commits, Aborts, Goto, storeVars
  <2>3. ASSUME NEW u \in Uploads, DeletesRow(u) \/ Removes(u)
        PROVE  UNCHANGED <<backend, partial, pc>>
      BY <2>3 DEF DeletesRow, Removes, RemovalStep, LocalUnlinks, LocalRemovesDir,
         S3Deletes, RemovalFails, storeVars, putVars
  <2>4. CASE SweepStep \/ (\E k \in Keys : Age(k)) \/ UNCHANGED vars
    <3>1. UNCHANGED <<backend, partial, pc>>
        BY <2>4 DEF SweepStep, SweepVisits, SweepLoads, SweepSkips, SweepCondemns,
           SweepRaises, SweepDeletes, SweepDeleteFails, SweepEnds, SweepAborts, Age,
           vars, storeVars, putVars
    <3> QED BY <3>1, <2>still
  <2> QED BY <2>still, <2>1, <2>2, <2>3, <2>4 DEF Next, Handlers, Puts
<1> QED BY <1>1, <1>2 DEF LocalInv

\* put_stream of LocalStorage leaves no temporary file behind, however it ends,
\* unless the process dies.
THEOREM LocalCleansUpCorrect == Spec => []LocalCleansUp
BY LocalInvInit, LocalInvStep, PTL DEF Spec, LocalInv
=============================================================================
