--------------------------- MODULE ObjectStorage ---------------------------
(***************************************************************************)
(* Source files in object storage: put_stream and delete, call by call, of *)
(* both backends (services/storage/local.py, s3.py).  A key is a user and  *)
(* a content hash, so an object's bytes are determined by its key and only *)
(* its existence and its age matter.                                       *)
(***************************************************************************)
EXTENDS Naturals

CONSTANTS
    Backends,       \* implementations of BaseStorage in use; build_storage
                    \* builds LocalStorage only
    Uploads,        \* requests that upload a file, each of them once
    Keys            \* keys_for of the files they upload

ASSUME BackendsAssumption == Backends \subseteq {"local", "s3"}

VARIABLES
    backend,        \* the one in use
    object,         \* each key's object, older than GRACE_PERIOD or not
    dir,            \* LocalStorage: the directory the keys share (a user and
                    \* two digits of the hash) exists
    partial,        \* uploads with a temporary file, a multipart upload or a
                    \* staging object in storage
    pc,             \* the next call of each upload
    key,            \* the key of what it uploads
    dedup,          \* StoredObject.deduplicated
    removal         \* the next call of deleting an upload's object

storeVars == <<backend, object, dir, partial>>
putVars == <<pc, key, dedup>>

PutPcs == {"check", "mkdir", "replace", "put", "complete", "copy", "unstage"}
HandlerPcs == {"stored", "commit"}
EndPcs == {"done", "failed", "died"}

StorageTypeOK ==
    /\ backend \in {"local", "s3"}
    /\ object \in [Keys -> {"absent", "fresh", "old"}]
    /\ dir \in BOOLEAN
    /\ partial \subseteq Uploads
    /\ pc \in [Uploads -> {"new"} \cup PutPcs \cup HandlerPcs \cup EndPcs]
    /\ key \in [Uploads -> Keys]
    /\ dedup \in [Uploads -> BOOLEAN]
    /\ removal \in [Uploads -> {"none", "unlink", "rmdir", "done"}]

StorageInit ==
    /\ backend \in Backends
    /\ object = [k \in Keys |-> "absent"]
    /\ dir = FALSE
    /\ partial = {}
    /\ pc = [u \in Uploads |-> "new"]
    /\ key \in [Uploads -> Keys]
    /\ dedup = [u \in Uploads |-> FALSE]
    /\ removal = [u \in Uploads |-> "none"]

Present(k) == object[k] # "absent"
Goto(u, step) == pc' = [pc EXCEPT ![u] = step]

(***************************************************************************)
(* put_stream                                                              *)
(***************************************************************************)

\* The stream is consumed, into a temporary file or, past one part, into a
\* multipart upload; then the hash and the key are known.
PutStreams(u) ==
    /\ pc[u] = "new"
    /\ Goto(u, "check")
    /\ \/ partial' = partial \cup {u}
       \/ backend = "s3" /\ partial' = partial
    /\ UNCHANGED <<backend, object, dir, key, dedup, removal>>

\* Content this user already has in storage is not written again.  The
\* temporary file goes; aborting the multipart upload may fail and is logged.
PutDeduplicates(u) ==
    /\ pc[u] = "check" /\ Present(key[u])
    /\ dedup' = [dedup EXCEPT ![u] = TRUE]
    /\ Goto(u, "stored")
    /\ \/ partial' = partial \ {u}
       \/ backend = "s3" /\ partial' = partial
    /\ UNCHANGED <<backend, object, dir, key, removal>>

PutIsNew(u) ==
    /\ pc[u] = "check" /\ ~Present(key[u])
    /\ Goto(u, IF backend = "local" THEN "mkdir"
               ELSE IF u \in partial THEN "complete" ELSE "put")
    /\ UNCHANGED <<storeVars, key, dedup, removal>>

LocalMakesDir(u) ==
    /\ pc[u] = "mkdir"
    /\ dir' = TRUE
    /\ Goto(u, "replace")
    /\ UNCHANGED <<backend, object, partial, key, dedup, removal>>

\* os.replace into the directory, which must still be there.
LocalReplaces(u) ==
    /\ pc[u] = "replace" /\ dir
    /\ object' = [object EXCEPT ![key[u]] = "fresh"]
    /\ partial' = partial \ {u}
    /\ Goto(u, "stored")
    /\ UNCHANGED <<backend, dir, key, dedup, removal>>

\* A file of one part is a single PUT.
S3Puts(u) ==
    /\ pc[u] = "put"
    /\ object' = [object EXCEPT ![key[u]] = "fresh"]
    /\ Goto(u, "stored")
    /\ UNCHANGED <<backend, dir, partial, key, dedup, removal>>

\* Otherwise the multipart upload becomes a staging object ...
S3Completes(u) ==
    /\ pc[u] = "complete"
    /\ Goto(u, "copy")
    /\ UNCHANGED <<storeVars, key, dedup, removal>>

\* ... which is copied to the key ...
S3Copies(u) ==
    /\ pc[u] = "copy"
    /\ object' = [object EXCEPT ![key[u]] = "fresh"]
    /\ Goto(u, "unstage")
    /\ UNCHANGED <<backend, dir, partial, key, dedup, removal>>

\* ... and deleted.
S3Unstages(u) ==
    /\ pc[u] = "unstage"
    /\ partial' = partial \ {u}
    /\ Goto(u, "stored")
    /\ UNCHANGED <<backend, object, dir, key, dedup, removal>>

\* Mutant: the temporary file is only removed on success.
PutFailsKeeping(u) ==
    /\ pc[u] \in PutPcs
    /\ Goto(u, "failed")
    /\ UNCHANGED <<storeVars, key, dedup, removal>>

\* Any call raises, or the client disconnects: the handler of BaseException
\* removes the temporary file, or aborts a multipart upload that was not
\* completed yet.
PutFails(u) ==
    /\ pc[u] \in PutPcs
    /\ Goto(u, "failed")
    /\ \/ partial' = partial \ {u} /\ pc[u] \notin {"copy", "unstage"}
       \/ partial' = partial /\ backend = "s3"
    /\ UNCHANGED <<backend, object, dir, key, dedup, removal>>

PutStep(u) ==
    \/ PutStreams(u) \/ PutDeduplicates(u) \/ PutIsNew(u)
    \/ LocalMakesDir(u) \/ LocalReplaces(u)
    \/ S3Puts(u) \/ S3Completes(u) \/ S3Copies(u) \/ S3Unstages(u)
    \/ PutFails(u)

(***************************************************************************)
(* delete                                                                  *)
(***************************************************************************)

\* LocalStorage removes the file and then, if it is empty, its directory.
LocalUnlinks(u) ==
    /\ backend = "local" /\ removal[u] = "unlink"
    /\ object' = [object EXCEPT ![key[u]] = "absent"]
    /\ removal' = [removal EXCEPT ![u] = "rmdir"]
    /\ UNCHANGED <<backend, dir, partial, putVars>>

LocalRemovesDir(u) ==
    /\ removal[u] = "rmdir"
    /\ dir' = (dir /\ \E k \in Keys : Present(k))
    /\ removal' = [removal EXCEPT ![u] = "done"]
    /\ UNCHANGED <<backend, object, partial, putVars>>

S3Deletes(u) ==
    /\ backend = "s3" /\ removal[u] = "unlink"
    /\ object' = [object EXCEPT ![key[u]] = "absent"]
    /\ removal' = [removal EXCEPT ![u] = "done"]
    /\ UNCHANGED <<backend, dir, partial, putVars>>

\* Deleting is best effort: a failure is logged, and the handler may die.
RemovalFails(u) ==
    /\ removal[u] \in {"unlink", "rmdir"}
    /\ removal' = [removal EXCEPT ![u] = "done"]
    /\ UNCHANGED <<storeVars, putVars>>

RemovalStep(u) ==
    \/ LocalUnlinks(u) \/ LocalRemovesDir(u) \/ S3Deletes(u) \/ RemovalFails(u)
=============================================================================
