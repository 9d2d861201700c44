# DocMind: specification of ingestion and retrieval

DocMind is a document question-answering backend: a FastAPI service stores
uploaded files and answers queries over them, and ARQ workers turn each file
into embedded chunks through a pipeline of stages.  This directory holds TLA+
modules translated from `backend/app`, TLC configurations that check them on
small instances, and TLAPS proofs of what must hold for every instance.
Paths below are relative to `backend/app` of the repository.

## 1. Inventory

| component | state it keeps | operations | modelled by |
|---|---|---|---|
| Rows of PostgreSQL (`models/`, `db/repositories/jobs.py`, `documents.py`, `chunks.py`) | `documents.status`, `indexed_at`; `processing_jobs.stage`, `status`, `started_at`; chunk rows | `create_enqueue`, `set_status`, `list_stuck`, `latest_by_document`, `bulk_insert`, `delete` (cascades) | `IngestionRows` |
| ARQ queue in Redis (`core/arq.py`, `workers/settings.py`; a library) | at most one entry per `_job_id`, its try count, its kept result | `enqueue_job`, delivery, `Retry`, result, abandonment after `max_tries` | `ArqQueue` |
| Stage runner (`workers/tasks.py`, `rag/ingestion.py`) | nothing between tasks; an execution's open transaction | `run_stage` = `start_stage`, the stage function, `fail_stage` or `complete_stage`, enqueue of the next stage | `StageRunner` |
| Document API (`api/v1/documents.py`, `services/document_service.py`, `db/session.py`) | a session per request | upload (`get_or_create`), delete, `reprocess`, state polling | `DocumentApi`, `DocumentState` (the poll), `SourceRetention` and `ArtifactCache` (what requests do to storage) |
| Pipeline sweeper (`workers/sweeper.py`, `sweep_pipeline`) | the list of stuck jobs of one pass | requeue lost QUEUED jobs, fail dead RUNNING jobs | `PipelineSweeper` |
| Orphan sweeper (`sweep_orphans`) | the set of live keys of one pass | delete unreferenced objects | `SourceRetention` (source files), `ArtifactCache` (artifacts) |
| Object storage (`services/storage/`) | objects and in-flight temporaries, on disk or in S3 | `put_stream` with dedup, `put_bytes`, `delete`, `list_keys` | `ObjectStorage` (source files), `ArtifactCache` (`put_bytes`, `get_bytes`, `delete_raw`) |
| File type detection (`services/storage/mime.py`) | the head of the stream being read | `detect_mime`, the head loop of `put_stream` | `FileTypes` |
| Stage functions and artifact cache (`do_extract` ... `do_index`, `services/storage/keys.py`) | artifacts keyed by content hash and stage fingerprint, shared by documents | compute or reuse an artifact, clean, replace chunk rows | `ArtifactCache`, `Cleaning`; `StageRunner` for the rows |
| Retrieval (`rag/retrieval/`) | nothing between queries; a query's candidates | scope check, hybrid search, rank fusion, reranking, diversification, neighbours, passages | `Ranking`, `ContextAssembly`, `Retrieval` (all but query preprocessing and rendering) |
| Chunking and embedding (`rag/chunk/`, `rag/embed/`) | a chunk's windows; the batches of a try and their threads | splitting, batching, retrying a batch | `Chunking`, `Embedding` |
| Authentication (`core/auth.py`, `services/user_service.py`, `api/v1/auth.py`) | users; tokens are held by clients only | register, login, refresh, me | `Accounts` |
| Model cache, retry decorator (`services/llm_clients/model_cache.py`, `core/decorator.py`) | loaded models under a lock | double-checked load, backoff | `Embedding` |
| Repositories of conversations, messages, citations, extractions, evaluations | rows | single statements no service calls yet | no: nothing interacts |
| Retrieval evaluation, application shell, parsing libraries | none of their own | offline metrics, wiring, logging | no: I/O and formatting |

**How they interact.**  An upload stores the file, inserts a document (PENDING)
and an EXTRACT job (QUEUED) in the request's session, enqueues an ARQ task whose
`_job_id` is the job's id, and commits when the handler has returned
(`db/session.py:48-52`).  A worker that takes the task opens one session to mark
the job RUNNING and the document PROCESSING, a second one for the stage
function, and a third one that marks the job DONE and either inserts the job of
the next stage or marks the document INDEXED.  Only after that commit is the
next task enqueued.  Nothing is locked: sessions are READ COMMITTED, rows are
read without `FOR UPDATE`, and the ORM writes only columns whose value differs
from the one loaded.  Deletes, reprocess requests and the sweeper write the same
rows at any time.

**What is hard.**  Every decision is made on a read that may be stale when the
write commits; the queue and the database are updated by separate calls with a
crash window between them; ARQ delivers a task again after a crash; a handler
enqueues before it commits; a delete can take rows away under an open
transaction; reprocess commits three times; storage and database are updated by
separate calls, in the order put, insert, commit for an upload and delete,
commit, remove for a delete, and the sweeper removes objects by a list of keys it
loaded before; a query reads chunks in three statements while a worker may replace
them, and a poll reads a document and its jobs in two; documents of one content
share artifacts, whose keys depend on the deployed versions; `LocalStorage` writes
an artifact through one temporary file per key; a cancelled coroutine leaves its
thread at work; and two registrations meet at a unique index that one of them may
yet give up.  `PROJECT.json` lists each of these
at its line under `hazards`, with the property that would catch it.

**What makes each part correct.**  Rows: the statuses of a document and of its
jobs agree, and an unsettled document always has a job that can still move it.
Runner: each stage completes once, in order, with no two stages of one document
running at once; finished jobs are never touched again.  Queue: at most one
entry per job, a bounded number of deliveries.  API: a document never exists without a job; what `reprocess`
promises about its reset and its `from_stage`.  Sweeper: lost tasks are
recovered, and recovery never damages a live run.  Storage: a
document keeps its file, a failed upload leaves no temporary file, and what
nobody refers to is removed in the end.  Artifacts: a stage finds what the stage
before it wrote, whole, and made by the versions its key names.  Types and text:
the bytes decide the type, cleaning deletes nothing but a table of contents, and
pieces cover their text and fit the model.  Embedding: one model, its locks
released on every path, a bounded number of threads.  Accounts: one per email, and
no answer about one that never was.  Retrieval: fusion respects both
rankings, an answer fits its token budget, cites each position once, and cites
what the searches found.

## 2. Modules

```
IngestionRows            rows and the writes of each commit
  ArqQueue               the queue entry of each job
    StageRunner          executions of run_stage, statement by statement
    DocumentApi          handlers of upload, delete, reprocess
    PipelineSweeper      sweep_pipeline
      IngestionPipeline  the three above over shared rows; the properties
        DocumentState    a client's poll, two statements, over all of it
DocumentLifecycle        abstract: one document as its owner sees it
MCUpload, MCSweep, MCReprocess   instances for TLC
PipelineProofs           type correctness of the composed specifications, and
                         what is proved about single job rows and, with the
                         sweeper, about the jobs of a document
  LifecycleProofs        documents and jobs together, the refinement, the poll

ObjectStorage            put_stream and delete of both backends, call by call
  SourceRetention        uploads, deletes and sweep_orphans over source files
MCStore                  instances for TLC
SourceProofs             what is proved about source files

ArtifactCache            stages, requests, sweeps and upgrades over artifacts
MCArtifacts              instances for TLC
ArtifactProofs           what is proved about artifacts

FileTypes                detect_mime and the head loop of put_stream
Cleaning                 clean_document
Chunking                 chunk_with_splitter and EmbeddingTextSplitter
  DocumentText           the three above, one after the other
MCText                   the instance for TLC
TextProofs               what is proved about types, cleaning and pieces

Embedding                do_embed: batches, retries, threads, the model's locks
MCEmbedding              instances for TLC
EmbeddingProofs          what is proved about the model, its locks and threads

Accounts                 register, login, refresh, me
MCAccounts               the instance for TLC
AccountProofs            what is proved about accounts and answers

Sorting                  sorted() and sum(), as the next two use them
  Ranking                reciprocal_rank_fusion, mmr_select
  ContextAssembly        build_passages
    Retrieval            one query, statement by statement, against the workers
MCRetrieval              instances for TLC
RetrievalProofs          what is proved about fusion, the budget and citations
```

**IngestionRows.**  One variable per column the pipeline decides on.  A row is
visible if its status is one of the enum's; `"UNBORN"`, `"UNCOMMITTED"` and
`"DELETED"` say why it is not.  Job ids are drawn in increasing order, so
`latest_by_document` is the greatest visible id.  Stages are numbered;
`LastStage` is 5 in the code and a parameter here.  Age is `started_at` (or
`created_at`) relative to the sweeper's cutoffs: fresh, stuck, expired.  The
operators `StartRows`, `FailRows`, `AdvanceRows`, `IndexedRows` are the writes of
the four commits; they take the statuses their transaction read as arguments,
because that is what decides which columns are written.

**ArqQueue.**  A library, modelled from how `src/` uses it: `_job_id` makes an
entry unique, `enqueue_job` returns `None` while the entry or its kept result
exists (the result may expire at any time), `Retry`, cancellation and a dead
worker put the entry back, and after `max_tries` deliveries it is finished
without calling the function.

**StageRunner.**  `pc[j]` is the next step of the execution of job `j`; ARQ's
in-progress key makes an execution unique per job.  `start_stage`, `fail_stage`
and `complete_stage` are three steps each: the read of the job, the read of the
document, the commit.  `seenJob` and `seenDoc` hold what was read.  An UPDATE of
a row that has been deleted in the meantime raises and leaves `run_stage`
(`...LosesRow`).  `Crash` rolls back and redelivers, `TimeOut` covers the stage
timeout and exceptions `run_stage` does not catch (ARQ finishes the task),
`EnqueueNextFails` is the caught Redis error.

**DocumentApi.**  `req[r]` is a handler between two of its database or queue
calls.  `UploadNew` flushes rows nobody else sees, `RequestEnqueues` comes
before `RequestCommits`, `RequestAborts` rolls back what is uncommitted.
Re-upload finds the document and then, in a second statement, its latest job.
`reprocess` is four steps: load, reset (first commit), job for `from_stage`
(second commit, never enqueued), and a job for EXTRACT, which is flushed,
enqueued and committed like an upload's.  A delete waits for a flushed job of its
document, as the foreign key's lock makes it.

**PipelineSweeper.**  One pass lists the stuck jobs, then handles them one at a
time from that stale list; failing one is a `fail_stage` of its own, three steps.

**IngestionPipeline.**  `UploadSpec` (uploads, deletes, workers), `DeployedSpec`
(with reprocess: everything the application registers) and `SweptSpec` (uploads
with the sweeper as a cron job, which `workers/settings.py:53-55` does not
schedule).  All properties are stated here.

**DocumentLifecycle.**  What an upload promises: submitted, stages completed one
after the other exactly once, INDEXED after the last or FAILED before, removable
at any time, never revived.  `IngestionPipeline!ImplementsLifecycle` maps the
document's status to `phase` and the set of stages with a DONE job to `done`.

**ObjectStorage.**  `pc[u]` is the next call of upload `u` to its backend, or
where its handler is afterwards; `partial` are the uploads that own a temporary
file (`LocalStorage`) or a multipart upload or staging object (`S3Storage`).  A key
is a user and a content hash, so an object's bytes are fixed by its key and
`object[k]` only says whether it exists and whether it is older than
`GRACE_PERIOD`.  `put_stream` looks before it writes and returns `deduplicated` if
the object is there (`PutDeduplicates`).  `dir` is the directory the keys of one
user with the same two first digits share: `LocalStorage.delete` removes it if it
is empty.  `S3Storage` is modelled as it is implemented and unit-tested, but
`build_storage` (`services/storage/__init__.py:20-27`) builds `LocalStorage` only.

**SourceRetention.**  The upload handler after `put_stream` (find or insert the
row, then commit), the delete (row first, then object, best effort) and one pass
of `sweep_orphans`: load the live keys, list, skip what is live or recent, delete
up to `MAX_DELETES_PER_RUN`.  `SweepRaises` is what happens over `LocalStorage`:
`list_keys` yields `st_mtime`, a float, and `_aware` reads its `tzinfo`.  The
pipeline only reads source files, so this module and `IngestionPipeline` share
the handlers' order of calls and no state.

**DocumentState.**  `poll` is what `get_document_state` has read of the document
when it goes on to read the jobs; `Report` is what it would answer if it read them
now, so that an invariant on `Report` covers every pair of moments.

**ArtifactCache.**  All documents have the same content and so the same keys.  A
configuration gives every stage a version; a key is a stage and the chained
fingerprint up to it, and an object's content is its lineage, the versions that
computed it, or torn.  `run[r]` is one pipeline: it reads its input, computes,
and writes by `put_bytes` (truncate the temporary file, write, rename).  Over S3 it
never comes to that: `exists` takes the keys of source files only (`LookupRaises`), so
extract and clean end in an `InvalidKey`, which is permanent, and `put_bytes` of
`S3Storage` is not modelled.  Any other exception or crash sends it back to the start
of its stage (`Rest`).
Deletes and reprocesses remove artifacts key by key (`RemovesNext`), the sweeper by
the fingerprints of the present configuration, and `Redeploys` is an upgrade that
interrupts everything.  `disturbed` and `overlapped` are history: what a pipeline
suffered, and which keys two executions wrote at once.  A pipeline suffers when an
artifact is removed under it, when it restarts at a stage that has no input, when
its process is replaced, and (`Finishes`) when another run records in `parsed_key`
an artifact that was removed since it was written or found.

**FileTypes.**  A file is the facts `detect_mime` reads off its bytes: a signature,
where an office marker and the first byte no text has are, whether a character
crosses the end of the sniff window, whether it opens like HTML, what libmagic
says.  `Reads(n)` is one chunk of the request in `put_stream`'s loop, and the type
is decided when the head is full or the stream ends.

**Cleaning.**  A document is a sequence of text items; an item is ordinary or a
leader and its page numbers, and the one-character ellipsis becomes dots under
NFKC before tables of contents are looked for.  White space is left out.

**Chunking.**  Text is counted in tokens.  A window that is decoded, joined to its
prefix and encoded again may grow by up to `MaxGrowth` tokens, and `fit` then cuts
it; `covered` is how much of the body is in some piece.

**Embedding.**  `batch[c][b]` is the coroutine of a batch: waiting for the
semaphore, trying, backing off, or ended; `thread[<<c, b, n>>]` is the thread that
`to_thread` started for it in try `n`, which goes on when the coroutine is
cancelled.  `cacheLock` is `_CACHE_LOCK`, `encodeLock` the lock cached with the
model.  A load or an encode may fail or never return.

**Accounts.**  A registration is three steps: the lookup, the INSERT, which waits
for a transaction that has inserted the same email, and the commit, which `get_db`
makes after the handler has returned.  A session is the pair of tokens a client
holds; expiring is the only end of a token.  Wrong passwords change nothing and are
left out.

**Sorting, Ranking, ContextAssembly.**  The pure functions of a query.  `Sorted`
and `SumOf` are `sorted()` and `sum()`, written with sets and recursive functions:
the prover can expand neither `SortSeq` nor an operator with an operator parameter.  Scores are integers:
`Scale` is a common multiple of the `k + rank` that occur, so a reciprocal is
exact, and `Lambda` counts tenths.  The similarity of two chunks is 0 or 1
(`alike`).  Both weights must be positive for `FusionIsMonotone` to say something of
both lists.  A passage is its chunks, score and cost; page numbers and text are
left out.

**Retrieval.**  `pc` is the next statement of one `RetrievalService.retrieve`:
validation of the requested documents (one statement each), keyword search (while the query is being
embedded), vector search, fusion, reranking, selection, neighbours.  What a search
finds is any injective sequence of chunks in its scope: `_scope` is part of each
search, not of the neighbour query.  A search's results depend on the words and
vectors of the chunks, which are not modelled.  Beside the query, documents are
reprocessed, indexed again and deleted; a chunk carries the number of the indexing
that wrote it, because `do_index` gives new rows even to positions that existed
before.  `Docs` are the documents of the user who asks.  Production constructs
`RetrievalService(session)` without a reranker; `Reranks` is for the configuration
that has one, `SkipsRerank` for the one that has none and for a failed call.  A
reranker that answers with a wrong number of scores fails the query (`QueryFails`):
the `zip(strict=True)` is outside the `try`.

## 3. What the runs check

| run | specification | shows |
|---|---|---|
| `MCUpload_chain` | `UploadSpec`, 1 document, 3 stages, 2 handlers, 2 workers, 2 tries | `StageChain`, `StatusAgrees`, `IndexedIsSearchable`, `OneStageAtATime`, and the refinement `ImplementsLifecycle` |
| `MCSweep_safety` | `SweptSpec`, 2 stages, 2 workers | `UnsettledHasActiveJob`, `OneActiveJob`: the sweeper, acting on stale lists, leaves an unsettled document with exactly one unfinished job |
| `MCSweep_live` | `FairSweptSpec`, 2 stages | `StrandedJobsRecover`, `Settles`: lost tasks are recovered and every document settles, even with no worker left |
| `MCReprocess_safety` | `PolledSpec` (`DeployedSpec` and a poll), 2 stages, 3 jobs | `DocumentHasJob`, `DoneHasSuccessor`, `ReadsStayTrue`, `TerminalJobsStay` with reprocess racing an earlier run; `PollIsCoherent` |
| `MCStore_sources` | `FairSpec` of `SourceRetention`, both backends, 2 uploads, 2 keys, 1 deletion per pass | `WrittenSourceStays` and `LocalCleansUp` with deletes and sweeps in between; over S3, `OrphansAreSwept`: an object that an aborted upload or a failed delete left under its key is removed (a staging object, whose key is not valid, is not) |
| `MCRetrieval_answers` | `Retrieval`, 2 documents of 2 chunks, 2 indexings each, 2 results per search | `FusionIsMonotone`, `PassagesFitBudget`, `PositionsCitedOnce`, whatever is indexed or deleted in between |
| `MCArtifacts_cache` | `ArtifactCache`, both backends, 2 documents, 2 pipelines, 3 artifacts, 1 request, 1 upgrade | `TornNeedsTwoWriters`, `InputsAreFound`, `KeysNameTheirContent` |
| `MCEmbedding_calls` | `FairSpec` of `Embedding`, 1 call, 2 batches, 1 permit, 2 attempts, 3 tries, 3 threads | `LoadedOnce`, `LocksMatchWork`, `ThreadsAreBounded`, and `CallsSettle` even if every thread hangs |
| `MCAccounts_sessions` | `FairSpec` of `Accounts`, 2 clients, 1 email, 3 rows | `OneAccountPerEmail`, `AnswersAreTrue`, `RegistrationsEnd`, `SessionsEnd` |
| `MCText_pieces` | `FairSpec` of `DocumentText`, files up to 5 units, 5 text items, 2 chunks | `NamesOnlyNameText`, `ChunksDoNotMatter`; `TocsArePruned`; `NoGap`, `TailIsShort`, `PiecesFitModel`, `ChunkingEnds` |

`TypeOK` is an invariant of two runs, where it says more than types and is proved:
`MCReprocess_safety` (section 5) and `MCStore_sources`, where it holds the cap of a
pass.  Every other module states its own for the reader; those hold too, but no run
lists them.

Runs that TLC is expected to find violated, each about a sentence of the
repository that the code does not keep:

| run | property | what happens |
|---|---|---|
| `MCArtifacts_key` | `CacheHoldsItsKey` | over `LocalStorage`, a deployment falls between the extract and the clean of one upload: `do_clean` reads the old artifact that `parsed_key` names and files the result under the new fingerprint |
| `MCEmbedding_permanent` | `PermanentIsFinal` | a permanent error of one batch leaves the TaskGroup inside an ExceptionGroup, which `run_stage` does not recognise, and the stage is retried |

More disagreements have steps in the model, or follow from a definition of it, but no run:

* Re-uploading a FAILED document enqueues its FAILED job (`get_or_create`,
  `services/document_service.py:223`), which `start_stage` rejects, although
  `api/v1/documents.py:54-56` says that "re-uploading a failed document retries it"
  (`UploadFindsJob`, `StartReadsJob`).
* `reprocess` deletes the chunk rows (`document_service.py:402`) even while the INDEX
  stage of an earlier run is between its own commit and `complete_stage`, which then
  marks the document INDEXED without chunks (`ReprocessResets`, `CompleteLastStage`).
* An upload that finds the object of a document whose row is already deleted commits
  its own row, and then the delete removes the object (`PutDeduplicates`,
  `SourceRetention`'s delete): the row is left without its file, which
  `document_service.py:123-125` calls the unrecoverable case.  `WrittenSourceStays`
  therefore speaks of documents whose own upload wrote the file.
* A run of chunks over the token budget is cut to its first chunk, which may be a
  neighbour of the one that matched, where `rag/retrieval/context.py:52` says "always
  return at least the best chunk" (`FillBudget`).
* When `do_index` commits between the searches and the neighbour query, one passage
  joins chunks of two indexings (`Retrieval`), which `rag/retrieval/types.py:36` calls
  consecutive chunks "cited as a unit".  The neighbour query does not look at the
  document's status either.
* `PollIsCoherent` excludes the sweeper, whose failed job may be started by a worker
  that read it before, and reprocesses, whose reset and jobs are separate commits;
  and a document deleted between the two reads is answered as INDEXED with progress 0.
* `exists` of `LocalStorage` takes the keys of artifacts, that of `S3Storage` refuses
  them (`services/storage/s3.py:89-94`, `LookupRaises`): over S3 every document would
  fail at its first stage.
* Two writers of one artifact share `LocalStorage`'s temporary file, so that the
  rename may publish a part of the file, although `put_bytes` is tested as atomic for
  one writer.  A torn artifact stays until the document is deleted or reprocessed:
  every retry of the next stage reads it again.  A `.tmp` file that a crash leaves has
  no valid key, so the sweeper never removes it.
* Deleting or reprocessing one document removes the artifacts another document of the
  same content is about to read, and the sweeper removes an old artifact that a new
  upload has just hit.  The end of an extract stage may even record the key of an
  artifact that was removed since, and mislead every later restart from clean.
  `InputsAreFound` says these are the only ways.
* `/auth/me` answers 200 with null where its docstring says 401, because
  `get_user_by_email` returns None and raises nothing; and it looks up the email, so a
  token of a removed account shows the account registered since under the same email.
* The loser of two concurrent registrations gets a 500, since an IntegrityError is no
  ValueError (`RegisterConflicts`); and 201 is sent before the commit, which may still
  fail (`RegisterFails`).  `login` does not look at `is_active` although its docstring
  refuses locked accounts.
* One heading prefix as long as the budget raises ValueError, which is among
  `_PERMANENT_ERRORS` (`workers/tasks.py:85`), and fails the whole document on the first
  try (`prefix_too_long`).  What `fit` cuts from the last window
  of a chunk, up to `2 * MaxGrowth` tokens, is in no piece (`TailIsShort`).
* A text file with a multi-byte character across the end of the 4 KiB sniff window is
  taken for binary and left to libmagic (`IsProbablyText`).
* After the job for `from_stage`, `reprocess` creates a second one, for EXTRACT, and
  enqueues only that one (`ReprocessCreatesFromJob`, `ReprocessCreatesExtractJob`),
  although its docstring says that earlier stages are skipped.
* Over `LocalStorage` every pass of `sweep_orphans` ends with an `AttributeError` at
  its first unreferenced object (`SweepRaises`): `OrphansAreSwept` is stated
  for S3 only.
* `get_or_create`'s "should be unreachable" raise is reached when a delete commits
  between its two SELECTs (`UploadFindsJob`).
* `reprocess` promises "one transaction" but commits its reset and its job
  separately, so `UnsettledHasActiveJob` is not true of `DeployedSpec`; and it
  writes no status if it loaded the document as PENDING, so a PROCESSING committed
  since then stays (`ReprocessResets`).
* The sweeper fails a QUEUED job past `GIVE_UP_AFTER` that a worker has just read
  as QUEUED; the worker's commit makes it RUNNING again (`SweepFailCommits`,
  `StartCommits`).  `TerminalJobsStay` is therefore checked and proved without the
  sweeper only.
* Nothing schedules the sweepers: `workers/settings.py:53-55` lists the heartbeat
  alone, although `run_stage`'s docstring relies on "the scheduled recovery job".
  `MCSweep_live` and `MCStore_sources` say what scheduling them would give.
* `LocalStorage.delete`'s rmdir may remove the directory between another upload's
  mkdir and its `os.replace`, which then raises (`LocalReplaces` is not enabled
  without `dir`, `PutFails` is).
* `BaseStorage.put_stream` promises to "clean up partial state on any failure", but
  a failed copy leaves S3's staging object (`PutFails` in step `copy`), which the
  sweeper cannot delete because its key is not a valid one.

**Bounds.**  `Docs`: one document, because no write of a transaction touches two
documents' rows; the proofs of section 5 hold for any set.  `MaxJobs` is the
number of rows a run can draw: as many as stages for uploads, plus two per
reprocess.  When it is reached, steps that would insert a row are disabled; the
runs are sized so that the whole pipeline fits (`MCUpload_chain`,
`MCSweep_*`).  In `MCReprocess_safety`, three rows are an upload's job and
either both stages of the first run and one row of a reprocess or both rows of a
reprocess during the first stage; the proofs of section 5 have no bound.
`LastStage`: three stages have a first, a middle and a last; two where only
first and last differ.  `MaxTries` 2 distinguishes a try that may be repeated
from the last; 1 where retries add nothing.  `WorkerSlots` 2 is two executions
at once.  `MaxReprocess` 1: one reprocess against one earlier run already makes
three generations of jobs.  `Uploads` 2 over `Keys` 2: a document and a second upload
that deduplicates against it or has another key that shares the directory.
`MaxDeletes` 1 makes a pass stop with a backlog.  In
`MCRetrieval_answers` two documents have two chunks, a search returns up to two and
the second indexing of a document is its last (`MaxVersion`): lists overlap, differ
or hold both versions of a position, the cut to three candidates and to two
selected bites, and a chunk's tokens (1 or 4) are less or more than the budget of
3.  The vector list weighs twice the keyword list, so that a share missing from the
fused score shows.
In `MCArtifacts_cache` (where a pipeline over S3 ends at once) three artifacts have a first stage (which sets `parsed_key`), a
second (which reads by it) and one that reads by a computed key; two pipelines are two
writers, or a pipeline and its reprocess; one request at a time, and one upgrade that
changes two stages.  A pass of the sweeper is followed for one key.  In
`MCEmbedding_calls` one permit for two batches makes batches wait, three tries leave
threads of two earlier ones, and three threads are fewer than those tries could start.
`MCAccounts_sessions` has two clients and one email, since only registrations of the
same email meet; three rows are an account, the one it is replaced by and one that
is rolled back.  In `MCText_pieces` the head holds 3 units and the sniff window 2 of at most 4
(5 is refused), so every fact can lie inside, at and beyond each limit; a table of
contents needs 3 items with no gap above 1 among 5; a budget of 7 tokens with overlap 2
against prefixes up to 7 and bodies up to 10 gives windows longer than, as long as and
shorter than the overlap.
Deadlock is not checked because the system may stop:
all documents settled, nothing queued, the query answered.

**Fairness.**  Crashes, timeouts and Redis failures are never required to happen
nor to stop.  A handler that was started ends.  The sweeper's fairness
assumes that cron keeps starting passes and that they are not aborted for ever;
its strong parts are needed because an abort disables the step that was next.
`FairSweptSpec` assumes nothing of workers: recovery must not depend on them.
In `SourceRetention`, handlers end, objects grow old, passes are started again and
again, a listing that is not always interrupted comes to every key, and a deletion
that is tried again and again succeeds in the end.  `Age` carries the assumption
`GRACE_PERIOD` is chosen for (`workers/sweeper.py:44-48`): an object does not become
old while the upload that wrote it is in flight, nor while a pass runs, whose
cutoff is computed when it starts.  In `Embedding` the timer of `asyncio.timeout` fires
and ARQ redelivers; nothing is assumed of threads.  In `Accounts`, a handler whose
statement can proceed proceeds, and a token that is not replaced expires.  In
`DocumentText` the splitter's loop, plain code in a thread, goes on.

## 4. Mutants

Each property has a mutated definition, next to the original and marked
`Mutant:`, that TLC finds violating it: a stage index off by one, a commit that
forgets one of its two rows, an unchecked terminal status, a sweeper listing only one status, a re-upload that resets its job,
a grace period that is not applied, a cap that is off by one, a fused score that is
overwritten, windows that are not merged; an artifact written in place, fingerprints
that are not chained, a lock that a failed load keeps, a cache that is not looked at
again under its lock, a timeout that waits for its threads, a registration without the
unique index, a session refreshed on the token's word, a type taken from the first
chunk, a run of items that no gap ends, and windows that overlap too little, go back or
stay where they are.

## 5. What is proved

For all values of the constants allowed by the modules' assumptions
(`DocsAssumption`, `LastStageAssumption`, ...):

* `PipelineProofs`: `UploadTypeCorrect`, `DeployedTypeCorrect`,
  `SweptTypeCorrect`.  One lemma per component, one step per action.  For the
  sweeper type correctness depends on a check: `sweepSaw` is a status only
  because the document was looked for.
* `PipelineProofs`: `ReadsStayTrueCorrect`, `DoneHasSuccessorCorrect`,
  `DocumentHasJobCorrect`, `TerminalJobsStayCorrect`, all for `DeployedSpec`.
  The argument: a worker writes a job from the status it read, so terminal jobs
  stay terminal only if that status is still the row's (`ReadsStayTrue`).  It is,
  because an execution is unique per job and a handler only commits a row it
  flushed itself (`RequestsOwnJobs`) under an id nobody had (`NextJobIsFresh`).
  The inductive invariant `JobInv` is the conjunction of these with the type
  invariant, `RequestPcs` (which handler may be at which step) and the two row
  properties.  It is preserved step by step: `StatusWritten` (a commit that
  creates no row), `CompleteStageStep` and the two reprocess lemmas (those that
  do), `RowsDeleted` (aborts and deletes), `RowsKept` (everything else).
  The theorem stops where the sweeper starts: it writes rows another
  transaction has read.
* `PipelineProofs`, second part: `OneActiveJobCorrect` and `UnsettledHasActiveJobCorrect` for
  `SweptSpec`.  Here a transaction's read may be false when it commits.  What saves
  the properties is the shape of a document's jobs, which `SweptInv` says of the
  tables: they are committed and deleted with their document (`RowsAgree`), one per
  stage from the first on (`NoStageSkipped`), and all but the last are finished and no
  longer executed (`Chain`).  So whoever settles a job settles the last one, with its
  document.  The one commit that makes a settled document unsettled again is a first
  start that raced the sweeper, and it revives the job as well (`FirstStart`,
  `Pending`).
* `LifecycleProofs`: `StageChainCorrect`, `StatusAgreesCorrect`,
  `IndexedIsSearchableCorrect`, `OneStageAtATimeCorrect` and
  `UploadImplementsLifecycle`, for `UploadSpec`.  The invariant `UploadInv` joins
  `SweptInv` and `JobInv` with what an execution about to commit knows (`DocReads`,
  `ChunksWritten`) and what a document's rows say together (`Told`).  Because reads
  are true at the commit, every step of the system has one of eight effects on the rows
  of at most one document (`Effect`: hidden, appears, vanishes, starts, fails, finishes,
  advances, or the same).  The effect preserves `Told`, and is a step of
  `DocumentLifecycle` or a stutter (`EffectIsStep`), which is the refinement.
* `LifecycleProofs`: `PollIsCoherentCorrect` for `PolledSpec`, which has reprocess
  requests.  Until the first of them the system is one of uploads (`NoReprocessYet`),
  so `UploadInv` holds; what a poll read of a settled document stays true until a
  delete (`PollReads`); and the jobs of a visible document are DONE below one stage
  and absent above it (`Reached`), which progress and current stage both report.
* `SourceProofs`: `SourceTypeCorrect` and `WrittenSourceStaysCorrect` for any sets
  of uploads and keys and any cap.  That a document keeps its file is not
  inductive: the sweeper decides by a list that may not contain the document.
  The invariant `SourceInv` says why that is enough: what an upload in flight
  wrote is recent (`InFlightIsRecent`); a document the running pass does not know
  of was committed after the pass started, so its object is recent as well
  (`UnknownIsRecent`); hence what the pass is about to delete was written by no
  upload in flight and by no document (`CondemnedIsUnused`).  The exception, a key
  whose document was deleted, is the deduplicated upload of section 3.
* `SourceProofs`: `LocalCleansUpCorrect`.  An upload to `LocalStorage` never comes to
  the calls of `S3Storage` (`LocalCalls`), so only the exits that remove the file are
  left.
* `ArtifactProofs`: `TornNeedsTwoWritersCorrect`, `InputsAreFoundCorrect` and
  `KeysNameTheirContentCorrect`, with `ArtifactTypeCorrect`, for any documents,
  pipelines, requests and upgrades and two to four artifacts.  `ArtifactInv` has one part for each: a
  key that is not overlapped has one writer, whose file is torn until it is written
  and whole when it is renamed (`SoleWriter`); files, temporary files and what an
  execution has computed are of the versions of their key (`ContentNamed`,
  `MadeNamed`); and a pipeline that is not disturbed has the input of its next stage,
  by the key it will read it by (`Fed`).  The last one did not hold of an earlier form
  of `disturbed`: a restart from clean by a `parsed_key` recorded after the artifact
  was removed misses its input although nothing was taken from it.  The lemmas go by
  what a step does to one run (`OneMoves`), to a file, or to all runs at once
  (`Disturb`, `Moved`, `Redeploys`).
* `TextProofs`: `ChunksDoNotMatterCorrect` and `NamesOnlyNameTextCorrect`, for every
  file, every way to cut it and every name.  `HeadInv`: the head is what was read up to
  `HeadBytes`, and there is room in it as long as the type is open; so it is decided on
  the same bytes, whatever the chunks.
* `TextProofs`: `ChunksHaveNoGap`, `ChunksLoseShortTails` and `ChunksFitModel`,
  for every budget, overlap, growth, prefix and body.  The invariant `ChunkInv`
  carries, besides the three and the type invariant, where `covered` is between two
  windows; `FitsCuts` bounds what `fit` removes, `WindowKeeps` and `EmptyBodyKeeps`
  are the two ways a piece comes about.  The first two hold under
  `OverlapCoversCut`.  The code's overlap of 32 tokens satisfies `MaxCut <= Overlap` by
  far, since a window grows by the few tokens of a word cut in two; `MaxCut < BodyLimit`
  depends on the prefix, and a heading that leaves only a few tokens of the budget
  breaks it: of such a chunk the two properties say nothing.
* `TextProofs`: `TocsArePrunedCorrect`, for documents of any length, any page numbers
  and every `MinItems` from 2 on and `MaxGap` from 1 on.  `CleanDocumentPrunes` says it of
  one document and rests on three loops.  `Only` keeps an ascending list ascending
  (`OnlyKeeps`), does not look at items that are not wanted (`OnlySame`), and can be
  taken twice (`OnlyOnly`); the length at the end of a run of marked items is that of a
  run without a gap (`RunsHaveNoGap`), so a table of contents has the row
  (`TocHasRow`); and what is left has no marked item, so a second pass finds no table.
  The invariant `CleanInv` adds the types of the stage.
* `TextProofs`: `SplitterAdvances`, what of `ChunkingEnds` is no liveness: a turn of the
  splitter's loop that is followed by another moves `start` forward inside the body,
  because a step is at least one token, however long the prefix and the overlap.
* `TextProofs`: `TextTypeCorrect`, the type invariants of the three parts together.
* `RetrievalProofs`: `FusionIsMonotoneCorrect`, `PassagesFitBudgetCorrect` and
  `PositionsCitedOnceCorrect`, with `RetrievalTypeCorrect`, for any finite set of
  documents, any lengths of lists, weights, limits, window, budget and token counts,
  and with documents deleted and indexed again at every step.  The three speak of
  different statements of the query, but each needs the types of what the statement
  before left: `RetrievalInv` joins them with `TypeOK`, with which list is empty when
  (`ListsInTurn`: relevance is the candidates' scores or the selected ones') and with
  the versions of stored rows (`StoredWasIndexed`).  Under that are lemmas about the
  operators: `SortedInOrder` (a strict total order of a finite set has one place for
  each element), `FusionOrders` (shares do not grow with the rank, so what both
  searches rank no worse has no smaller score, and equals stay in the order of their
  merge), `CutKeepsRanks`, `MmrType` (a choice never runs out, and takes no candidate
  twice), `RunsAreDisjoint` (maximal intervals of positions do not meet), and
  `FillInvariant`: every turn of the budget loop takes a run, its first chunk or
  nothing, so the budget is kept (`FillBudgetFits`) and two passages come of two runs
  (`Sources`, `CutFromRuns`).

The loops.  What a recursive definition computes is an induction over data, and the
library's induction theorems take an operator, which the provers cannot instantiate.
`Induction` and `Recursion` avoid it: the statement to prove is a set of turns, the
least turn outside it is found by `WFMin` of `WellFoundedInduction`, which takes a set, and a
loop is a function of its turns with a table of its steps, of which the definition's
CHOOSE is shown to be one.  Both lemmas are in the two modules that need them.

* `EmbeddingProofs`: `LoadedOnceCorrect`, `LocksMatchWorkCorrect` and
  `ThreadsAreBoundedCorrect`, for any number of calls, batches, tries, attempts and
  threads.  The first two are proved together: a thread enters the model's lock only
  after the load (`LoadsFirst`), and a second load would make a second lock.  The bound
  on threads is not inductive: `Counted` counts the threads of earlier tries, which
  nobody joins, apart from the batches the semaphore has admitted to the running try,
  each of which owns at most one thread (`OwnThreads`).
* `AccountProofs`: `OneAccountPerEmailCorrect` and `AnswersAreTrueCorrect`, for any
  number of clients, emails and rows.  Rows that are flushed count for the unique index
  as well (`Unique`); a flushed row belongs to one request (`OwnRow`), which alone
  commits or rolls it back; and tokens name committed rows (`TokensNameAccounts`).

The assumptions are on parameters only: sizes are natural numbers (not 0 where the code
has at least one), backends are among the two that exist, versions are numbers, and the
documents of a query are finitely many.

Only model-checked:

* Everything under fairness (`StrandedJobsRecover`, `Settles`, `OrphansAreSwept`,
  `CallsSettle`, `RegistrationsEnd`, `SessionsEnd`, `ChunkingEnds`): the prover does not
  treat liveness under fairness or ENABLED.  They are all that the passing runs check
  and no theorem states.

No property says that `mmr_select` maximises its formula, or anything about the order of
passages; the lemmas about both say what the budget and the citations need.

## 6. What is not modelled, and the plan

Left out of the modelled parts: `details`, error texts, page counts, the retry
history of `record_attempt`, log lines, the delay of a retry, user scoping
(a document belongs to one user, the only one who acts on it).  Of storage: bytes
and hashes, `materialize`, and the file extension in a key (two uploads of the same
bytes under names of different types have two keys and one document).  Of artifacts:
more than one delete or reprocess at a time, what is left under the keys of an old
configuration and not referred to, and retry counts, which are those of `StageRunner`.
Of embedding: the crash of the process, which ends its threads; `clear` and
`clear_kind`, which nothing calls; between a batch's failure and the abort another
batch may start, which the model allows.  Of accounts: cryptography, the shape of
tokens, `verify_token` (no caller), paging through users.

Not modelled at all: docling, chonkie, libmagic, the embedding model and the reranker,
which are libraries; query preprocessing and the rendering of a context, which are
text; the repositories of conversations, messages, citations, extractions and
evaluations and `mark_running`, `mark_done` and `mark_failed`, which no code calls; the
retrieval evaluation, an offline report; wiring, logging and error mapping.

Next, in order:

1. Proofs: which properties of `UploadSpec` survive the first reprocess request.
2. `IngestionPipeline` and `ArtifactCache` over shared rows: a pipeline that has lost
   its input ends FAILED and not stuck.
3. Query preprocessing, if its properties are worth a model.
