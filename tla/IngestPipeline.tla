--------------------------- MODULE IngestPipeline ---------------------------
(***************************************************************************)
(* The ingest pipeline in the shared-database deployment                   *)
(* (INGEST_USE_LOCAL_QUEUE=false): an API process that uploads, re-queues  *)
(* and deletes files, drain loops of kb_worker that claim job rows from    *)
(* the jobs table and ingest the file, and the periodic maintenance.  The  *)
(* processes share nothing but the SQLite database and the data directory. *)
(*                                                                         *)
(* An action is one database transaction (or one file-system effect) of    *)
(* the code together with the decision it takes from what it read.  What   *)
(* the code keeps across two of them - the job a drain selected, the file  *)
(* object it holds through the backoff, an upload between the blob and the *)
(* row - is in drain, uploading, reingest and deleting, so every           *)
(* interleaving of the processes between two commits is a behaviour.       *)
(***************************************************************************)
EXTENDS Naturals

CONSTANTS
  Contents,      \* distinct uploads, identified by (tenant, sha256)
  NoContent,     \* the content of an unused row
  Drains,        \* concurrent executions of IngestWorker.drain
  MaxFileId,     \* bound: row ids of table files
  MaxJobId,      \* bound: row ids of table jobs
  PageCount,     \* pages parse_document finds in every file
  MaxRetries,    \* INGEST_MAX_RETRIES
  MaxRequests,   \* bound: API calls that change state
  MaxCrashes,    \* bound: process crashes
  LiveTimeouts,  \* may an ingest outlast INGEST_PROCESSING_TIMEOUT_SECONDS?
  Deletions      \* are files deleted?

ASSUME PipelineAssumption ==
  /\ NoContent \notin Contents
  /\ MaxFileId \in Nat /\ MaxJobId \in Nat
  /\ PageCount \in Nat \ {0}
  /\ MaxRetries \in Nat
  /\ MaxRequests \in Nat /\ MaxCrashes \in Nat
  /\ LiveTimeouts \in BOOLEAN /\ Deletions \in BOOLEAN

VARIABLES
  files,      \* table files: row id -> row
  docs,       \* table documents: content -> status
  jobs,       \* table jobs: row id -> row
  pages,      \* tables pages and chunks: file id -> numbers of its page rows
  indexed,    \* contents whose chunks were handed to the vector store
  blobs,      \* contents whose payload is in the data directory
  drain,      \* the local state of each drain loop
  uploading,  \* uploads between write_bytes and register_file
  reingest,   \* POST /ingest between its reset commit and enqueue_job
  deleting,   \* DELETE /file between unlink and its commit
  stranded,   \* history: files whose enqueuer failed before it enqueued
  requests,   \* API calls so far
  crashes     \* crashes so far

tables == <<files, docs, jobs, pages>>
apiVars == <<uploading, reingest, deleting, requests>>
vars == <<files, docs, jobs, pages, indexed, blobs, drain, uploading, reingest,
          deleting, stranded, requests, crashes>>

(***************************************************************************)
(* Rows.  A file and a document carry a status; `stale' says that the      *)
(* stamp updated_at of a PROCESSING row is older than the processing       *)
(* timeout.  The payload of a job names the file row and the content       *)
(* (path, sha256) it was created for; `finished' is finished_at # NULL.    *)
(***************************************************************************)
FileIds == 1..MaxFileId
JobIds == 1..MaxJobId
Pages == 1..PageCount
Statuses == {"QUEUED", "PROCESSING", "COMPLETED", "FAILED"}
Terminal == {"COMPLETED", "FAILED"}
Attempts == 0..(MaxRetries + 1)

FileRow == [status : Statuses \cup {"absent"}, content : Contents \cup {NoContent},
            stale : BOOLEAN]
JobRow == [status : Statuses \cup {"absent"}, file : FileIds \cup {0},
           content : Contents \cup {NoContent}, attempt : Attempts,
           finished : BOOLEAN, stale : BOOLEAN]

NoFile == [status |-> "absent", content |-> NoContent, stale |-> FALSE]
NoJob == [status |-> "absent", file |-> 0, content |-> NoContent, attempt |-> 0,
          finished |-> FALSE, stale |-> FALSE]

FileExists(f) == files[f].status # "absent"
JobExists(j) == jobs[j].status # "absent"

QueuedFile(c) == [status |-> "QUEUED", content |-> c, stale |-> FALSE]
QueuedJob(f, c, a) == [status |-> "QUEUED", file |-> f, content |-> c, attempt |-> a,
                       finished |-> FALSE, stale |-> FALSE]

\* SQLite gives a new row of a table without AUTOINCREMENT the id one above
\* the highest id in the table: an id freed at the top is used again.
NextFileId(f) == /\ \A g \in FileIds : FileExists(g) => g < f
                 /\ f > 1 => FileExists(f - 1)
NextJobId(j) == /\ \A k \in JobIds : JobExists(k) => k < j
                /\ j > 1 => JobExists(j - 1)

\* A drain loop.  seen is the status SELECT returned for the job, ok the
\* outcome of _ingest_file, page the page _persist_page writes next.
PCs == {"idle", "selected", "claimed", "clearing", "opening", "paging",
        "indexing", "finalizing", "failing", "backoff"}
DrainState == [pc : PCs, job : JobIds \cup {0}, seen : Statuses \cup {"absent"},
               file : FileIds \cup {0}, content : Contents \cup {NoContent},
               attempt : Attempts, page : 1..(PageCount + 1), ok : BOOLEAN]
IdleDrain == [pc |-> "idle", job |-> 0, seen |-> "absent", file |-> 0,
              content |-> NoContent, attempt |-> 0, page |-> 1, ok |-> FALSE]

Goto(w, label) == drain' = [drain EXCEPT ![w].pc = label]
Idle(w) == drain' = [drain EXCEPT ![w] = IdleDrain]

\* The drain has the job in hand: it returned from dequeue_next_job, or it
\* created the job as an inline retry.
Holds(w, j) == drain[w].job = j /\ drain[w].pc \notin {"idle", "selected"}
InUse(j) == \E w \in Drains : drain[w].job = j /\ drain[w].pc # "idle"

\* Attempt counters past the last retry behave alike; Bump stops there.
Bump(a) == IF a > MaxRetries THEN a ELSE a + 1

InsertJob(j, f, c, a) ==
  /\ NextJobId(j)
  /\ jobs' = [jobs EXCEPT ![j] = QueuedJob(f, c, a)]
  /\ stranded' = stranded \ {f}

FinishJob(j, status) ==
  jobs' = IF JobExists(j)
            THEN [jobs EXCEPT ![j].status = status, ![j].finished = TRUE,
                              ![j].stale = FALSE]
            ELSE jobs

\* Status of file row f and of the document of content c, in one commit.
SetStatus(f, c, status) ==
  /\ files' = [files EXCEPT ![f].status = status, ![f].stale = FALSE]
  /\ docs' = [docs EXCEPT ![c] = status]

-----------------------------------------------------------------------------
(* POST /upload: the blob first, then register_file in one transaction.     *)

Request == requests < MaxRequests /\ requests' = requests + 1

WriteBlob(c) ==
  /\ Request
  /\ c \notin uploading
  /\ uploading' = uploading \cup {c}
  /\ blobs' = blobs \cup {c}
  /\ UNCHANGED <<tables, indexed, drain, reingest, deleting, stranded, crashes>>

DocOnRegister(c) == IF docs[c] \in {"absent", "FAILED"} THEN "QUEUED" ELSE docs[c]

\* Mutant: a document that is already known does not get a job.
RegisterNewDocOnly(c) ==
  /\ c \in uploading /\ c \in blobs
  /\ \A f \in FileIds : files[f].content # c
  /\ \E f \in FileIds, j \in JobIds :
       /\ NextFileId(f)
       /\ files' = [files EXCEPT ![f] = QueuedFile(c)]
       /\ IF docs[c] = "absent" THEN InsertJob(j, f, c, 0)
                                ELSE UNCHANGED <<jobs, stranded>>
  /\ docs' = [docs EXCEPT ![c] = DocOnRegister(c)]
  /\ uploading' = uploading \ {c}
  /\ UNCHANGED <<pages, indexed, blobs, drain, reingest, deleting, requests, crashes>>

RegisterNew(c) ==
  /\ c \in uploading /\ c \in blobs
  /\ \A f \in FileIds : files[f].content # c
  /\ \E f \in FileIds, j \in JobIds :
       /\ NextFileId(f)
       /\ files' = [files EXCEPT ![f] = QueuedFile(c)]
       /\ InsertJob(j, f, c, 0)
  /\ docs' = [docs EXCEPT ![c] = DocOnRegister(c)]
  /\ uploading' = uploading \ {c}
  /\ UNCHANGED <<pages, indexed, blobs, drain, reingest, deleting, requests, crashes>>

RegisterFailed(c) ==
  /\ c \in uploading /\ c \in blobs
  /\ \E f \in FileIds, j \in JobIds :
       /\ files[f].content = c /\ files[f].status = "FAILED"
       /\ files' = [files EXCEPT ![f] = QueuedFile(c)]
       /\ InsertJob(j, f, c, 0)
  /\ docs' = [docs EXCEPT ![c] = DocOnRegister(c)]
  /\ uploading' = uploading \ {c}
  /\ UNCHANGED <<pages, indexed, blobs, drain, reingest, deleting, requests, crashes>>

\* The row is QUEUED, PROCESSING or COMPLETED: only the stamps move.
RegisterKnown(c) ==
  /\ c \in uploading /\ c \in blobs
  /\ \E f \in FileIds :
       /\ files[f].content = c /\ files[f].status # "FAILED"
       /\ files' = [files EXCEPT ![f].stale = FALSE]
  /\ docs' = [docs EXCEPT ![c] = DocOnRegister(c)]
  /\ uploading' = uploading \ {c}
  /\ UNCHANGED <<jobs, pages, indexed, blobs, drain, reingest, deleting, stranded,
                 requests, crashes>>

\* A concurrent delete removed the blob: _hash_file raises, the upload fails.
RegisterBlobGone(c) ==
  /\ c \in uploading /\ c \notin blobs
  /\ uploading' = uploading \ {c}
  /\ UNCHANGED <<tables, indexed, blobs, drain, reingest, deleting, stranded,
                 requests, crashes>>

-----------------------------------------------------------------------------
(* POST /ingest.  A file that is not COMPLETED, or any file with force, is  *)
(* reset in one commit and its job inserted in the next; a file already     *)
(* QUEUED or PROCESSING gets another job without a reset.                   *)

\* Mutant: the file is reset and its job never inserted.
IngestResetOnly(f, force) ==
  /\ Request
  /\ FileExists(f) /\ f \notin reingest
  /\ force \/ files[f].status = "FAILED"
  /\ SetStatus(f, files[f].content, "QUEUED")
  /\ UNCHANGED <<jobs, pages, indexed, blobs, drain, uploading, reingest, deleting,
                 stranded, crashes>>

IngestReset(f, force) ==
  /\ Request
  /\ FileExists(f) /\ f \notin reingest
  /\ force \/ files[f].status = "FAILED"
  /\ SetStatus(f, files[f].content, "QUEUED")
  /\ reingest' = reingest \cup {f}
  /\ UNCHANGED <<jobs, pages, indexed, blobs, drain, uploading, deleting, stranded,
                 crashes>>

IngestEnqueue(f) ==
  /\ f \in reingest /\ FileExists(f)
  /\ \E j \in JobIds : InsertJob(j, f, files[f].content, 0)
  /\ reingest' = reingest \ {f}
  /\ UNCHANGED <<files, docs, pages, indexed, blobs, drain, uploading, deleting,
                 requests, crashes>>

\* The row was deleted after the reset: reloading the record raises.
IngestRowGone(f) ==
  /\ f \in reingest /\ ~FileExists(f)
  /\ reingest' = reingest \ {f}
  /\ UNCHANGED <<tables, indexed, blobs, drain, uploading, deleting, stranded,
                 requests, crashes>>

IngestActive(f) ==
  /\ Request
  /\ files[f].status \in {"QUEUED", "PROCESSING"}
  /\ \E j \in JobIds : InsertJob(j, f, files[f].content, 0)
  /\ UNCHANGED <<files, docs, pages, indexed, blobs, drain, uploading, reingest,
                 deleting, crashes>>

-----------------------------------------------------------------------------
(* DELETE /file: unlink the blob, then delete the row.  Document, pages,    *)
(* chunks, vectors and jobs stay.                                           *)

DeleteUnlink(f) ==
  /\ Deletions
  /\ Request
  /\ FileExists(f) /\ f \notin deleting
  /\ blobs' = blobs \ {files[f].content}
  /\ deleting' = deleting \cup {f}
  /\ UNCHANGED <<tables, indexed, drain, uploading, reingest, stranded, crashes>>

DeleteRow(f) ==
  /\ f \in deleting
  /\ files' = [files EXCEPT ![f] = NoFile]
  /\ deleting' = deleting \ {f}
  /\ UNCHANGED <<docs, jobs, pages, indexed, blobs, drain, uploading, reingest,
                 stranded, requests, crashes>>

-----------------------------------------------------------------------------
(* dequeue_next_job: a SELECT outside any transaction, then an UPDATE that  *)
(* claims the row only if its status is still the one SELECT returned.      *)

\* Mutants: failed jobs are offered again; abandoned jobs are not.
ReadyUnlessCompleted(j) == jobs[j].status \in {"QUEUED", "FAILED"}
ReadyQueuedOnly(j) == jobs[j].status = "QUEUED"
Ready(j) ==
  \/ jobs[j].status = "QUEUED"
  \/ jobs[j].status = "PROCESSING" /\ jobs[j].stale

\* ORDER BY queued first, then created_at; every job has priority 0.
Precedes(j, k) ==
  IF jobs[j].status = jobs[k].status THEN j <= k ELSE jobs[j].status = "QUEUED"

SelectJob(w, j) ==
  /\ drain[w].pc = "idle"
  /\ Ready(j)
  /\ \A k \in JobIds : Ready(k) => Precedes(j, k)
  \* attempt is a history value here: the code does not select it
  /\ drain' = [drain EXCEPT ![w] =
       [IdleDrain EXCEPT !.pc = "selected", !.job = j, !.seen = jobs[j].status,
                         !.attempt = jobs[j].attempt]]
  /\ UNCHANGED <<tables, indexed, blobs, apiVars, stranded, crashes>>

\* WHERE status = :previous_status.  (Mutant: the row is claimed by its id.)
ClaimById(w) == JobExists(drain[w].job)
StillAsSeen(w) == jobs[drain[w].job].status = drain[w].seen

ClaimJob(w) ==
  LET j == drain[w].job
      recovered == drain[w].seen = "PROCESSING"
      attempt == IF recovered THEN Bump(jobs[j].attempt) ELSE jobs[j].attempt
  IN /\ drain[w].pc = "selected"
     /\ StillAsSeen(w)
     /\ jobs' = [jobs EXCEPT ![j].status = "PROCESSING", ![j].stale = FALSE,
                             ![j].attempt = attempt]
     /\ drain' = [drain EXCEPT ![w].pc = "claimed", ![w].file = jobs[j].file,
                               ![w].content = jobs[j].content, ![w].attempt = attempt]
     /\ UNCHANGED <<files, docs, pages, indexed, blobs, apiVars, stranded, crashes>>

ClaimLost(w) ==
  /\ drain[w].pc = "selected"
  /\ ~StillAsSeen(w)
  /\ Idle(w)
  /\ UNCHANGED <<tables, indexed, blobs, apiVars, stranded, crashes>>

-----------------------------------------------------------------------------
(* _begin_processing                                                        *)

BeginFileMissing(w) ==
  /\ drain[w].pc = "claimed"
  /\ ~FileExists(drain[w].file)
  /\ FinishJob(drain[w].job, "FAILED")
  /\ Idle(w)
  /\ UNCHANGED <<files, docs, pages, indexed, blobs, apiVars, stranded, crashes>>

\* Nothing to do; only a job that is still QUEUED is completed.
BeginAlreadyDone(w) ==
  /\ drain[w].pc = "claimed"
  /\ files[drain[w].file].status = "COMPLETED"
  /\ IF jobs[drain[w].job].status = "QUEUED"
       THEN FinishJob(drain[w].job, "COMPLETED")
       ELSE UNCHANGED jobs
  /\ Idle(w)
  /\ UNCHANGED <<files, docs, pages, indexed, blobs, apiVars, stranded, crashes>>

\* Mutant: a file an earlier job completed is ingested again.
BeginAlways(w) ==
  LET j == drain[w].job
      f == drain[w].file
  IN /\ drain[w].pc = "claimed"
     /\ FileExists(f)
     /\ SetStatus(f, drain[w].content, "PROCESSING")
     /\ jobs' = IF JobExists(j)
                  THEN [jobs EXCEPT ![j].status = "PROCESSING", ![j].stale = FALSE]
                  ELSE jobs
     /\ Goto(w, "clearing")
     /\ UNCHANGED <<pages, indexed, blobs, apiVars, stranded, crashes>>

Begin(w) ==
  LET j == drain[w].job
      f == drain[w].file
  IN /\ drain[w].pc = "claimed"
     /\ files[f].status \notin {"absent", "COMPLETED"}
     /\ SetStatus(f, drain[w].content, "PROCESSING")
     /\ jobs' = IF JobExists(j)
                  THEN [jobs EXCEPT ![j].status = "PROCESSING", ![j].stale = FALSE]
                  ELSE jobs
     /\ Goto(w, "clearing")
     /\ UNCHANGED <<pages, indexed, blobs, apiVars, stranded, crashes>>

\* The second transaction reloads the expired file row to find its pages; a
\* row deleted in between raises, and the drain goes to _handle_failure.
ClearPages(w) ==
  /\ drain[w].pc = "clearing"
  /\ IF FileExists(drain[w].file)
       THEN /\ pages' = [pages EXCEPT ![drain[w].file] = {}]
            /\ Goto(w, "opening")
       ELSE /\ Goto(w, "failing")
            /\ UNCHANGED pages
  /\ UNCHANGED <<files, docs, jobs, indexed, blobs, apiVars, stranded, crashes>>

-----------------------------------------------------------------------------
(* _ingest_file                                                             *)

Outcome(w, success) ==
  drain' = [drain EXCEPT ![w].pc = "finalizing", ![w].ok = success]

\* A vanished row is an ingest of zero chunks, not an error.
OpenRowGone(w) ==
  /\ drain[w].pc = "opening"
  /\ ~FileExists(drain[w].file)
  /\ Outcome(w, TRUE)
  /\ UNCHANGED <<tables, indexed, blobs, apiVars, stranded, crashes>>

OpenFile(w) ==
  /\ drain[w].pc = "opening"
  /\ FileExists(drain[w].file)
  /\ drain[w].content \in blobs
  /\ drain' = [drain EXCEPT ![w].pc = "paging", ![w].page = 1]
  /\ UNCHANGED <<tables, indexed, blobs, apiVars, stranded, crashes>>

\* The blob is gone, or the payload cannot be parsed.
OpenFails(w) ==
  /\ drain[w].pc = "opening"
  /\ FileExists(drain[w].file)
  /\ Outcome(w, FALSE)
  /\ UNCHANGED <<tables, indexed, blobs, apiVars, stranded, crashes>>

\* Mutant: the loop runs one page too far.
PersistPageBeyond(w) ==
  LET f == drain[w].file
      p == drain[w].page
  IN /\ drain[w].pc = "paging"
     /\ IF p \in pages[f]
          THEN /\ Outcome(w, FALSE)
               /\ UNCHANGED pages
          ELSE /\ pages' = [pages EXCEPT ![f] = @ \cup {p}]
               /\ drain' = [drain EXCEPT ![w].page = p + 1,
                             ![w].pc = IF p > PageCount THEN "indexing" ELSE "paging"]
     /\ UNCHANGED <<files, docs, jobs, indexed, blobs, apiVars, stranded, crashes>>

\* _persist_page; (tenant_id, file_id, number) is unique in table pages.
PersistPage(w) ==
  LET f == drain[w].file
      p == drain[w].page
  IN /\ drain[w].pc = "paging"
     /\ IF p \in pages[f]
          THEN /\ Outcome(w, FALSE)
               /\ UNCHANGED pages
          ELSE /\ pages' = [pages EXCEPT ![f] = @ \cup {p}]
               /\ drain' = [drain EXCEPT ![w].page = p + 1,
                             ![w].pc = IF p = PageCount THEN "indexing" ELSE "paging"]
     /\ UNCHANGED <<files, docs, jobs, indexed, blobs, apiVars, stranded, crashes>>

\* Mutant: a page that cannot be stored is left out and the file goes on.
PersistSkipsPage(w) ==
  /\ drain[w].pc = "paging"
  /\ drain' = [drain EXCEPT ![w].pc = "indexing"]
  /\ UNCHANGED <<tables, indexed, blobs, apiVars, stranded, crashes>>

\* A page cannot be stored (database busy, tokenizer error): those before stay.
PersistFails(w) ==
  /\ drain[w].pc = "paging"
  /\ Outcome(w, FALSE)
  /\ UNCHANGED <<tables, indexed, blobs, apiVars, stranded, crashes>>

\* vectorstore.index_chunks falls back to memory instead of failing.
IndexChunks(w) ==
  /\ drain[w].pc = "indexing"
  /\ indexed' = indexed \cup {drain[w].content}
  /\ Outcome(w, TRUE)
  /\ UNCHANGED <<tables, blobs, apiVars, stranded, crashes>>

-----------------------------------------------------------------------------
(* _finalize, then _handle_failure with its backoff and the inline retry.   *)

AfterFinalize(w) == IF drain[w].ok THEN Idle(w) ELSE Goto(w, "failing")

FinalizeFileMissing(w) ==
  /\ drain[w].pc = "finalizing"
  /\ ~FileExists(drain[w].file)
  /\ FinishJob(drain[w].job, "FAILED")
  /\ AfterFinalize(w)
  /\ UNCHANGED <<files, docs, pages, indexed, blobs, apiVars, stranded, crashes>>

Finalize(w) ==
  LET status == IF drain[w].ok THEN "COMPLETED" ELSE "FAILED"
  IN /\ drain[w].pc = "finalizing"
     /\ FileExists(drain[w].file)
     /\ SetStatus(drain[w].file, drain[w].content, status)
     /\ FinishJob(drain[w].job, status)
     /\ AfterFinalize(w)
     /\ UNCHANGED <<pages, indexed, blobs, apiVars, stranded, crashes>>

\* A transaction of _begin_processing or _finalize raises (SQLite busy):
\* nothing is written and drain calls _handle_failure.
TransactionRaises(w) ==
  /\ drain[w].pc \in {"claimed", "clearing", "finalizing"}
  /\ Goto(w, "failing")
  /\ UNCHANGED <<tables, indexed, blobs, apiVars, stranded, crashes>>

GiveUp(w) ==
  /\ drain[w].pc = "failing"
  /\ drain[w].attempt + 1 > MaxRetries \/ ~FileExists(drain[w].file)
  /\ Idle(w)
  /\ UNCHANGED <<tables, indexed, blobs, apiVars, stranded, crashes>>

\* The retry is built from the file row as it is now, not from the old job.
PrepareRetry(w) ==
  LET f == drain[w].file
  IN /\ drain[w].pc = "failing"
     /\ drain[w].attempt + 1 <= MaxRetries
     /\ FileExists(f)
     /\ SetStatus(f, files[f].content, "QUEUED")
     /\ drain' = [drain EXCEPT ![w].pc = "backoff", ![w].content = files[f].content,
                               ![w].attempt = @ + 1]
     /\ UNCHANGED <<jobs, pages, indexed, blobs, apiVars, stranded, crashes>>

\* enqueue_job with auto_process: insert the job, commit, process it here.
EnqueueRetry(w) ==
  /\ drain[w].pc = "backoff"
  /\ \E j \in JobIds :
       /\ InsertJob(j, drain[w].file, drain[w].content, drain[w].attempt)
       /\ drain' = [drain EXCEPT ![w].pc = "claimed", ![w].job = j]
  /\ UNCHANGED <<files, docs, pages, indexed, blobs, apiVars, crashes>>

\* _handle_failure itself raises (SQLite busy), in its transaction or when it
\* inserts the job: the caller of _process catches that and calls it again, which
\* counts the attempt again.  The file it had made QUEUED stays QUEUED.
HandlerRaises(w) ==
  /\ drain[w].pc = "backoff" \/ (drain[w].pc = "failing" /\ drain[w].attempt < MaxRetries)
  /\ drain' = [drain EXCEPT ![w].pc = "failing",
                            ![w].attempt = IF drain[w].pc = "failing" THEN @ + 1 ELSE @]
  /\ stranded' = IF drain[w].pc = "backoff" THEN stranded \cup {drain[w].file}
                                            ELSE stranded
  /\ UNCHANGED <<tables, indexed, blobs, apiVars, crashes>>

-----------------------------------------------------------------------------
(* Time, maintenance and crashes.                                           *)

JobTimesOut(j) ==
  /\ jobs[j].status = "PROCESSING" /\ ~jobs[j].stale
  /\ LiveTimeouts \/ ~InUse(j)
  /\ jobs' = [jobs EXCEPT ![j].stale = TRUE]
  /\ UNCHANGED <<files, docs, pages, indexed, blobs, drain, apiVars, stranded, crashes>>

FileTimesOut(f) ==
  /\ files[f].status = "PROCESSING" /\ ~files[f].stale
  /\ LiveTimeouts \/ \A w \in Drains : drain[w].file # f
  /\ files' = [files EXCEPT ![f].stale = TRUE]
  /\ UNCHANGED <<docs, jobs, pages, indexed, blobs, drain, apiVars, stranded, crashes>>

\* _perform_maintenance; expired are the finished jobs past the retention,
\* which is at least a day: longer than a drain keeps a job in hand.
StaleFiles == {f \in FileIds : files[f].status = "PROCESSING" /\ files[f].stale}
\* Mutant: the retention is applied to unfinished jobs as well.
PrunableByAge == {j \in JobIds : JobExists(j) /\ ~InUse(j)}
Prunable == {j \in JobIds : JobExists(j) /\ jobs[j].finished /\ ~InUse(j)}

\* Mutant: the documents of stale files are forgotten.
MaintainFiles(expired) ==
  /\ expired \cup StaleFiles # {}
  /\ jobs' = [j \in JobIds |-> IF j \in expired THEN NoJob ELSE jobs[j]]
  /\ files' = [f \in FileIds |->
                 IF f \in StaleFiles
                   THEN [files[f] EXCEPT !.status = "FAILED", !.stale = FALSE]
                   ELSE files[f]]
  /\ UNCHANGED <<docs, pages, indexed, blobs, drain, apiVars, stranded, crashes>>

Maintain(expired) ==
  /\ expired \cup StaleFiles # {}
  /\ jobs' = [j \in JobIds |-> IF j \in expired THEN NoJob ELSE jobs[j]]
  /\ files' = [f \in FileIds |->
                 IF f \in StaleFiles
                   THEN [files[f] EXCEPT !.status = "FAILED", !.stale = FALSE]
                   ELSE files[f]]
  /\ docs' = [c \in Contents |->
                IF \E f \in StaleFiles : files[f].content = c THEN "FAILED" ELSE docs[c]]
  /\ UNCHANGED <<pages, indexed, blobs, drain, apiVars, stranded, crashes>>

\* A worker process dies, is cancelled at an await, or an error escapes drain
\* (from dequeue_next_job or a second _handle_failure): its rows keep their status.  In
\* the backoff no job exists yet for the file it made QUEUED.  (Mutant: _process
\* finalizes in a finally clause, with success still TRUE.)
DrainCrashFinalizes(w) ==
  /\ crashes < MaxCrashes /\ crashes' = crashes + 1
  /\ drain[w].pc \in {"opening", "paging", "indexing"}
  /\ Outcome(w, TRUE)
  /\ UNCHANGED <<tables, indexed, blobs, apiVars, stranded>>

DrainCrash(w) ==
  /\ crashes < MaxCrashes /\ crashes' = crashes + 1
  /\ drain[w].pc # "idle"
  /\ Idle(w)
  /\ stranded' = IF drain[w].pc = "backoff" THEN stranded \cup {drain[w].file}
                                            ELSE stranded
  /\ UNCHANGED <<tables, indexed, blobs, apiVars>>

\* The API process dies, or the database fails between two of its commits.
ApiCrash ==
  /\ crashes < MaxCrashes /\ crashes' = crashes + 1
  /\ uploading # {} \/ reingest # {} \/ deleting # {}
  /\ uploading' = {} /\ reingest' = {} /\ deleting' = {}
  /\ stranded' = stranded \cup reingest
  /\ UNCHANGED <<tables, indexed, blobs, drain, requests>>

-----------------------------------------------------------------------------
Init ==
  /\ files = [f \in FileIds |-> NoFile]
  /\ docs = [c \in Contents |-> "absent"]
  /\ jobs = [j \in JobIds |-> NoJob]
  /\ pages = [f \in FileIds |-> {}]
  /\ indexed = {} /\ blobs = {}
  /\ drain = [w \in Drains |-> IdleDrain]
  /\ uploading = {} /\ reingest = {} /\ deleting = {} /\ stranded = {}
  /\ requests = 0 /\ crashes = 0

UploadStep(c) == \/ WriteBlob(c) \/ RegisterNew(c) \/ RegisterFailed(c)
                 \/ RegisterKnown(c) \/ RegisterBlobGone(c)

FileStep(f) == \/ \E force \in BOOLEAN : IngestReset(f, force)
               \/ IngestEnqueue(f) \/ IngestRowGone(f) \/ IngestActive(f)
               \/ DeleteUnlink(f) \/ DeleteRow(f) \/ FileTimesOut(f)

DrainStep(w) == \/ \E j \in JobIds : SelectJob(w, j)
                \/ ClaimJob(w) \/ ClaimLost(w)
                \/ BeginFileMissing(w) \/ BeginAlreadyDone(w) \/ Begin(w)
                \/ ClearPages(w) \/ OpenRowGone(w) \/ OpenFile(w) \/ OpenFails(w)
                \/ PersistPage(w) \/ PersistFails(w) \/ IndexChunks(w)
                \/ FinalizeFileMissing(w) \/ Finalize(w) \/ TransactionRaises(w)
                \/ GiveUp(w) \/ PrepareRetry(w) \/ EnqueueRetry(w)
                \/ HandlerRaises(w)

Next ==
  \/ \E c \in Contents : UploadStep(c)
  \/ \E f \in FileIds : FileStep(f)
  \/ \E w \in Drains : DrainStep(w) \/ DrainCrash(w)
  \/ \E j \in JobIds : JobTimesOut(j)
  \/ \E expired \in SUBSET Prunable : Maintain(expired)
  \/ ApiCrash

Spec == Init /\ [][Next]_vars

(***************************************************************************)
(* Fairness.  The scheduler keeps calling drain, and a running coroutine   *)
(* or handler goes on (weak fairness).  The clock makes an abandoned row   *)
(* stale.  Database errors are transient: a transaction that is tried      *)
(* again and again succeeds (strong fairness).  The timeout is long        *)
(* against the polling interval: a job that is first in the queue of an    *)
(* idle drain again and again is selected (strong fairness).               *)
(***************************************************************************)
Fairness ==
  /\ \A c \in Contents : WF_vars(RegisterNew(c) \/ RegisterFailed(c)
                                  \/ RegisterKnown(c) \/ RegisterBlobGone(c))
  /\ \A f \in FileIds : WF_vars(IngestEnqueue(f) \/ IngestRowGone(f))
                         /\ WF_vars(DeleteRow(f))
  /\ \A j \in JobIds : WF_vars(JobTimesOut(j))
  /\ \A w \in Drains : /\ WF_vars(DrainStep(w))
                        /\ SF_vars(BeginFileMissing(w) \/ BeginAlreadyDone(w) \/ Begin(w))
                        /\ SF_vars(ClearPages(w))
                        /\ SF_vars(FinalizeFileMissing(w) \/ Finalize(w))
                        /\ \A j \in JobIds : SF_vars(SelectJob(w, j))

FairSpec == Spec /\ Fairness

-----------------------------------------------------------------------------
(* Properties.                                                              *)

\* Every variable keeps the shape of the table or local state it models.
TypeOK ==
  /\ files \in [FileIds -> FileRow]
  /\ docs \in [Contents -> Statuses \cup {"absent"}]
  /\ jobs \in [JobIds -> JobRow]
  /\ pages \in [FileIds -> SUBSET Pages]
  /\ indexed \subseteq Contents /\ blobs \subseteq Contents
  /\ drain \in [Drains -> DrainState]
  /\ uploading \subseteq Contents
  /\ reingest \subseteq FileIds /\ deleting \subseteq FileIds
  /\ stranded \subseteq FileIds
  /\ requests \in 0..MaxRequests /\ crashes \in 0..MaxCrashes

\* A file in status QUEUED is always on somebody's list: an unfinished job row
\* names it, a drain is about to insert one after its backoff, or POST /ingest
\* is about to.  Maintenance never looks at QUEUED files and register_file never
\* re-queues them, so a QUEUED file without work waits for ever; the only way to
\* get one is a crash or a database error of who was going to insert the job.
OpenJob(j, f) == JobExists(j) /\ jobs[j].file = f /\ ~jobs[j].finished
HasWork(f) ==
  \/ \E j \in JobIds : OpenJob(j, f)
  \/ \E w \in Drains : drain[w].pc = "backoff" /\ drain[w].file = f
  \/ f \in reingest
  \/ f \in stranded
QueuedFileHasWork == \A f \in FileIds : files[f].status = "QUEUED" => HasWork(f)

\* Two drains never have the same job in hand unless it is a retry or was taken
\* over as stale: the conditional UPDATE of dequeue_next_job gives a job its API
\* inserted (attempt 0) to one drain only, however their SELECTs interleave.
FirstAttemptIsExclusive ==
  \A v, w \in Drains, j \in JobIds :
    Holds(v, j) /\ Holds(w, j) /\ jobs[j].attempt = 0 => v = w

\* A COMPLETED file has all its pages and was handed to the vector store, however
\* often earlier attempts failed or crashed half-way.
CompletedIsWhole ==
  \A f \in FileIds : files[f].status = "COMPLETED" =>
    pages[f] = Pages /\ files[f].content \in indexed

\* The document of a file that left the queue has the status of the file,
\* though register_file, _begin_processing, _finalize_job, _handle_failure,
\* POST /ingest and the maintenance each write the two separately.
DocumentMirrorsFile ==
  \A f \in FileIds : files[f].status \in {"PROCESSING"} \cup Terminal =>
    docs[files[f].content] = files[f].status

\* With one drain loop, a finished job is never reopened: until the retention
\* deletes its row it keeps the outcome an operator reads there, through the stale
\* recovery, the duplicates POST /ingest inserts and the inline retries.
FinishedJobStaysFinished ==
  [][\A j \in JobIds : jobs[j].status \in Terminal =>
       jobs'[j].status \in {jobs[j].status, "absent"}]_vars

\* With one drain loop, a COMPLETED file is never declared FAILED or PROCESSING by
\* what an earlier attempt, a duplicate job or the maintenance still does: it can
\* only be queued anew (forced POST /ingest, retry after a database error).
CompletedIsSettled ==
  [][\A f \in FileIds : files[f].status = "COMPLETED" =>
       files'[f].status \notin {"FAILED", "PROCESSING"}]_vars

\* Every file somebody queued is eventually COMPLETED or FAILED (or deleted),
\* through failures, retries, crashes and stale recovery, unless a crash or a
\* database error kept who was going to insert its job from doing so.
QueuedFileSettles ==
  \A f \in FileIds :
    files[f].status \in {"QUEUED", "PROCESSING"}
      ~> files[f].status \in Terminal \cup {"absent"} \/ f \in stranded

\* Every job row is eventually finished, or reaches a file that is COMPLETED:
\* _begin_processing leaves the row of such a job PROCESSING for ever.
OpenJobSettles ==
  \A j \in JobIds :
    JobExists(j) /\ ~jobs[j].finished
      ~> ~JobExists(j) \/ jobs[j].finished \/ files[jobs[j].file].status = "COMPLETED"

\* Stated by the comment on the claim in dequeue_next_job: a drain whose job
\* another worker transitioned after the SELECT gets rowcount 0 and yields.
ClaimYieldsToCompetitor ==
  [][\A w \in Drains : drain[w].pc = "selected" /\ drain'[w].pc = "claimed" =>
       jobs[drain[w].job].attempt = drain[w].attempt]_vars

\* Stated by the docstring of _begin_processing: the caller stops when the file
\* row has vanished; so a job that goes on works for the file it was made for.
VanishedFileStopsJob ==
  [][\A w \in Drains : drain[w].pc = "claimed" /\ drain'[w].pc = "clearing" =>
       files[drain[w].file].content = drain[w].content]_vars

(***************************************************************************)
(* The promise to a client of the API, in the deployment of one drain loop *)
(* and without deletes.  QUEUED and PROCESSING are both "pending".         *)
(***************************************************************************)
ShownAs(status) ==
  CASE status = "absent" -> "none"
    [] status = "COMPLETED" -> "ready"
    [] status = "FAILED" -> "failed"
    [] OTHER -> "pending"

Shown == [f \in FileIds |-> ShownAs(files[f].status)]
Held == [f \in FileIds |-> files[f].content]

Promise == INSTANCE IngestPromise WITH
  Files <- FileIds, shown <- Shown, holds <- Held, stored <- pages,
  searchable <- indexed, arriving <- uploading

\* The pipeline implements IngestPromise: through retries, duplicate jobs, stale
\* recovery, database errors and crashes a file is shown ready only when it is whole
\* and searchable, and once ready its pages stay until it is shown pending again.
KeepsPromise == Promise!Spec
============================================================================
