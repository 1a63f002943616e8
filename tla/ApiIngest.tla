------------------------------ MODULE ApiIngest ------------------------------
(***************************************************************************)
(* The ingest service inside the API process, in the two arrangements that *)
(* IngestPipeline leaves out (app/ingest/service.py, core/app.py):         *)
(* "inline": INGEST_AUTOSTART_WORKER=true, the default.  A request commits *)
(*   its job and processes it on the spot, while a scheduled drain takes   *)
(*   jobs from the table; both are coroutines of one event loop, only      *)
(*   dequeue_next_job runs in a thread.                                    *)
(* "queued": no worker here, INGEST_USE_LOCAL_QUEUE=true (compose.yml).  A *)
(*   request puts its job on a bounded asyncio.Queue as well, which nobody *)
(*   reads; a worker process, if there is one, takes rows from the table.  *)
(* Between two awaits nothing else of the loop runs, so _begin_processing, *)
(* _ingest_file and _finalize are one step, also in the worker process.    *)
(* IngestPipeline takes them apart, with deletes and time-outs of rows that*)
(* are in hand.                                                            *)
(***************************************************************************)
EXTENDS Naturals, Sequences

CONSTANTS
  Documents,      \* contents that are uploaded
  Extensions,     \* file suffixes they come with; the blob's path has both
  NoneYet,        \* no content in hand, no path
  HttpCalls,      \* requests under way in the API process
  Drain,          \* the scheduled drain, or the worker process
  QueueLimit,     \* INGEST_QUEUE_SIZE
  MaxRetry,       \* INGEST_MAX_RETRIES
  MaxJobRows, MaxApiCalls, MaxApiFaults   \* bounds

VARIABLES
  arranged,   \* "inline" or "queued"
  shown,      \* content -> status of its file row, or "none"
  pathOf,     \* content -> suffix of the path in its file row
  blobs,      \* <<content, suffix>> on disk
  jobTable,   \* job rows in the order of their ids
  pending,    \* the local queue: job ids
  hand,       \* request or drain -> the job it has in hand
  stranded,   \* history: contents left without work by a refusal, an error or a kill
  taken,      \* history: blobs that were there and a refused upload removed
  apiCalls, apiFaults

apiIngestVars == <<arranged, shown, pathOf, blobs, jobTable, pending, hand, stranded,
                   taken, apiCalls, apiFaults>>

Actors == HttpCalls \cup {Drain}
Idle == [pc |-> "idle", job |-> 0, of |-> NoneYet, path |-> NoneYet, attempt |-> 0]
Holds(a, label) == hand[a].pc = label
Free(a) == hand' = [hand EXCEPT ![a] = Idle]

\* _make_job and _create_job_record: the job keeps the path its file has now.
Row(c, s, attempt) == [of |-> c, path |-> s, attempt |-> attempt, status |-> "queued"]
InHand(row, j, attempt) == [pc |-> "ready", job |-> j, of |-> row.of, path |-> row.path,
                            attempt |-> attempt]
Full == arranged = "queued" /\ Len(pending) >= QueueLimit

\* enqueue_job once the queue has room: the row, and the caller goes on to process it
\* (auto_process), or puts it on the local queue and returns.
Enqueue(a, c, s, attempt) ==
  /\ Len(jobTable) < MaxJobRows
  /\ jobTable' = Append(jobTable, Row(c, s, attempt))
  /\ stranded' = stranded \ {c}
  /\ IF arranged = "inline" \/ a = Drain
       THEN /\ hand' = [hand EXCEPT ![a] =
                          InHand(Row(c, s, attempt), Len(jobTable) + 1, attempt)]
            /\ UNCHANGED pending
       ELSE pending' = Append(pending, Len(jobTable) + 1) /\ UNCHANGED hand

Call(a) ==
  /\ Holds(a, "idle") /\ a # Drain
  /\ apiCalls < MaxApiCalls /\ apiCalls' = apiCalls + 1

\* upload_file of a content that must be queued: register_file and enqueue_job in one
\* transaction, after the blob was written unless it was there.
UploadQueued(a, c, s) ==
  /\ Call(a) /\ shown[c] \in {"none", "failed"} /\ ~Full
  /\ blobs' = blobs \cup {<<c, s>>}
  /\ shown' = [shown EXCEPT ![c] = "queued"]
  /\ pathOf' = [pathOf EXCEPT ![c] = s]
  /\ Enqueue(a, c, s, 0)
  /\ UNCHANGED <<arranged, taken, apiFaults>>

\* Mutant: the refused upload keeps the rows that register_file flushed.
RefusedKeepsRow(a, c, s) ==
  /\ Call(a) /\ shown[c] \in {"none", "failed"} /\ Full
  /\ blobs' = blobs \ {<<c, s>>}
  /\ shown' = [shown EXCEPT ![c] = "queued"]
  /\ UNCHANGED <<arranged, taken, pathOf, jobTable, pending, hand, stranded, apiFaults>>

\* The same with a full queue: everything is rolled back, and the target is removed,
\* also when it was there before (429).
UploadRefused(a, c, s) ==
  /\ Call(a) /\ shown[c] \in {"none", "failed"} /\ Full
  /\ blobs' = blobs \ {<<c, s>>}
  /\ taken' = IF <<c, s>> \in blobs THEN taken \cup {<<c, s>>} ELSE taken
  /\ UNCHANGED <<arranged, shown, pathOf, jobTable, pending, hand, stranded, apiFaults>>

\* Mutant: whatever is not queued is cleaned up, also the blob of the record.
KnownCleansUp(a, c, s) ==
  /\ Call(a) /\ shown[c] \notin {"none", "failed"}
  /\ blobs' = blobs \ {<<c, s>>}
  /\ UNCHANGED <<arranged, taken, shown, pathOf, jobTable, pending, hand, stranded,
                 apiFaults>>

\* A content already known and not FAILED: the blob is written if it is missing, and
\* removed again if the record names another path.
UploadKnown(a, c, s) ==
  /\ Call(a) /\ shown[c] \notin {"none", "failed"}
  /\ blobs' = IF pathOf[c] = s THEN blobs \cup {<<c, s>>} ELSE blobs \ {<<c, s>>}
  /\ UNCHANGED <<arranged, taken, shown, pathOf, jobTable, pending, hand, stranded,
                 apiFaults>>

\* POST /ingest: nothing to do for a COMPLETED file unless forced; otherwise a reset,
\* committed by itself, and a job.  When the queue is full the answer is 429 and the
\* reset stays.
Reingest(a, c, force) ==
  LET reset == force \/ shown[c] \notin {"queued", "processing"} IN
  /\ Call(a) /\ shown[c] # "none"
  /\ shown[c] = "completed" => force
  /\ shown' = IF reset THEN [shown EXCEPT ![c] = "queued"] ELSE shown
  /\ IF Full
       THEN /\ stranded' = IF reset THEN stranded \cup {c} ELSE stranded
            /\ UNCHANGED <<jobTable, pending, hand>>
       ELSE Enqueue(a, c, pathOf[c], 0)
  /\ UNCHANGED <<arranged, taken, pathOf, blobs, apiFaults>>

-----------------------------------------------------------------------------
\* A row is stale when it is PROCESSING and no coroutine is about to process it: it was
\* left so by a kill or an error, and the time-out is longer than any backoff.
Stale(j) ==
  /\ jobTable[j].status = "processing"
  /\ \A a \in Actors : hand[a].job = j => ~Holds(a, "ready")

Eligible == {j \in DOMAIN jobTable : jobTable[j].status = "queued" \/ Stale(j)}

\* QUEUED rows before stale ones, older before newer.
Before(i, j) ==
  \/ jobTable[i].status = "queued" /\ jobTable[j].status # "queued"
  \/ jobTable[i].status = jobTable[j].status /\ i <= j

\* dequeue_next_job in its thread: the first row that is QUEUED or stale.  The thread
\* runs beside the event loop, so also between the commit of enqueue_job and
\* _begin_processing of the request that enqueued.
Dequeue(j) ==
  LET attempt == jobTable[j].attempt + IF jobTable[j].status = "queued" THEN 0 ELSE 1 IN
  /\ Holds(Drain, "idle") /\ j \in Eligible /\ \A i \in Eligible : Before(j, i)
  /\ attempt <= MaxRetry + 1   \* bound: recoveries
  /\ jobTable' = [jobTable EXCEPT ![j].status = "processing", ![j].attempt = attempt]
  /\ hand' = [hand EXCEPT ![Drain] = InHand(jobTable[j], j, attempt)]
  /\ UNCHANGED <<arranged, taken, shown, pathOf, blobs, pending, stranded, apiCalls,
                 apiFaults>>

\* _begin_processing of a COMPLETED file: a QUEUED job is finished, and that is all.
StopAtCompleted(a) ==
  LET j == hand[a].job IN
  /\ Holds(a, "ready") /\ shown[hand[a].of] = "completed"
  /\ jobTable' = IF jobTable[j].status = "queued"
                   THEN [jobTable EXCEPT ![j].status = "completed"] ELSE jobTable
  /\ Free(a)
  /\ UNCHANGED <<arranged, taken, shown, pathOf, blobs, pending, stranded, apiCalls,
                 apiFaults>>

\* _handle_failure up to its sleep: give up, or QUEUED until the backoff is over.  `left`
\* is the status the file has been left in.
FailsWith(a, left) ==
  LET h == hand[a] IN
  IF h.attempt + 1 > MaxRetry
    THEN shown' = [shown EXCEPT ![h.of] = left] /\ Free(a)
    ELSE /\ shown' = [shown EXCEPT ![h.of] = "queued"]
         /\ hand' = [hand EXCEPT ![a].pc = "backoff", ![a].attempt = h.attempt + 1,
                               ![a].path = pathOf[h.of]]

Ingesting(a) == Holds(a, "ready") /\ shown[hand[a].of] # "completed"
Finish(a, status) == jobTable' = [jobTable EXCEPT ![hand[a].job].status = status]

\* _process: begin, ingest and finalize, all well.
ProcessDone(a) ==
  LET c == hand[a].of IN
  /\ Ingesting(a) /\ <<c, hand[a].path>> \in blobs
  /\ shown' = [shown EXCEPT ![c] = "completed"]
  /\ Finish(a, "completed") /\ Free(a)
  /\ UNCHANGED <<arranged, taken, pathOf, blobs, pending, stranded, apiCalls, apiFaults>>

\* _process: the ingest failed (the parser, a page, a blob that is gone).
ProcessFails(a) ==
  /\ Ingesting(a)
  /\ Finish(a, "failed") /\ FailsWith(a, "failed")
  /\ UNCHANGED <<arranged, taken, pathOf, blobs, pending, stranded, apiCalls, apiFaults>>

Fault == apiFaults < MaxApiFaults /\ apiFaults' = apiFaults + 1

\* A database error in _begin_processing, or in _finalize after its commits: process_job
\* and drain call _handle_failure, with the rows as they are.
ProcessRaises(a, begun) ==
  /\ Ingesting(a) /\ Fault
  /\ IF begun THEN Finish(a, "processing") /\ FailsWith(a, "processing")
              ELSE UNCHANGED jobTable /\ FailsWith(a, shown[hand[a].of])
  /\ UNCHANGED <<arranged, taken, pathOf, blobs, pending, stranded, apiCalls>>

\* The backoff is over: enqueue_job for the retry, which is processed on the spot.
Retry(a) ==
  /\ Holds(a, "backoff")
  /\ Enqueue(a, hand[a].of, hand[a].path, hand[a].attempt)
  /\ UNCHANGED <<arranged, taken, shown, pathOf, blobs, apiCalls, apiFaults>>

\* Its insertion raises: _handle_failure is called once more and counts an attempt; when
\* none is left, or the error is that of the last frame, nobody is left with the file.
RetryRaises(a) ==
  LET h == hand[a] IN
  /\ Holds(a, "backoff") /\ Fault
  /\ \/ /\ h.attempt < MaxRetry
        /\ hand' = [hand EXCEPT ![a].attempt = h.attempt + 1, ![a].path = pathOf[h.of]]
        /\ shown' = [shown EXCEPT ![h.of] = "queued"]
        /\ UNCHANGED stranded
     \/ /\ Free(a) /\ UNCHANGED shown
        /\ stranded' = IF shown[h.of] = "queued" THEN stranded \cup {h.of} ELSE stranded
  /\ UNCHANGED <<arranged, taken, pathOf, blobs, jobTable, pending, apiCalls>>

\* A process is killed: the API process with its queue, its requests and (inline) its
\* drain, or the worker process.  Whoever is in a backoff has its file without work; a
\* job being processed is left so, begun (cut) or not.
Dies(dead, cut) ==
  /\ Fault
  /\ \A a \in cut : a \in dead /\ Ingesting(a)
  /\ shown' = [c \in Documents |->
       IF \E a \in cut : hand[a].of = c THEN "processing" ELSE shown[c]]
  /\ jobTable' = [j \in DOMAIN jobTable |->
       IF \E a \in cut : hand[a].job = j THEN [jobTable[j] EXCEPT !.status = "processing"]
                                         ELSE jobTable[j]]
  /\ stranded' = stranded \cup
       {c \in Documents :
          shown[c] = "queued" /\ \E a \in dead : Holds(a, "backoff") /\ hand[a].of = c}
  /\ hand' = [a \in Actors |-> IF a \in dead THEN Idle ELSE hand[a]]
  /\ UNCHANGED <<arranged, taken, pathOf, blobs, apiCalls>>

ApiDies ==
  /\ pending' = <<>>
  /\ LET dead == IF arranged = "inline" THEN Actors ELSE HttpCalls
     IN \E cut \in {{}} \cup {{a} : a \in dead} : Dies(dead, cut)

WorkerDies ==
  /\ arranged = "queued" /\ UNCHANGED pending
  /\ \E cut \in {{}, {Drain}} : Dies({Drain}, cut)

-----------------------------------------------------------------------------
ApiIngestInit ==
  /\ arranged \in {"inline", "queued"}
  /\ shown = [c \in Documents |-> "none"]
  /\ pathOf = [c \in Documents |-> NoneYet]
  /\ blobs = {} /\ jobTable = <<>> /\ pending = <<>>
  /\ hand = [a \in Actors |-> Idle]
  /\ stranded = {} /\ taken = {} /\ apiCalls = 0 /\ apiFaults = 0

ApiIngestNext ==
  \/ \E a \in HttpCalls, c \in Documents, s \in Extensions :
       UploadQueued(a, c, s) \/ UploadRefused(a, c, s) \/ UploadKnown(a, c, s)
  \/ \E a \in HttpCalls, c \in Documents, force \in BOOLEAN : Reingest(a, c, force)
  \/ \E j \in DOMAIN jobTable : Dequeue(j)
  \/ \E a \in Actors :
       \/ StopAtCompleted(a) \/ ProcessDone(a) \/ ProcessFails(a)
       \/ \E begun \in BOOLEAN : ProcessRaises(a, begun)
       \/ Retry(a) \/ RetryRaises(a)
  \/ ApiDies \/ WorkerDies

-----------------------------------------------------------------------------
\* A file shown as waiting has an unfinished job row or a coroutine in its backoff,
\* unless a refused re-ingest, a raised retry or a kill stranded it.
WaitingHasWork ==
  \A c \in Documents :
    shown[c] \in {"queued", "processing"} /\ c \notin stranded =>
      \/ \E j \in DOMAIN jobTable :
           jobTable[j].of = c /\ jobTable[j].status \in {"queued", "processing"}
      \/ \E a \in Actors : Holds(a, "backoff") /\ hand[a].of = c

\* The blob of a COMPLETED file is there, whatever uploads of its content come and clean
\* up after themselves; only one that was refused while the file was FAILED can have taken
\* it.  A content that was only ever refused leaves none.
BlobsFollowRecords ==
  \A c \in Documents :
    /\ shown[c] = "completed" => <<c, pathOf[c]>> \in blobs \cup taken
    /\ shown[c] = "none" => \A s \in Extensions : <<c, s>> \notin blobs

\* Both: what the API shows of a file is backed by a row, a coroutine or a blob, however
\* requests, drain, refusals and kills interleave.
ApiFilesAreBacked == WaitingHasWork /\ BlobsFollowRecords
=============================================================================
