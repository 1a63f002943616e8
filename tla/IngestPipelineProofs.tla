------------------------ MODULE IngestPipelineProofs ------------------------
(***************************************************************************)
(* Proofs about IngestPipeline for every number of drains, files, jobs,    *)
(* pages, retries, requests and crashes, with and without deletions and    *)
(* with and without ingests that outlast the processing timeout.           *)
(*                                                                         *)
(* The inductive invariant IInv adds to the three properties what the code *)
(* relies on without saying so: a job row in the table names a file and a  *)
(* content; the job a drain has in hand is in the table, names the file    *)
(* the drain works on, and is not a QUEUED row at attempt 0; a retry in    *)
(* its backoff has a positive attempt.                                     *)
(***************************************************************************)
EXTENDS IngestPipeline, TLAPS

\* Rows that exist name a content, and jobs a file id.
RowsOK ==
  /\ \A f \in FileIds : FileExists(f) => files[f].content \in Contents
  /\ \A j \in JobIds : JobExists(j) => /\ jobs[j].file \in FileIds
                                       /\ jobs[j].content \in Contents

\* The drain has a job in hand.
Busy(w) == drain[w].pc \notin {"idle", "selected"}

\* What a drain knows about its job is true of the table.
DrainOK(w) ==
  /\ drain[w].pc = "selected" => /\ drain[w].job \in JobIds
                                 /\ drain[w].seen \in {"QUEUED", "PROCESSING"}
  /\ Busy(w) => /\ drain[w].job \in JobIds /\ JobExists(drain[w].job)
                /\ jobs[drain[w].job].file = drain[w].file
                /\ drain[w].file \in FileIds /\ drain[w].content \in Contents
                /\ jobs[drain[w].job].attempt = 0 => jobs[drain[w].job].status # "QUEUED"
  /\ drain[w].pc = "paging" => drain[w].page \in Pages
  /\ drain[w].pc = "backoff" => drain[w].attempt > 0

DrainsOK == \A w \in Drains : DrainOK(w)

\* The inductive invariant.
IInv == TypeOK /\ RowsOK /\ DrainsOK /\ QueuedFileHasWork /\ FirstAttemptIsExclusive

-----------------------------------------------------------------------------
(* What the helpers of the specification do.                                *)

\* The step moves no drain but w.
OthersKept(w) == \A v \in Drains : v # w => drain'[v] = drain[v]

\* Drain w goes on with the same job.
Kept(w) == /\ OthersKept(w)
           /\ drain'[w].job = drain[w].job /\ drain'[w].file = drain[w].file
           /\ drain'[w].content = drain[w].content
           /\ drain'[w].attempt = drain[w].attempt

\* Goto moves the program counter of one drain and nothing else of it.
LEMMA GotoEffect ==
  ASSUME drain \in [Drains -> DrainState], NEW w \in Drains, NEW l \in PCs, Goto(w, l)
  PROVE  drain' \in [Drains -> DrainState] /\ Kept(w) /\ drain'[w].pc = l
  BY DEF Goto, DrainState, Kept, OthersKept

\* Idle puts one drain back to its initial state: drain returned, or died.
LEMMA IdleEffect ==
  ASSUME drain \in [Drains -> DrainState], NEW w \in Drains, Idle(w)
  PROVE  drain' \in [Drains -> DrainState] /\ OthersKept(w) /\ drain'[w].pc = "idle"
<1>1. IdleDrain \in DrainState
  BY PipelineAssumption DEF IdleDrain, DrainState, PCs, Attempts
<1> QED BY <1>1 DEF Idle, OthersKept, IdleDrain

\* The end of _ingest_file moves one drain to its finalization.
LEMMA OutcomeEffect ==
  ASSUME drain \in [Drains -> DrainState], NEW w \in Drains, NEW b \in BOOLEAN, Outcome(w, b)
  PROVE  drain' \in [Drains -> DrainState] /\ Kept(w) /\ drain'[w].pc = "finalizing"
<1>1. [drain[w] EXCEPT !.pc = "finalizing", !.ok = b] \in DrainState
  <2>1. drain[w] \in DrainState
    OBVIOUS
  <2> QED BY <2>1 DEF DrainState, PCs
<1>2. drain' = [drain EXCEPT ![w] = [drain[w] EXCEPT !.pc = "finalizing", !.ok = b]]
  BY DEF Outcome
<1>3. drain' \in [Drains -> DrainState] /\ OthersKept(w)
  BY <1>1, <1>2 DEF OthersKept
<1>4. drain'[w] = [drain[w] EXCEPT !.pc = "finalizing", !.ok = b]
  BY <1>2
<1> QED BY <1>3, <1>4 DEF Kept, DrainState

\* SetStatus changes the status of one file row and of no other.
LEMMA SetStatusEffect ==
  ASSUME files \in [FileIds -> FileRow], docs \in [Contents -> Statuses \cup {"absent"}],
         NEW f \in FileIds, NEW c, NEW s \in Statuses, SetStatus(f, c, s)
  PROVE  /\ files' \in [FileIds -> FileRow]
         /\ docs' \in [Contents -> Statuses \cup {"absent"}]
         /\ \A g \in FileIds : files'[g].content = files[g].content
         /\ \A g \in FileIds : g # f => files'[g] = files[g]
         /\ files'[f].status = s
<1>1. files' \in [FileIds -> FileRow]
  BY DEF SetStatus, FileRow
<1>2. docs' \in [Contents -> Statuses \cup {"absent"}]
  BY DEF SetStatus
<1>3. \A g \in FileIds : g # f => files'[g] = files[g]
  BY DEF SetStatus
<1>4. files'[f].status = s /\ files'[f].content = files[f].content
  BY DEF SetStatus, FileRow
<1> QED BY <1>1, <1>2, <1>3, <1>4

\* Finishing a job changes no other job, and neither the file nor the attempt of
\* this one.
LEMMA FinishJobEffect ==
  ASSUME jobs \in [JobIds -> JobRow], NEW j \in JobIds, NEW s \in Terminal, FinishJob(j, s)
  PROVE  /\ jobs' \in [JobIds -> JobRow]
         /\ \A k \in JobIds : /\ jobs'[k].file = jobs[k].file
                              /\ jobs'[k].content = jobs[k].content
                              /\ jobs'[k].attempt = jobs[k].attempt
                              /\ JobExists(k)' = JobExists(k)
                              /\ jobs'[k].status = "QUEUED" => jobs[k].status = "QUEUED"
                              /\ k # j => jobs'[k] = jobs[k]
<1>1. CASE ~JobExists(j)
  BY <1>1 DEF FinishJob, JobExists
<1>2. CASE JobExists(j)
  <2>1. jobs' = [jobs EXCEPT ![j].status = s, ![j].finished = TRUE, ![j].stale = FALSE]
    BY <1>2 DEF FinishJob
  <2>2. jobs' \in [JobIds -> JobRow]
    <3>1. s \in Statuses /\ jobs[j] \in JobRow
      BY DEF Terminal, Statuses
    <3>2. [jobs[j] EXCEPT !.status = s, !.finished = TRUE, !.stale = FALSE] \in JobRow
      BY <3>1 DEF JobRow
    <3> QED BY <2>1, <3>2
  <2>3. \A k \in JobIds : k # j => jobs'[k] = jobs[k]
    BY <2>1
  <2>4. /\ jobs'[j].file = jobs[j].file /\ jobs'[j].content = jobs[j].content
        /\ jobs'[j].attempt = jobs[j].attempt /\ jobs'[j].status = s
    BY <2>1 DEF JobRow
  <2> QED BY <1>2, <2>2, <2>3, <2>4 DEF JobExists, Terminal
<1> QED BY <1>1, <1>2

\* _create_job_record adds an open job for the file under an id no row has, and
\* changes no other row.
LEMMA InsertJobEffect ==
  ASSUME jobs \in [JobIds -> JobRow], NEW j \in JobIds, NEW f \in FileIds,
         NEW c \in Contents, NEW a \in Attempts, InsertJob(j, f, c, a)
  PROVE  /\ jobs' \in [JobIds -> JobRow]
         /\ ~JobExists(j)
         /\ \A k \in JobIds : k # j => jobs'[k] = jobs[k]
         /\ OpenJob(j, f)' /\ JobExists(j)' /\ jobs'[j].content = c
         /\ jobs'[j].file = f
         /\ jobs'[j].attempt = a
         /\ stranded' = stranded \ {f}
<1>1. ~JobExists(j)
  BY DEF InsertJob, NextJobId, JobIds
<1>2. QueuedJob(f, c, a) \in JobRow
  BY DEF QueuedJob, JobRow, Statuses
<1> QED BY <1>1, <1>2 DEF InsertJob, QueuedJob, OpenJob, JobExists

-----------------------------------------------------------------------------
(* What a step has to leave alone to keep the invariant.                    *)

\* The rows of jobs in use stay, with their file; none returns to attempt 0 or to
\* QUEUED.
JobsKept ==
  \A k \in JobIds : JobExists(k) /\ InUse(k) =>
    /\ JobExists(k)' /\ jobs'[k].file = jobs[k].file
    /\ jobs'[k].attempt = 0 => jobs[k].attempt = 0
    /\ jobs'[k].status = "QUEUED" => jobs[k].status = "QUEUED"

\* If f is QUEUED after the step it was before, and keeps what it waits for.
FileKept(f) ==
  files'[f].status = "QUEUED" =>
    /\ files[f].status = "QUEUED"
    /\ \A j \in JobIds : OpenJob(j, f) => OpenJob(j, f)'
    /\ \A w \in Drains : drain[w].pc = "backoff" /\ drain[w].file = f =>
         \/ drain'[w].pc = "backoff" /\ drain'[w].file = f
         \/ f \in stranded'
    /\ f \in reingest => f \in reingest' \/ f \in stranded'
    /\ f \in stranded => f \in stranded'

\* If every file that is QUEUED after a step keeps what it was waiting for, or has
\* work anyway, the step keeps QueuedFileHasWork.
LEMMA WorkKept ==
  ASSUME QueuedFileHasWork, \A f \in FileIds : FileKept(f) \/ HasWork(f)'
  PROVE  QueuedFileHasWork'
<1> SUFFICES ASSUME NEW f \in FileIds, files'[f].status = "QUEUED"
             PROVE  HasWork(f)'
  BY DEF QueuedFileHasWork
<1>1. CASE HasWork(f)'
  BY <1>1
<1>2. CASE FileKept(f)
  <2>1. HasWork(f)
    BY <1>2 DEF FileKept, QueuedFileHasWork
  <2> QED BY <1>2, <2>1 DEF HasWork, FileKept
<1> QED BY <1>1, <1>2

\* A step that leaves the jobs in use alone leaves the other drains in order.
LEMMA OtherDrainsKept ==
  ASSUME JobsKept, NEW v \in Drains, DrainOK(v), drain'[v] = drain[v]
  PROVE  DrainOK(v)'
<1>1. Busy(v) => InUse(drain[v].job)
  BY DEF Busy, InUse
<1> QED BY <1>1 DEF JobsKept, DrainOK, Busy

\* A drain that goes on with the same job stays in order.
LEMMA MovedDrainKept ==
  ASSUME JobsKept, NEW w \in Drains, DrainOK(w), Busy(w), Kept(w),
         drain'[w].pc \notin {"selected", "paging", "backoff"}
  PROVE  DrainOK(w)'
<1>1. InUse(drain[w].job)
  BY DEF Busy, InUse
<1> QED BY <1>1 DEF JobsKept, DrainOK, Busy, Kept

\* A step after which no drain holds a job it did not hold before keeps the first
\* attempts exclusive.
LEMMA StillExclusive ==
  ASSUME DrainsOK, FirstAttemptIsExclusive, JobsKept,
         \A v \in Drains, j \in JobIds : Holds(v, j)' => Holds(v, j)
  PROVE  FirstAttemptIsExclusive'
<1> SUFFICES ASSUME NEW v \in Drains, NEW w \in Drains, NEW j \in JobIds,
                    Holds(v, j)', Holds(w, j)', jobs'[j].attempt = 0
             PROVE  v = w
  BY DEF FirstAttemptIsExclusive
<1>1. Holds(v, j) /\ Holds(w, j)
  OBVIOUS
<1>2. InUse(j) /\ JobExists(j)
  BY <1>1 DEF Holds, InUse, DrainsOK, DrainOK, Busy
<1>3. jobs[j].attempt = 0
  BY <1>2 DEF JobsKept
<1> QED BY <1>1, <1>3 DEF FirstAttemptIsExclusive

\* A step of one drain that takes no new job in hand keeps the invariant if the
\* rows stay well-formed and every QUEUED file keeps its work.
LEMMA DrainStepKeeps ==
  ASSUME IInv, TypeOK', RowsOK', JobsKept, NEW w \in Drains, OthersKept(w), DrainOK(w)',
         Busy(w)' => Busy(w) /\ drain'[w].job = drain[w].job,
         \A f \in FileIds : FileKept(f) \/ HasWork(f)'
  PROVE  IInv'
<1>1. DrainsOK'
  BY OtherDrainsKept DEF DrainsOK, OthersKept, IInv
<1>2. QueuedFileHasWork'
  BY WorkKept DEF IInv
<1>3. \A v \in Drains, j \in JobIds : Holds(v, j)' => Holds(v, j)
  BY DEF Holds, Busy, OthersKept
<1>4. FirstAttemptIsExclusive'
  BY <1>3, StillExclusive DEF IInv
<1> QED BY <1>1, <1>2, <1>4 DEF IInv

\* A step that moves no drain - the API, the clock, the maintenance - keeps the
\* invariant under the same conditions.
LEMMA TableStepKeeps ==
  ASSUME IInv, TypeOK', RowsOK', JobsKept, drain' = drain,
         \A f \in FileIds : FileKept(f) \/ HasWork(f)'
  PROVE  IInv'
<1>1. DrainsOK'
  BY OtherDrainsKept DEF DrainsOK, IInv
<1>2. QueuedFileHasWork'
  BY WorkKept DEF IInv
<1>3. \A v \in Drains, j \in JobIds : Holds(v, j)' => Holds(v, j)
  BY DEF Holds
<1>4. FirstAttemptIsExclusive'
  BY <1>3, StillExclusive DEF IInv
<1> QED BY <1>1, <1>2, <1>4 DEF IInv

-----------------------------------------------------------------------------
(* The steps of a drain.                                                    *)

\* A step of one drain that writes none of the tables files, documents and jobs.
LEMMA QuietDrainStepKeeps ==
  ASSUME IInv, NEW w \in Drains,
         UNCHANGED <<files, docs, jobs, blobs, uploading, reingest, deleting, requests>>,
         drain' \in [Drains -> DrainState], OthersKept(w), DrainOK(w)',
         Busy(w)' => Busy(w) /\ drain'[w].job = drain[w].job,
         drain[w].pc = "backoff" => drain[w].file \in stranded',
         stranded \subseteq stranded', stranded' \subseteq FileIds,
         pages' \in [FileIds -> SUBSET Pages], indexed' \subseteq Contents,
         crashes' \in 0..MaxCrashes
  PROVE  IInv'
<1>1. TypeOK'
  BY DEF IInv, TypeOK
<1>2. RowsOK'
  BY DEF IInv, RowsOK, FileExists, JobExists
<1>3. JobsKept
  BY DEF JobsKept, JobExists
<1>4. \A f \in FileIds : FileKept(f)
  BY DEF FileKept, OpenJob, JobExists, OthersKept
<1> QED BY <1>1, <1>2, <1>3, <1>4, DrainStepKeeps

\* A drain that ends without writing a row, outside its backoff.
LEMMA IdleKeeps ==
  ASSUME IInv, NEW w \in Drains, Idle(w), drain[w].pc # "backoff",
         UNCHANGED <<files, docs, jobs, pages, indexed, blobs, uploading, reingest, deleting,
                     requests, stranded, crashes>>
  PROVE  IInv'
<1>1. drain' \in [Drains -> DrainState] /\ OthersKept(w) /\ drain'[w].pc = "idle"
  BY IdleEffect DEF IInv, TypeOK
<1>2. DrainOK(w)' /\ ~Busy(w)'
  BY <1>1 DEF DrainOK, Busy
<1> QED BY <1>1, <1>2, QuietDrainStepKeeps DEF IInv, TypeOK

\* A drain that goes on with its job without writing files or jobs.
LEMMA MoveKeeps ==
  ASSUME IInv, NEW w \in Drains, Kept(w), Busy(w), drain[w].pc # "backoff",
         drain' \in [Drains -> DrainState],
         drain'[w].pc \notin {"selected", "paging", "backoff"},
         UNCHANGED <<files, docs, jobs, blobs, uploading, reingest, deleting, requests,
                     stranded, crashes>>,
         pages' \in [FileIds -> SUBSET Pages], indexed' \subseteq Contents
  PROVE  IInv'
<1>1. JobsKept
  BY DEF JobsKept, JobExists
<1>2. DrainOK(w)'
  BY <1>1, MovedDrainKept DEF IInv, DrainsOK
<1> QED BY <1>2, QuietDrainStepKeeps DEF IInv, TypeOK, Kept

\* The SELECT of dequeue_next_job returns an existing QUEUED or PROCESSING row.
LEMMA SelectJobKeeps ==
  ASSUME IInv, NEW w \in Drains, NEW j \in JobIds, SelectJob(w, j)
  PROVE  IInv'
<1> DEFINE r == [IdleDrain EXCEPT !.pc = "selected", !.job = j, !.seen = jobs[j].status,
                                  !.attempt = jobs[j].attempt]
<1>1. jobs[j].status \in {"QUEUED", "PROCESSING"} /\ jobs[j].attempt \in Attempts
  BY DEF SelectJob, Ready, IInv, TypeOK, JobRow
<1>2. r \in DrainState /\ r.pc = "selected" /\ r.job = j /\ r.seen = jobs[j].status
  <2>1. IdleDrain \in DrainState
    BY PipelineAssumption DEF IdleDrain, DrainState, PCs, Attempts
  <2> QED BY <1>1, <2>1 DEF DrainState, PCs, Statuses
<1>3. drain' \in [Drains -> DrainState] /\ OthersKept(w) /\ drain'[w] = r
  BY <1>2 DEF SelectJob, IInv, TypeOK, OthersKept
<1>4. DrainOK(w)' /\ ~Busy(w)'
  BY <1>1, <1>2, <1>3 DEF DrainOK, Busy
<1>5. drain[w].pc # "backoff"
  BY DEF SelectJob
<1> QED BY <1>3, <1>4, <1>5, QuietDrainStepKeeps DEF SelectJob, tables, apiVars, IInv, TypeOK

\* A lost claim writes nothing.
LEMMA ClaimLostKeeps ==
  ASSUME IInv, NEW w \in Drains, ClaimLost(w)
  PROVE  IInv'
  BY IdleKeeps DEF ClaimLost, tables, apiVars

\* _begin_processing deletes the page rows of an earlier attempt.
LEMMA ClearPagesKeeps ==
  ASSUME IInv, NEW w \in Drains, ClearPages(w)
  PROVE  IInv'
<1>1. PICK l \in {"opening", "failing"} : Goto(w, l)
  BY DEF ClearPages
<1>2. drain' \in [Drains -> DrainState] /\ Kept(w) /\ drain'[w].pc \in {"opening", "failing"}
  BY <1>1, GotoEffect DEF PCs, IInv, TypeOK
<1>3. pages' \in [FileIds -> SUBSET Pages]
  BY DEF ClearPages, IInv, TypeOK
<1>4. Busy(w) /\ drain[w].pc # "backoff"
  BY DEF ClearPages, Busy
<1> QED BY <1>2, <1>3, <1>4, MoveKeeps DEF ClearPages, apiVars, IInv, TypeOK

\* _ingest_file returns or raises without writing files or jobs.
LEMMA OutcomeKeeps ==
  ASSUME IInv, NEW w \in Drains, NEW b \in BOOLEAN, Outcome(w, b), Busy(w),
         drain[w].pc # "backoff", indexed' \subseteq Contents,
         UNCHANGED <<files, docs, jobs, pages, blobs, uploading, reingest, deleting, requests,
                     stranded, crashes>>
  PROVE  IInv'
<1>1. drain' \in [Drains -> DrainState] /\ Kept(w) /\ drain'[w].pc = "finalizing"
  BY OutcomeEffect DEF IInv, TypeOK
<1> QED BY <1>1, MoveKeeps DEF IInv, TypeOK

\* _ingest_file of a file whose row is gone.
LEMMA OpenRowGoneKeeps ==
  ASSUME IInv, NEW w \in Drains, OpenRowGone(w)
  PROVE  IInv'
  BY OutcomeKeeps DEF OpenRowGone, tables, apiVars, Busy, IInv, TypeOK

\* _ingest_file of a file whose payload cannot be read.
LEMMA OpenFailsKeeps ==
  ASSUME IInv, NEW w \in Drains, OpenFails(w)
  PROVE  IInv'
  BY OutcomeKeeps DEF OpenFails, tables, apiVars, Busy, IInv, TypeOK

\* _persist_page fails.
LEMMA PersistFailsKeeps ==
  ASSUME IInv, NEW w \in Drains, PersistFails(w)
  PROVE  IInv'
  BY OutcomeKeeps DEF PersistFails, tables, apiVars, Busy, IInv, TypeOK

\* The chunks are handed to the vector store.
LEMMA IndexChunksKeeps ==
  ASSUME IInv, NEW w \in Drains, IndexChunks(w)
  PROVE  IInv'
<1>1. Busy(w) /\ drain[w].pc # "backoff"
  BY DEF IndexChunks, Busy
<1>2. drain[w].content \in Contents
  BY <1>1 DEF IInv, DrainsOK, DrainOK
<1>3. indexed' \subseteq Contents
  BY <1>2 DEF IndexChunks, IInv, TypeOK
<1> QED BY <1>1, <1>3, OutcomeKeeps DEF IndexChunks, tables, apiVars

\* _ingest_file has parsed the payload and starts with page 1.
LEMMA OpenFileKeeps ==
  ASSUME IInv, NEW w \in Drains, OpenFile(w)
  PROVE  IInv'
<1> DEFINE r == [drain[w] EXCEPT !.pc = "paging", !.page = 1]
<1>1. drain[w] \in DrainState /\ 1 \in Pages /\ 1 \in 1..(PageCount + 1)
  BY PipelineAssumption DEF IInv, TypeOK, Pages
<1>2. r \in DrainState
  BY <1>1 DEF DrainState, PCs
<1>3. drain' = [drain EXCEPT ![w] = r]
  BY DEF OpenFile
<1>4. drain' \in [Drains -> DrainState] /\ OthersKept(w) /\ drain'[w] = r
  BY <1>2, <1>3 DEF IInv, TypeOK, OthersKept
<1>5. /\ r.pc = "paging" /\ r.page = 1 /\ r.job = drain[w].job /\ r.file = drain[w].file
      /\ r.content = drain[w].content
  BY <1>1 DEF DrainState
<1>6. Busy(w) /\ drain[w].pc # "backoff" /\ jobs' = jobs
  BY DEF OpenFile, Busy, tables
<1>7. DrainOK(w)'
  BY <1>1, <1>4, <1>5, <1>6 DEF IInv, DrainsOK, DrainOK, Busy, JobExists
<1> QED BY <1>4, <1>5, <1>6, <1>7, QuietDrainStepKeeps DEF OpenFile, tables, apiVars, IInv, TypeOK

\* _persist_page stores a page inside the document, or hits the unique key.
LEMMA PersistPageKeeps ==
  ASSUME IInv, NEW w \in Drains, PersistPage(w)
  PROVE  IInv'
<1> DEFINE p == drain[w].page
           l == IF p = PageCount THEN "indexing" ELSE "paging"
           r == [drain[w] EXCEPT !.page = p + 1, !.pc = l]
<1>1. Busy(w) /\ drain[w].pc # "backoff" /\ p \in Pages
  BY DEF PersistPage, Busy, IInv, DrainsOK, DrainOK
<1>2. CASE p \in pages[drain[w].file]
  BY <1>1, <1>2, OutcomeKeeps DEF PersistPage, apiVars, IInv, TypeOK
<1>3. CASE p \notin pages[drain[w].file]
  <2>1. pages' \in [FileIds -> SUBSET Pages]
    <3>1. pages' = [pages EXCEPT ![drain[w].file] = @ \cup {p}]
      BY <1>3 DEF PersistPage
    <3> QED BY <1>1, <3>1 DEF IInv, TypeOK
  <2>2. drain[w] \in DrainState /\ p + 1 \in 1..(PageCount + 1) /\ l \in PCs
    BY <1>1, PipelineAssumption DEF IInv, TypeOK, Pages, PCs
  <2>3. r \in DrainState
    BY <2>2 DEF DrainState
  <2>4. drain' = [drain EXCEPT ![w] = r]
    BY <1>3 DEF PersistPage
  <2>5. drain' \in [Drains -> DrainState] /\ OthersKept(w) /\ drain'[w] = r
    BY <2>3, <2>4 DEF IInv, TypeOK, OthersKept
  <2>6. /\ r.pc = l /\ r.page = p + 1 /\ r.job = drain[w].job
        /\ r.file = drain[w].file /\ r.content = drain[w].content
    BY <2>2 DEF DrainState
  <2>7. l = "paging" => p + 1 \in Pages
    BY <1>1, PipelineAssumption DEF Pages
  <2>8. jobs' = jobs
    BY DEF PersistPage
  <2>9. l \in {"indexing", "paging"}
    OBVIOUS
  <2> HIDE DEF r, l, p
  <2>10. DrainOK(w)'
    BY <1>1, <2>5, <2>6, <2>7, <2>8, <2>9 DEF IInv, DrainsOK, DrainOK, Busy, JobExists
  <2> QED BY <1>1, <2>1, <2>5, <2>6, <2>10, QuietDrainStepKeeps
          DEF PersistPage, apiVars, IInv, TypeOK
<1> QED BY <1>2, <1>3

\* A transaction of _begin_processing or _finalize raises.
LEMMA TransactionRaisesKeeps ==
  ASSUME IInv, NEW w \in Drains, TransactionRaises(w)
  PROVE  IInv'
<1>1. drain' \in [Drains -> DrainState] /\ Kept(w) /\ drain'[w].pc = "failing"
  BY GotoEffect DEF TransactionRaises, PCs, IInv, TypeOK
<1>2. Busy(w) /\ drain[w].pc # "backoff"
  BY DEF TransactionRaises, Busy
<1> QED BY <1>1, <1>2, MoveKeeps DEF TransactionRaises, tables, apiVars, IInv, TypeOK

\* _handle_failure gives up.
LEMMA GiveUpKeeps ==
  ASSUME IInv, NEW w \in Drains, GiveUp(w)
  PROVE  IInv'
  BY IdleKeeps DEF GiveUp, tables, apiVars

\* _handle_failure raises and is called again: a file it had queued is stranded.
LEMMA HandlerRaisesKeeps ==
  ASSUME IInv, NEW w \in Drains, HandlerRaises(w)
  PROVE  IInv'
<1> DEFINE a == IF drain[w].pc = "failing" THEN drain[w].attempt + 1 ELSE drain[w].attempt
<1>1. drain' = [drain EXCEPT ![w] = [drain[w] EXCEPT !.pc = "failing", !.attempt = a]]
  BY DEF HandlerRaises
<1>2. drain[w] \in DrainState /\ Busy(w)
  BY DEF HandlerRaises, IInv, TypeOK, Busy
<1>3. a \in Attempts
  BY <1>2, PipelineAssumption DEF HandlerRaises, DrainState, Attempts
<1>4. [drain[w] EXCEPT !.pc = "failing", !.attempt = a] \in DrainState
  BY <1>2, <1>3 DEF DrainState, PCs
<1>5. drain' \in [Drains -> DrainState] /\ OthersKept(w)
  BY <1>1, <1>4 DEF IInv, TypeOK, OthersKept
<1>6. /\ drain'[w].pc = "failing" /\ drain'[w].job = drain[w].job
      /\ drain'[w].file = drain[w].file /\ drain'[w].content = drain[w].content
  BY <1>1, <1>2 DEF IInv, TypeOK, DrainState
<1>7. UNCHANGED <<files, docs, jobs, pages, indexed, blobs, uploading, reingest, deleting,
                  requests, crashes>>
  BY DEF HandlerRaises, tables, apiVars
<1>8. DrainOK(w)
  BY DEF IInv, DrainsOK
<1>9. DrainOK(w)' /\ Busy(w)'
  BY <1>2, <1>6, <1>7, <1>8 DEF DrainOK, Busy, JobExists
<1>10. /\ stranded \subseteq stranded' /\ stranded' \subseteq FileIds
       /\ drain[w].pc = "backoff" => drain[w].file \in stranded'
  BY <1>2, <1>8 DEF HandlerRaises, DrainOK, IInv, TypeOK
<1> QED BY <1>2, <1>5, <1>6, <1>7, <1>9, <1>10, QuietDrainStepKeeps DEF IInv, TypeOK

\* A drain dies: a file it was about to queue becomes a stranded one.
LEMMA DrainCrashKeeps ==
  ASSUME IInv, NEW w \in Drains, DrainCrash(w)
  PROVE  IInv'
<1>1. drain' \in [Drains -> DrainState] /\ OthersKept(w) /\ drain'[w].pc = "idle"
  BY IdleEffect DEF DrainCrash, IInv, TypeOK
<1>2. DrainOK(w)' /\ ~Busy(w)'
  BY <1>1 DEF DrainOK, Busy
<1>3. drain[w].pc = "backoff" => drain[w].file \in FileIds
  BY DEF IInv, DrainsOK, DrainOK, Busy
<1>4. /\ stranded \subseteq stranded' /\ stranded' \subseteq FileIds
      /\ drain[w].pc = "backoff" => drain[w].file \in stranded'
  BY <1>3 DEF DrainCrash, IInv, TypeOK
<1>5. crashes' \in 0..MaxCrashes
  BY PipelineAssumption DEF DrainCrash, IInv, TypeOK
<1> QED BY <1>1, <1>2, <1>4, <1>5, QuietDrainStepKeeps
        DEF DrainCrash, tables, apiVars, IInv, TypeOK

-----------------------------------------------------------------------------
\* A drain that finishes the job in its hands: the job's file is not QUEUED after
\* the step, so no QUEUED file loses its open job.
LEMMA FinishStepKeeps ==
  ASSUME IInv, NEW w \in Drains, Busy(w), drain[w].pc # "backoff",
         NEW s \in Terminal, FinishJob(drain[w].job, s),
         drain' \in [Drains -> DrainState], OthersKept(w),
         drain'[w].pc = "idle" \/ (drain'[w].pc = "failing" /\ Kept(w)),
         files' \in [FileIds -> FileRow], docs' \in [Contents -> Statuses \cup {"absent"}],
         \A f \in FileIds : files'[f].content = files[f].content
                            /\ (FileExists(f)' => FileExists(f)),
         \A f \in FileIds : f # drain[w].file => files'[f] = files[f],
         files'[drain[w].file].status # "QUEUED",
         UNCHANGED <<pages, indexed, blobs, uploading, reingest, deleting, requests,
                     stranded, crashes>>
  PROVE  IInv'
<1> DEFINE j == drain[w].job
<1>1. j \in JobIds /\ JobExists(j) /\ jobs[j].file = drain[w].file
  BY DEF IInv, DrainsOK, DrainOK
<1>2. /\ jobs' \in [JobIds -> JobRow]
      /\ \A k \in JobIds : /\ jobs'[k].file = jobs[k].file
                           /\ jobs'[k].content = jobs[k].content
                           /\ jobs'[k].attempt = jobs[k].attempt
                           /\ JobExists(k)' = JobExists(k)
                           /\ jobs'[k].status = "QUEUED" => jobs[k].status = "QUEUED"
                           /\ k # j => jobs'[k] = jobs[k]
  BY <1>1, FinishJobEffect DEF IInv, TypeOK
<1>3. TypeOK'
  BY <1>2 DEF IInv, TypeOK
<1>4. RowsOK'
  BY <1>2 DEF IInv, RowsOK
<1>5. JobsKept
  BY <1>2 DEF JobsKept
<1>6. DrainOK(w)'
  <2>1. CASE drain'[w].pc = "idle"
    BY <2>1 DEF DrainOK, Busy
  <2>2. CASE drain'[w].pc = "failing" /\ Kept(w)
    BY <1>5, <2>2, MovedDrainKept DEF IInv, DrainsOK
  <2> QED BY <2>1, <2>2
<1>7. Busy(w)' => Busy(w) /\ drain'[w].job = j
  BY DEF Busy, Kept
<1>8. ASSUME NEW f \in FileIds PROVE FileKept(f)
  <2>1. \A k \in JobIds : f # drain[w].file /\ OpenJob(k, f) => OpenJob(k, f)'
    BY <1>1, <1>2 DEF OpenJob, JobExists
  <2> QED BY <2>1 DEF FileKept, OthersKept
<1> QED BY <1>3, <1>4, <1>5, <1>6, <1>7, <1>8, DrainStepKeeps

\* _begin_processing fails the job of a file that is gone.
LEMMA BeginFileMissingKeeps ==
  ASSUME IInv, NEW w \in Drains, BeginFileMissing(w)
  PROVE  IInv'
<1>1. Busy(w) /\ drain[w].pc # "backoff"
  BY DEF BeginFileMissing, Busy
<1>2. drain' \in [Drains -> DrainState] /\ OthersKept(w) /\ drain'[w].pc = "idle"
  BY IdleEffect DEF BeginFileMissing, IInv, TypeOK
<1>3. FinishJob(drain[w].job, "FAILED") /\ "FAILED" \in Terminal
  BY DEF BeginFileMissing, Terminal
<1>4. files' = files /\ files[drain[w].file].status = "absent"
  BY DEF BeginFileMissing, FileExists
<1> QED BY <1>1, <1>2, <1>3, <1>4, FinishStepKeeps
        DEF BeginFileMissing, apiVars, FileExists, IInv, TypeOK

\* _begin_processing stops at a COMPLETED file.
LEMMA BeginAlreadyDoneKeeps ==
  ASSUME IInv, NEW w \in Drains, BeginAlreadyDone(w)
  PROVE  IInv'
<1>1. Busy(w) /\ drain[w].pc # "backoff"
  BY DEF BeginAlreadyDone, Busy
<1>2. drain' \in [Drains -> DrainState] /\ OthersKept(w) /\ drain'[w].pc = "idle"
  BY IdleEffect DEF BeginAlreadyDone, IInv, TypeOK
<1>3. files' = files /\ files[drain[w].file].status = "COMPLETED"
  BY DEF BeginAlreadyDone
<1>4. CASE FinishJob(drain[w].job, "COMPLETED")
  <2>1. "COMPLETED" \in Terminal
    BY DEF Terminal
  <2> QED BY <1>1, <1>2, <1>3, <1>4, <2>1, FinishStepKeeps
          DEF BeginAlreadyDone, apiVars, FileExists, IInv, TypeOK
<1>5. CASE UNCHANGED jobs
  BY <1>1, <1>5, IdleKeeps DEF BeginAlreadyDone, apiVars
<1> QED BY <1>4, <1>5 DEF BeginAlreadyDone

\* After _finalize the drain is done or goes to _handle_failure with its job.
LEMMA AfterFinalizeEffect ==
  ASSUME drain \in [Drains -> DrainState], NEW w \in Drains, AfterFinalize(w)
  PROVE  /\ drain' \in [Drains -> DrainState] /\ OthersKept(w)
         /\ drain'[w].pc = "idle" \/ (drain'[w].pc = "failing" /\ Kept(w))
<1>1. "failing" \in PCs
  BY DEF PCs
<1>2. CASE Idle(w)
  BY <1>2, IdleEffect
<1>3. CASE Goto(w, "failing")
  BY <1>1, <1>3, GotoEffect DEF Kept
<1> QED BY <1>2, <1>3 DEF AfterFinalize

\* _finalize fails the job of a file that is gone.
LEMMA FinalizeFileMissingKeeps ==
  ASSUME IInv, NEW w \in Drains, FinalizeFileMissing(w)
  PROVE  IInv'
<1>1. Busy(w) /\ drain[w].pc # "backoff"
  BY DEF FinalizeFileMissing, Busy
<1>2. /\ drain' \in [Drains -> DrainState] /\ OthersKept(w)
      /\ drain'[w].pc = "idle" \/ (drain'[w].pc = "failing" /\ Kept(w))
  BY AfterFinalizeEffect DEF FinalizeFileMissing, IInv, TypeOK
<1>3. FinishJob(drain[w].job, "FAILED") /\ "FAILED" \in Terminal
  BY DEF FinalizeFileMissing, Terminal
<1>4. files' = files /\ files[drain[w].file].status = "absent"
  BY DEF FinalizeFileMissing, FileExists
<1> QED BY <1>1, <1>2, <1>3, <1>4, FinishStepKeeps
        DEF FinalizeFileMissing, apiVars, FileExists, IInv, TypeOK

\* _finalize_job writes the terminal status to file, document and job.
LEMMA FinalizeKeeps ==
  ASSUME IInv, NEW w \in Drains, Finalize(w)
  PROVE  IInv'
<1> DEFINE s == IF drain[w].ok THEN "COMPLETED" ELSE "FAILED"
           f == drain[w].file
<1>1. Busy(w) /\ drain[w].pc # "backoff"
  BY DEF Finalize, Busy
<1>2. /\ drain' \in [Drains -> DrainState] /\ OthersKept(w)
      /\ drain'[w].pc = "idle" \/ (drain'[w].pc = "failing" /\ Kept(w))
  BY AfterFinalizeEffect DEF Finalize, IInv, TypeOK
<1>3. s \in Terminal /\ s \in Statuses /\ s # "QUEUED" /\ FinishJob(drain[w].job, s)
  BY DEF Finalize, Terminal, Statuses
<1>4. f \in FileIds /\ FileExists(f) /\ SetStatus(f, drain[w].content, s)
  BY <1>1 DEF Finalize, IInv, DrainsOK, DrainOK
<1> HIDE DEF s, f
<1>5. /\ files' \in [FileIds -> FileRow]
      /\ docs' \in [Contents -> Statuses \cup {"absent"}]
      /\ \A g \in FileIds : files'[g].content = files[g].content
      /\ \A g \in FileIds : g # f => files'[g] = files[g]
      /\ files'[f].status = s
  BY <1>3, <1>4, SetStatusEffect DEF IInv, TypeOK
<1>6. \A g \in FileIds : FileExists(g)' => FileExists(g)
  BY <1>4, <1>5 DEF FileExists
<1> QED BY <1>1, <1>2, <1>3, <1>5, <1>6, FinishStepKeeps DEF Finalize, apiVars, f

\* _begin_processing makes file, document and job PROCESSING.
LEMMA BeginKeeps ==
  ASSUME IInv, NEW w \in Drains, Begin(w)
  PROVE  IInv'
<1> DEFINE j == drain[w].job
           f == drain[w].file
           row == [jobs[j] EXCEPT !.status = "PROCESSING", !.stale = FALSE]
<1>1. Busy(w) /\ drain[w].pc # "backoff"
  BY DEF Begin, Busy
<1>2. /\ j \in JobIds /\ JobExists(j) /\ f \in FileIds /\ jobs[j] \in JobRow
      /\ FileExists(f)
  BY <1>1 DEF Begin, FileExists, IInv, DrainsOK, DrainOK, TypeOK
<1>3. drain' \in [Drains -> DrainState] /\ Kept(w) /\ drain'[w].pc = "clearing"
  BY GotoEffect DEF Begin, PCs, IInv, TypeOK
<1>4. /\ files' \in [FileIds -> FileRow]
      /\ docs' \in [Contents -> Statuses \cup {"absent"}]
      /\ \A g \in FileIds : files'[g].content = files[g].content
      /\ \A g \in FileIds : g # f => files'[g] = files[g]
      /\ files'[f].status = "PROCESSING"
  <2>1. SetStatus(f, drain[w].content, "PROCESSING") /\ "PROCESSING" \in Statuses
    BY DEF Begin, Statuses
  <2> QED BY <1>2, <2>1, SetStatusEffect DEF IInv, TypeOK
<1>5. jobs' = [jobs EXCEPT ![j] = row]
  BY <1>2 DEF Begin
<1>6. /\ row \in JobRow /\ row.status = "PROCESSING" /\ row.file = jobs[j].file
      /\ row.content = jobs[j].content /\ row.attempt = jobs[j].attempt
      /\ row.finished = jobs[j].finished
  BY <1>2 DEF JobRow, Statuses
<1>7. /\ jobs' \in [JobIds -> JobRow] /\ jobs'[j] = row
      /\ \A k \in JobIds : k # j => jobs'[k] = jobs[k]
  BY <1>2, <1>5, <1>6 DEF IInv, TypeOK
<1> HIDE DEF row
<1>8. TypeOK'
  BY <1>3, <1>4, <1>7 DEF Begin, apiVars, IInv, TypeOK
<1>9. RowsOK'
  <2>1. \A g \in FileIds : FileExists(g)' => FileExists(g)
    BY <1>2, <1>4 DEF FileExists
  <2>2. \A k \in JobIds : JobExists(k)' => /\ JobExists(k) /\ jobs'[k].file = jobs[k].file
                                           /\ jobs'[k].content = jobs[k].content
    BY <1>2, <1>6, <1>7 DEF JobExists
  <2> QED BY <1>4, <2>1, <2>2 DEF IInv, RowsOK
<1>10. JobsKept
  BY <1>2, <1>6, <1>7 DEF JobsKept, JobExists
<1>11. DrainOK(w)'
  BY <1>1, <1>3, <1>10, MovedDrainKept DEF IInv, DrainsOK
<1>12. ASSUME NEW g \in FileIds PROVE FileKept(g)
  <2>1. \A k \in JobIds : OpenJob(k, g) => OpenJob(k, g)'
    BY <1>2, <1>6, <1>7 DEF OpenJob, JobExists
  <2> QED BY <1>1, <1>3, <1>4, <2>1 DEF FileKept, Kept, OthersKept, Begin, apiVars
<1> QED BY <1>1, <1>3, <1>8, <1>9, <1>10, <1>11, <1>12, DrainStepKeeps DEF Kept

\* The claim takes a job in hand: a QUEUED job at attempt 0 was in nobody's hands,
\* a recovered one leaves attempt 0.
LEMMA ClaimJobKeeps ==
  ASSUME IInv, NEW w \in Drains, ClaimJob(w)
  PROVE  IInv'
<1> DEFINE j == drain[w].job
           a == IF drain[w].seen = "PROCESSING" THEN Bump(jobs[j].attempt)
                                                ELSE jobs[j].attempt
           row == [jobs[j] EXCEPT !.status = "PROCESSING", !.stale = FALSE, !.attempt = a]
           r == [drain[w] EXCEPT !.pc = "claimed", !.file = jobs[j].file,
                                 !.content = jobs[j].content, !.attempt = a]
<1>1. /\ drain[w].pc = "selected" /\ j \in JobIds /\ jobs[j] \in JobRow
      /\ drain[w] \in DrainState
      /\ jobs[j].status = drain[w].seen /\ drain[w].seen \in {"QUEUED", "PROCESSING"}
  BY DEF ClaimJob, StillAsSeen, IInv, TypeOK, DrainsOK, DrainOK
<1>2. JobExists(j) /\ jobs[j].file \in FileIds /\ jobs[j].content \in Contents
  BY <1>1 DEF JobExists, IInv, RowsOK
<1>3. /\ a \in Attempts /\ jobs[j].attempt \in Attempts
      /\ drain[w].seen = "PROCESSING" => a # 0
      /\ drain[w].seen = "QUEUED" => a = jobs[j].attempt
  <2>1. jobs[j].attempt \in Attempts
    BY <1>1 DEF JobRow
  <2>2. Bump(jobs[j].attempt) \in Attempts /\ Bump(jobs[j].attempt) # 0
    BY <2>1, PipelineAssumption DEF Bump, Attempts
  <2> QED BY <2>1, <2>2
<1>4. /\ jobs' = [jobs EXCEPT ![j] = row]
      /\ drain' = [drain EXCEPT ![w] = r]
  BY DEF ClaimJob
<1> HIDE DEF a
<1>5. /\ row \in JobRow /\ row.status = "PROCESSING" /\ row.file = jobs[j].file
      /\ row.content = jobs[j].content /\ row.attempt = a
      /\ row.finished = jobs[j].finished
  BY <1>1, <1>3 DEF JobRow, Statuses
<1>6. /\ r \in DrainState /\ r.pc = "claimed" /\ r.job = j /\ r.file = jobs[j].file
      /\ r.content = jobs[j].content /\ r.attempt = a
  BY <1>1, <1>2, <1>3 DEF DrainState, PCs
<1>7. /\ jobs' \in [JobIds -> JobRow] /\ jobs'[j] = row
      /\ \A k \in JobIds : k # j => jobs'[k] = jobs[k]
  BY <1>1, <1>4, <1>5 DEF IInv, TypeOK
<1>8. drain' \in [Drains -> DrainState] /\ drain'[w] = r /\ OthersKept(w)
  BY <1>4, <1>6 DEF IInv, TypeOK, OthersKept
<1> HIDE DEF row, r
<1>9. TypeOK'
  BY <1>7, <1>8 DEF ClaimJob, apiVars, IInv, TypeOK
<1>10. RowsOK'
  BY <1>2, <1>5, <1>7 DEF ClaimJob, IInv, RowsOK, FileExists, JobExists
<1>11. JobsKept
  <2>1. a = 0 => jobs[j].attempt = 0
    BY <1>1, <1>3
  <2> QED BY <1>5, <1>7, <2>1 DEF JobsKept, JobExists
<1>12. DrainsOK'
  <2>1. DrainOK(w)'
    BY <1>1, <1>2, <1>5, <1>6, <1>7, <1>8 DEF DrainOK, Busy, JobExists
  <2> QED BY <1>8, <1>11, <2>1, OtherDrainsKept DEF IInv, DrainsOK, OthersKept
<1>13. QueuedFileHasWork'
  <2>1. ASSUME NEW f \in FileIds PROVE FileKept(f)
    <3>1. \A k \in JobIds : OpenJob(k, f) => OpenJob(k, f)'
      BY <1>1, <1>2, <1>5, <1>7 DEF OpenJob, JobExists
    <3> QED BY <1>1, <1>8, <3>1 DEF FileKept, OthersKept, ClaimJob, apiVars
  <2> QED BY <2>1, WorkKept DEF IInv
<1>14. FirstAttemptIsExclusive'
  <2> SUFFICES ASSUME NEW u \in Drains, NEW v \in Drains, NEW k \in JobIds,
                      Holds(u, k)', Holds(v, k)', jobs'[k].attempt = 0
               PROVE  u = v
    BY DEF FirstAttemptIsExclusive
  <2>1. \A x \in Drains : x # w /\ Holds(x, k)' =>
          Holds(x, k) /\ JobExists(k) /\ InUse(k)
    BY <1>8 DEF OthersKept, Holds, InUse, IInv, DrainsOK, DrainOK, Busy
  <2>2. CASE k = j
    \* the claimed job was QUEUED at attempt 0, so nobody held it
    <3>1. jobs[j].status = "QUEUED" /\ jobs[j].attempt = 0
      BY <1>1, <1>3, <1>5, <1>7, <2>2
    <3>2. \A x \in Drains : ~Holds(x, j)
      BY <3>1 DEF Holds, IInv, DrainsOK, DrainOK, Busy
    <3> QED BY <2>1, <2>2, <3>2
  <2>3. CASE k # j
    <3>1. ~Holds(w, k)'
      BY <1>6, <1>8, <2>3 DEF Holds
    <3>2. Holds(u, k) /\ Holds(v, k) /\ jobs[k].attempt = 0
      BY <1>7, <2>1, <2>3, <3>1
    <3> QED BY <3>2 DEF IInv, FirstAttemptIsExclusive
  <2> QED BY <2>2, <2>3
<1> QED BY <1>9, <1>10, <1>12, <1>13, <1>14 DEF IInv

\* _handle_failure queues the file anew; until it inserts the job the drain itself
\* is the file's work.
LEMMA PrepareRetryKeeps ==
  ASSUME IInv, NEW w \in Drains, PrepareRetry(w)
  PROVE  IInv'
<1> DEFINE f == drain[w].file
           r == [drain[w] EXCEPT !.pc = "backoff", !.content = files[f].content,
                                 !.attempt = @ + 1]
<1>1. Busy(w) /\ drain[w].pc # "backoff" /\ FileExists(f)
  BY DEF PrepareRetry, Busy
<1>2. /\ f \in FileIds /\ drain[w].job \in JobIds /\ JobExists(drain[w].job)
      /\ jobs[drain[w].job].file = f
      /\ jobs[drain[w].job].attempt = 0 => jobs[drain[w].job].status # "QUEUED"
  BY <1>1 DEF IInv, DrainsOK, DrainOK
<1>3. files[f].content \in Contents
  BY <1>1, <1>2 DEF IInv, RowsOK
<1>4. drain[w] \in DrainState /\ drain[w].attempt + 1 \in Attempts /\ drain[w].attempt + 1 > 0
  <2>1. drain[w] \in DrainState /\ drain[w].attempt \in Attempts
    BY DEF IInv, TypeOK, DrainState
  <2> QED BY <2>1, PipelineAssumption DEF PrepareRetry, Attempts
<1>5. /\ r \in DrainState /\ r.pc = "backoff" /\ r.job = drain[w].job /\ r.file = f
      /\ r.content = files[f].content /\ r.attempt = drain[w].attempt + 1
  BY <1>3, <1>4 DEF DrainState, PCs
<1>6. drain' = [drain EXCEPT ![w] = r]
  BY DEF PrepareRetry
<1>7. drain' \in [Drains -> DrainState] /\ drain'[w] = r /\ OthersKept(w)
  BY <1>5, <1>6 DEF IInv, TypeOK, OthersKept
<1>8. /\ files' \in [FileIds -> FileRow]
      /\ docs' \in [Contents -> Statuses \cup {"absent"}]
      /\ \A g \in FileIds : files'[g].content = files[g].content
      /\ \A g \in FileIds : g # f => files'[g] = files[g]
      /\ files'[f].status = "QUEUED"
  <2>1. SetStatus(f, files[f].content, "QUEUED") /\ "QUEUED" \in Statuses
    BY DEF PrepareRetry, Statuses
  <2> QED BY <1>2, <2>1, SetStatusEffect DEF IInv, TypeOK
<1> HIDE DEF r, f
<1>9. TypeOK'
  BY <1>7, <1>8 DEF PrepareRetry, apiVars, IInv, TypeOK
<1>10. RowsOK'
  <2>1. \A g \in FileIds : FileExists(g)' => FileExists(g)
    BY <1>1, <1>8 DEF FileExists
  <2> QED BY <1>8, <2>1 DEF PrepareRetry, IInv, RowsOK, JobExists
<1>11. JobsKept
  BY DEF JobsKept, JobExists, PrepareRetry
<1>12. DrainOK(w)'
  BY <1>2, <1>3, <1>4, <1>5, <1>7 DEF DrainOK, Busy, JobExists, PrepareRetry
<1>13. ASSUME NEW g \in FileIds PROVE FileKept(g) \/ HasWork(g)'
  <2>1. CASE g = f
    BY <1>5, <1>7, <2>1 DEF HasWork
  <2>2. CASE g # f
    BY <1>1, <1>7, <1>8, <2>2
       DEF FileKept, OpenJob, JobExists, OthersKept, PrepareRetry, apiVars
  <2> QED BY <2>1, <2>2
<1> QED BY <1>1, <1>5, <1>7, <1>9, <1>10, <1>11, <1>12, <1>13, DrainStepKeeps

\* The job a row insertion adds is fresh: it disturbs no row in use.
LEMMA InsertKeepsJobs ==
  ASSUME IInv, NEW j \in JobIds, NEW f \in FileIds, NEW c \in Contents, NEW a \in Attempts,
         InsertJob(j, f, c, a)
  PROVE  /\ jobs' \in [JobIds -> JobRow] /\ stranded' \subseteq FileIds
         /\ \A k \in JobIds : JobExists(k)' => jobs'[k].file \in FileIds
                                               /\ jobs'[k].content \in Contents
         /\ JobsKept
         /\ ~JobExists(j) /\ JobExists(j)' /\ jobs'[j].file = f /\ jobs'[j].attempt = a
         /\ \A k \in JobIds : k # j => jobs'[k] = jobs[k]
         /\ \A g \in FileIds, k \in JobIds : OpenJob(k, g) => OpenJob(k, g)'
         /\ HasWork(f)'
         /\ \A g \in FileIds : g \in stranded /\ g # f => g \in stranded'
<1>1. /\ jobs' \in [JobIds -> JobRow]
      /\ ~JobExists(j)
      /\ \A k \in JobIds : k # j => jobs'[k] = jobs[k]
      /\ OpenJob(j, f)' /\ JobExists(j)' /\ jobs'[j].content = c
      /\ jobs'[j].file = f /\ jobs'[j].attempt = a
      /\ stranded' = stranded \ {f}
  BY InsertJobEffect DEF IInv, TypeOK
<1>2. stranded' \subseteq FileIds
  BY <1>1 DEF IInv, TypeOK
<1>3. \A k \in JobIds : JobExists(k)' => jobs'[k].file \in FileIds /\ jobs'[k].content \in Contents
  BY <1>1 DEF IInv, RowsOK, JobExists
<1>4. JobsKept
  BY <1>1 DEF JobsKept, JobExists
<1>5. \A g \in FileIds, k \in JobIds : OpenJob(k, g) => OpenJob(k, g)'
  BY <1>1 DEF OpenJob, JobExists
<1>6. HasWork(f)'
  BY <1>1 DEF HasWork
<1> QED BY <1>1, <1>2, <1>3, <1>4, <1>5, <1>6

\* enqueue_job after the backoff: the drain takes the new job in hand, at an attempt
\* above 0.
LEMMA EnqueueRetryKeeps ==
  ASSUME IInv, NEW w \in Drains, EnqueueRetry(w)
  PROVE  IInv'
<1>0. PICK f \in FileIds : f = drain[w].file
  BY DEF EnqueueRetry, Busy, IInv, DrainsOK, DrainOK
<1>1. /\ drain[w].pc = "backoff" /\ Busy(w) /\ drain[w] \in DrainState
      /\ drain[w].attempt \in Attempts /\ drain[w].attempt > 0
      /\ drain[w].content \in Contents
  BY DEF EnqueueRetry, Busy, IInv, TypeOK, DrainsOK, DrainOK, DrainState
<1>2. PICK j \in JobIds :
        /\ InsertJob(j, f, drain[w].content, drain[w].attempt)
        /\ drain' = [drain EXCEPT ![w].pc = "claimed", ![w].job = j]
  BY <1>0 DEF EnqueueRetry
<1> DEFINE r == [drain[w] EXCEPT !.pc = "claimed", !.job = j]
<1>3. /\ jobs' \in [JobIds -> JobRow] /\ stranded' \subseteq FileIds
      /\ \A k \in JobIds : JobExists(k)' => jobs'[k].file \in FileIds
                                            /\ jobs'[k].content \in Contents
      /\ JobsKept
      /\ ~JobExists(j) /\ JobExists(j)' /\ jobs'[j].file = f
      /\ jobs'[j].attempt = drain[w].attempt
      /\ \A k \in JobIds : k # j => jobs'[k] = jobs[k]
      /\ \A g \in FileIds, k \in JobIds : OpenJob(k, g) => OpenJob(k, g)'
      /\ HasWork(f)'
      /\ \A g \in FileIds : g \in stranded /\ g # f => g \in stranded'
  BY <1>1, <1>2, InsertKeepsJobs
<1>4. /\ r \in DrainState /\ r.pc = "claimed" /\ r.job = j /\ r.file = f
      /\ r.content = drain[w].content
  BY <1>0, <1>1 DEF DrainState, PCs
<1>5. drain' = [drain EXCEPT ![w] = r]
  BY <1>2
<1> HIDE DEF r
<1>6. drain' \in [Drains -> DrainState] /\ drain'[w] = r /\ OthersKept(w)
  BY <1>4, <1>5 DEF IInv, TypeOK, OthersKept
<1>7. TypeOK'
  BY <1>3, <1>6 DEF EnqueueRetry, apiVars, IInv, TypeOK
<1>8. RowsOK'
  BY <1>3 DEF EnqueueRetry, IInv, RowsOK, FileExists
<1>9. DrainsOK'
  <2>1. DrainOK(w)'
    BY <1>1, <1>3, <1>4, <1>6 DEF DrainOK, Busy
  <2> QED BY <1>3, <1>6, <2>1, OtherDrainsKept DEF IInv, DrainsOK, OthersKept
<1>10. QueuedFileHasWork'
  <2>1. ASSUME NEW g \in FileIds PROVE FileKept(g) \/ HasWork(g)'
    <3>1. CASE g = f
      BY <1>3, <3>1
    <3>2. CASE g # f
      <4>1. files' = files /\ reingest' = reingest
        BY DEF EnqueueRetry, apiVars
      <4>2. \A v \in Drains : drain[v].pc = "backoff" /\ drain[v].file = g =>
              drain'[v].pc = "backoff" /\ drain'[v].file = g
        BY <1>0, <1>6, <3>2 DEF OthersKept
      <4> QED BY <1>3, <3>2, <4>1, <4>2 DEF FileKept
    <3> QED BY <3>1, <3>2
  <2> QED BY <2>1, WorkKept DEF IInv
<1>11. FirstAttemptIsExclusive'
  <2> SUFFICES ASSUME NEW u \in Drains, NEW v \in Drains, NEW k \in JobIds,
                      Holds(u, k)', Holds(v, k)', jobs'[k].attempt = 0
               PROVE  u = v
    BY DEF FirstAttemptIsExclusive
  <2>1. k # j
    BY <1>1, <1>3
  <2>2. u # w /\ v # w
    BY <1>4, <1>6, <2>1 DEF Holds
  <2>3. Holds(u, k) /\ Holds(v, k)
    BY <1>6, <2>2 DEF Holds, OthersKept
  <2>4. jobs[k].attempt = 0
    BY <1>3, <2>1
  <2> QED BY <2>3, <2>4 DEF IInv, FirstAttemptIsExclusive
<1> QED BY <1>7, <1>8, <1>9, <1>10, <1>11 DEF IInv

-----------------------------------------------------------------------------
(* The API, the clock, the maintenance and crashes.                         *)

\* Steps that touch neither the tables nor the drains.
LEMMA OutsideKeeps ==
  ASSUME IInv, UNCHANGED <<tables, drain, stranded, indexed, crashes>>,
         uploading' \subseteq Contents, blobs' \subseteq Contents,
         deleting' \subseteq FileIds, requests' \in 0..MaxRequests,
         reingest' = reingest
  PROVE  IInv'
<1>1. TypeOK'
  BY DEF tables, IInv, TypeOK
<1>2. RowsOK' /\ JobsKept
  BY DEF tables, IInv, RowsOK, FileExists, JobsKept, JobExists
<1>3. \A f \in FileIds : FileKept(f)
  BY DEF tables, FileKept, OpenJob, JobExists
<1> QED BY <1>1, <1>2, <1>3, TableStepKeeps

\* The bound on requests is a bound.
LEMMA RequestBound ==
  ASSUME IInv, Request
  PROVE  requests' \in 0..MaxRequests
  BY PipelineAssumption DEF IInv, TypeOK, Request

\* POST /upload stores the payload.
LEMMA WriteBlobKeeps ==
  ASSUME IInv, NEW c \in Contents, WriteBlob(c)
  PROVE  IInv'
  BY OutsideKeeps, RequestBound DEF WriteBlob, IInv, TypeOK

\* POST /upload fails because its payload was unlinked.
LEMMA RegisterBlobGoneKeeps ==
  ASSUME IInv, NEW c \in Contents, RegisterBlobGone(c)
  PROVE  IInv'
  BY OutsideKeeps DEF RegisterBlobGone, IInv, TypeOK

\* DELETE /file unlinks the payload.
LEMMA DeleteUnlinkKeeps ==
  ASSUME IInv, NEW f \in FileIds, DeleteUnlink(f)
  PROVE  IInv'
  BY OutsideKeeps, RequestBound DEF DeleteUnlink, IInv, TypeOK

\* A request that queues file f and inserts its job.
LEMMA QueueStepKeeps ==
  ASSUME IInv, NEW f \in FileIds, NEW j \in JobIds, NEW c \in Contents,
         InsertJob(j, f, c, 0),
         files' \in [FileIds -> FileRow], docs' \in [Contents -> Statuses \cup {"absent"}],
         \A g \in FileIds : g # f => files'[g] = files[g],
         FileExists(f)' => files'[f].content \in Contents,
         UNCHANGED <<pages, indexed, blobs, drain, deleting, crashes>>,
         uploading' \subseteq Contents, requests' \in 0..MaxRequests,
         reingest' = reingest \/ reingest' = reingest \ {f}
  PROVE  IInv'
<1>1. 0 \in Attempts
  BY PipelineAssumption DEF Attempts
<1>2. /\ jobs' \in [JobIds -> JobRow] /\ stranded' \subseteq FileIds
      /\ \A k \in JobIds : JobExists(k)' => jobs'[k].file \in FileIds
                                            /\ jobs'[k].content \in Contents
      /\ JobsKept
      /\ \A g \in FileIds, k \in JobIds : OpenJob(k, g) => OpenJob(k, g)'
      /\ HasWork(f)'
      /\ \A g \in FileIds : g \in stranded /\ g # f => g \in stranded'
  BY <1>1, InsertKeepsJobs
<1>3. TypeOK'
  BY <1>2 DEF IInv, TypeOK
<1>4. RowsOK'
  BY <1>2 DEF IInv, RowsOK, FileExists
<1>5. ASSUME NEW g \in FileIds PROVE FileKept(g) \/ HasWork(g)'
  <2>1. CASE g = f
    BY <1>2, <2>1
  <2>2. CASE g # f
    BY <1>2, <2>2 DEF FileKept
  <2> QED BY <2>1, <2>2
<1> QED BY <1>2, <1>3, <1>4, <1>5, TableStepKeeps

\* The row register_file writes for a file it queues.
LEMMA QueuedRow ==
  ASSUME files \in [FileIds -> FileRow], NEW f \in FileIds, NEW c \in Contents,
         files' = [files EXCEPT ![f] = QueuedFile(c)]
  PROVE  /\ files' \in [FileIds -> FileRow]
         /\ \A g \in FileIds : g # f => files'[g] = files[g]
         /\ files'[f].content = c
<1>1. QueuedFile(c) \in FileRow
  BY DEF QueuedFile, FileRow, Statuses
<1> QED BY <1>1 DEF QueuedFile

\* The status register_file leaves in the document.
LEMMA DocRow ==
  ASSUME docs \in [Contents -> Statuses \cup {"absent"}], NEW c \in Contents,
         docs' = [docs EXCEPT ![c] = DocOnRegister(c)]
  PROVE  docs' \in [Contents -> Statuses \cup {"absent"}]
  BY DEF DocOnRegister, Statuses

\* register_file of new content.
LEMMA RegisterNewKeeps ==
  ASSUME IInv, NEW c \in Contents, RegisterNew(c)
  PROVE  IInv'
<1>1. PICK f \in FileIds, j \in JobIds :
        files' = [files EXCEPT ![f] = QueuedFile(c)] /\ InsertJob(j, f, c, 0)
  BY DEF RegisterNew
<1>2. docs' \in [Contents -> Statuses \cup {"absent"}]
  BY DocRow DEF RegisterNew, IInv, TypeOK
<1>3. /\ files' \in [FileIds -> FileRow]
      /\ \A g \in FileIds : g # f => files'[g] = files[g]
      /\ files'[f].content = c
  BY <1>1, QueuedRow DEF IInv, TypeOK
<1> QED BY <1>1, <1>2, <1>3, QueueStepKeeps DEF RegisterNew, IInv, TypeOK

\* register_file of content whose last ingest failed.
LEMMA RegisterFailedKeeps ==
  ASSUME IInv, NEW c \in Contents, RegisterFailed(c)
  PROVE  IInv'
<1>1. PICK f \in FileIds, j \in JobIds :
        files' = [files EXCEPT ![f] = QueuedFile(c)] /\ InsertJob(j, f, c, 0)
  BY DEF RegisterFailed
<1>2. docs' \in [Contents -> Statuses \cup {"absent"}]
  BY DocRow DEF RegisterFailed, IInv, TypeOK
<1>3. /\ files' \in [FileIds -> FileRow]
      /\ \A g \in FileIds : g # f => files'[g] = files[g]
      /\ files'[f].content = c
  BY <1>1, QueuedRow DEF IInv, TypeOK
<1> QED BY <1>1, <1>2, <1>3, QueueStepKeeps DEF RegisterFailed, IInv, TypeOK

\* Steps that change rows of files but queue none.
LEMMA FilesStepKeeps ==
  ASSUME IInv,
         files' \in [FileIds -> FileRow], docs' \in [Contents -> Statuses \cup {"absent"}],
         \A f \in FileIds : FileExists(f)' =>
           FileExists(f) /\ files'[f].content = files[f].content,
         \A f \in FileIds : files'[f].status = "QUEUED" => files[f].status = "QUEUED",
         UNCHANGED <<jobs, pages, indexed, blobs, drain, reingest, stranded, requests,
                     crashes>>,
         uploading' \subseteq Contents, deleting' \subseteq FileIds
  PROVE  IInv'
<1>1. TypeOK'
  BY DEF IInv, TypeOK
<1>2. RowsOK' /\ JobsKept
  BY DEF IInv, RowsOK, JobsKept, JobExists
<1>3. \A f \in FileIds : FileKept(f)
  BY DEF FileKept, OpenJob, JobExists
<1> QED BY <1>1, <1>2, <1>3, TableStepKeeps

\* register_file of content that is queued, in progress or completed.
LEMMA RegisterKnownKeeps ==
  ASSUME IInv, NEW c \in Contents, RegisterKnown(c)
  PROVE  IInv'
<1>1. PICK f \in FileIds : files' = [files EXCEPT ![f].stale = FALSE]
  BY DEF RegisterKnown
<1>2. /\ files' \in [FileIds -> FileRow]
      /\ \A g \in FileIds : files'[g].status = files[g].status
                            /\ files'[g].content = files[g].content
  <2>1. files[f] \in FileRow
    BY DEF IInv, TypeOK
  <2>2. /\ [files[f] EXCEPT !.stale = FALSE] \in FileRow
        /\ [files[f] EXCEPT !.stale = FALSE].status = files[f].status
        /\ [files[f] EXCEPT !.stale = FALSE].content = files[f].content
    BY <2>1 DEF FileRow
  <2> QED BY <1>1, <2>2 DEF IInv, TypeOK
<1>3. docs' \in [Contents -> Statuses \cup {"absent"}]
  BY DocRow DEF RegisterKnown, IInv, TypeOK
<1> QED BY <1>2, <1>3, FilesStepKeeps DEF RegisterKnown, FileExists, IInv, TypeOK

\* POST /ingest resets a file: it is on the handler's list until the job is in.
LEMMA IngestResetKeeps ==
  ASSUME IInv, NEW f \in FileIds, NEW force \in BOOLEAN, IngestReset(f, force)
  PROVE  IInv'
<1>1. /\ files' \in [FileIds -> FileRow]
      /\ docs' \in [Contents -> Statuses \cup {"absent"}]
      /\ \A g \in FileIds : files'[g].content = files[g].content
      /\ \A g \in FileIds : g # f => files'[g] = files[g]
  <2>1. SetStatus(f, files[f].content, "QUEUED") /\ "QUEUED" \in Statuses
    BY DEF IngestReset, Statuses
  <2> QED BY <2>1, SetStatusEffect DEF IInv, TypeOK
<1>2. TypeOK'
  BY <1>1, RequestBound DEF IngestReset, IInv, TypeOK
<1>3. RowsOK' /\ JobsKept
  <2>1. \A g \in FileIds : FileExists(g)' => FileExists(g)
    BY <1>1 DEF FileExists, IngestReset
  <2> QED BY <1>1, <2>1 DEF IngestReset, IInv, RowsOK, JobsKept, JobExists
<1>4. ASSUME NEW g \in FileIds PROVE FileKept(g) \/ HasWork(g)'
  <2>1. CASE g = f
    BY <2>1 DEF HasWork, IngestReset
  <2>2. CASE g # f
    BY <1>1, <2>2 DEF FileKept, OpenJob, JobExists, IngestReset
  <2> QED BY <2>1, <2>2
<1> QED BY <1>2, <1>3, <1>4, TableStepKeeps DEF IngestReset

\* POST /ingest inserts the job of a file it reset.
LEMMA IngestEnqueueKeeps ==
  ASSUME IInv, NEW f \in FileIds, IngestEnqueue(f)
  PROVE  IInv'
<1>1. PICK j \in JobIds : InsertJob(j, f, files[f].content, 0)
  BY DEF IngestEnqueue
<1>2. files[f].content \in Contents
  BY DEF IngestEnqueue, IInv, RowsOK
<1> QED BY <1>1, <1>2, QueueStepKeeps DEF IngestEnqueue, FileExists, IInv, TypeOK

\* POST /ingest inserts another job for a queued or running file.
LEMMA IngestActiveKeeps ==
  ASSUME IInv, NEW f \in FileIds, IngestActive(f)
  PROVE  IInv'
<1>1. PICK j \in JobIds : InsertJob(j, f, files[f].content, 0)
  BY DEF IngestActive
<1>2. files[f].content \in Contents
  BY DEF IngestActive, FileExists, IInv, RowsOK
<1> QED BY <1>1, <1>2, RequestBound, QueueStepKeeps
        DEF IngestActive, FileExists, IInv, TypeOK

\* POST /ingest finds the row it reset deleted.
LEMMA IngestRowGoneKeeps ==
  ASSUME IInv, NEW f \in FileIds, IngestRowGone(f)
  PROVE  IInv'
<1>1. TypeOK'
  BY DEF IngestRowGone, tables, IInv, TypeOK
<1>2. RowsOK' /\ JobsKept
  BY DEF IngestRowGone, tables, IInv, RowsOK, FileExists, JobsKept, JobExists
<1>3. \A g \in FileIds : FileKept(g)
  BY DEF IngestRowGone, tables, FileExists, FileKept, OpenJob, JobExists
<1> QED BY <1>1, <1>2, <1>3, TableStepKeeps DEF IngestRowGone

\* DELETE /file deletes the row: an absent file needs no work.
LEMMA DeleteRowKeeps ==
  ASSUME IInv, NEW f \in FileIds, DeleteRow(f)
  PROVE  IInv'
<1>1. NoFile \in FileRow /\ NoFile.status = "absent"
  BY DEF NoFile, FileRow
<1>2. /\ files' \in [FileIds -> FileRow]
      /\ files'[f] = NoFile /\ \A g \in FileIds : g # f => files'[g] = files[g]
  BY <1>1 DEF DeleteRow, IInv, TypeOK
<1> QED BY <1>1, <1>2, FilesStepKeeps DEF DeleteRow, FileExists, IInv, TypeOK

\* The clock makes a PROCESSING file stale.
LEMMA FileTimesOutKeeps ==
  ASSUME IInv, NEW f \in FileIds, FileTimesOut(f)
  PROVE  IInv'
<1>1. /\ files' \in [FileIds -> FileRow]
      /\ \A g \in FileIds : files'[g].status = files[g].status
                            /\ files'[g].content = files[g].content
  <2>1. files[f] \in FileRow
    BY DEF IInv, TypeOK
  <2>2. /\ [files[f] EXCEPT !.stale = TRUE] \in FileRow
        /\ [files[f] EXCEPT !.stale = TRUE].status = files[f].status
        /\ [files[f] EXCEPT !.stale = TRUE].content = files[f].content
    BY <2>1 DEF FileRow
  <2> QED BY <2>2 DEF FileTimesOut, IInv, TypeOK
<1> QED BY <1>1, FilesStepKeeps DEF FileTimesOut, FileExists, apiVars, IInv, TypeOK

\* The clock makes a PROCESSING job stale.
LEMMA JobTimesOutKeeps ==
  ASSUME IInv, NEW j \in JobIds, JobTimesOut(j)
  PROVE  IInv'
<1> DEFINE row == [jobs[j] EXCEPT !.stale = TRUE]
<1>1. /\ row \in JobRow /\ row.status = jobs[j].status /\ row.file = jobs[j].file
      /\ row.content = jobs[j].content /\ row.attempt = jobs[j].attempt
      /\ row.finished = jobs[j].finished
  <2>1. jobs[j] \in JobRow
    BY DEF IInv, TypeOK
  <2> QED BY <2>1 DEF JobRow
<1>2. jobs' = [jobs EXCEPT ![j] = row]
  BY DEF JobTimesOut
<1>3. /\ jobs' \in [JobIds -> JobRow] /\ jobs'[j] = row
      /\ \A k \in JobIds : k # j => jobs'[k] = jobs[k]
  BY <1>1, <1>2 DEF IInv, TypeOK
<1> HIDE DEF row
<1>4. TypeOK'
  BY <1>3 DEF JobTimesOut, apiVars, IInv, TypeOK
<1>5. RowsOK' /\ JobsKept
  BY <1>1, <1>3 DEF JobTimesOut, IInv, RowsOK, FileExists, JobsKept, JobExists
<1>6. \A f \in FileIds : FileKept(f)
  BY <1>1, <1>3 DEF JobTimesOut, apiVars, FileKept, OpenJob, JobExists
<1> QED BY <1>4, <1>5, <1>6, TableStepKeeps DEF JobTimesOut

\* The maintenance deletes finished jobs nobody holds and fails stale files: no
\* open job goes, no file is queued.
LEMMA MaintainKeeps ==
  ASSUME IInv, NEW expired \in SUBSET Prunable, Maintain(expired)
  PROVE  IInv'
<1>1. NoJob \in JobRow /\ NoJob.status = "absent"
  BY PipelineAssumption DEF NoJob, JobRow, Attempts
<1>2. \A f \in FileIds : files[f] \in FileRow
  BY DEF IInv, TypeOK
<1>3. \A f \in FileIds :
        LET row == [files[f] EXCEPT !.status = "FAILED", !.stale = FALSE]
        IN  row \in FileRow /\ row.status = "FAILED" /\ row.content = files[f].content
  BY <1>2 DEF FileRow, Statuses
<1>4. /\ files' \in [FileIds -> FileRow]
      /\ \A f \in FileIds : /\ files'[f].content = files[f].content
                            /\ files'[f].status = "QUEUED" => files[f].status = "QUEUED"
                            /\ FileExists(f)' => FileExists(f)
  BY <1>2, <1>3 DEF Maintain, StaleFiles, FileExists
<1>5. docs' \in [Contents -> Statuses \cup {"absent"}]
  BY DEF Maintain, Statuses, IInv, TypeOK
<1>6. /\ jobs' \in [JobIds -> JobRow]
      /\ \A j \in JobIds : j \in expired => jobs'[j] = NoJob
      /\ \A j \in JobIds : j \notin expired => jobs'[j] = jobs[j]
  BY <1>1 DEF Maintain, IInv, TypeOK
<1>7. \A j \in expired : jobs[j].finished /\ ~InUse(j)
  BY DEF Prunable
<1>8. TypeOK'
  BY <1>4, <1>5, <1>6 DEF Maintain, apiVars, IInv, TypeOK
<1>9. RowsOK'
  BY <1>1, <1>4, <1>6 DEF IInv, RowsOK, JobExists
<1>10. JobsKept
  BY <1>6, <1>7 DEF JobsKept, JobExists
<1>11. ASSUME NEW f \in FileIds PROVE FileKept(f)
  <2>1. \A j \in JobIds : OpenJob(j, f) => OpenJob(j, f)'
    BY <1>6, <1>7 DEF OpenJob, JobExists
  <2> QED BY <1>4, <2>1 DEF FileKept, Maintain, apiVars
<1> QED BY <1>8, <1>9, <1>10, <1>11, TableStepKeeps DEF Maintain

\* The API process dies: the files it was about to enqueue become stranded.
LEMMA ApiCrashKeeps ==
  ASSUME IInv, ApiCrash
  PROVE  IInv'
<1>1. TypeOK'
  BY PipelineAssumption DEF ApiCrash, tables, IInv, TypeOK
<1>2. RowsOK' /\ JobsKept
  BY DEF ApiCrash, tables, IInv, RowsOK, FileExists, JobsKept, JobExists
<1>3. \A g \in FileIds : FileKept(g)
  BY DEF ApiCrash, tables, FileExists, FileKept, OpenJob, JobExists
<1> QED BY <1>1, <1>2, <1>3, TableStepKeeps DEF ApiCrash

\* Steps outside the pipeline.
LEMMA StutterKeeps ==
  ASSUME IInv, UNCHANGED vars
  PROVE  IInv'
  BY OutsideKeeps DEF vars, tables, IInv, TypeOK

-----------------------------------------------------------------------------
(* The theorems.                                                            *)

\* The empty database satisfies the invariant.
LEMMA InitIInv == Init => IInv
<1> SUFFICES ASSUME Init PROVE IInv
  OBVIOUS
<1>1. NoFile \in FileRow /\ NoFile.status = "absent"
  BY DEF NoFile, FileRow
<1>2. NoJob \in JobRow /\ NoJob.status = "absent"
  BY PipelineAssumption DEF NoJob, JobRow, Attempts
<1>3. IdleDrain \in DrainState /\ IdleDrain.pc = "idle"
  BY PipelineAssumption DEF IdleDrain, DrainState, PCs, Attempts
<1>4. TypeOK
  BY <1>1, <1>2, <1>3, PipelineAssumption DEF Init, TypeOK, Statuses
<1>5. RowsOK /\ QueuedFileHasWork
  BY <1>1, <1>2 DEF Init, RowsOK, FileExists, JobExists, QueuedFileHasWork
<1>6. DrainsOK /\ FirstAttemptIsExclusive
  BY <1>3 DEF Init, DrainsOK, DrainOK, Busy, FirstAttemptIsExclusive, Holds
<1> QED BY <1>4, <1>5, <1>6 DEF IInv

\* Every step of the pipeline keeps the invariant.
LEMMA NextIInv == IInv /\ [Next]_vars => IInv'
<1> SUFFICES ASSUME IInv, [Next]_vars PROVE IInv'
  OBVIOUS
<1>1. ASSUME NEW c \in Contents, UploadStep(c) PROVE IInv'
  BY <1>1, WriteBlobKeeps, RegisterNewKeeps, RegisterFailedKeeps, RegisterKnownKeeps,
     RegisterBlobGoneKeeps DEF UploadStep
<1>2. ASSUME NEW f \in FileIds, FileStep(f) PROVE IInv'
  BY <1>2, IngestResetKeeps, IngestEnqueueKeeps, IngestRowGoneKeeps, IngestActiveKeeps,
     DeleteUnlinkKeeps, DeleteRowKeeps, FileTimesOutKeeps DEF FileStep
<1>3. ASSUME NEW w \in Drains, DrainStep(w) PROVE IInv'
  BY <1>3, SelectJobKeeps, ClaimJobKeeps, ClaimLostKeeps, BeginFileMissingKeeps,
     BeginAlreadyDoneKeeps, BeginKeeps, ClearPagesKeeps, OpenRowGoneKeeps, OpenFileKeeps,
     OpenFailsKeeps, PersistPageKeeps, PersistFailsKeeps, IndexChunksKeeps,
     FinalizeFileMissingKeeps, FinalizeKeeps, TransactionRaisesKeeps, GiveUpKeeps,
     PrepareRetryKeeps, EnqueueRetryKeeps, HandlerRaisesKeeps DEF DrainStep
<1>4. CASE Next
  BY <1>1, <1>2, <1>3, <1>4, DrainCrashKeeps, JobTimesOutKeeps, MaintainKeeps,
     ApiCrashKeeps DEF Next
<1>5. CASE UNCHANGED vars
  BY <1>5, StutterKeeps
<1> QED BY <1>4, <1>5

\* The invariant holds in every reachable state.
LEMMA Inductive == Spec => []IInv
  BY InitIInv, NextIInv, PTL DEF Spec

\* Type correctness: the tables and the drains keep their shape; no drain works on
\* a row that is not there, and no page number leaves the document.
THEOREM TypeCorrect == Spec => []TypeOK
<1>1. IInv => TypeOK
  BY DEF IInv
<1> QED BY <1>1, Inductive, PTL

\* No QUEUED file is forgotten: for any number of drains, files and jobs, through
\* retries, stale recovery, deletion, maintenance and crashes, a QUEUED file has an
\* open job or somebody who is about to insert one, unless that somebody failed.
THEOREM QueuedFileIsNotForgotten == Spec => []QueuedFileHasWork
<1>1. IInv => QueuedFileHasWork
  BY DEF IInv
<1> QED BY <1>1, Inductive, PTL

\* The optimistic claim of dequeue_next_job is exclusive for a job that was never
\* recovered: however many drains interleave their SELECTs and UPDATEs, a job at
\* attempt 0 is in the hands of at most one of them.
THEOREM FirstAttemptExclusion == Spec => []FirstAttemptIsExclusive
<1>1. IInv => FirstAttemptIsExclusive
  BY DEF IInv
<1> QED BY <1>1, Inductive, PTL
=============================================================================
