------------------------ MODULE IngestPromiseProofs ------------------------
(***************************************************************************)
(* One drain loop and no deletes: for every number of uploads, rows,       *)
(* pages, retries, requests and crashes, with ingests that outlast the     *)
(* processing timeout, a COMPLETED file is whole, and the pipeline         *)
(* implements IngestPromise.                                               *)
(*                                                                         *)
(* CompletedIsWhole is not inductive.  What carries it from step to step   *)
(* is that a job and the drain that works on it mean the row they were     *)
(* made for (TrueOf: no row goes, none is used again), that nobody         *)
(* completes a file under the drain, and that its pages are exactly those  *)
(* the drain has written since it cleared them.                            *)
(*                                                                         *)
(* The last sections prove what else one drain loop guarantees: finished   *)
(* jobs and completed files are not reopened by what an earlier attempt, a *)
(* duplicate job or the maintenance still does, and documents follow their *)
(* files.  Each gets the part of the invariant it needs: the job in hand   *)
(* is open (OpenInHand), and no two rows hold the same content             *)
(* (RowsDiffer).                                                           *)
(***************************************************************************)
EXTENDS IngestPipelineProofs

OneDrain == \A v, w \in Drains : v = w
SingleDrain == OneDrain /\ Deletions = FALSE

\* File row f is there and holds content c.
TrueOf(f, c) == f \in FileIds /\ FileExists(f) /\ files[f].content = c

JobsTrue == \A j \in JobIds : JobExists(j) => TrueOf(jobs[j].file, jobs[j].content)

AtWork == {"clearing", "opening", "paging", "indexing", "finalizing"}

\* The drain works on the row its job was made for, which nobody else completes,
\* and whose pages are those it has written itself.
WorkTrue(w) ==
  LET f == drain[w].file
  IN /\ Busy(w) => TrueOf(f, drain[w].content)
     /\ drain[w].pc \in AtWork => files[f].status # "COMPLETED"
     /\ drain[w].pc = "opening" => pages[f] = {}
     /\ drain[w].pc = "paging" => pages[f] = 1..(drain[w].page - 1)
     /\ drain[w].pc = "indexing" => pages[f] = Pages
     /\ drain[w].pc = "finalizing" /\ drain[w].ok =>
          pages[f] = Pages /\ drain[w].content \in indexed

\* The inductive invariant; it needs IInv beside it.
WholeInv ==
  /\ deleting = {}
  /\ JobsTrue
  /\ \A w \in Drains : WorkTrue(w)
  /\ CompletedIsWhole

\* A step of the promise, or none that a client could see.
PromiseStep == Promise!Next \/ UNCHANGED Promise!vars

-----------------------------------------------------------------------------
(* What a step has to leave alone.                                          *)

\* No file row goes or changes its content.
FilesStay == \A f \in FileIds :
               FileExists(f) => FileExists(f)' /\ files'[f].content = files[f].content

\* No file becomes COMPLETED.
NoneCompletes == \A f \in FileIds :
                   files'[f].status = "COMPLETED" => files[f].status = "COMPLETED"

\* No job row is new or changes what it was made for.
JobsStay == \A j \in JobIds :
              JobExists(j)' => /\ JobExists(j) /\ jobs'[j].file = jobs[j].file
                               /\ jobs'[j].content = jobs[j].content

\* A row that stays goes on to hold its content.
LEMMA TrueStays ==
  ASSUME FilesStay, NEW f, NEW c, TrueOf(f, c)
  PROVE  TrueOf(f, c)'
  BY DEF FilesStay, TrueOf

\* Old jobs stay true of their files.
LEMMA OldJobsTrue ==
  ASSUME JobsTrue, FilesStay, JobsStay
  PROVE  JobsTrue'
  BY DEF JobsTrue, FilesStay, JobsStay, TrueOf

\* A new job is true of the file it is inserted for.
LEMMA NewJobTrue ==
  ASSUME IInv, JobsTrue, FilesStay, NEW j \in JobIds, NEW f \in FileIds,
         NEW c \in Contents, NEW a \in Attempts, InsertJob(j, f, c, a),
         FileExists(f)', files'[f].content = c
  PROVE  JobsTrue'
<1>1. /\ \A k \in JobIds : k # j => jobs'[k] = jobs[k]
      /\ jobs'[j].file = f /\ jobs'[j].content = c
  BY InsertJobEffect DEF IInv, TypeOK
<1>2. ASSUME NEW k \in JobIds, k # j, JobExists(k)'
      PROVE  /\ jobs'[k].file \in FileIds /\ FileExists(jobs[k].file)'
             /\ files'[jobs'[k].file].content = jobs'[k].content
  BY <1>1, <1>2 DEF JobsTrue, JobExists, TrueOf, FilesStay
<1>3. /\ jobs'[j].file \in FileIds /\ FileExists(jobs[j].file)'
      /\ files'[jobs'[j].file].content = jobs'[j].content
  BY <1>1 DEF TrueOf, FileExists
<1> QED BY <1>2, <1>3 DEF JobsTrue, TrueOf

\* A COMPLETED file stays whole while pages and index are left alone.
LEMMA WholeStays ==
  ASSUME CompletedIsWhole, FilesStay, NoneCompletes, UNCHANGED <<pages, indexed>>
  PROVE  CompletedIsWhole'
  BY DEF CompletedIsWhole, FilesStay, NoneCompletes, FileExists

\* The API, the clock and the maintenance move no drain.
LEMMA OutsideKeepsWhole ==
  ASSUME WholeInv, FilesStay, NoneCompletes, JobsTrue', deleting' = {},
         UNCHANGED <<drain, pages, indexed>>
  PROVE  WholeInv'
<1>1. ASSUME NEW w \in Drains PROVE WorkTrue(w)'
  <2>1. WorkTrue(w)
    BY DEF WholeInv
  <2>2. Busy(w) => TrueOf(drain[w].file, drain[w].content)'
    BY <2>1, TrueStays DEF WorkTrue
  <2>3. drain[w].pc \in AtWork => drain[w].file \in FileIds
    BY <2>1 DEF WorkTrue, TrueOf, AtWork, Busy
  <2> QED BY <2>1, <2>2, <2>3 DEF WorkTrue, Busy, NoneCompletes
<1> QED BY <1>1, WholeStays DEF WholeInv

\* A step of the one drain.
LEMMA DrainKeepsWhole ==
  ASSUME SingleDrain, WholeInv, NEW w \in Drains, WorkTrue(w)', JobsTrue',
         CompletedIsWhole', deleting' = deleting
  PROVE  WholeInv'
  BY DEF WholeInv, SingleDrain, OneDrain

\* A step after which the drain has no job in hand.
LEMMA DoneKeepsWhole ==
  ASSUME SingleDrain, WholeInv, NEW w \in Drains, ~Busy(w)', JobsTrue',
         UNCHANGED <<files, pages, indexed, deleting>>
  PROVE  WholeInv'
<1>1. WorkTrue(w)'
  BY DEF WorkTrue, Busy, AtWork
<1>2. CompletedIsWhole'
  BY DEF WholeInv, CompletedIsWhole
<1> QED BY <1>1, <1>2, DrainKeepsWhole

-----------------------------------------------------------------------------
(* What a client sees of a step.                                            *)

\* Only file f is shown differently.
LEMMA ShowsOne ==
  ASSUME NEW f \in FileIds, NEW s, ShownAs(files'[f].status) = s,
         \A g \in FileIds : g # f => ShownAs(files'[g].status) = ShownAs(files[g].status)
  PROVE  Shown' = [Shown EXCEPT ![f] = s]
  BY DEF Shown

\* Every file is shown as before.
LEMMA ShowsSame ==
  ASSUME \A g \in FileIds : ShownAs(files'[g].status) = ShownAs(files[g].status)
  PROVE  Shown' = Shown
  BY DEF Shown

\* Only file f holds something else.
LEMMA HoldsOne ==
  ASSUME NEW f \in FileIds, NEW c, files'[f].content = c,
         \A g \in FileIds : g # f => files'[g] = files[g]
  PROVE  Held' = [Held EXCEPT ![f] = c]
  BY DEF Held

\* Every file holds what it held.
LEMMA HoldsSame ==
  ASSUME \A g \in FileIds : files'[g].content = files[g].content
  PROVE  Held' = Held
  BY DEF Held

\* A step that touches neither files, pages, index nor uploads is not seen.
LEMMA Unseen ==
  ASSUME UNCHANGED <<files, pages, indexed, uploading>>
  PROVE  PromiseStep
<1>1. Shown' = Shown /\ Held' = Held
  BY ShowsSame, HoldsSame
<1> QED BY <1>1 DEF PromiseStep, Promise!vars

\* A file that becomes QUEUED or PROCESSING is shown pending from then on.
LEMMA SeenPending ==
  ASSUME IInv, NEW f \in FileIds, FileExists(f), NEW s \in {"QUEUED", "PROCESSING"},
         files'[f].status = s, \A g \in FileIds : g # f => files'[g] = files[g],
         \A g \in FileIds : files'[g].content = files[g].content,
         UNCHANGED <<pages, indexed, uploading>>
  PROVE  PromiseStep
<1>1. Shown' = [Shown EXCEPT ![f] = "pending"]
  <2>1. ShownAs(s) = "pending"
    BY DEF ShownAs
  <2> QED BY <2>1, ShowsOne
<1>2. Held' = Held
  BY HoldsSame
<1>3. Shown[f] \in {"pending", "failed", "ready"}
  BY DEF Shown, ShownAs, FileExists, IInv, TypeOK, FileRow, Statuses
<1>4. CASE Shown[f] = "pending"
  <2>1. Shown' = Shown
    BY <1>1, <1>4 DEF Shown
  <2> QED BY <1>2, <2>1 DEF PromiseStep, Promise!vars
<1>5. CASE Shown[f] \in {"failed", "ready"}
  <2>1. Promise!Requeue(f)
    BY <1>1, <1>2, <1>5 DEF Promise!Requeue, Promise!Shows
  <2> QED BY <2>1 DEF PromiseStep, Promise!Next
<1> QED BY <1>3, <1>4, <1>5

\* A file the drain works on is shown pending or failed.
LEMMA NotReady ==
  ASSUME IInv, NEW f \in FileIds, FileExists(f), files[f].status # "COMPLETED"
  PROVE  Shown[f] \in {"pending", "failed"}
  BY DEF Shown, ShownAs, FileExists, IInv, TypeOK, FileRow, Statuses

-----------------------------------------------------------------------------
(* The API.                                                                 *)

\* A step that writes neither files nor jobs, nor moves a drain.
LEMMA ApiQuiet ==
  ASSUME WholeInv, deleting' = {}, UNCHANGED <<files, jobs, pages, indexed, drain>>
  PROVE  WholeInv'
<1>1. FilesStay /\ NoneCompletes /\ JobsStay
  BY DEF FilesStay, NoneCompletes, JobsStay, FileExists, JobExists
<1> QED BY <1>1, OldJobsTrue, OutsideKeepsWhole DEF WholeInv

\* A file is queued for a content: an upload registers it, or finds it FAILED.
LEMMA QueueFileGood ==
  ASSUME IInv, WholeInv, NEW f \in FileIds, NEW c \in Contents, NEW j \in JobIds,
         files[f].status = "absent" \/ (files[f].status = "FAILED" /\ files[f].content = c),
         files' = [files EXCEPT ![f] = QueuedFile(c)], InsertJob(j, f, c, 0),
         c \in uploading, uploading' = uploading \ {c},
         UNCHANGED <<pages, indexed, drain, deleting>>
  PROVE  WholeInv' /\ PromiseStep
<1>1. /\ files'[f].status = "QUEUED" /\ files'[f].content = c
      /\ \A g \in FileIds : g # f => files'[g] = files[g]
  BY DEF QueuedFile, IInv, TypeOK
<1>2. FilesStay /\ NoneCompletes
  BY <1>1 DEF FilesStay, NoneCompletes, FileExists
<1>3. FileExists(f)' /\ 0 \in Attempts
  BY <1>1, PipelineAssumption DEF FileExists, Attempts
<1>4. WholeInv'
  BY <1>1, <1>2, <1>3, NewJobTrue, OutsideKeepsWhole DEF WholeInv
<1>5. Shown' = [Shown EXCEPT ![f] = "pending"]
  <2>1. ShownAs("QUEUED") = "pending"
    BY DEF ShownAs
  <2> QED BY <1>1, <2>1, ShowsOne
<1>6. Held' = [Held EXCEPT ![f] = c]
  BY <1>1, HoldsOne
<1>7. Shown[f] = "none" \/ (Shown[f] = "failed" /\ Held[f] = c)
  BY DEF Shown, ShownAs, Held
<1>8. Promise!Accept(f, c)
  BY <1>5, <1>6, <1>7 DEF Promise!Accept, Promise!Shows
<1> QED BY <1>4, <1>8 DEF PromiseStep, Promise!Next

\* Every way an upload goes on.
LEMMA UploadGood ==
  ASSUME IInv, WholeInv, NEW c \in Contents, UploadStep(c)
  PROVE  WholeInv' /\ PromiseStep
<1>1. CASE WriteBlob(c)
  <2>1. WholeInv'
    BY <1>1, ApiQuiet DEF WriteBlob, tables, WholeInv
  <2>2. Shown' = Shown /\ Held' = Held
    BY <1>1, ShowsSame, HoldsSame DEF WriteBlob, tables
  <2>3. Promise!Send(c)
    BY <1>1, <2>2 DEF Promise!Send, WriteBlob, tables
  <2> QED BY <2>1, <2>3 DEF PromiseStep, Promise!Next
<1>2. CASE RegisterNew(c)
  <2>1. PICK f \in FileIds, j \in JobIds :
          NextFileId(f) /\ files' = [files EXCEPT ![f] = QueuedFile(c)] /\ InsertJob(j, f, c, 0)
    BY <1>2 DEF RegisterNew
  <2>2. files[f].status = "absent"
    BY <2>1 DEF NextFileId, FileExists, FileIds
  <2> QED BY <1>2, <2>1, <2>2, QueueFileGood DEF RegisterNew
<1>3. CASE RegisterFailed(c)
  <2>1. PICK f \in FileIds, j \in JobIds :
          /\ files[f].content = c /\ files[f].status = "FAILED"
          /\ files' = [files EXCEPT ![f] = QueuedFile(c)] /\ InsertJob(j, f, c, 0)
    BY <1>3 DEF RegisterFailed
  <2> QED BY <1>3, <2>1, QueueFileGood DEF RegisterFailed
<1>4. CASE RegisterKnown(c)
  <2>1. PICK f \in FileIds : files' = [files EXCEPT ![f].stale = FALSE]
    BY <1>4 DEF RegisterKnown
  <2>2. \A g \in FileIds : /\ files'[g].status = files[g].status
                           /\ files'[g].content = files[g].content
    BY <2>1 DEF IInv, TypeOK, FileRow
  <2>3. FilesStay /\ NoneCompletes /\ JobsStay
    BY <1>4, <2>2 DEF RegisterKnown, FilesStay, NoneCompletes, JobsStay, FileExists, JobExists
  <2>4. WholeInv'
    BY <1>4, <2>3, OldJobsTrue, OutsideKeepsWhole DEF RegisterKnown, WholeInv
  <2>5. Shown' = Shown /\ Held' = Held
    BY <2>2, ShowsSame, HoldsSame
  <2>6. Promise!Withdraw
    BY <1>4, <2>5 DEF Promise!Withdraw, RegisterKnown
  <2> QED BY <2>4, <2>6 DEF PromiseStep, Promise!Next
<1>5. CASE RegisterBlobGone(c)
  <2>1. WholeInv'
    BY <1>5, ApiQuiet DEF RegisterBlobGone, tables, WholeInv
  <2>2. Shown' = Shown /\ Held' = Held
    BY <1>5, ShowsSame, HoldsSame DEF RegisterBlobGone, tables
  <2>3. Promise!Withdraw
    BY <1>5, <2>2 DEF Promise!Withdraw, RegisterBlobGone, tables
  <2> QED BY <2>1, <2>3 DEF PromiseStep, Promise!Next
<1> QED BY <1>1, <1>2, <1>3, <1>4, <1>5 DEF UploadStep

\* A job is inserted for a file that is there.
LEMMA EnqueueGood ==
  ASSUME IInv, WholeInv, NEW f \in FileIds, FileExists(f), NEW j \in JobIds,
         InsertJob(j, f, files[f].content, 0),
         UNCHANGED <<files, pages, indexed, drain, uploading, deleting>>
  PROVE  WholeInv' /\ PromiseStep
<1>1. FilesStay /\ NoneCompletes
  BY DEF FilesStay, NoneCompletes, FileExists
<1>2. files[f].content \in Contents /\ 0 \in Attempts
  BY PipelineAssumption DEF IInv, RowsOK, Attempts
<1>3. FileExists(f)' /\ files'[f].content = files[f].content
  BY DEF FileExists
<1>4. JobsTrue'
  BY <1>1, <1>2, <1>3, NewJobTrue DEF WholeInv
<1> QED BY <1>1, <1>4, OutsideKeepsWhole, Unseen DEF WholeInv

\* POST /ingest, DELETE /file and the clock.
LEMMA FileStepGood ==
  ASSUME SingleDrain, IInv, WholeInv, NEW f \in FileIds, FileStep(f)
  PROVE  WholeInv' /\ PromiseStep
<1>1. ASSUME NEW force \in BOOLEAN, IngestReset(f, force)
      PROVE  WholeInv' /\ PromiseStep
  <2>1. SetStatus(f, files[f].content, "QUEUED") /\ "QUEUED" \in Statuses
    BY <1>1 DEF IngestReset, Statuses
  <2>2. /\ \A g \in FileIds : files'[g].content = files[g].content
        /\ \A g \in FileIds : g # f => files'[g] = files[g]
        /\ files'[f].status = "QUEUED"
    BY <2>1, SetStatusEffect DEF IInv, TypeOK
  <2>3. FilesStay /\ NoneCompletes /\ JobsStay
    BY <1>1, <2>2 DEF IngestReset, FilesStay, NoneCompletes, JobsStay, FileExists, JobExists
  <2>4. WholeInv'
    BY <1>1, <2>3, OldJobsTrue, OutsideKeepsWhole DEF IngestReset, WholeInv
  <2> QED BY <1>1, <2>2, <2>4, SeenPending DEF IngestReset
<1>2. CASE IngestEnqueue(f)
  BY <1>2, EnqueueGood DEF IngestEnqueue
<1>3. CASE IngestRowGone(f)
  BY <1>3, ApiQuiet, Unseen DEF IngestRowGone, tables, WholeInv
<1>4. CASE IngestActive(f)
  <2>1. FileExists(f)
    BY <1>4 DEF IngestActive, FileExists
  <2> QED BY <1>4, <2>1, EnqueueGood DEF IngestActive
<1>5. ~DeleteUnlink(f) /\ ~DeleteRow(f)
  BY DEF DeleteUnlink, DeleteRow, SingleDrain, WholeInv
<1>6. CASE FileTimesOut(f)
  <2>1. \A g \in FileIds : /\ files'[g].status = files[g].status
                           /\ files'[g].content = files[g].content
    BY <1>6 DEF FileTimesOut, IInv, TypeOK, FileRow
  <2>2. FilesStay /\ NoneCompletes /\ JobsStay
    BY <1>6, <2>1 DEF FileTimesOut, FilesStay, NoneCompletes, JobsStay, FileExists, JobExists
  <2>3. WholeInv'
    BY <1>6, <2>2, OldJobsTrue, OutsideKeepsWhole DEF FileTimesOut, apiVars, WholeInv
  <2>4. Shown' = Shown /\ Held' = Held
    BY <2>1, ShowsSame, HoldsSame
  <2> QED BY <1>6, <2>3, <2>4 DEF PromiseStep, Promise!vars, FileTimesOut, apiVars
<1> QED BY <1>1, <1>2, <1>3, <1>4, <1>5, <1>6 DEF FileStep

-----------------------------------------------------------------------------
(* The drain.                                                               *)

\* The drain takes a job in hand, or lets it go, without a client seeing it.
LEMMA SelectGood ==
  ASSUME SingleDrain, IInv, WholeInv, NEW w \in Drains,
         (\E j \in JobIds : SelectJob(w, j)) \/ ClaimLost(w) \/ GiveUp(w) \/ DrainCrash(w)
  PROVE  WholeInv' /\ PromiseStep
<1>1. ~Busy(w)'
  <2>1. ASSUME Idle(w) PROVE ~Busy(w)'
    BY <2>1, IdleEffect DEF IInv, TypeOK, Busy
  <2>2. ASSUME NEW j \in JobIds, SelectJob(w, j) PROVE ~Busy(w)'
    <3> DEFINE r == [IdleDrain EXCEPT !.pc = "selected", !.job = j, !.seen = jobs[j].status,
                                      !.attempt = jobs[j].attempt]
    <3>1. r.pc = "selected"
      BY DEF IdleDrain
    <3>2. drain' = [drain EXCEPT ![w] = r]
      BY <2>2 DEF SelectJob
    <3> HIDE DEF r
    <3> QED BY <3>1, <3>2 DEF IInv, TypeOK, Busy
  <2> QED BY <2>1, <2>2 DEF ClaimLost, GiveUp, DrainCrash
<1>2. UNCHANGED <<files, jobs, pages, indexed, deleting, uploading>>
  BY DEF SelectJob, ClaimLost, GiveUp, DrainCrash, tables, apiVars
<1>3. FilesStay /\ JobsStay
  BY <1>2 DEF FilesStay, JobsStay, FileExists, JobExists
<1> QED BY <1>1, <1>2, <1>3, OldJobsTrue, DoneKeepsWhole, Unseen DEF WholeInv

\* The claim reads file and content from the job row.
LEMMA ClaimJobGood ==
  ASSUME SingleDrain, IInv, WholeInv, NEW w \in Drains, ClaimJob(w)
  PROVE  WholeInv' /\ PromiseStep
<1> DEFINE j == drain[w].job
           a == IF drain[w].seen = "PROCESSING" THEN Bump(jobs[j].attempt)
                                                ELSE jobs[j].attempt
           r == [drain[w] EXCEPT !.pc = "claimed", !.file = jobs[j].file,
                                 !.content = jobs[j].content, !.attempt = a]
           row == [jobs[j] EXCEPT !.status = "PROCESSING", !.stale = FALSE, !.attempt = a]
<1>1. j \in JobIds /\ JobExists(j)
  BY DEF ClaimJob, StillAsSeen, IInv, DrainsOK, DrainOK, JobExists
<1>2. drain[w] \in DrainState /\ jobs[j] \in JobRow
  BY <1>1 DEF IInv, TypeOK
<1>3. r.pc = "claimed" /\ r.file = jobs[j].file /\ r.content = jobs[j].content
  BY <1>2 DEF DrainState
<1>4. row.file = jobs[j].file /\ row.content = jobs[j].content
  BY <1>2 DEF JobRow
<1>5. jobs' = [jobs EXCEPT ![j] = row] /\ drain' = [drain EXCEPT ![w] = r]
  BY DEF ClaimJob
<1> HIDE DEF r, row
<1>6. drain'[w] = r
  BY <1>5 DEF IInv, TypeOK
<1>7. JobsStay
  BY <1>1, <1>4, <1>5 DEF JobsStay, JobExists, IInv, TypeOK
<1>8. FilesStay /\ NoneCompletes
  BY DEF ClaimJob, FilesStay, NoneCompletes, FileExists
<1>9. JobsTrue'
  BY <1>7, <1>8, OldJobsTrue DEF WholeInv
<1>10. WorkTrue(w)'
  BY <1>1, <1>3, <1>6 DEF ClaimJob, WholeInv, JobsTrue, TrueOf, FileExists, WorkTrue, AtWork
<1>11. CompletedIsWhole'
  BY <1>8, WholeStays DEF ClaimJob, WholeInv
<1> QED BY <1>9, <1>10, <1>11, DrainKeepsWhole, Unseen DEF ClaimJob, apiVars

\* _begin_processing finds the file COMPLETED; it never finds it gone.
LEMMA BeginStopsGood ==
  ASSUME SingleDrain, IInv, WholeInv, NEW w \in Drains,
         BeginAlreadyDone(w) \/ BeginFileMissing(w)
  PROVE  WholeInv' /\ PromiseStep
<1>1. ~BeginFileMissing(w)
  BY DEF BeginFileMissing, WholeInv, WorkTrue, TrueOf, Busy
<1>2. ~Busy(w)'
  BY <1>1, IdleEffect DEF BeginAlreadyDone, IInv, TypeOK, Busy
<1>3. FilesStay /\ UNCHANGED <<files, pages, indexed, deleting, uploading>>
  BY <1>1 DEF BeginAlreadyDone, apiVars, FilesStay, FileExists
<1>4. JobsStay
  <2>1. CASE UNCHANGED jobs
    BY <2>1 DEF JobsStay, JobExists
  <2>2. CASE FinishJob(drain[w].job, "COMPLETED")
    <3>1. drain[w].job \in JobIds /\ "COMPLETED" \in Terminal
      BY <1>1 DEF BeginAlreadyDone, IInv, DrainsOK, DrainOK, Busy, Terminal
    <3> QED BY <2>2, <3>1, FinishJobEffect DEF JobsStay, IInv, TypeOK
  <2> QED BY <1>1, <2>1, <2>2 DEF BeginAlreadyDone
<1> QED BY <1>2, <1>3, <1>4, OldJobsTrue, DoneKeepsWhole, Unseen DEF WholeInv

\* _begin_processing makes the file PROCESSING.
LEMMA BeginGood ==
  ASSUME SingleDrain, IInv, WholeInv, NEW w \in Drains, Begin(w)
  PROVE  WholeInv' /\ PromiseStep
<1> DEFINE j == drain[w].job
           f == drain[w].file
           row == [jobs[j] EXCEPT !.status = "PROCESSING", !.stale = FALSE]
<1>1. j \in JobIds /\ JobExists(j) /\ f \in FileIds /\ TrueOf(f, drain[w].content)
  BY DEF Begin, IInv, DrainsOK, DrainOK, Busy, WholeInv, WorkTrue
<1>2. drain' \in [Drains -> DrainState] /\ Kept(w) /\ drain'[w].pc = "clearing"
  BY GotoEffect DEF Begin, PCs, IInv, TypeOK
<1>3. /\ files'[f].status = "PROCESSING"
      /\ \A g \in FileIds : files'[g].content = files[g].content
      /\ \A g \in FileIds : g # f => files'[g] = files[g]
  BY <1>1, SetStatusEffect DEF Begin, IInv, TypeOK, Statuses
<1>4. row.file = jobs[j].file /\ row.content = jobs[j].content
  BY <1>1 DEF IInv, TypeOK, JobRow
<1>5. jobs' = [jobs EXCEPT ![j] = row]
  BY <1>1 DEF Begin
<1>6. JobsStay
  <2> HIDE DEF row, j
  <2> QED BY <1>1, <1>4, <1>5 DEF JobsStay, JobExists, IInv, TypeOK
<1>7. FilesStay /\ NoneCompletes
  BY <1>1, <1>3 DEF FilesStay, NoneCompletes, FileExists
<1>8. JobsTrue'
  BY <1>6, <1>7, OldJobsTrue DEF WholeInv
<1>9. WorkTrue(w)'
  BY <1>1, <1>2, <1>3 DEF Kept, TrueOf, FileExists, WorkTrue
<1>10. CompletedIsWhole'
  BY <1>7, WholeStays DEF Begin, WholeInv
<1>11. WholeInv'
  BY <1>8, <1>9, <1>10, DrainKeepsWhole DEF Begin, apiVars
<1>12. PromiseStep
  BY <1>1, <1>3, SeenPending DEF Begin, apiVars, TrueOf
<1> QED BY <1>11, <1>12

\* A drain that works on and changes neither tables nor index.
LEMMA MoveGood ==
  ASSUME SingleDrain, IInv, WholeInv, NEW w \in Drains, WorkTrue(w)',
         UNCHANGED <<files, jobs, pages, indexed, deleting, uploading>>
  PROVE  WholeInv' /\ PromiseStep
<1>1. FilesStay /\ NoneCompletes /\ JobsStay
  BY DEF FilesStay, NoneCompletes, JobsStay, FileExists, JobExists
<1> QED BY <1>1, OldJobsTrue, WholeStays, DrainKeepsWhole, Unseen DEF WholeInv

\* The drain writes the pages of the file it works on, which is not shown ready.
LEMMA PagesGood ==
  ASSUME SingleDrain, IInv, WholeInv, NEW w \in Drains, WorkTrue(w)', drain[w].pc \in AtWork,
         NEW read \in SUBSET Pages, pages' = [pages EXCEPT ![drain[w].file] = read],
         UNCHANGED <<files, jobs, indexed, deleting, uploading>>
  PROVE  WholeInv' /\ PromiseStep
<1> DEFINE f == drain[w].file
<1>1. /\ f \in FileIds /\ FileExists(f) /\ files[f].status # "COMPLETED"
  BY DEF WholeInv, WorkTrue, TrueOf, Busy, AtWork
<1>2. JobsTrue'
  BY DEF WholeInv, JobsTrue, TrueOf, JobExists, FileExists
<1>3. CompletedIsWhole'
  BY <1>1 DEF WholeInv, CompletedIsWhole
<1>4. Shown[f] \in {"pending", "failed"}
  BY <1>1, NotReady
<1>5. Shown' = Shown /\ Held' = Held
  BY ShowsSame, HoldsSame
<1>6. Promise!Work(f)
  BY <1>4, <1>5 DEF Promise!Work
<1> QED BY <1>1, <1>2, <1>3, <1>6, DrainKeepsWhole DEF PromiseStep, Promise!Next

\* The second transaction of _begin_processing; the row is always there.
LEMMA ClearPagesGood ==
  ASSUME SingleDrain, IInv, WholeInv, NEW w \in Drains, ClearPages(w)
  PROVE  WholeInv' /\ PromiseStep
<1>1. /\ TrueOf(drain[w].file, drain[w].content) /\ files[drain[w].file].status # "COMPLETED"
  BY DEF ClearPages, Busy, AtWork, WholeInv, WorkTrue
<1>2. /\ pages' = [pages EXCEPT ![drain[w].file] = {}] /\ Goto(w, "opening")
      /\ UNCHANGED <<files, jobs, indexed, deleting, uploading>>
  BY <1>1 DEF ClearPages, TrueOf, apiVars
<1>3. Kept(w) /\ drain'[w].pc = "opening"
  BY <1>2, GotoEffect DEF PCs, IInv, TypeOK
<1>4. pages'[drain[w].file] = {}
  BY <1>1, <1>2 DEF TrueOf, IInv, TypeOK
<1>5. WorkTrue(w)'
  BY <1>1, <1>2, <1>3, <1>4 DEF Kept, TrueOf, FileExists, WorkTrue
<1>6. drain[w].pc \in AtWork /\ {} \in SUBSET Pages
  BY DEF ClearPages, AtWork
<1> QED BY <1>2, <1>5, <1>6, PagesGood

\* _ingest_file fails, at the payload or at a page: what it wrote stays.
LEMMA IngestFailsGood ==
  ASSUME SingleDrain, IInv, WholeInv, NEW w \in Drains, Outcome(w, FALSE),
         drain[w].pc \in {"opening", "paging"},
         UNCHANGED <<files, jobs, pages, indexed, deleting, uploading>>
  PROVE  WholeInv' /\ PromiseStep
<1>1. Kept(w) /\ drain'[w].pc = "finalizing"
  BY OutcomeEffect DEF IInv, TypeOK
<1>2. drain'[w].ok = FALSE
  BY DEF Outcome, IInv, TypeOK, DrainState
<1>3. TrueOf(drain[w].file, drain[w].content) /\ files[drain[w].file].status # "COMPLETED"
  BY DEF Busy, AtWork, WholeInv, WorkTrue
<1>4. WorkTrue(w)'
  BY <1>1, <1>2, <1>3 DEF Kept, TrueOf, FileExists, WorkTrue
<1> QED BY <1>4, MoveGood

\* The payload is parsed: page 1 is next, and no page is there.
LEMMA OpenFileGood ==
  ASSUME SingleDrain, IInv, WholeInv, NEW w \in Drains, OpenFile(w)
  PROVE  WholeInv' /\ PromiseStep
<1> DEFINE r == [drain[w] EXCEPT !.pc = "paging", !.page = 1]
<1>1. drain[w] \in DrainState
  BY DEF IInv, TypeOK
<1>2. r.pc = "paging" /\ r.page = 1 /\ r.file = drain[w].file /\ r.content = drain[w].content
  BY <1>1 DEF DrainState
<1>3. drain' = [drain EXCEPT ![w] = r]
  BY DEF OpenFile
<1> HIDE DEF r
<1>4. drain'[w] = r
  BY <1>3 DEF IInv, TypeOK
<1>5. /\ TrueOf(drain[w].file, drain[w].content) /\ files[drain[w].file].status # "COMPLETED"
      /\ pages[drain[w].file] = {}
  BY DEF OpenFile, Busy, AtWork, WholeInv, WorkTrue
<1>6. {} = 1..(1 - 1)
  OBVIOUS
<1>7. UNCHANGED <<files, jobs, pages, indexed, deleting, uploading>>
  BY DEF OpenFile, tables, apiVars
<1>8. WorkTrue(w)'
  BY <1>2, <1>4, <1>5, <1>6, <1>7 DEF TrueOf, FileExists, WorkTrue
<1> QED BY <1>7, <1>8, MoveGood

\* _persist_page adds the next page; the unique key is never hit.
LEMMA PersistPageGood ==
  ASSUME SingleDrain, IInv, WholeInv, NEW w \in Drains, PersistPage(w)
  PROVE  WholeInv' /\ PromiseStep
<1> DEFINE f == drain[w].file
           p == drain[w].page
           l == IF p = PageCount THEN "indexing" ELSE "paging"
           r == [drain[w] EXCEPT !.page = p + 1, !.pc = l]
<1>1. /\ TrueOf(f, drain[w].content) /\ files[f].status # "COMPLETED"
      /\ pages[f] = 1..(p - 1) /\ p \in Pages /\ drain[w] \in DrainState
  BY DEF PersistPage, Busy, AtWork, WholeInv, WorkTrue, IInv, DrainsOK, DrainOK, TypeOK
<1>2. p \notin pages[f] /\ pages[f] \cup {p} = 1..p /\ 1..p \subseteq Pages
  BY <1>1, PipelineAssumption DEF Pages
<1>3. /\ pages' = [pages EXCEPT ![f] = 1..p] /\ drain' = [drain EXCEPT ![w] = r]
      /\ UNCHANGED <<files, jobs, indexed, deleting, uploading>>
  BY <1>2 DEF PersistPage, apiVars
<1>4. r.pc = l /\ r.page = p + 1 /\ r.file = f /\ r.content = drain[w].content
  BY <1>1 DEF DrainState
<1>5. l = "paging" \/ (l = "indexing" /\ 1..p = Pages)
  BY DEF Pages
<1>6. (p + 1) - 1 = p
  BY <1>1 DEF Pages
<1> HIDE DEF r, l
<1>7. drain'[w] = r /\ pages'[f] = 1..p
  BY <1>1, <1>3 DEF IInv, TypeOK, TrueOf
<1> HIDE DEF f, p
<1>8. WorkTrue(w)'
  <2>1. drain'[w].pc = l /\ drain'[w].page = p + 1 /\ drain'[w].file = f
        /\ drain'[w].content = drain[w].content
    BY <1>4, <1>7
  <2> QED BY <1>1, <1>3, <1>5, <1>6, <1>7, <2>1 DEF TrueOf, FileExists, WorkTrue
<1> QED BY <1>2, <1>3, <1>8, PagesGood DEF PersistPage, AtWork, f

\* The content becomes searchable while its file is not shown ready.
LEMMA IndexChunksGood ==
  ASSUME SingleDrain, IInv, WholeInv, NEW w \in Drains, IndexChunks(w)
  PROVE  WholeInv' /\ PromiseStep
<1> DEFINE f == drain[w].file
           c == drain[w].content
<1>1. f \in FileIds /\ FileExists(f) /\ files[f].content = c /\ files[f].status # "COMPLETED"
  BY DEF IndexChunks, Busy, AtWork, WholeInv, WorkTrue, TrueOf
<1>2. /\ indexed' = indexed \cup {c} /\ Outcome(w, TRUE)
      /\ UNCHANGED <<files, jobs, pages, deleting, uploading>> /\ pages[f] = Pages
  BY DEF IndexChunks, tables, apiVars, WholeInv, WorkTrue
<1>3. Kept(w) /\ drain'[w].pc = "finalizing"
  BY <1>2, OutcomeEffect DEF IInv, TypeOK
<1>4. WorkTrue(w)'
  BY <1>1, <1>2, <1>3 DEF Kept, TrueOf, FileExists, WorkTrue
<1>5. JobsTrue'
  BY <1>2 DEF WholeInv, JobsTrue, TrueOf, JobExists, FileExists
<1>6. CompletedIsWhole'
  BY <1>2 DEF WholeInv, CompletedIsWhole
<1>7. Shown' = Shown /\ Held' = Held
  BY <1>2, ShowsSame, HoldsSame
<1>8. Shown[f] \in {"pending", "failed"} /\ Held[f] = c
  BY <1>1, NotReady DEF Held
<1>9. Promise!Index(f)
  BY <1>2, <1>7, <1>8 DEF Promise!Index
<1> QED BY <1>1, <1>2, <1>4, <1>5, <1>6, <1>9, DrainKeepsWhole DEF PromiseStep, Promise!Next

\* After _finalize and after an error the drain still has its job, or has none.
LEMMA LetsGo ==
  ASSUME IInv, WholeInv, FilesStay, NEW w \in Drains,
         drain'[w].pc = "idle" \/ (drain'[w].pc = "failing" /\ Kept(w) /\ Busy(w))
  PROVE  WorkTrue(w)'
<1>1. CASE drain'[w].pc = "idle"
  BY <1>1 DEF WorkTrue, Busy, AtWork
<1>2. CASE drain'[w].pc = "failing" /\ Kept(w) /\ Busy(w)
  <2>1. TrueOf(drain[w].file, drain[w].content)
    BY <1>2 DEF WholeInv, WorkTrue
  <2> QED BY <1>2, <2>1 DEF FilesStay, Kept, TrueOf, WorkTrue, AtWork
<1> QED BY <1>1, <1>2

\* _finalize_job: COMPLETED only for a file whose pages are whole and indexed.
LEMMA FinalizeGood ==
  ASSUME SingleDrain, IInv, WholeInv, NEW w \in Drains, Finalize(w) \/ FinalizeFileMissing(w)
  PROVE  WholeInv' /\ PromiseStep
<1> DEFINE s == IF drain[w].ok THEN "COMPLETED" ELSE "FAILED"
           f == drain[w].file
<1>1. /\ Busy(w) /\ f \in FileIds /\ FileExists(f) /\ files[f].content = drain[w].content
      /\ files[f].status # "COMPLETED"
      /\ drain[w].ok => pages[f] = Pages /\ files[f].content \in indexed
  BY DEF Finalize, FinalizeFileMissing, Busy, AtWork, WholeInv, WorkTrue, TrueOf
<1>2. Finalize(w)
  BY <1>1 DEF FinalizeFileMissing
<1>3. drain'[w].pc = "idle" \/ (drain'[w].pc = "failing" /\ Kept(w))
  BY <1>2, AfterFinalizeEffect DEF Finalize, IInv, TypeOK
<1>4. s \in Terminal /\ s \in Statuses
  BY DEF Terminal, Statuses
<1>5. SetStatus(f, drain[w].content, s) /\ FinishJob(drain[w].job, s)
      /\ UNCHANGED <<pages, indexed, deleting, uploading>>
  BY <1>2 DEF Finalize, apiVars
<1>6. s = "COMPLETED" => drain[w].ok
  OBVIOUS
<1> HIDE DEF s
<1>7. /\ \A g \in FileIds : files'[g].content = files[g].content
      /\ \A g \in FileIds : g # f => files'[g] = files[g]
      /\ files'[f].status = s
  BY <1>1, <1>4, <1>5, SetStatusEffect DEF IInv, TypeOK
<1> HIDE DEF f
<1>8. FilesStay
  BY <1>4, <1>7 DEF FilesStay, FileExists, Terminal
<1>9. JobsStay
  <2>1. drain[w].job \in JobIds
    BY <1>1 DEF IInv, DrainsOK, DrainOK
  <2> QED BY <1>4, <1>5, <2>1, FinishJobEffect DEF JobsStay, IInv, TypeOK
<1>10. WorkTrue(w)'
  BY <1>1, <1>3, <1>8, LetsGo
<1>11. CompletedIsWhole'
  BY <1>1, <1>5, <1>6, <1>7 DEF WholeInv, CompletedIsWhole
<1>12. WholeInv'
  BY <1>5, <1>8, <1>9, <1>10, <1>11, OldJobsTrue, DrainKeepsWhole DEF WholeInv
<1>13. Held' = Held
  BY <1>7, HoldsSame
<1>14. Shown[f] \in {"pending", "failed"}
  BY <1>1, NotReady DEF f
<1>15. CASE s = "COMPLETED"
  <2>1. Shown' = [Shown EXCEPT ![f] = "ready"]
    <3>1. ShownAs(s) = "ready"
      BY <1>15 DEF ShownAs
    <3> QED BY <1>1, <1>7, <3>1, ShowsOne DEF f
  <2>2. Held[f] = files[f].content
    BY <1>1 DEF Held, f
  <2>3. pages[f] = Pages /\ Held[f] \in indexed
    BY <1>1, <1>6, <1>15, <2>2 DEF f
  <2>4. Promise!Finish(f) /\ f \in FileIds
    BY <1>1, <1>5, <1>13, <1>14, <2>1, <2>3 DEF Promise!Finish, Promise!Shows, f
  <2> QED BY <1>12, <2>4 DEF PromiseStep, Promise!Next
<1>16. CASE s = "FAILED"
  <2>1. Shown' = [Shown EXCEPT ![f] = "failed"]
    <3>1. ShownAs(s) = "failed"
      BY <1>16 DEF ShownAs
    <3> QED BY <1>1, <1>7, <3>1, ShowsOne DEF f
  <2>2. CASE Shown[f] = "failed"
    <3>1. Shown' = Shown
      BY <2>1, <2>2 DEF Shown
    <3> QED BY <1>5, <1>12, <1>13, <3>1 DEF PromiseStep, Promise!vars
  <2>3. CASE Shown[f] = "pending"
    <3>1. Shown' = [g \in FileIds |-> IF g \in {f} THEN "failed" ELSE Shown[g]]
      BY <2>1 DEF Shown
    <3>2. Promise!Fail({f}) /\ {f} \in SUBSET FileIds
      BY <1>1, <1>5, <1>13, <2>3, <3>1 DEF Promise!Fail, f
    <3> QED BY <1>12, <3>2 DEF PromiseStep, Promise!Next
  <2> QED BY <1>14, <2>2, <2>3
<1> QED BY <1>4, <1>15, <1>16 DEF Terminal

\* A database error: the drain goes to _handle_failure, or comes back to it.
LEMMA RaisesGood ==
  ASSUME SingleDrain, IInv, WholeInv, NEW w \in Drains, TransactionRaises(w) \/ HandlerRaises(w)
  PROVE  WholeInv' /\ PromiseStep
<1>1. UNCHANGED <<files, jobs, pages, indexed, deleting, uploading>>
  BY DEF TransactionRaises, HandlerRaises, tables, apiVars
<1>2. TrueOf(drain[w].file, drain[w].content)
  BY DEF TransactionRaises, HandlerRaises, Busy, WholeInv, WorkTrue
<1>3. /\ drain'[w].pc = "failing" /\ drain'[w].file = drain[w].file
      /\ drain'[w].content = drain[w].content
  BY DEF TransactionRaises, HandlerRaises, Goto, IInv, TypeOK, DrainState
<1>4. WorkTrue(w)'
  BY <1>1, <1>2, <1>3 DEF WorkTrue, AtWork, TrueOf, FileExists
<1> QED BY <1>1, <1>4, MoveGood

\* _handle_failure queues the file again, with the content its row has.
LEMMA PrepareRetryGood ==
  ASSUME SingleDrain, IInv, WholeInv, NEW w \in Drains, PrepareRetry(w)
  PROVE  WholeInv' /\ PromiseStep
<1> DEFINE f == drain[w].file
<1>1. f \in FileIds /\ FileExists(f)
  BY DEF PrepareRetry, IInv, DrainsOK, DrainOK, Busy
<1>2. /\ files'[f].status = "QUEUED"
      /\ \A g \in FileIds : files'[g].content = files[g].content
      /\ \A g \in FileIds : g # f => files'[g] = files[g]
  BY <1>1, SetStatusEffect DEF PrepareRetry, IInv, TypeOK, Statuses
<1>3. /\ drain'[w].pc = "backoff" /\ drain'[w].file = f
      /\ drain'[w].content = files[f].content
  BY DEF PrepareRetry, IInv, TypeOK, DrainState
<1>4. UNCHANGED <<jobs, pages, indexed, deleting, uploading>>
  BY DEF PrepareRetry, apiVars
<1> HIDE DEF f
<1>5. FilesStay /\ NoneCompletes /\ JobsStay
  BY <1>1, <1>2, <1>4 DEF FilesStay, NoneCompletes, JobsStay, FileExists, JobExists
<1>6. WorkTrue(w)'
  BY <1>1, <1>2, <1>3 DEF WorkTrue, AtWork, TrueOf, FileExists
<1>7. WholeInv'
  BY <1>4, <1>5, <1>6, OldJobsTrue, WholeStays, DrainKeepsWhole DEF WholeInv
<1>8. PromiseStep
  BY <1>1, <1>2, <1>4, SeenPending
<1> QED BY <1>7, <1>8

\* The retry is inserted for the row and content the drain holds.
LEMMA EnqueueRetryGood ==
  ASSUME SingleDrain, IInv, WholeInv, NEW w \in Drains, EnqueueRetry(w)
  PROVE  WholeInv' /\ PromiseStep
<1> DEFINE f == drain[w].file
           c == drain[w].content
           a == drain[w].attempt
<1>1. PICK j \in JobIds :
        /\ InsertJob(j, f, c, a)
        /\ drain' = [drain EXCEPT ![w].pc = "claimed", ![w].job = j]
  BY DEF EnqueueRetry
<1>2. /\ TrueOf(f, c) /\ c \in Contents /\ a \in Attempts /\ drain[w] \in DrainState
  BY DEF EnqueueRetry, Busy, WholeInv, WorkTrue, IInv, DrainsOK, DrainOK, TypeOK, DrainState
<1>3. UNCHANGED <<files, pages, indexed, deleting, uploading>>
  BY DEF EnqueueRetry, apiVars
<1>4. drain'[w].pc = "claimed" /\ drain'[w].file = f /\ drain'[w].content = c
  BY <1>1, <1>2 DEF IInv, TypeOK, DrainState
<1>5. FilesStay /\ NoneCompletes
  BY <1>3 DEF FilesStay, NoneCompletes, FileExists
<1>6. JobsTrue'
  BY <1>1, <1>2, <1>3, <1>5, NewJobTrue DEF WholeInv, TrueOf, FileExists
<1>7. WorkTrue(w)'
  BY <1>2, <1>3, <1>4 DEF WorkTrue, AtWork, TrueOf, FileExists
<1>8. CompletedIsWhole'
  BY <1>3, <1>5, WholeStays DEF WholeInv
<1> QED BY <1>3, <1>6, <1>7, <1>8, DrainKeepsWhole, Unseen

\* Every step of a drain.
LEMMA DrainStepGood ==
  ASSUME SingleDrain, IInv, WholeInv, NEW w \in Drains, DrainStep(w) \/ DrainCrash(w)
  PROVE  WholeInv' /\ PromiseStep
<1>1. ~OpenRowGone(w)
  BY DEF OpenRowGone, WholeInv, WorkTrue, TrueOf, Busy
<1>2. CASE OpenFails(w) \/ PersistFails(w)
  BY <1>2, IngestFailsGood DEF OpenFails, PersistFails, tables, apiVars
<1> QED BY <1>1, <1>2, SelectGood, ClaimJobGood, BeginStopsGood, BeginGood, ClearPagesGood,
           OpenFileGood, PersistPageGood, IndexChunksGood, FinalizeGood, RaisesGood,
           PrepareRetryGood, EnqueueRetryGood DEF DrainStep

-----------------------------------------------------------------------------
(* Time, maintenance and crashes.                                           *)

\* The clock makes a job stale: no client sees it.
LEMMA JobTimesOutGood ==
  ASSUME IInv, WholeInv, NEW j \in JobIds, JobTimesOut(j)
  PROVE  WholeInv' /\ PromiseStep
<1>1. UNCHANGED <<files, pages, indexed, drain, deleting, uploading>>
  BY DEF JobTimesOut, apiVars
<1>2. FilesStay /\ NoneCompletes
  BY <1>1 DEF FilesStay, NoneCompletes, FileExists
<1>3. JobsStay
  BY DEF JobTimesOut, JobsStay, JobExists, IInv, TypeOK, JobRow
<1> QED BY <1>1, <1>2, <1>3, OldJobsTrue, OutsideKeepsWhole, Unseen DEF WholeInv

\* The maintenance fails the files that are shown pending and stale.
LEMMA MaintainGood ==
  ASSUME IInv, WholeInv, NEW expired \in SUBSET Prunable, Maintain(expired)
  PROVE  WholeInv' /\ PromiseStep
<1>1. UNCHANGED <<pages, indexed, drain, deleting, uploading>>
  BY DEF Maintain, apiVars
<1>2. ASSUME NEW f \in FileIds
      PROVE  /\ f \in StaleFiles => files'[f].status = "FAILED"
             /\ f \notin StaleFiles => files'[f] = files[f]
             /\ files'[f].content = files[f].content
  BY DEF Maintain, IInv, TypeOK, FileRow
<1>3. StaleFiles \in SUBSET FileIds /\ \A f \in StaleFiles : files[f].status = "PROCESSING"
  BY DEF StaleFiles
<1>4. FilesStay /\ NoneCompletes
  BY <1>2 DEF FilesStay, NoneCompletes, FileExists
<1>5. JobsStay
  BY DEF Maintain, JobsStay, JobExists, NoJob
<1>6. WholeInv'
  BY <1>1, <1>4, <1>5, OldJobsTrue, OutsideKeepsWhole DEF WholeInv
<1>7. Held' = Held
  BY <1>2, HoldsSame
<1>8. Shown' = [f \in FileIds |-> IF f \in StaleFiles THEN "failed" ELSE Shown[f]]
  <2>1. ShownAs("FAILED") = "failed"
    BY DEF ShownAs
  <2> QED BY <1>2, <2>1 DEF Shown
<1>9. \A f \in StaleFiles : Shown[f] = "pending"
  <2>1. ShownAs("PROCESSING") = "pending"
    BY DEF ShownAs
  <2> QED BY <1>3, <2>1 DEF Shown
<1>10. Promise!Fail(StaleFiles)
  BY <1>1, <1>7, <1>8, <1>9 DEF Promise!Fail
<1> QED BY <1>3, <1>6, <1>10 DEF PromiseStep, Promise!Next

\* The API process dies: the uploads in progress are withdrawn.
LEMMA ApiCrashGood ==
  ASSUME IInv, WholeInv, ApiCrash
  PROVE  WholeInv' /\ PromiseStep
<1>1. WholeInv'
  BY ApiQuiet DEF ApiCrash, tables
<1>2. Shown' = Shown /\ Held' = Held
  BY ShowsSame, HoldsSame DEF ApiCrash, tables
<1>3. Promise!Withdraw
  BY <1>2 DEF Promise!Withdraw, ApiCrash, tables
<1> QED BY <1>1, <1>3 DEF PromiseStep, Promise!Next

-----------------------------------------------------------------------------
(* A COMPLETED file is whole, and the promise is kept.                      *)

\* The empty database.
LEMMA InitWhole == Init => WholeInv
<1> SUFFICES ASSUME Init PROVE WholeInv
  OBVIOUS
<1>1. \A f \in FileIds : files[f].status = "absent"
  BY DEF Init, NoFile
<1>2. \A j \in JobIds : ~JobExists(j)
  BY DEF Init, NoJob, JobExists
<1>3. \A w \in Drains : drain[w].pc = "idle"
  BY DEF Init, IdleDrain
<1> QED BY <1>1, <1>2, <1>3 DEF Init, WholeInv, JobsTrue, WorkTrue, Busy, AtWork, CompletedIsWhole

\* Every step keeps the invariant, and is one of the promise or not seen.
LEMMA NextWhole ==
  ASSUME SingleDrain
  PROVE  IInv /\ WholeInv /\ [Next]_vars => WholeInv' /\ [Promise!Next]_(Promise!vars)
<1> SUFFICES ASSUME IInv, WholeInv, [Next]_vars PROVE WholeInv' /\ PromiseStep
  BY DEF PromiseStep
<1>1. CASE Next
  BY <1>1, UploadGood, FileStepGood, DrainStepGood, JobTimesOutGood, MaintainGood, ApiCrashGood
     DEF Next
<1>2. CASE UNCHANGED vars
  BY <1>2, ApiQuiet, Unseen DEF vars, tables, WholeInv
<1> QED BY <1>1, <1>2

\* However often attempts fail, time out, crash or are repeated by duplicate jobs:
\* where one loop drains the queue and nothing is deleted, a file the table calls
\* COMPLETED has every page and was handed to the vector store.
THEOREM CompletedFileIsWhole == ASSUME SingleDrain PROVE Spec => []CompletedIsWhole
<1>1. IInv /\ WholeInv /\ [Next]_vars => WholeInv'
  BY NextWhole
<1>2. Spec => []WholeInv
  BY <1>1, InitWhole, Inductive, PTL DEF Spec
<1>3. WholeInv => CompletedIsWhole
  BY DEF WholeInv
<1> QED BY <1>2, <1>3, PTL

\* In the same deployment the pipeline implements IngestPromise: every step of it is
\* a step of the promise, or is not seen by a client.
THEOREM PipelineKeepsPromise == ASSUME SingleDrain PROVE Spec => KeepsPromise
<1>1. Init => Promise!Init
  BY DEF Init, Promise!Init, Shown, ShownAs, NoFile
<1>2. IInv /\ WholeInv /\ [Next]_vars => WholeInv' /\ [Promise!Next]_(Promise!vars)
  BY NextWhole
<1> QED BY <1>1, <1>2, InitWhole, Inductive, PTL DEF Spec, KeepsPromise, Promise!Spec

-----------------------------------------------------------------------------
(* Completed files.                                                         *)

Settles == \A f \in FileIds : files[f].status = "COMPLETED" =>
             files'[f].status \notin {"FAILED", "PROCESSING"}

\* Setting the status of file f is harmless if f is not COMPLETED, or becomes QUEUED.
LEMMA SettlesOne ==
  ASSUME IInv, NEW f \in FileIds, NEW c, NEW s \in Statuses, SetStatus(f, c, s),
         files[f].status # "COMPLETED" \/ s = "QUEUED"
  PROVE  Settles
<1>1. \A g \in FileIds : g # f => files'[g] = files[g]
  BY SetStatusEffect DEF IInv, TypeOK
<1>2. files'[f].status = s
  BY SetStatusEffect DEF IInv, TypeOK
<1> QED BY <1>1, <1>2 DEF Settles

\* No step declares a COMPLETED file FAILED or PROCESSING.
LEMMA StepSettles ==
  ASSUME IInv, WholeInv, [Next]_vars
  PROVE  Settles
<1>1. ASSUME NEW c \in Contents, UploadStep(c) PROVE Settles
  <2>1. CASE WriteBlob(c) \/ RegisterBlobGone(c)
    BY <2>1 DEF WriteBlob, RegisterBlobGone, tables, Settles
  <2>2. CASE RegisterNew(c) \/ RegisterFailed(c)
    BY <2>2 DEF RegisterNew, RegisterFailed, QueuedFile, Settles, IInv, TypeOK
  <2>3. CASE RegisterKnown(c)
    BY <2>3 DEF RegisterKnown, Settles, IInv, TypeOK, FileRow
  <2> QED BY <1>1, <2>1, <2>2, <2>3 DEF UploadStep
<1>2. ASSUME NEW f \in FileIds, FileStep(f) PROVE Settles
  <2>1. ASSUME NEW force \in BOOLEAN, IngestReset(f, force) PROVE Settles
    BY <2>1, SettlesOne DEF IngestReset, Statuses
  <2>2. CASE IngestEnqueue(f) \/ IngestRowGone(f) \/ IngestActive(f) \/ DeleteUnlink(f)
    BY <2>2 DEF IngestEnqueue, IngestRowGone, IngestActive, DeleteUnlink, tables, Settles
  <2>3. CASE DeleteRow(f)
    BY <2>3 DEF DeleteRow, WholeInv
  <2>4. CASE FileTimesOut(f)
    BY <2>4 DEF FileTimesOut, Settles, IInv, TypeOK, FileRow
  <2> QED BY <1>2, <2>1, <2>2, <2>3, <2>4 DEF FileStep
<1>3. ASSUME NEW w \in Drains, DrainStep(w) \/ DrainCrash(w) PROVE Settles
  <2>1. CASE Begin(w)
    <3>1. drain[w].file \in FileIds
      BY <2>1 DEF Begin, IInv, DrainsOK, DrainOK, Busy
    <3> QED BY <2>1, <3>1, SettlesOne DEF Begin, Statuses
  <2>2. CASE Finalize(w)
    <3> DEFINE s == IF drain[w].ok THEN "COMPLETED" ELSE "FAILED"
    <3>1. drain[w].file \in FileIds /\ files[drain[w].file].status # "COMPLETED"
      BY <2>2 DEF Finalize, WholeInv, WorkTrue, TrueOf, Busy, AtWork
    <3>2. SetStatus(drain[w].file, drain[w].content, s) /\ s \in Statuses
      BY <2>2 DEF Finalize, Statuses
    <3> HIDE DEF s
    <3> QED BY <3>1, <3>2, SettlesOne
  <2>3. CASE PrepareRetry(w)
    <3>1. drain[w].file \in FileIds
      BY <2>3 DEF PrepareRetry, IInv, DrainsOK, DrainOK, Busy
    <3> QED BY <2>3, <3>1, SettlesOne DEF PrepareRetry, Statuses
  <2>4. CASE UNCHANGED files
    BY <2>4 DEF Settles
  <2> QED BY <1>3, <2>1, <2>2, <2>3, <2>4
          DEF DrainStep, DrainCrash, SelectJob, ClaimJob, ClaimLost, BeginFileMissing,
              BeginAlreadyDone, ClearPages, OpenRowGone, OpenFile, OpenFails, PersistPage,
              PersistFails, IndexChunks, FinalizeFileMissing, TransactionRaises, GiveUp,
              EnqueueRetry, HandlerRaises, tables
<1>4. ASSUME NEW j \in JobIds, JobTimesOut(j) PROVE Settles
  BY <1>4 DEF JobTimesOut, Settles
<1>5. ASSUME NEW expired \in SUBSET Prunable, Maintain(expired) PROVE Settles
  BY <1>5 DEF Maintain, StaleFiles, Settles
<1>6. CASE ApiCrash
  BY <1>6 DEF ApiCrash, tables, Settles
<1>7. CASE UNCHANGED vars
  BY <1>7 DEF vars, tables, Settles
<1> QED BY <1>1, <1>2, <1>3, <1>4, <1>5, <1>6, <1>7 DEF Next

\* Where one loop drains the queue and nothing is deleted, a COMPLETED file is never
\* declared FAILED or PROCESSING by whatever else is still under way for it.
THEOREM CompletedFileIsSettled == ASSUME SingleDrain PROVE Spec => CompletedIsSettled
<1>1. IInv /\ WholeInv /\ [Next]_vars => WholeInv'
  BY NextWhole
<1>2. IInv /\ WholeInv /\ [Next]_vars =>
        [\A f \in FileIds : files[f].status = "COMPLETED" =>
           files'[f].status \notin {"FAILED", "PROCESSING"}]_vars
  BY StepSettles DEF Settles
<1> QED BY <1>1, <1>2, InitWhole, Inductive, PTL DEF Spec, CompletedIsSettled

-----------------------------------------------------------------------------
(* Finished jobs.  Deletions do not matter here.                            *)

OpenStatuses == {"QUEUED", "PROCESSING"}

\* The job a drain is working on is not finished.
OpenInHand == \A w \in Drains : drain[w].pc \in AtWork \cup {"claimed"} =>
                jobs[drain[w].job].status \in OpenStatuses

FinishedStays == \A j \in JobIds : jobs[j].status \in Terminal =>
                   jobs'[j].status \in {jobs[j].status, "absent"}

\* A step that moves no drain and leaves the status of existing jobs in use alone.
LEMMA OutsideKeepsOpen ==
  ASSUME IInv, OpenInHand, drain' = drain,
         \A j \in JobIds : JobExists(j) /\ InUse(j) => jobs'[j].status = jobs[j].status
  PROVE  OpenInHand'
<1> SUFFICES ASSUME NEW w \in Drains, drain[w].pc \in AtWork \cup {"claimed"}
             PROVE  jobs'[drain[w].job].status \in OpenStatuses
  BY DEF OpenInHand
<1>1. drain[w].job \in JobIds /\ JobExists(drain[w].job) /\ InUse(drain[w].job)
  BY DEF AtWork, InUse, IInv, DrainsOK, DrainOK, Busy
<1> QED BY <1>1 DEF OpenInHand

\* A step that writes no job row, in which the drain takes none in hand.
LEMMA JobsUntouched ==
  ASSUME OneDrain, OpenInHand, jobs' = jobs, NEW w \in Drains,
         drain'[w].pc \in AtWork \cup {"claimed"} =>
           drain[w].pc \in AtWork \cup {"claimed"} /\ drain'[w].job = drain[w].job
  PROVE  OpenInHand' /\ FinishedStays
<1>1. \A v \in Drains : v = w
  BY DEF OneDrain
<1> QED BY <1>1 DEF OpenInHand, FinishedStays

\* Inserting a job leaves every other job alone.
LEMMA InsertStays ==
  ASSUME IInv, NEW j \in JobIds, NEW f, NEW c, NEW a, InsertJob(j, f, c, a)
  PROVE  /\ FinishedStays /\ jobs'[j].status = "QUEUED"
         /\ \A k \in JobIds : JobExists(k) => jobs'[k].status = jobs[k].status
<1>1. ~JobExists(j)
  BY DEF InsertJob, NextJobId, JobIds
<1>2. jobs'[j].status = "QUEUED" /\ \A k \in JobIds : k # j => jobs'[k] = jobs[k]
  BY DEF InsertJob, QueuedJob, IInv, TypeOK
<1> QED BY <1>1, <1>2 DEF FinishedStays, JobExists, Terminal

\* The drain that lets its open job go, finished or not.
LEMMA FinishStays ==
  ASSUME OneDrain, IInv, OpenInHand, NEW w \in Drains,
         drain[w].pc \in AtWork \cup {"claimed"}, NEW s \in Terminal,
         FinishJob(drain[w].job, s) \/ jobs' = jobs,
         drain'[w].pc \in {"idle", "failing"}
  PROVE  OpenInHand' /\ FinishedStays
<1>1. drain[w].job \in JobIds
  BY DEF AtWork, IInv, DrainsOK, DrainOK, Busy
<1>2. \A k \in JobIds : k # drain[w].job => jobs'[k] = jobs[k]
  BY <1>1, FinishJobEffect DEF IInv, TypeOK
<1>3. jobs[drain[w].job].status \notin Terminal
  BY DEF OpenInHand, OpenStatuses, Terminal
<1>4. FinishedStays
  BY <1>2, <1>3 DEF FinishedStays
<1>5. \A v \in Drains : v = w
  BY DEF OneDrain
<1> QED BY <1>4, <1>5 DEF OpenInHand, AtWork

\* The claim and _begin_processing write PROCESSING to an open job.
LEMMA ProcessingStays ==
  ASSUME OneDrain, IInv, NEW w \in Drains, NEW j \in JobIds, NEW a \in Attempts,
         jobs[j].status \in OpenStatuses, drain'[w].job = j,
         jobs' = [jobs EXCEPT ![j] = [jobs[j] EXCEPT !.status = "PROCESSING", !.stale = FALSE,
                                                     !.attempt = a]]
  PROVE  OpenInHand' /\ FinishedStays
<1> DEFINE row == [jobs[j] EXCEPT !.status = "PROCESSING", !.stale = FALSE, !.attempt = a]
<1>1. row.status = "PROCESSING"
  BY DEF IInv, TypeOK, JobRow
<1>2. jobs' = [jobs EXCEPT ![j] = row]
  OBVIOUS
<1> HIDE DEF row
<1>3. jobs'[j].status = "PROCESSING" /\ \A k \in JobIds : k # j => jobs'[k] = jobs[k]
  BY <1>1, <1>2 DEF IInv, TypeOK
<1>4. \A v \in Drains : v = w
  BY DEF OneDrain
<1>5. OpenInHand'
  BY <1>3, <1>4 DEF OpenInHand, OpenStatuses
<1>6. FinishedStays
  BY <1>3 DEF FinishedStays, OpenStatuses, Terminal
<1> QED BY <1>5, <1>6

\* Every step of a drain.
LEMMA DrainKeepsOpen ==
  ASSUME OneDrain, IInv, OpenInHand, NEW w \in Drains, DrainStep(w) \/ DrainCrash(w)
  PROVE  OpenInHand' /\ FinishedStays
<1>1. ASSUME Idle(w) PROVE drain'[w].pc = "idle"
  BY <1>1, IdleEffect DEF IInv, TypeOK
<1>2. ASSUME NEW l \in PCs, Goto(w, l) PROVE Kept(w) /\ drain'[w].pc = l
  BY <1>2, GotoEffect DEF IInv, TypeOK
<1>3. ASSUME NEW b \in BOOLEAN, Outcome(w, b) PROVE Kept(w)
  BY <1>3, OutcomeEffect DEF IInv, TypeOK
<1>4. CASE ClaimLost(w) \/ GiveUp(w) \/ DrainCrash(w)
  BY <1>1, <1>4, JobsUntouched DEF ClaimLost, GiveUp, DrainCrash, tables, AtWork
<1>5. ASSUME NEW j \in JobIds, SelectJob(w, j) PROVE OpenInHand' /\ FinishedStays
  <2> DEFINE r == [IdleDrain EXCEPT !.pc = "selected", !.job = j, !.seen = jobs[j].status,
                                    !.attempt = jobs[j].attempt]
  <2>1. r.pc = "selected"
    BY DEF IdleDrain
  <2>2. drain' = [drain EXCEPT ![w] = r] /\ jobs' = jobs
    BY <1>5 DEF SelectJob, tables
  <2> HIDE DEF r
  <2>3. drain'[w].pc = "selected"
    BY <2>1, <2>2 DEF IInv, TypeOK
  <2> QED BY <2>2, <2>3, JobsUntouched DEF AtWork
<1>6. CASE OpenRowGone(w) \/ OpenFails(w) \/ PersistFails(w) \/ IndexChunks(w)
  BY <1>3, <1>6, JobsUntouched
     DEF OpenRowGone, OpenFails, PersistFails, IndexChunks, tables, Kept, AtWork
<1>7. CASE ClearPages(w) \/ TransactionRaises(w)
  <2>1. Goto(w, "opening") \/ Goto(w, "failing")
    BY <1>7 DEF ClearPages, TransactionRaises
  <2>2. "opening" \in PCs /\ "failing" \in PCs
    BY DEF PCs
  <2>3. drain'[w].job = drain[w].job
    BY <1>2, <2>1, <2>2 DEF Kept
  <2> QED BY <1>7, <2>3, JobsUntouched DEF ClearPages, TransactionRaises, tables, AtWork
<1>8. CASE OpenFile(w) \/ PersistPage(w)
  <2>1. drain'[w].job = drain[w].job
    BY <1>8 DEF OpenFile, PersistPage, Outcome, IInv, TypeOK, DrainState
  <2> QED BY <1>8, <2>1, JobsUntouched DEF OpenFile, PersistPage, tables, AtWork
<1>9. CASE PrepareRetry(w) \/ HandlerRaises(w)
  <2>1. drain'[w].pc \in {"backoff", "failing"}
    BY <1>9 DEF PrepareRetry, HandlerRaises, IInv, TypeOK, DrainState
  <2> QED BY <1>9, <2>1, JobsUntouched DEF PrepareRetry, HandlerRaises, tables, AtWork
<1>10. CASE BeginFileMissing(w) \/ BeginAlreadyDone(w)
  BY <1>1, <1>10, FinishStays DEF BeginFileMissing, BeginAlreadyDone, Terminal
<1>11. CASE FinalizeFileMissing(w) \/ Finalize(w)
  <2>1. drain'[w].pc \in {"idle", "failing"}
    BY <1>11, AfterFinalizeEffect DEF FinalizeFileMissing, Finalize, IInv, TypeOK
  <2>2. /\ drain[w].pc \in AtWork
        /\ FinishJob(drain[w].job, "COMPLETED") \/ FinishJob(drain[w].job, "FAILED")
    BY <1>11 DEF FinalizeFileMissing, Finalize, AtWork
  <2> QED BY <2>1, <2>2, FinishStays DEF Terminal
<1>12. CASE ClaimJob(w)
  <2> DEFINE j == drain[w].job
             a == IF drain[w].seen = "PROCESSING" THEN Bump(jobs[j].attempt)
                                                  ELSE jobs[j].attempt
  <2>1. j \in JobIds /\ jobs[j].status \in OpenStatuses
    BY <1>12 DEF ClaimJob, StillAsSeen, IInv, DrainsOK, DrainOK, OpenStatuses
  <2>2. a \in Attempts
    BY <2>1, PipelineAssumption DEF IInv, TypeOK, JobRow, Attempts, Bump
  <2>3. drain'[w].job = j
    BY <1>12 DEF ClaimJob, IInv, TypeOK, DrainState
  <2>4. jobs' = [jobs EXCEPT ![j] = [jobs[j] EXCEPT !.status = "PROCESSING", !.stale = FALSE,
                                                    !.attempt = a]]
    BY <1>12 DEF ClaimJob
  <2> HIDE DEF j, a
  <2> QED BY <2>1, <2>2, <2>3, <2>4, ProcessingStays
<1>13. CASE Begin(w)
  <2> DEFINE j == drain[w].job
  <2>1. j \in JobIds /\ JobExists(j) /\ jobs[j] \in JobRow
    BY <1>13 DEF Begin, IInv, DrainsOK, DrainOK, Busy, TypeOK
  <2>2. jobs[j].status \in OpenStatuses
    BY <1>13 DEF Begin, OpenInHand
  <2>3. "clearing" \in PCs /\ Goto(w, "clearing")
    BY <1>13 DEF Begin, PCs
  <2>4. drain'[w].job = j
    BY <1>2, <2>3 DEF Kept
  <2>5. jobs' = [jobs EXCEPT ![j] = [jobs[j] EXCEPT !.status = "PROCESSING", !.stale = FALSE]]
    BY <1>13, <2>1 DEF Begin
  <2>6. [jobs[j] EXCEPT !.status = "PROCESSING", !.stale = FALSE]
          = [jobs[j] EXCEPT !.status = "PROCESSING", !.stale = FALSE, !.attempt = jobs[j].attempt]
    BY <2>1 DEF JobRow
  <2>7. jobs[j].attempt \in Attempts
    BY <2>1 DEF JobRow
  <2> HIDE DEF j
  <2> QED BY <2>1, <2>2, <2>4, <2>5, <2>6, <2>7, ProcessingStays
<1>14. CASE EnqueueRetry(w)
  <2>1. PICK j \in JobIds :
          /\ InsertJob(j, drain[w].file, drain[w].content, drain[w].attempt)
          /\ drain' = [drain EXCEPT ![w].pc = "claimed", ![w].job = j]
    BY <1>14 DEF EnqueueRetry
  <2>2. FinishedStays /\ jobs'[j].status = "QUEUED"
    BY <2>1, InsertStays
  <2>3. drain'[w].job = j
    BY <2>1 DEF IInv, TypeOK, DrainState
  <2>4. \A v \in Drains : v = w
    BY DEF OneDrain
  <2> QED BY <2>2, <2>3, <2>4 DEF OpenInHand, OpenStatuses
<1> QED BY <1>4, <1>5, <1>6, <1>7, <1>8, <1>9, <1>10, <1>11, <1>12, <1>13, <1>14 DEF DrainStep

\* Every step keeps finished jobs finished.
LEMMA NextKeepsOpen ==
  ASSUME OneDrain
  PROVE  IInv /\ OpenInHand /\ [Next]_vars => OpenInHand' /\ FinishedStays
<1> SUFFICES ASSUME IInv, OpenInHand, [Next]_vars PROVE OpenInHand' /\ FinishedStays
  OBVIOUS
<1>1. ASSUME UNCHANGED <<jobs, drain>> PROVE OpenInHand' /\ FinishedStays
  BY <1>1 DEF OpenInHand, FinishedStays
<1>2. ASSUME drain' = drain, NEW j \in JobIds, NEW f, NEW c, InsertJob(j, f, c, 0)
      PROVE  OpenInHand' /\ FinishedStays
  BY <1>2, InsertStays, OutsideKeepsOpen
<1>3. ASSUME NEW c \in Contents, UploadStep(c) PROVE OpenInHand' /\ FinishedStays
  BY <1>1, <1>2, <1>3 DEF UploadStep, WriteBlob, RegisterNew, RegisterFailed, RegisterKnown,
                          RegisterBlobGone, tables
<1>4. ASSUME NEW f \in FileIds, FileStep(f) PROVE OpenInHand' /\ FinishedStays
  BY <1>1, <1>2, <1>4 DEF FileStep, IngestReset, IngestEnqueue, IngestRowGone, IngestActive,
                          DeleteUnlink, DeleteRow, FileTimesOut, tables
<1>5. ASSUME NEW w \in Drains, DrainStep(w) \/ DrainCrash(w)
      PROVE  OpenInHand' /\ FinishedStays
  BY <1>5, DrainKeepsOpen
<1>6. ASSUME NEW j \in JobIds, JobTimesOut(j) PROVE OpenInHand' /\ FinishedStays
  <2>1. drain' = drain /\ \A k \in JobIds : jobs'[k].status = jobs[k].status
    BY <1>6 DEF JobTimesOut, IInv, TypeOK, JobRow
  <2> QED BY <2>1, OutsideKeepsOpen DEF FinishedStays
<1>7. ASSUME NEW expired \in SUBSET Prunable, Maintain(expired)
      PROVE  OpenInHand' /\ FinishedStays
  <2>1. /\ drain' = drain
        /\ \A k \in JobIds : jobs'[k].status = "absent" \/ jobs'[k] = jobs[k]
        /\ \A k \in JobIds : InUse(k) => jobs'[k] = jobs[k]
    BY <1>7 DEF Maintain, Prunable, NoJob
  <2> QED BY <2>1, OutsideKeepsOpen DEF FinishedStays
<1>8. CASE ApiCrash
  BY <1>1, <1>8 DEF ApiCrash, tables
<1>9. CASE UNCHANGED vars
  BY <1>1, <1>9 DEF vars, tables
<1> QED BY <1>3, <1>4, <1>5, <1>6, <1>7, <1>8, <1>9 DEF Next

\* Where one loop drains the queue, with or without deletes, a finished job row keeps
\* its outcome until the retention deletes it.
THEOREM FinishedJobIsFinal == ASSUME OneDrain PROVE Spec => FinishedJobStaysFinished
<1>1. Init => OpenInHand
  BY DEF Init, OpenInHand, IdleDrain, AtWork
<1>2. IInv /\ OpenInHand /\ [Next]_vars => OpenInHand'
  BY NextKeepsOpen
<1>3. IInv /\ OpenInHand /\ [Next]_vars =>
        [\A j \in JobIds : jobs[j].status \in Terminal =>
           jobs'[j].status \in {jobs[j].status, "absent"}]_vars
  BY NextKeepsOpen DEF FinishedStays
<1> QED BY <1>1, <1>2, <1>3, Inductive, PTL DEF Spec, FinishedJobStaysFinished

-----------------------------------------------------------------------------
(* Documents.                                                               *)

\* Rows that are there hold different contents; unused rows hold none.
RowsDiffer ==
  /\ \A f \in FileIds : ~FileExists(f) => files[f].content = NoContent
  /\ \A f, g \in FileIds :
       FileExists(f) /\ FileExists(g) /\ files[f].content = files[g].content => f = g

DocInv == RowsDiffer /\ DocumentMirrorsFile

\* A step that writes no document and changes the status of no file.
LEMMA DocsUntouched ==
  ASSUME DocInv, docs' = docs,
         \A f \in FileIds : files'[f].content = files[f].content
                            /\ files'[f].status = files[f].status
  PROVE  DocInv'
  BY DEF DocInv, RowsDiffer, DocumentMirrorsFile, FileExists

\* File and document change their status together.
LEMMA BothSet ==
  ASSUME IInv, DocInv, NEW f \in FileIds, FileExists(f), NEW s \in Statuses,
         SetStatus(f, files[f].content, s)
  PROVE  DocInv'
<1> DEFINE c == files[f].content
<1>1. /\ \A g \in FileIds : files'[g].content = files[g].content
      /\ \A g \in FileIds : g # f => files'[g] = files[g]
      /\ files'[f].status = s
  BY SetStatusEffect DEF IInv, TypeOK
<1>2. c \in Contents /\ docs' = [docs EXCEPT ![c] = s]
  BY DEF SetStatus, IInv, RowsOK
<1>3. docs'[c] = s /\ \A d \in Contents : d # c => docs'[d] = docs[d]
  BY <1>2 DEF IInv, TypeOK
<1>4. s # "absent"
  BY DEF Statuses
<1>5. RowsDiffer'
  BY <1>1, <1>4 DEF DocInv, RowsDiffer, FileExists
<1>6. ASSUME NEW g \in FileIds, files'[g].status \in {"PROCESSING"} \cup Terminal
      PROVE  docs'[files'[g].content] = files'[g].status
  <2>1. CASE g = f
    BY <1>1, <1>3, <2>1
  <2>2. CASE g # f
    <3>1. FileExists(g) /\ files[g].content \in Contents /\ files[g].content # c
      BY <1>1, <1>6, <2>2 DEF DocInv, RowsDiffer, FileExists, Terminal, IInv, RowsOK
    <3> QED BY <1>1, <1>3, <1>6, <2>2, <3>1 DEF DocInv, DocumentMirrorsFile
  <2> QED BY <2>1, <2>2
<1> QED BY <1>5, <1>6 DEF DocInv, DocumentMirrorsFile

\* register_file queues a row for a content no other row has.
LEMMA QueueKeepsDocs ==
  ASSUME IInv, DocInv, NEW f \in FileIds, NEW c \in Contents,
         \A g \in FileIds : g # f => files[g].content # c,
         files' = [files EXCEPT ![f] = QueuedFile(c)],
         docs' = [docs EXCEPT ![c] = DocOnRegister(c)]
  PROVE  DocInv'
<1>1. /\ files'[f].status = "QUEUED" /\ files'[f].content = c
      /\ \A g \in FileIds : g # f => files'[g] = files[g]
  BY DEF QueuedFile, IInv, TypeOK
<1>2. \A d \in Contents : d # c => docs'[d] = docs[d]
  BY DEF IInv, TypeOK
<1>3. RowsDiffer'
  BY <1>1 DEF DocInv, RowsDiffer, FileExists
<1>4. ASSUME NEW g \in FileIds, files'[g].status \in {"PROCESSING"} \cup Terminal
      PROVE  docs'[files'[g].content] = files'[g].status
  <2>1. g # f
    BY <1>1, <1>4 DEF Terminal
  <2>2. files[g].content \in Contents
    BY <1>1, <1>4, <2>1 DEF IInv, RowsOK, FileExists, Terminal
  <2> QED BY <1>1, <1>2, <1>4, <2>1, <2>2 DEF DocInv, DocumentMirrorsFile
<1> QED BY <1>3, <1>4 DEF DocInv, DocumentMirrorsFile

\* Uploads.
LEMMA UploadKeepsDocs ==
  ASSUME IInv, DocInv, NEW c \in Contents, UploadStep(c)
  PROVE  DocInv'
<1>1. CASE WriteBlob(c) \/ RegisterBlobGone(c)
  BY <1>1, DocsUntouched DEF WriteBlob, RegisterBlobGone, tables
<1>2. CASE RegisterNew(c)
  BY <1>2, QueueKeepsDocs DEF RegisterNew
<1>3. CASE RegisterFailed(c)
  <2>1. PICK f \in FileIds : /\ files[f].content = c /\ files[f].status = "FAILED"
                             /\ files' = [files EXCEPT ![f] = QueuedFile(c)]
    BY <1>3 DEF RegisterFailed
  <2>2. \A g \in FileIds : g # f => files[g].content # c
    BY <2>1, PipelineAssumption DEF DocInv, RowsDiffer, FileExists
  <2> QED BY <1>3, <2>1, <2>2, QueueKeepsDocs DEF RegisterFailed
<1>4. CASE RegisterKnown(c)
  <2>1. PICK f \in FileIds : /\ files[f].content = c /\ files[f].status # "FAILED"
                             /\ files' = [files EXCEPT ![f].stale = FALSE]
    BY <1>4 DEF RegisterKnown
  <2>2. \A g \in FileIds : /\ files'[g].status = files[g].status
                           /\ files'[g].content = files[g].content
    BY <2>1 DEF IInv, TypeOK, FileRow
  <2>3. \A g \in FileIds : FileExists(g) /\ files[g].content = c => g = f
    BY <2>1, PipelineAssumption DEF DocInv, RowsDiffer
  <2>4. \A d \in Contents : docs'[d] = IF d = c THEN DocOnRegister(c) ELSE docs[d]
    BY <1>4 DEF RegisterKnown, IInv, TypeOK
  <2>5. RowsDiffer'
    BY <2>2 DEF DocInv, RowsDiffer, FileExists
  <2>6. ASSUME NEW g \in FileIds, files[g].status \in {"PROCESSING"} \cup Terminal
        PROVE  docs'[files[g].content] = files[g].status
    <3>1. FileExists(g) /\ files[g].content \in Contents /\ docs[files[g].content] = files[g].status
      BY <2>6 DEF FileExists, Terminal, IInv, RowsOK, DocInv, DocumentMirrorsFile
    <3>2. CASE files[g].content # c
      BY <2>4, <3>1, <3>2
    <3>3. CASE files[g].content = c
      <4>1. files[g].status \notin {"absent", "FAILED"}
        BY <2>1, <2>3, <2>6, <3>1, <3>3 DEF FileExists
      <4> QED BY <2>4, <3>1, <3>3, <4>1 DEF DocOnRegister
    <3> QED BY <3>2, <3>3
  <2> QED BY <2>2, <2>5, <2>6 DEF DocInv, DocumentMirrorsFile
<1> QED BY <1>1, <1>2, <1>3, <1>4 DEF UploadStep

\* Every step keeps documents in line with files.
LEMMA NextKeepsDocs ==
  ASSUME SingleDrain
  PROVE  IInv /\ WholeInv /\ DocInv /\ [Next]_vars => DocInv'
<1> SUFFICES ASSUME IInv, WholeInv, DocInv, [Next]_vars PROVE DocInv'
  OBVIOUS
<1>1. ASSUME UNCHANGED <<files, docs>> PROVE DocInv'
  BY <1>1, DocsUntouched
<1>2. ASSUME NEW f \in FileIds, FileStep(f) PROVE DocInv'
  <2>1. ASSUME NEW force \in BOOLEAN, IngestReset(f, force) PROVE DocInv'
    BY <2>1, BothSet DEF IngestReset, Statuses
  <2>2. CASE IngestEnqueue(f) \/ IngestRowGone(f) \/ IngestActive(f) \/ DeleteUnlink(f)
    BY <1>1, <2>2 DEF IngestEnqueue, IngestRowGone, IngestActive, DeleteUnlink, tables
  <2>3. CASE DeleteRow(f)
    BY <2>3 DEF DeleteRow, WholeInv
  <2>4. CASE FileTimesOut(f)
    BY <2>4, DocsUntouched DEF FileTimesOut, IInv, TypeOK, FileRow
  <2> QED BY <1>2, <2>1, <2>2, <2>3, <2>4 DEF FileStep
<1>3. ASSUME NEW w \in Drains, DrainStep(w) \/ DrainCrash(w) PROVE DocInv'
  <2>1. ASSUME Busy(w) PROVE /\ drain[w].file \in FileIds /\ FileExists(drain[w].file)
                             /\ files[drain[w].file].content = drain[w].content
    BY <2>1 DEF WholeInv, WorkTrue, TrueOf
  <2>2. CASE Begin(w)
    BY <2>1, <2>2, BothSet DEF Begin, Busy, Statuses
  <2>3. CASE Finalize(w)
    <3> DEFINE s == IF drain[w].ok THEN "COMPLETED" ELSE "FAILED"
    <3>1. SetStatus(drain[w].file, drain[w].content, s) /\ s \in Statuses /\ Busy(w)
      BY <2>3 DEF Finalize, Statuses, Busy
    <3> HIDE DEF s
    <3> QED BY <2>1, <3>1, BothSet
  <2>4. CASE PrepareRetry(w)
    BY <2>1, <2>4, BothSet DEF PrepareRetry, Busy, Statuses
  <2> QED BY <1>1, <1>3, <2>2, <2>3, <2>4
          DEF DrainStep, DrainCrash, SelectJob, ClaimJob, ClaimLost, BeginFileMissing,
              BeginAlreadyDone, ClearPages, OpenRowGone, OpenFile, OpenFails, PersistPage,
              PersistFails, IndexChunks, FinalizeFileMissing, TransactionRaises, GiveUp,
              EnqueueRetry, HandlerRaises, tables
<1>4. ASSUME NEW j \in JobIds, JobTimesOut(j) PROVE DocInv'
  BY <1>1, <1>4 DEF JobTimesOut
<1>5. ASSUME NEW expired \in SUBSET Prunable, Maintain(expired) PROVE DocInv'
  <2>1. \A f \in FileIds : /\ f \in StaleFiles => files'[f].status = "FAILED"
                           /\ f \notin StaleFiles => files'[f] = files[f]
                           /\ files'[f].content = files[f].content
    BY <1>5 DEF Maintain, IInv, TypeOK, FileRow
  <2>2. \A f \in StaleFiles : f \in FileIds /\ FileExists(f)
    BY DEF StaleFiles, FileExists
  <2>3. \A c \in Contents : docs'[c] = IF \E f \in StaleFiles : files[f].content = c
                                         THEN "FAILED" ELSE docs[c]
    BY <1>5 DEF Maintain
  <2>4. RowsDiffer'
    BY <2>1, <2>2 DEF DocInv, RowsDiffer, FileExists
  <2>5. ASSUME NEW g \in FileIds, files'[g].status \in {"PROCESSING"} \cup Terminal
        PROVE  docs'[files[g].content] = files'[g].status
    <3>1. FileExists(g) /\ files[g].content \in Contents
      BY <2>1, <2>2, <2>5 DEF FileExists, Terminal, IInv, RowsOK
    <3>2. CASE g \in StaleFiles
      BY <2>1, <2>3, <3>1, <3>2
    <3>3. CASE g \notin StaleFiles
      <4>1. ~\E f \in StaleFiles : files[f].content = files[g].content
        BY <2>2, <3>1, <3>3 DEF DocInv, RowsDiffer
      <4> QED BY <2>1, <2>3, <2>5, <3>1, <3>3, <4>1 DEF DocInv, DocumentMirrorsFile
    <3> QED BY <3>2, <3>3
  <2> QED BY <2>1, <2>4, <2>5 DEF DocInv, DocumentMirrorsFile
<1>6. CASE ApiCrash
  BY <1>1, <1>6 DEF ApiCrash, tables
<1>7. CASE UNCHANGED vars
  BY <1>1, <1>7 DEF vars, tables
<1> QED BY <1>2, <1>3, <1>4, <1>5, <1>6, <1>7, UploadKeepsDocs DEF Next

\* Where one loop drains the queue and nothing is deleted, the document of a file that
\* left the queue has the status of the file, though seven places write the two.
THEOREM DocumentFollowsFile == ASSUME SingleDrain PROVE Spec => []DocumentMirrorsFile
<1>1. Init => DocInv
  BY DEF Init, DocInv, RowsDiffer, DocumentMirrorsFile, NoFile, FileExists, Terminal
<1>2. IInv /\ WholeInv /\ [Next]_vars => WholeInv'
  BY NextWhole
<1>3. IInv /\ WholeInv /\ DocInv /\ [Next]_vars => DocInv'
  BY NextKeepsDocs
<1>4. DocInv => DocumentMirrorsFile
  BY DEF DocInv
<1> QED BY <1>1, <1>2, <1>3, <1>4, InitWhole, Inductive, PTL DEF Spec
=============================================================================
