-------------------------------- MODULE FileViews ------------------------------
(***************************************************************************)
(* What a tenant is told about its files: the list of GET /files           *)
(* (app/api/v1/files.py) and the sums of GET /files/summary                *)
(* (app/services/file_stats.py).  A row of ingest_files is a record        *)
(* [tenant, status, size, chunks, created, document]; chunks is NoNumber   *)
(* until the file has been indexed, document is NoValue for a row whose    *)
(* document was removed.  documents maps the ids that exist to a status.   *)
(***************************************************************************)
EXTENDS Integers, FiniteSets, FiniteSetsExt, Sequences, SequencesExt

NoValue == "none"
NoNumber == -1
Known == {"queued", "processing", "completed", "failed"}

Rank(files, i) == Cardinality({j \in DOMAIN files : \/ files[j].created > files[i].created
                                                    \/ files[j].created = files[i].created /\ j < i})

(* list_files: the tenant's rows, newest first, each with the state of its *)
(* document, if it still has one (an outer join).                          *)
ListFiles(files, documents, tenant) ==
    LET own == SelectSeq(files, LAMBDA f : f.tenant = tenant)
        at(n) == CHOOSE i \in DOMAIN own : Rank(own, i) = n - 1
        shown(f) == [status |-> f.status, created |-> f.created, chunks |-> f.chunks, document |-> f.document,
                     documentStatus |-> IF f.document \in DOMAIN documents
                                        THEN documents[f.document] ELSE NoValue]
    IN  [n \in DOMAIN own |-> shown(own[at(n)])]

(* compute_file_stats: one row per status of the tenant's files, and sums  *)
(* that take a missing number of chunks as 0.                              *)
Number(chunks) == IF chunks = NoNumber THEN 0 ELSE chunks

\* Mutant: the sums are not restricted to the tenant.
FileStatsOfAll(files, tenant) ==
    LET own == DOMAIN files
        counted(s) == Cardinality({i \in own : files[i].status = s})
    IN  [total |-> Cardinality(own), counts |-> [s \in Known |-> counted(s)],
         size |-> MapThenSumSet(LAMBDA i : files[i].size, own),
         chunks |-> MapThenSumSet(LAMBDA i : Number(files[i].chunks), own)]

FileStats(files, tenant) ==
    LET own == {i \in DOMAIN files : files[i].tenant = tenant}
        counted(s) == Cardinality({i \in own : files[i].status = s})
    IN  [total |-> Cardinality(own), counts |-> [s \in Known |-> counted(s)],
         size |-> MapThenSumSet(LAMBDA i : files[i].size, own),
         chunks |-> MapThenSumSet(LAMBDA i : Number(files[i].chunks), own),
         oldest |-> IF own = {} THEN NoValue ELSE Min({files[i].created : i \in own}),
         newest |-> IF own = {} THEN NoValue ELSE Max({files[i].created : i \in own})]

-----------------------------------------------------------------------------
(* Inputs the runs enumerate.                                              *)
FileRows ==
    [tenant : {"t1", "t2"}, status : {"queued", "completed"}, size : {1},
     chunks : {NoNumber, 1}, created : 1 .. 2, document : {NoValue, "d1", "d2"}]

(* The summary and the list speak of the same files: as many as the list   *)
(* shows, the counts by state and the chunks adding up to it; every file   *)
(* is one tenant's, and the list has each once, the newest first.          *)
SummaryIsOfTheList(files, documents) ==
    LET tenants == {files[i].tenant : i \in DOMAIN files}
        stats(t) == FileStats(files, t)
        list(t) == ListFiles(files, documents, t)
    IN  /\ \A t \in tenants :
               /\ stats(t).total = Len(list(t))
               /\ \A s \in Known :
                      stats(t).counts[s]
                          = Cardinality({n \in DOMAIN list(t) : list(t)[n].status = s})
               /\ stats(t).chunks
                      = MapThenSumSet(LAMBDA n : Number(list(t)[n].chunks), DOMAIN list(t))
        /\ \A t \in tenants : \A n \in 1 .. (Len(list(t)) - 1) :
               list(t)[n].created >= list(t)[n + 1].created
        /\ MapThenSumSet(LAMBDA t : stats(t).total, tenants) = Len(files)
=============================================================================
