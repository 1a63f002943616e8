----------------------------- MODULE IngestPromise -----------------------------
(***************************************************************************)
(* What the ingest pipeline promises to a client of the API, who polls the *)
(* list of files and searches: a file it uploaded is pending until it is   *)
(* ready or failed; a ready file has every page and can be searched, and   *)
(* is never taken back except to be ingested anew; a failed file may       *)
(* become pending again.  Nothing is said of jobs, workers or retries.     *)
(***************************************************************************)
CONSTANTS
  Files,      \* the files a client can name
  Contents,   \* what can be uploaded
  Pages       \* the pages of every file

VARIABLES
  shown,      \* file -> the state the list of files shows
  holds,      \* file -> its content, once it is known
  stored,     \* file -> the pages that can be read
  searchable, \* contents a search can find
  arriving    \* contents being uploaded

vars == <<shown, holds, stored, searchable, arriving>>

Init ==
  /\ shown = [f \in Files |-> "none"]
  /\ stored = [f \in Files |-> {}]
  /\ searchable = {} /\ arriving = {}

Shows(f, state) == shown' = [shown EXCEPT ![f] = state]

Send(c) ==
  /\ arriving' = arriving \cup {c}
  /\ UNCHANGED <<shown, holds, stored, searchable>>

\* An upload that is refused, or of a file that is known already.
Withdraw ==
  /\ arriving' \subseteq arriving
  /\ UNCHANGED <<shown, holds, stored, searchable>>

\* An upload registers its content, or queues a failed file of that content.
Accept(f, c) ==
  /\ c \in arriving /\ arriving' = arriving \ {c}
  /\ shown[f] = "none" \/ (shown[f] = "failed" /\ holds[f] = c)
  /\ Shows(f, "pending")
  /\ holds' = [holds EXCEPT ![f] = c]
  /\ UNCHANGED <<stored, searchable>>

\* Pages come and go while the file is not ready.
Work(f) ==
  /\ shown[f] \in {"pending", "failed"}
  /\ \E read \in SUBSET Pages : stored' = [stored EXCEPT ![f] = read]
  /\ UNCHANGED <<shown, holds, searchable, arriving>>

Index(f) ==
  /\ shown[f] \in {"pending", "failed"}
  /\ searchable' = searchable \cup {holds[f]}
  /\ UNCHANGED <<shown, holds, stored, arriving>>

Finish(f) ==
  /\ shown[f] \in {"pending", "failed"}
  /\ stored[f] = Pages /\ holds[f] \in searchable
  /\ Shows(f, "ready")
  /\ UNCHANGED <<holds, stored, searchable, arriving>>

Fail(failing) ==
  /\ \A f \in failing : shown[f] = "pending"
  /\ shown' = [f \in Files |-> IF f \in failing THEN "failed" ELSE shown[f]]
  /\ UNCHANGED <<holds, stored, searchable, arriving>>

Requeue(f) ==
  /\ shown[f] \in {"failed", "ready"}
  /\ Shows(f, "pending")
  /\ UNCHANGED <<holds, stored, searchable, arriving>>

Next ==
  \/ \E c \in Contents : Send(c)
  \/ Withdraw
  \/ \E f \in Files : \/ \E c \in Contents : Accept(f, c)
                      \/ Work(f) \/ Index(f) \/ Finish(f) \/ Requeue(f)
  \/ \E failing \in SUBSET Files : Fail(failing)

Spec == Init /\ [][Next]_vars
=============================================================================
