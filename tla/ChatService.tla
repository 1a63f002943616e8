----------------------------- MODULE ChatService -----------------------------
(***************************************************************************)
(* POST /api/v1/chat: the orchestrator (services/chat_orchestrator.py)     *)
(* over the conversation store (chat/store.py), the summarizer             *)
(* (chat/summarizer.py) and the usage sink (services/accounting.py).       *)
(*                                                                         *)
(* Requests run in threads of the API process.  Each call of a store is a  *)
(* transaction of its own; an action is one of them, so the requests of a  *)
(* conversation, and the deliveries of a request a client repeats,         *)
(* interleave between any two.  A message is known by the request that     *)
(* recorded it; a summary is the set of messages it accounts for.          *)
(***************************************************************************)
EXTENDS FiniteSets, Naturals, Sequences

CONSTANTS
  Requests,       \* deliveries of POST /chat
  Users, NoUser,  \* user_id of the payload; owner of a conversation not created yet
  Conversations,  \* conversation ids clients send
  Keys,           \* values of the header Idempotency-Key
  Modes,          \* values LANGCHAIN_ENABLED may have
  HistoryLimit,   \* CHAT_HISTORY_LIMIT
  SummaryTrigger, \* CHAT_SUMMARY_TRIGGER
  SummaryWindow,  \* max_history of the summarizer
  MaxFaults       \* bound: failing models, databases and processes

ASSUME ChatAssumption ==
  /\ NoUser \notin Users
  /\ Modes \subseteq BOOLEAN
  /\ HistoryLimit \in Nat /\ SummaryTrigger \in Nat /\ SummaryWindow \in Nat
  /\ MaxFaults \in Nat

VARIABLES
  langchain, \* settings.langchain_enabled
  owner,     \* conversations.user_id
  log,       \* messages of a conversation, in the order of their ids
  since,     \* conversations.messages_since_summary
  summary,   \* conversations.summary: numbers of the messages it accounts for
  usage,     \* usage_events: for each key, the requests that inserted a row
  ragRuns,   \* rag_runs: requests with a row
  req,       \* local state of each request
  repeated,  \* history: keys of which two deliveries were under way together
  faults     \* faults so far

conversation == <<owner, log, since, summary>>
accounting == <<usage, ragRuns>>
vars == <<langchain, conversation, accounting, req, repeated, faults>>

PCs == {"idle", "provider", "ensure", "create", "summary", "history", "search", "chain",
        "record", "count", "window", "current", "condense", "save", "seen", "insert",
        "rag", "done"}
Outcomes == {"none", "answered", "unavailable", "forbidden", "error"}
\* met is a history value: the requests of the conversation that were under way together
\* with this one.
RequestState ==
  [pc : PCs, user : Users \cup {NoUser}, conv : Conversations \cup {"none"},
   key : Keys \cup {"none"}, read : SUBSET Nat, context : SUBSET Nat, outcome : Outcomes, met : SUBSET Requests]
Idle == [pc |-> "idle", user |-> NoUser, conv |-> "none", key |-> "none",
         read |-> {}, context |-> {}, outcome |-> "none", met |-> {}]

At(r, label) == req[r].pc = label
Goto(r, label) == req' = [req EXCEPT ![r].pc = label]
Finish(r, outcome) == req' = [req EXCEPT ![r].pc = "done", ![r].outcome = outcome]
UnderWay(r) == req[r].pc \notin {"idle", "done"}
Beside(c) == {q \in Requests : UnderWay(q) /\ req[q].conv = c}

\* Numbers of the last n messages of a conversation.
Last(n, c) == {i \in DOMAIN log[c] : i + n > Len(log[c])}

-----------------------------------------------------------------------------
(* handle_chat: is the model there, and whose conversation is it?           *)

Start(r, u, c, k) ==
  /\ At(r, "idle")
  /\ req' = [q \in Requests |->
       CASE q = r -> [Idle EXCEPT !.pc = "provider", !.user = u, !.conv = c, !.key = k,
                                  !.met = Beside(c)]
         [] q \in Beside(c) -> [req[q] EXCEPT !.met = @ \cup {r}]
         [] OTHER -> req[q]]
  /\ repeated' = IF \E q \in Requests : UnderWay(q) /\ req[q].key = k
                   THEN repeated \cup {k} ELSE repeated
  /\ UNCHANGED <<conversation, accounting, langchain, faults>>

\* _ensure_provider_ready answers 503 when the model file, the configured
\* adapter or the backend is missing.
ProviderReady(r) ==
  /\ At(r, "provider")
  /\ Goto(r, "ensure")
  /\ UNCHANGED <<conversation, accounting, langchain, repeated, faults>>

ProviderMissing(r) ==
  /\ At(r, "provider")
  /\ Finish(r, "unavailable")
  /\ UNCHANGED <<conversation, accounting, langchain, repeated, faults>>

\* Mutant: only the existence of the conversation is checked.
EnsureAnyOwner(r) ==
  /\ At(r, "ensure")
  /\ Goto(r, IF owner[req[r].conv] = NoUser THEN "create" ELSE "summary")
  /\ UNCHANGED <<conversation, accounting, langchain, repeated, faults>>

\* ensure_conversation: a SELECT outside any transaction ...
EnsureConversation(r) ==
  LET who == owner[req[r].conv]
  IN /\ At(r, "ensure")
     /\ IF who \in {NoUser, req[r].user}
          THEN Goto(r, IF who = NoUser THEN "create" ELSE "summary")
          ELSE Finish(r, "forbidden")
     /\ UNCHANGED <<conversation, accounting, langchain, repeated, faults>>

\* ... then the INSERT, which fails when another request was first.
CreateConversation(r) ==
  /\ At(r, "create")
  /\ IF owner[req[r].conv] = NoUser
       THEN /\ owner' = [owner EXCEPT ![req[r].conv] = req[r].user]
            /\ Goto(r, "summary")
       ELSE /\ Finish(r, "error")
            /\ UNCHANGED owner
  /\ UNCHANGED <<log, since, summary, accounting, langchain, repeated, faults>>

-----------------------------------------------------------------------------
(* The context: the summary first, then the last messages.                  *)

GetSummary(r) ==
  /\ At(r, "summary")
  /\ req' = [req EXCEPT ![r].pc = "history", ![r].context = summary[req[r].conv]]
  /\ UNCHANGED <<conversation, accounting, langchain, repeated, faults>>

GetHistory(r) ==
  /\ At(r, "history")
  /\ req' = [req EXCEPT ![r].pc = IF langchain THEN "chain" ELSE "search",
                        ![r].context = @ \cup Last(HistoryLimit, req[r].conv)]
  /\ UNCHANGED <<conversation, accounting, langchain, repeated, faults>>

\* Legacy mode calls vectorstore.search without a tenant, and SearchFilters.from_input
\* raises: no legacy request goes on to the model, the exchange or the memory store.
LegacySearch(r) ==
  /\ At(r, "search")
  /\ Finish(r, "error")
  /\ UNCHANGED <<conversation, accounting, langchain, repeated, faults>>

Chain(r) ==
  /\ At(r, "chain")
  /\ Goto(r, "record")
  /\ UNCHANGED <<conversation, accounting, langchain, repeated, faults>>

-----------------------------------------------------------------------------
(* record_exchange and the summary.                                         *)

\* Mutant: the counter is not part of the exchange.
RecordWithoutCount(r) ==
  LET c == req[r].conv
  IN /\ At(r, "record")
     /\ log' = [log EXCEPT ![c] = @ \o <<r, r>>]
     /\ Goto(r, "count")
     /\ UNCHANGED <<owner, since, summary, accounting, langchain, repeated, faults>>

RecordExchange(r) ==
  LET c == req[r].conv
  IN /\ At(r, "record")
     /\ log' = [log EXCEPT ![c] = @ \o <<r, r>>]
     /\ since' = [since EXCEPT ![c] = @ + 2]
     /\ Goto(r, "count")
     /\ UNCHANGED <<owner, summary, accounting, langchain, repeated, faults>>

CheckTrigger(r) ==
  /\ At(r, "count")
  /\ Goto(r, IF since[req[r].conv] >= SummaryTrigger THEN "window" ELSE "seen")
  /\ UNCHANGED <<conversation, accounting, langchain, repeated, faults>>

ReadWindow(r) ==
  /\ At(r, "window")
  /\ req' = [req EXCEPT ![r].pc = "current", ![r].read = Last(SummaryWindow, req[r].conv)]
  /\ UNCHANGED <<conversation, accounting, langchain, repeated, faults>>

ReadCurrent(r) ==
  /\ At(r, "current")
  /\ req' = [req EXCEPT ![r].pc = "condense", ![r].read = @ \cup summary[req[r].conv]]
  /\ UNCHANGED <<conversation, accounting, langchain, repeated, faults>>

Condense(r) ==
  /\ At(r, "condense")
  /\ Goto(r, "save")
  /\ UNCHANGED <<conversation, accounting, langchain, repeated, faults>>

\* The model fails or returns nothing: the old summary and the counter stay.
CondenseFails(r) ==
  /\ At(r, "condense")
  /\ faults < MaxFaults /\ faults' = faults + 1
  /\ Goto(r, "seen")
  /\ UNCHANGED <<conversation, accounting, langchain, repeated>>

\* Mutant: the counter is not reset.
SaveWithoutReset(r) ==
  LET c == req[r].conv
  IN /\ At(r, "save")
     /\ summary' = [summary EXCEPT ![c] = req[r].read]
     /\ Goto(r, "seen")
     /\ UNCHANGED <<owner, log, since, accounting, langchain, repeated, faults>>

SaveSummary(r) ==
  LET c == req[r].conv
  IN /\ At(r, "save")
     /\ summary' = [summary EXCEPT ![c] = req[r].read]
     /\ since' = [since EXCEPT ![c] = 0]
     /\ Goto(r, "seen")
     /\ UNCHANGED <<owner, log, accounting, langchain, repeated, faults>>

-----------------------------------------------------------------------------
(* The usage event, once per idempotency key: a SELECT, then the INSERT of  *)
(* the same session; the RAG run; the response.                             *)

\* Mutant: the key is not looked up.
AlwaysBill(r) ==
  /\ At(r, "seen")
  /\ Goto(r, "insert")
  /\ UNCHANGED <<conversation, accounting, langchain, repeated, faults>>

FindUsage(r) ==
  /\ At(r, "seen")
  /\ Goto(r, IF usage[req[r].key] = {} THEN "insert" ELSE "rag")
  /\ UNCHANGED <<conversation, accounting, langchain, repeated, faults>>

\* Mutant: the session is closed without a commit.
InsertUncommitted(r) ==
  /\ At(r, "insert")
  /\ Goto(r, "rag")
  /\ UNCHANGED <<conversation, accounting, langchain, repeated, faults>>

InsertUsage(r) ==
  /\ At(r, "insert")
  /\ usage' = [usage EXCEPT ![req[r].key] = @ \cup {r}]
  /\ Goto(r, "rag")
  /\ UNCHANGED <<conversation, ragRuns, langchain, repeated, faults>>

WriteRagRun(r) ==
  /\ At(r, "rag")
  /\ ragRuns' = ragRuns \cup {r}
  /\ Finish(r, "answered")
  /\ UNCHANGED <<conversation, usage, langchain, repeated, faults>>

-----------------------------------------------------------------------------
(* The model or the database raises: the request answers 500 with what it   *)
(* had committed.  Or the process dies with all its requests.               *)

Raises(r) ==
  /\ UnderWay(r) /\ ~At(r, "condense")
  /\ faults < MaxFaults /\ faults' = faults + 1
  /\ Finish(r, "error")
  /\ UNCHANGED <<conversation, accounting, langchain, repeated>>

Crash ==
  /\ faults < MaxFaults /\ faults' = faults + 1
  /\ req' = [r \in Requests |-> IF UnderWay(r)
                                  THEN [req[r] EXCEPT !.pc = "done", !.outcome = "error"]
                                  ELSE req[r]]
  /\ UNCHANGED <<conversation, accounting, langchain, repeated>>

Init ==
  /\ owner = [c \in Conversations |-> NoUser]
  /\ log = [c \in Conversations |-> <<>>]
  /\ since = [c \in Conversations |-> 0]
  /\ summary = [c \in Conversations |-> {}]
  /\ usage = [k \in Keys |-> {}] /\ ragRuns = {}
  /\ req = [r \in Requests |-> Idle]
  /\ langchain \in Modes
  /\ repeated = {} /\ faults = 0

Step(r) ==
  \/ \E u \in Users, c \in Conversations, k \in Keys : Start(r, u, c, k)
  \/ ProviderReady(r) \/ ProviderMissing(r)
  \/ EnsureConversation(r) \/ CreateConversation(r)
  \/ GetSummary(r) \/ GetHistory(r) \/ LegacySearch(r) \/ Chain(r)
  \/ RecordExchange(r) \/ CheckTrigger(r) \/ ReadWindow(r) \/ ReadCurrent(r)
  \/ Condense(r) \/ CondenseFails(r) \/ SaveSummary(r)
  \/ FindUsage(r) \/ InsertUsage(r) \/ WriteRagRun(r)
  \/ Raises(r)

Next == (\E r \in Requests : Step(r)) \/ Crash

Spec == Init /\ [][Next]_vars

-----------------------------------------------------------------------------
(* Properties.                                                              *)

\* A conversation holds messages of its owner only, though two users may send the
\* same new id at once and the check of the owner is long past when the exchange is
\* recorded.
OnlyOwnerWrites ==
  \A c \in Conversations : \A i \in DOMAIN log[c] : req[log[c][i]].user = owner[c]

\* The counter never claims more than there is to summarise: every message it counts
\* was recorded after the summary that is saved had read the conversation.
CounterIsUncovered ==
  \A c \in Conversations : since[c] <= Cardinality(DOMAIN log[c] \ summary[c])

\* No request of c was under way together with more than one other.
InPairs(c) == \A r \in Requests : req[r].conv = c => \A p, q \in req[r].met : p = q

\* A request that is served alone, after any number that were served alone or in pairs,
\* gets every message of its conversation from the summary and the last messages together:
\* CHAT_SUMMARY_TRIGGER is low enough for CHAT_HISTORY_LIMIT although an exchange that
\* falls between the read of a summarizer and its reset of the counter is not counted,
\* and two summarizers overwrite each other's summary.  It is not low enough for a
\* summarizer so slow that two further requests of the conversation come and go.
NothingForgotten ==
  [][\A r \in Requests :
       /\ At(r, "history") /\ req'[r].pc \in {"search", "chain"}
       /\ req[r].met = {} /\ InPairs(req[r].conv) /\ faults = 0
       => DOMAIN log[req[r].conv] \subseteq req'[r].context]_vars

\* Whoever got an answer has a usage event under his key, written by him or by an
\* earlier delivery whose response was lost.
AnsweredIsBilled ==
  \A r \in Requests : req[r].outcome = "answered" => usage[req[r].key] # {}

\* A request the client repeats after an error or a crash is billed once; two events
\* of one key exist only when two deliveries were under way together.
BilledOncePerKey ==
  \A k \in Keys : Cardinality(usage[k]) > 1 => k \in repeated

\* Stated by the docstring of POST /chat, "Return an assistant answer generated via RAG
\* pipeline": a request fails only where a fault, a missing model or another request
\* for the same new conversation is to blame.
ChatAnswers ==
  [][\A r \in Requests : req'[r].outcome = "error" /\ req[r].outcome # "error" =>
       faults' # faults \/ At(r, "create")]_vars
=============================================================================
