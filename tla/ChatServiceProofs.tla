------------------------- MODULE ChatServiceProofs -------------------------
(***************************************************************************)
(* Proofs about the chat requests of ChatService, for every number of      *)
(* requests, users, conversations, keys and faults and all limits of the   *)
(* summary.                                                                *)
(*                                                                         *)
(* A request that is answered, or errs, is over: its user, conversation    *)
(* and key are fixed when it comes, and nobody else writes its state.  The *)
(* three invariants below add to that what the stores hold for it.         *)
(***************************************************************************)
EXTENDS ChatService, FiniteSetTheorems, TLAPS

\* The state every step keeps well-typed.
TypeOK ==
  /\ langchain \in BOOLEAN
  /\ owner \in [Conversations -> Users \cup {NoUser}]
  /\ log \in [Conversations -> Seq(Requests)]
  /\ since \in [Conversations -> Nat]
  /\ summary \in [Conversations -> SUBSET Nat]
  /\ usage \in [Keys -> SUBSET Requests]
  /\ ragRuns \subseteq Requests
  /\ req \in [Requests -> RequestState]
  /\ repeated \subseteq Keys
  /\ faults \in Nat

\* A request that came has a user, a conversation and a key.
Addressed ==
  \A r \in Requests : req[r].pc # "idle" =>
    req[r].user \in Users /\ req[r].conv \in Conversations /\ req[r].key \in Keys

Typed == TypeOK /\ Addressed

\* The labels a request reaches only after the owner of its conversation was compared.
Admitted == PCs \ {"idle", "provider", "ensure", "create", "done"}

AdmittedOwns == \A r \in Requests : req[r].pc \in Admitted => owner[req[r].conv] = req[r].user

WritersOwn ==
  \A c \in Conversations : \A i \in DOMAIN log[c] :
    req[log[c][i]].pc # "idle" /\ req[log[c][i]].user = owner[c]

OwnerInv == AdmittedOwns /\ WritersOwn

\* A summary, saved or still in the hands of a summarizer, is of recorded messages.
SummaryIsOfMessages ==
  /\ \A c \in Conversations : summary[c] \subseteq DOMAIN log[c]
  /\ \A r \in Requests : req[r].pc \in {"current", "condense", "save"} =>
       req[r].read \subseteq DOMAIN log[req[r].conv]

CountInv == SummaryIsOfMessages /\ CounterIsUncovered

\* Whoever is past the insert finds a usage event.
PastInsertIsBilled ==
  \A r \in Requests :
    /\ req[r].pc = "rag" => usage[req[r].key] # {}
    /\ req[r].outcome = "answered" => req[r].pc = "done" /\ usage[req[r].key] # {}

\* Two deliveries under way with one key are known, and so is one that is about to insert
\* a second event.
TogetherIsRepeated ==
  \A r, q \in Requests :
    r # q /\ UnderWay(r) /\ UnderWay(q) /\ req[r].key = req[q].key => req[r].key \in repeated

SecondIsRepeated ==
  /\ \A r \in Requests :
       req[r].pc = "insert" /\ usage[req[r].key] # {} => req[r].key \in repeated
  /\ \A k \in Keys : \A r, q \in usage[k] : r # q => k \in repeated

UsageIsFinite == \A k \in Keys : IsFiniteSet(usage[k])

BillInv == PastInsertIsBilled /\ TogetherIsRepeated /\ SecondIsRepeated /\ UsageIsFinite

-----------------------------------------------------------------------------
(* What a step does to the requests.                                        *)

\* r goes on to a label, or ends, and nothing else of any request changes that the
\* invariants speak of.
Moves(r, label) ==
  /\ req' \in [Requests -> RequestState]
  /\ \A q \in Requests \ {r} : req'[q] = req[q]
  /\ req'[r].pc = label
  /\ req'[r].user = req[r].user /\ req'[r].conv = req[r].conv /\ req'[r].key = req[r].key
  /\ req'[r].met = req[r].met

LEMMA IdleIsState == Idle \in RequestState
  BY DEF Idle, RequestState, PCs, Outcomes

LEMMA GotoMoves ==
  ASSUME req \in [Requests -> RequestState], NEW r \in Requests, NEW label \in PCs,
         Goto(r, label)
  PROVE  Moves(r, label) /\ req'[r].outcome = req[r].outcome /\ req'[r].read = req[r].read
  <1>1. [req[r] EXCEPT !.pc = label] \in RequestState
    BY DEF RequestState
  <1> QED BY <1>1 DEF Goto, Moves, RequestState

LEMMA FinishMoves ==
  ASSUME req \in [Requests -> RequestState], NEW r \in Requests, NEW outcome \in Outcomes,
         Finish(r, outcome)
  PROVE  Moves(r, "done") /\ req'[r].outcome = outcome
  <1>1. [req[r] EXCEPT !.pc = "done", !.outcome = outcome] \in RequestState
    <2>1. req[r] \in RequestState /\ "done" \in PCs
      BY DEF PCs
    <2> QED BY <2>1 DEF RequestState
  <1> QED BY <1>1 DEF Finish, Moves, RequestState

Inv == Typed /\ OwnerInv /\ CountInv /\ BillInv

\* Whoever wrote to a conversation stays its writer, and his user stays his.
LEMMA WritersStay ==
  ASSUME Typed, WritersOwn, UNCHANGED <<owner, log>>,
         \A q \in Requests : req[q].pc # "idle" => req'[q].pc # "idle" /\ req'[q].user = req[q].user
  PROVE  WritersOwn'
  <1> SUFFICES ASSUME NEW d \in Conversations, NEW i \in DOMAIN log[d]
               PROVE  req'[log[d][i]].pc # "idle" /\ req'[log[d][i]].user = owner[d]
    BY DEF WritersOwn
  <1>1. log[d][i] \in Requests
    BY DEF Typed, TypeOK
  <1>2. req[log[d][i]].pc # "idle" /\ req[log[d][i]].user = owner[d]
    BY DEF WritersOwn
  <1> QED BY <1>1, <1>2

\* Whoever is under way after a step of a request that was under way was so before.
LEMMA TogetherStays ==
  ASSUME TogetherIsRepeated, NEW r \in Requests, NEW label, Moves(r, label), UnderWay(r),
         UNCHANGED repeated
  PROVE  TogetherIsRepeated'
  BY DEF TogetherIsRepeated, Moves, UnderWay

\* A step of a request that is under way and writes nothing but its own state: what the
\* label it goes to asks for is all there is to see.
LEMMA QuietKeeps ==
  ASSUME Inv, NEW r \in Requests, NEW label \in PCs \ {"idle"}, Moves(r, label),
         UnderWay(r), UNCHANGED <<conversation, usage, langchain, repeated>>,
         ragRuns' \subseteq Requests, faults' \in Nat,
         label \in Admitted => owner[req[r].conv] = req[r].user,
         label \in {"current", "condense", "save"} =>
           req'[r].read \subseteq DOMAIN log[req[r].conv],
         label = "rag" => usage[req[r].key] # {},
         req'[r].outcome = "answered" =>
           req[r].outcome = "answered" \/ (label = "done" /\ usage[req[r].key] # {}),
         label = "insert" => usage[req[r].key] = {}
  PROVE  Inv'
  <1> USE DEF Inv, Moves
  <1>1. Typed'
    BY DEF Typed, TypeOK, Addressed, conversation, UnderWay
  <1>2. OwnerInv'
    <2>1. AdmittedOwns'
      BY DEF OwnerInv, AdmittedOwns, conversation
    <2>2. WritersOwn'
      BY WritersStay DEF OwnerInv, conversation
    <2> QED BY <2>1, <2>2 DEF OwnerInv
  <1>3. CountInv'
    BY DEF CountInv, SummaryIsOfMessages, CounterIsUncovered, conversation
  <1>4. BillInv'
    <2>1. PastInsertIsBilled'
      BY DEF BillInv, PastInsertIsBilled, UnderWay
    <2>2. TogetherIsRepeated'
      BY TogetherStays DEF BillInv
    <2>3. SecondIsRepeated'
      BY DEF BillInv, SecondIsRepeated
    <2> QED BY <2>1, <2>2, <2>3 DEF BillInv, UsageIsFinite
  <1> QED BY <1>1, <1>2, <1>3, <1>4

-----------------------------------------------------------------------------
(* One lemma per action.                                                    *)

\* A new request was idle, and no message or event is of an idle one.
LEMMA StartKeeps ==
  ASSUME Inv, NEW r \in Requests, NEW u \in Users, NEW c \in Conversations, NEW k \in Keys,
         Start(r, u, c, k)
  PROVE  Inv'
  <1> DEFINE new == [Idle EXCEPT !.pc = "provider", !.user = u, !.conv = c, !.key = k,
                                 !.met = Beside(c)]
             other(q) == IF q \in Beside(c) THEN [req[q] EXCEPT !.met = @ \cup {r}] ELSE req[q]
  <1>1. new \in RequestState /\ new.pc = "provider" /\ new.user = u /\ new.conv = c
        /\ new.key = k /\ new.outcome = "none" /\ new.read = {}
    BY DEF Idle, RequestState, PCs, Outcomes, Beside
  <1>2. \A q \in Requests :
          /\ other(q) \in RequestState /\ other(q).pc = req[q].pc
          /\ other(q).user = req[q].user /\ other(q).conv = req[q].conv
          /\ other(q).key = req[q].key /\ other(q).read = req[q].read
          /\ other(q).outcome = req[q].outcome
    <2> SUFFICES ASSUME NEW q \in Requests
                 PROVE  /\ other(q) \in RequestState /\ other(q).pc = req[q].pc
                        /\ other(q).user = req[q].user /\ other(q).conv = req[q].conv
                        /\ other(q).key = req[q].key /\ other(q).read = req[q].read
                        /\ other(q).outcome = req[q].outcome
      OBVIOUS
    <2>1. req[q] \in RequestState /\ [req[q] EXCEPT !.met = @ \cup {r}] \in RequestState
      <3>1. req[q] \in RequestState
        BY DEF Inv, Typed, TypeOK
      <3> QED BY <3>1 DEF RequestState
    <2>2. CASE q \in Beside(c)
      BY <2>1, <2>2 DEF RequestState
    <2>3. CASE q \notin Beside(c)
      BY <2>1, <2>3
    <2> QED BY <2>2, <2>3
  <1>3. req' = [q \in Requests |-> IF q = r THEN new ELSE other(q)] /\ req[r].pc = "idle"
    <2>1. req[r].pc = "idle" /\ r \notin Beside(c)
      BY DEF Start, At, Beside, UnderWay
    <2>2. req' = [q \in Requests |->
             CASE q = r -> new [] q \in Beside(c) -> other(q) [] OTHER -> other(q)]
      <3>1. \A q \in Beside(c) : other(q) = [req[q] EXCEPT !.met = @ \cup {r}]
        OBVIOUS
      <3>2. \A q \in Requests : q \notin Beside(c) => other(q) = req[q]
        OBVIOUS
      <3> HIDE DEF other
      <3> QED BY <2>1, <3>1, <3>2 DEF Start
    <2> QED BY <2>1, <2>2
  <1> HIDE DEF new, other
  <1>4. /\ req' \in [Requests -> RequestState]
        /\ req'[r].pc = "provider" /\ req'[r].user = u /\ req'[r].conv = c
        /\ req'[r].key = k /\ req'[r].outcome = "none" /\ req'[r].read = {}
        /\ \A q \in Requests \ {r} :
             /\ req'[q].pc = req[q].pc /\ req'[q].user = req[q].user
             /\ req'[q].conv = req[q].conv /\ req'[q].key = req[q].key
             /\ req'[q].read = req[q].read /\ req'[q].outcome = req[q].outcome
    BY <1>1, <1>2, <1>3
  <1>5. UNCHANGED <<owner, log, since, summary, usage, ragRuns, langchain, faults>>
    BY DEF Start, conversation, accounting
  <1>6. repeated' = IF \E q \in Requests : UnderWay(q) /\ req[q].key = k
                      THEN repeated \cup {k} ELSE repeated
    BY DEF Start
  <1>7. Typed'
    BY <1>3, <1>4, <1>5, <1>6 DEF Inv, Typed, TypeOK, Addressed
  <1>8. OwnerInv'
    <2>1. AdmittedOwns'
      BY <1>4, <1>5 DEF Inv, OwnerInv, AdmittedOwns, Admitted
    <2>2. WritersOwn'
      BY <1>3, <1>4, <1>5, WritersStay DEF Inv, OwnerInv
    <2> QED BY <2>1, <2>2 DEF OwnerInv
  <1>9. CountInv'
    BY <1>4, <1>5 DEF Inv, CountInv, SummaryIsOfMessages, CounterIsUncovered
  <1>10. BillInv'
    <2>1. PastInsertIsBilled'
      BY <1>4, <1>5 DEF Inv, BillInv, PastInsertIsBilled
    <2>2. TogetherIsRepeated'
      BY <1>3, <1>4, <1>6 DEF Inv, BillInv, TogetherIsRepeated, UnderWay
    <2>3. SecondIsRepeated'
      BY <1>4, <1>5, <1>6 DEF Inv, BillInv, SecondIsRepeated
    <2> QED BY <1>5, <2>1, <2>2, <2>3 DEF Inv, BillInv, UsageIsFinite
  <1> QED BY <1>7, <1>8, <1>9, <1>10 DEF Inv

\* Steps that only go on to another label that asks for nothing.
LEMMA WaitingKeeps ==
  ASSUME Inv, NEW r \in Requests,
         ProviderReady(r) \/ ProviderMissing(r) \/ EnsureConversation(r) \/ LegacySearch(r)
           \/ Chain(r) \/ CheckTrigger(r) \/ Condense(r) \/ CondenseFails(r) \/ Raises(r)
  PROVE  Inv'
  <1>1. req \in [Requests -> RequestState] /\ faults \in Nat /\ ragRuns \subseteq Requests
    BY DEF Inv, Typed, TypeOK
  <1>2. req[r].pc \in Admitted => owner[req[r].conv] = req[r].user
    BY DEF Inv, OwnerInv, AdmittedOwns
  <1>3. req[r].pc \in {"current", "condense", "save"} =>
          req[r].read \subseteq DOMAIN log[req[r].conv]
    BY DEF Inv, CountInv, SummaryIsOfMessages
  <1> USE DEF PCs, Outcomes, Admitted, UnderWay, At
  <1> DEFINE Frame == /\ UNCHANGED <<conversation, usage, langchain, repeated>>
                      /\ ragRuns' \subseteq Requests /\ faults' \in Nat
  <1>4. ASSUME NEW label \in PCs \ {"idle", "current", "save", "insert", "rag", "done"},
               Goto(r, label), Frame, UnderWay(r),
               label \in Admitted => owner[req[r].conv] = req[r].user,
               label = "condense" => req[r].read \subseteq DOMAIN log[req[r].conv]
        PROVE  Inv'
    <2>1. Moves(r, label) /\ req'[r].outcome = req[r].outcome /\ req'[r].read = req[r].read
      BY <1>1, <1>4, GotoMoves
    <2> QED BY <1>4, <2>1, QuietKeeps
  <1>5. ASSUME NEW outcome \in Outcomes \ {"answered"}, Finish(r, outcome), Frame, UnderWay(r)
        PROVE  Inv'
    <2>1. Moves(r, "done") /\ req'[r].outcome = outcome
      BY <1>1, <1>5, FinishMoves
    <2> QED BY <1>5, <2>1, QuietKeeps
  <1>6. CASE ProviderReady(r)
    BY <1>1, <1>4, <1>6 DEF ProviderReady, accounting
  <1>7. CASE ProviderMissing(r)
    BY <1>1, <1>5, <1>7 DEF ProviderMissing, accounting
  <1>8. CASE EnsureConversation(r)
    <2>1. Frame /\ UnderWay(r)
      BY <1>1, <1>8 DEF EnsureConversation, accounting
    <2>2. CASE owner[req[r].conv] = NoUser
      <3>1. Goto(r, "create")
        BY <1>8, <2>2 DEF EnsureConversation
      <3> QED BY <1>4, <2>1, <3>1
    <2>3. CASE owner[req[r].conv] # NoUser /\ owner[req[r].conv] = req[r].user
      <3>1. Goto(r, "summary")
        BY <1>8, <2>3 DEF EnsureConversation
      <3> QED BY <1>4, <2>1, <2>3, <3>1
    <2>4. CASE owner[req[r].conv] \notin {NoUser, req[r].user}
      <3>1. Finish(r, "forbidden")
        BY <1>8, <2>4 DEF EnsureConversation
      <3> QED BY <1>5, <2>1, <3>1
    <2> QED BY <2>2, <2>3, <2>4
  <1>9. CASE LegacySearch(r)
    BY <1>1, <1>5, <1>9 DEF LegacySearch, accounting
  <1>10. CASE Chain(r)
    BY <1>1, <1>2, <1>4, <1>10 DEF Chain, accounting
  <1>11. CASE CheckTrigger(r)
    <2>1. Frame /\ UnderWay(r) /\ owner[req[r].conv] = req[r].user
      BY <1>1, <1>2, <1>11 DEF CheckTrigger, accounting
    <2>2. Goto(r, "window") \/ Goto(r, "seen")
      BY <1>11 DEF CheckTrigger
    <2> QED BY <1>4, <2>1, <2>2
  <1>12. CASE Condense(r)
    <2>1. Frame /\ UnderWay(r) /\ owner[req[r].conv] = req[r].user /\ Goto(r, "save")
          /\ req[r].read \subseteq DOMAIN log[req[r].conv]
      BY <1>1, <1>2, <1>3, <1>12 DEF Condense, accounting
    <2>2. Moves(r, "save") /\ req'[r].outcome = req[r].outcome /\ req'[r].read = req[r].read
      BY <1>1, <2>1, GotoMoves
    <2> QED BY <2>1, <2>2, QuietKeeps
  <1>13. CASE CondenseFails(r)
    <2>1. Frame /\ UnderWay(r) /\ owner[req[r].conv] = req[r].user /\ Goto(r, "seen")
      BY <1>1, <1>2, <1>13 DEF CondenseFails, accounting
    <2> QED BY <1>4, <2>1
  <1>14. CASE Raises(r)
    BY <1>1, <1>5, <1>14 DEF Raises, accounting
  <1> QED BY <1>6, <1>7, <1>8, <1>9, <1>10, <1>11, <1>12, <1>13, <1>14

\* Reading the summary, the history and the window touches only the request.
LEMMA ReadingKeeps ==
  ASSUME Inv, NEW r \in Requests,
         GetSummary(r) \/ GetHistory(r) \/ ReadWindow(r) \/ ReadCurrent(r)
  PROVE  Inv'
  <1>1. /\ req \in [Requests -> RequestState] /\ faults \in Nat /\ ragRuns \subseteq Requests
        /\ summary \in [Conversations -> SUBSET Nat]
        /\ log \in [Conversations -> Seq(Requests)]
    BY DEF Inv, Typed, TypeOK
  <1>2. UnderWay(r) /\ req[r].pc \in {"summary", "history", "window", "current"}
    BY DEF UnderWay, GetSummary, GetHistory, ReadWindow, ReadCurrent, At
  <1>3. req[r].conv \in Conversations /\ owner[req[r].conv] = req[r].user
    BY <1>2 DEF Inv, OwnerInv, AdmittedOwns, Admitted, PCs, Typed, Addressed
  <1>4. UNCHANGED <<conversation, usage, langchain, repeated>> /\ ragRuns' \subseteq Requests
        /\ faults' \in Nat
    BY <1>1 DEF GetSummary, GetHistory, ReadWindow, ReadCurrent, accounting
  <1>5. \A n \in Nat : Last(n, req[r].conv) \subseteq DOMAIN log[req[r].conv]
    BY DEF Last
  <1>6. DOMAIN log[req[r].conv] \subseteq Nat
    BY <1>1, <1>3
  <1>7. ASSUME NEW label \in {"history", "search", "chain"},
               NEW context \in SUBSET Nat,
               req' = [req EXCEPT ![r].pc = label, ![r].context = context]
        PROVE  Inv'
    <2>1. [req[r] EXCEPT !.pc = label, !.context = context] \in RequestState
      <3>1. req[r] \in RequestState /\ label \in PCs
        BY <1>1 DEF PCs
      <3> QED BY <3>1 DEF RequestState
    <2>2. Moves(r, label) /\ req'[r].outcome = req[r].outcome
      BY <1>1, <1>7, <2>1 DEF Moves, RequestState
    <2> QED BY <1>2, <1>3, <1>4, <2>2, QuietKeeps DEF PCs
  <1>8. ASSUME NEW label \in {"current", "condense"},
               NEW read \in SUBSET DOMAIN log[req[r].conv],
               req' = [req EXCEPT ![r].pc = label, ![r].read = read]
        PROVE  Inv'
    <2>1. [req[r] EXCEPT !.pc = label, !.read = read] \in RequestState
      <3>1. req[r] \in RequestState /\ read \in SUBSET Nat /\ label \in PCs
        BY <1>1, <1>6 DEF PCs
      <3> QED BY <3>1 DEF RequestState
    <2>2. Moves(r, label) /\ req'[r].outcome = req[r].outcome /\ req'[r].read = read
      BY <1>1, <1>8, <2>1 DEF Moves, RequestState
    <2> QED BY <1>2, <1>3, <1>4, <2>2, QuietKeeps DEF PCs
  <1>9. CASE GetSummary(r)
    BY <1>1, <1>3, <1>7, <1>9 DEF GetSummary
  <1>10. CASE GetHistory(r)
    <2>1. req[r].context \cup Last(HistoryLimit, req[r].conv) \in SUBSET Nat
      BY <1>1, <1>5, <1>6, ChatAssumption DEF RequestState
    <2> QED BY <1>1, <1>7, <1>10, <2>1 DEF GetHistory
  <1>11. CASE ReadWindow(r)
    BY <1>5, <1>8, <1>11, ChatAssumption DEF ReadWindow
  <1>12. CASE ReadCurrent(r)
    <2>1. req[r].read \cup summary[req[r].conv] \in SUBSET DOMAIN log[req[r].conv]
      BY <1>3, <1>12 DEF ReadCurrent, At, Inv, CountInv, SummaryIsOfMessages
    <2> QED BY <1>1, <1>8, <1>12, <2>1 DEF ReadCurrent
  <1> QED BY <1>9, <1>10, <1>11, <1>12

\* The owner is set once, by a request that was the first to send the id.
LEMMA CreateKeeps ==
  ASSUME Inv, NEW r \in Requests, CreateConversation(r)
  PROVE  Inv'
  <1> DEFINE c == req[r].conv
  <1>1. /\ req \in [Requests -> RequestState] /\ faults \in Nat /\ ragRuns \subseteq Requests
        /\ UnderWay(r) /\ req[r].pc = "create"
        /\ c \in Conversations /\ req[r].user \in Users
    BY DEF Inv, Typed, TypeOK, Addressed, CreateConversation, At, UnderWay
  <1>2. CASE owner[c] = NoUser
    <2>1. owner' = [owner EXCEPT ![c] = req[r].user] /\ Goto(r, "summary")
          /\ UNCHANGED <<log, since, summary, usage, ragRuns, langchain, repeated, faults>>
      BY <1>2 DEF CreateConversation, accounting
    <2>2. Moves(r, "summary") /\ req'[r].outcome = req[r].outcome
      BY <1>1, <2>1, GotoMoves DEF PCs
    <2>3. owner'[c] = req[r].user /\ \A d \in Conversations \ {c} : owner'[d] = owner[d]
      BY <1>1, <2>1 DEF Inv, Typed, TypeOK
    <2>4. Typed'
      BY <1>1, <2>1, <2>2 DEF Inv, Typed, TypeOK, Addressed, Moves
    <2>5. \A q \in Requests : req[q].pc # "idle" => req[q].user # NoUser
      BY ChatAssumption DEF Inv, Typed, Addressed
    <2>6. AdmittedOwns'
      BY <1>1, <1>2, <2>2, <2>3, <2>5
         DEF Inv, Typed, Addressed, OwnerInv, AdmittedOwns, Moves, Admitted, PCs
    <2>7. DOMAIN log[c] = {}
      <3> SUFFICES ASSUME NEW i \in DOMAIN log[c] PROVE FALSE
        OBVIOUS
      <3>1. log[c][i] \in Requests
        BY <1>1 DEF Inv, Typed, TypeOK
      <3> QED BY <1>1, <1>2, <2>5, <3>1 DEF Inv, OwnerInv, WritersOwn
    <2>8. WritersOwn'
      <3> SUFFICES ASSUME NEW d \in Conversations, NEW i \in DOMAIN log[d]
                   PROVE  req'[log[d][i]].pc # "idle" /\ req'[log[d][i]].user = owner'[d]
        BY <2>1 DEF WritersOwn
      <3>1. log[d][i] \in Requests /\ d # c
        BY <2>7 DEF Inv, Typed, TypeOK
      <3>2. req[log[d][i]].pc # "idle" /\ req[log[d][i]].user = owner[d]
        BY DEF Inv, OwnerInv, WritersOwn
      <3> QED BY <2>2, <2>3, <3>1, <3>2 DEF Moves
    <2>9. CountInv'
      BY <2>1, <2>2 DEF Inv, CountInv, SummaryIsOfMessages, CounterIsUncovered, Moves
    <2>10. BillInv'
      <3>1. PastInsertIsBilled'
        BY <1>1, <2>1, <2>2 DEF Inv, BillInv, PastInsertIsBilled, Moves, UnderWay
      <3>2. TogetherIsRepeated'
        BY <1>1, <2>1, <2>2, TogetherStays DEF Inv, BillInv
      <3>3. SecondIsRepeated'
        BY <1>1, <2>1, <2>2 DEF Inv, BillInv, SecondIsRepeated, Moves, UnderWay
      <3>4. UsageIsFinite'
        BY <2>1 DEF Inv, BillInv, UsageIsFinite
      <3> QED BY <3>1, <3>2, <3>3, <3>4 DEF BillInv
    <2> QED BY <2>4, <2>6, <2>8, <2>9, <2>10 DEF Inv, OwnerInv
  <1>3. CASE owner[c] # NoUser
    <2>1. Finish(r, "error") /\ UNCHANGED <<conversation, usage, langchain, repeated>>
          /\ UNCHANGED <<ragRuns, faults>>
      BY <1>3 DEF CreateConversation, conversation, accounting
    <2>2. Moves(r, "done") /\ req'[r].outcome = "error"
      BY <1>1, <2>1, FinishMoves DEF Outcomes
    <2> QED BY <1>1, <2>1, <2>2, QuietKeeps DEF Admitted, PCs
  <1> QED BY <1>2, <1>3

\* Two more messages, which no summary has, for two more in the counter.
LEMMA RecordKeeps ==
  ASSUME Inv, NEW r \in Requests, RecordExchange(r)
  PROVE  Inv'
  <1> DEFINE c == req[r].conv
             n == Len(log[c])
  <1>1. /\ req \in [Requests -> RequestState] /\ log \in [Conversations -> Seq(Requests)]
        /\ since \in [Conversations -> Nat] /\ summary \in [Conversations -> SUBSET Nat]
        /\ UnderWay(r) /\ req[r].pc = "record"
        /\ c \in Conversations /\ req[r].user = owner[c]
    BY DEF Inv, Typed, TypeOK, Addressed, OwnerInv, AdmittedOwns, Admitted, PCs,
           RecordExchange, At, UnderWay
  <1>2. /\ log' = [log EXCEPT ![c] = @ \o <<r, r>>] /\ since' = [since EXCEPT ![c] = @ + 2]
        /\ Goto(r, "count")
        /\ UNCHANGED <<owner, summary, usage, ragRuns, langchain, repeated, faults>>
    BY DEF RecordExchange, accounting
  <1>3. /\ Moves(r, "count") /\ req'[r].outcome = req[r].outcome
        /\ req'[r].read = req[r].read
    BY <1>1, <1>2, GotoMoves DEF PCs
  <1> HIDE DEF c
  <1>4. n \in Nat /\ DOMAIN log[c] = 1 .. n /\ log[c] \in Seq(Requests) /\ c \in Conversations
    BY <1>1
  <1>5. /\ log'[c] \in Seq(Requests) /\ DOMAIN log'[c] = 1 .. (n + 2)
        /\ log'[c][n + 1] = r /\ log'[c][n + 2] = r
        /\ \A i \in 1 .. n : log'[c][i] = log[c][i]
    BY <1>1, <1>2, <1>4
  <1> HIDE DEF n
  <1>6. /\ \A d \in Conversations \ {c} : log'[d] = log[d] /\ since'[d] = since[d]
        /\ since'[c] = since[c] + 2 /\ since[c] \in Nat
        /\ log' \in [Conversations -> Seq(Requests)] /\ since' \in [Conversations -> Nat]
    BY <1>1, <1>2, <1>5
  <1>7. \A d \in Conversations : DOMAIN log[d] \subseteq DOMAIN log'[d]
    <2>1. 1 .. n \subseteq 1 .. (n + 2)
      BY <1>4
    <2> QED BY <1>4, <1>5, <1>6, <2>1
  <1>8. Typed'
    <2>1. TypeOK'
      BY <1>2, <1>3, <1>6 DEF Inv, Typed, TypeOK, Moves
    <2>2. Addressed'
      BY <1>1, <1>3 DEF Inv, Typed, Addressed, Moves, UnderWay
    <2> QED BY <2>1, <2>2 DEF Typed
  <1>9. AdmittedOwns'
    BY <1>1, <1>2, <1>3 DEF Inv, OwnerInv, AdmittedOwns, Moves, c
  <1>10. WritersOwn'
    <2> SUFFICES ASSUME NEW d \in Conversations, NEW i \in DOMAIN log'[d]
                 PROVE  req'[log'[d][i]].pc # "idle" /\ req'[log'[d][i]].user = owner[d]
      BY <1>2 DEF WritersOwn
    <2>1. CASE d = c /\ i > n
      <3>1. log'[d][i] = r
        <4>1. i \in 1 .. (n + 2) /\ i > n
          BY <1>5, <2>1
        <4>2. i = n + 1 \/ i = n + 2
          BY <1>4, <4>1
        <4> QED BY <1>5, <2>1, <4>2
      <3> QED BY <1>1, <1>3, <2>1, <3>1 DEF Moves
    <2>2. CASE ~(d = c /\ i > n)
      <3>1. i \in DOMAIN log[d] /\ log'[d][i] = log[d][i] /\ log[d][i] \in Requests
        BY <1>1, <1>4, <1>5, <1>6, <2>2
      <3>2. req[log[d][i]].pc # "idle" /\ req[log[d][i]].user = owner[d]
        BY <3>1 DEF Inv, OwnerInv, WritersOwn
      <3> QED BY <1>3, <3>1, <3>2 DEF Moves
    <2> QED BY <2>1, <2>2
  <1>11. SummaryIsOfMessages'
    <2>1. \A d \in Conversations : summary'[d] \subseteq DOMAIN log'[d]
      BY <1>2, <1>7 DEF Inv, CountInv, SummaryIsOfMessages
    <2>2. ASSUME NEW q \in Requests, req'[q].pc \in {"current", "condense", "save"}
          PROVE  req'[q].read \subseteq DOMAIN log'[req'[q].conv]
      <3>1. q # r /\ req'[q] = req[q] /\ req[q].conv \in Conversations
        BY <1>3, <2>2 DEF Moves, Inv, Typed, Addressed
      <3> QED BY <1>7, <2>2, <3>1 DEF Inv, CountInv, SummaryIsOfMessages
    <2> QED BY <2>1, <2>2 DEF SummaryIsOfMessages
  <1>12. CounterIsUncovered'
    <2> SUFFICES ASSUME NEW d \in Conversations
                 PROVE  since'[d] <= Cardinality(DOMAIN log'[d] \ summary[d])
      BY <1>2 DEF CounterIsUncovered
    <2>1. since[d] <= Cardinality(DOMAIN log[d] \ summary[d])
      BY DEF Inv, CountInv, CounterIsUncovered
    <2>2. CASE d # c
      BY <1>6, <2>1, <2>2
    <2>3. CASE d = c
      <3> DEFINE S == (1 .. n) \ summary[c]
      <3>1. IsFiniteSet(S) /\ summary[c] \subseteq 1 .. n
        <4>1. IsFiniteSet(1 .. n)
          BY <1>4, FS_Interval
        <4>2. summary[c] \subseteq 1 .. n
          BY <1>4 DEF Inv, CountInv, SummaryIsOfMessages
        <4> QED BY <4>1, <4>2, FS_Subset
      <3>2. n + 1 \notin S /\ n + 2 \notin S \cup {n + 1}
        BY <1>4
      <3>3. DOMAIN log'[c] \ summary[c] = (S \cup {n + 1}) \cup {n + 2}
        BY <1>4, <1>5, <3>1
      <3>4. IsFiniteSet(S \cup {n + 1}) /\ Cardinality(S \cup {n + 1}) = Cardinality(S) + 1
        BY <3>1, <3>2, FS_AddElement
      <3>5. Cardinality((S \cup {n + 1}) \cup {n + 2}) = Cardinality(S \cup {n + 1}) + 1
        BY <3>2, <3>4, FS_AddElement
      <3>6. Cardinality(S) \in Nat /\ since[c] <= Cardinality(S)
        BY <1>4, <2>1, <2>3, <3>1, FS_CardinalityType
      <3> HIDE DEF S
      <3>7. since[c] + 2 <= Cardinality(DOMAIN log'[c] \ summary[c])
        <4>1. since[c] + 2 <= (Cardinality(S) + 1) + 1
          BY <1>6, <3>6
        <4> QED BY <3>3, <3>4, <3>5, <4>1
      <3> QED BY <1>6, <2>3, <3>7
    <2> QED BY <2>2, <2>3
  <1>13. BillInv'
    <2>1. PastInsertIsBilled'
      BY <1>1, <1>2, <1>3 DEF Inv, BillInv, PastInsertIsBilled, Moves, UnderWay
    <2>3. SecondIsRepeated'
      BY <1>2, <1>3 DEF Inv, BillInv, SecondIsRepeated, Moves
    <2>2. TogetherIsRepeated'
      BY <1>1, <1>2, <1>3, TogetherStays DEF Inv, BillInv
    <2> QED BY <1>2, <2>1, <2>2, <2>3 DEF Inv, BillInv, UsageIsFinite
  <1> QED BY <1>8, <1>9, <1>10, <1>11, <1>12, <1>13 DEF Inv, OwnerInv, CountInv

\* The counter starts anew, and the summary is of what the summarizer had read.
LEMMA SaveKeeps ==
  ASSUME Inv, NEW r \in Requests, SaveSummary(r)
  PROVE  Inv'
  <1> DEFINE c == req[r].conv
  <1>1. /\ req \in [Requests -> RequestState] /\ log \in [Conversations -> Seq(Requests)]
        /\ since \in [Conversations -> Nat] /\ summary \in [Conversations -> SUBSET Nat]
        /\ UnderWay(r) /\ req[r].pc = "save" /\ req[r].read \in SUBSET Nat
        /\ c \in Conversations /\ req[r].user = owner[c]
    BY DEF Inv, Typed, TypeOK, Addressed, OwnerInv, AdmittedOwns, Admitted, PCs,
           SaveSummary, At, UnderWay, RequestState
  <1>2. /\ summary' = [summary EXCEPT ![c] = req[r].read]
        /\ since' = [since EXCEPT ![c] = 0] /\ Goto(r, "seen")
        /\ UNCHANGED <<owner, log, usage, ragRuns, langchain, repeated, faults>>
    BY DEF SaveSummary, accounting
  <1>3. Moves(r, "seen") /\ req'[r].outcome = req[r].outcome
    BY <1>1, <1>2, GotoMoves DEF PCs
  <1>4. /\ \A d \in Conversations \ {c} : summary'[d] = summary[d] /\ since'[d] = since[d]
        /\ summary'[c] = req[r].read /\ since'[c] = 0
        /\ summary' \in [Conversations -> SUBSET Nat] /\ since' \in [Conversations -> Nat]
    BY <1>1, <1>2
  <1>5. req[r].read \subseteq DOMAIN log[c]
    BY <1>1 DEF Inv, CountInv, SummaryIsOfMessages
  <1>6. Typed'
    <2>1. TypeOK'
      BY <1>2, <1>3, <1>4 DEF Inv, Typed, TypeOK, Moves
    <2>2. Addressed'
      BY <1>1, <1>3 DEF Inv, Typed, Addressed, Moves, UnderWay
    <2> QED BY <2>1, <2>2 DEF Typed
  <1>7. AdmittedOwns'
    BY <1>1, <1>2, <1>3 DEF Inv, OwnerInv, AdmittedOwns, Moves
  <1>8. WritersOwn'
    BY <1>1, <1>2, <1>3, WritersStay DEF Inv, OwnerInv, Moves, UnderWay
  <1>9. SummaryIsOfMessages'
    <2>1. \A d \in Conversations : summary'[d] \subseteq DOMAIN log'[d]
      BY <1>2, <1>4, <1>5 DEF Inv, CountInv, SummaryIsOfMessages
    <2>2. ASSUME NEW q \in Requests, req'[q].pc \in {"current", "condense", "save"}
          PROVE  req'[q].read \subseteq DOMAIN log'[req'[q].conv]
      BY <1>2, <1>3, <2>2 DEF Moves, Inv, CountInv, SummaryIsOfMessages
    <2> QED BY <2>1, <2>2 DEF SummaryIsOfMessages
  <1>10. CounterIsUncovered'
    <2> SUFFICES ASSUME NEW d \in Conversations
                 PROVE  since'[d] <= Cardinality(DOMAIN log[d] \ summary'[d])
      BY <1>2 DEF CounterIsUncovered
    <2>1. CASE d # c
      BY <1>4, <2>1 DEF Inv, CountInv, CounterIsUncovered
    <2>2. CASE d = c
      <3>1. IsFiniteSet(1 .. Len(log[c])) /\ DOMAIN log[c] = 1 .. Len(log[c])
        <4>1. Len(log[c]) \in Int /\ DOMAIN log[c] = 1 .. Len(log[c])
          BY <1>1
        <4>2. \A m \in Int : IsFiniteSet(1 .. m)
          BY FS_Interval
        <4> QED BY <4>1, <4>2
      <3>2. IsFiniteSet(DOMAIN log[c] \ summary'[c])
        BY <3>1, FS_Subset
      <3>3. Cardinality(DOMAIN log[c] \ summary'[c]) \in Nat
        BY <3>2, FS_CardinalityType
      <3>4. 0 <= Cardinality(DOMAIN log[c] \ summary'[c])
        BY <3>3
      <3> QED BY <1>4, <2>2, <3>4
    <2> QED BY <2>1, <2>2
  <1>11. BillInv'
    <2>1. PastInsertIsBilled'
      BY <1>1, <1>2, <1>3 DEF Inv, BillInv, PastInsertIsBilled, Moves, UnderWay
    <2>2. TogetherIsRepeated'
      BY <1>1, <1>2, <1>3, TogetherStays DEF Inv, BillInv
    <2>3. SecondIsRepeated'
      BY <1>2, <1>3 DEF Inv, BillInv, SecondIsRepeated, Moves
    <2> QED BY <1>2, <2>1, <2>2, <2>3 DEF Inv, BillInv, UsageIsFinite
  <1> QED BY <1>6, <1>7, <1>8, <1>9, <1>10, <1>11 DEF Inv, OwnerInv, CountInv

\* The look-up lets a delivery through only while its key has no event, and the end finds one.
LEMMA UsageReadKeeps ==
  ASSUME Inv, NEW r \in Requests, FindUsage(r) \/ WriteRagRun(r)
  PROVE  Inv'
  <1>1. /\ req \in [Requests -> RequestState] /\ ragRuns \subseteq Requests /\ faults \in Nat
        /\ UnderWay(r) /\ owner[req[r].conv] = req[r].user
    BY DEF Inv, Typed, TypeOK, OwnerInv, AdmittedOwns, Admitted, PCs, FindUsage, WriteRagRun,
           At, UnderWay
  <1>2. CASE FindUsage(r)
    <2>1. UNCHANGED <<conversation, usage, langchain, repeated, ragRuns, faults>>
      BY <1>2 DEF FindUsage, accounting
    <2>2. CASE usage[req[r].key] = {}
      <3>1. Moves(r, "insert") /\ req'[r].outcome = req[r].outcome
        BY <1>1, <1>2, <2>2, GotoMoves DEF FindUsage, PCs
      <3> QED BY <1>1, <2>1, <2>2, <3>1, QuietKeeps DEF PCs
    <2>3. CASE usage[req[r].key] # {}
      <3>1. Moves(r, "rag") /\ req'[r].outcome = req[r].outcome
        BY <1>1, <1>2, <2>3, GotoMoves DEF FindUsage, PCs
      <3> QED BY <1>1, <2>1, <2>3, <3>1, QuietKeeps DEF PCs
    <2> QED BY <2>2, <2>3
  <1>3. CASE WriteRagRun(r)
    <2>1. UNCHANGED <<conversation, usage, langchain, repeated, faults>>
          /\ ragRuns' \subseteq Requests
      BY <1>1, <1>3 DEF WriteRagRun
    <2>2. Moves(r, "done")
      BY <1>1, <1>3, FinishMoves DEF WriteRagRun, Outcomes
    <2>3. usage[req[r].key] # {}
      BY <1>3 DEF WriteRagRun, At, Inv, BillInv, PastInsertIsBilled
    <2> QED BY <1>1, <2>1, <2>2, <2>3, QuietKeeps DEF PCs, Admitted
  <1> QED BY <1>2, <1>3

\* A second event of a key is of a delivery that was under way with the first one.
LEMMA InsertKeeps ==
  ASSUME Inv, NEW r \in Requests, InsertUsage(r)
  PROVE  Inv'
  <1> DEFINE k == req[r].key
  <1>1. /\ req \in [Requests -> RequestState] /\ usage \in [Keys -> SUBSET Requests]
        /\ UnderWay(r) /\ req[r].pc = "insert" /\ k \in Keys
    BY DEF Inv, Typed, TypeOK, Addressed, InsertUsage, At, UnderWay
  <1>2. /\ usage' = [usage EXCEPT ![k] = @ \cup {r}] /\ Goto(r, "rag")
        /\ UNCHANGED <<owner, log, since, summary, ragRuns, langchain, repeated, faults>>
    BY DEF InsertUsage, conversation
  <1>3. Moves(r, "rag") /\ req'[r].outcome = req[r].outcome
    BY <1>1, <1>2, GotoMoves DEF PCs
  <1>4. /\ usage'[k] = usage[k] \cup {r} /\ usage' \in [Keys -> SUBSET Requests]
        /\ \A j \in Keys \ {k} : usage'[j] = usage[j]
    BY <1>1, <1>2
  <1>5. Typed'
    <2>1. TypeOK'
      BY <1>2, <1>3, <1>4 DEF Inv, Typed, TypeOK, Moves
    <2>2. Addressed'
      BY <1>1, <1>3 DEF Inv, Typed, Addressed, Moves, UnderWay
    <2> QED BY <2>1, <2>2 DEF Typed
  <1>6. AdmittedOwns'
    BY <1>1, <1>2, <1>3 DEF Inv, OwnerInv, AdmittedOwns, Moves, Admitted, PCs
  <1>7. WritersOwn'
    BY <1>1, <1>2, <1>3, WritersStay DEF Inv, OwnerInv, Moves, UnderWay
  <1>8. CountInv'
    BY <1>2, <1>3 DEF Inv, CountInv, SummaryIsOfMessages, CounterIsUncovered, Moves
  <1>9. PastInsertIsBilled'
    <2> SUFFICES ASSUME NEW q \in Requests
                 PROVE  /\ req'[q].pc = "rag" => usage'[req'[q].key] # {}
                        /\ req'[q].outcome = "answered" =>
                             req'[q].pc = "done" /\ usage'[req'[q].key] # {}
      BY DEF PastInsertIsBilled
    <2>1. CASE q = r
      BY <1>1, <1>3, <1>4, <2>1 DEF Inv, BillInv, PastInsertIsBilled, Moves
    <2>2. CASE q # r /\ req[q].pc # "idle"
      <3>1. req'[q] = req[q] /\ req[q].key \in Keys
        BY <1>3, <2>2 DEF Moves, Inv, Typed, Addressed
      <3> QED BY <1>4, <3>1 DEF Inv, BillInv, PastInsertIsBilled
    <2>3. CASE q # r /\ req[q].pc = "idle"
      BY <1>3, <2>3 DEF Moves, Inv, BillInv, PastInsertIsBilled
    <2> QED BY <2>1, <2>2, <2>3
  <1>10. TogetherIsRepeated'
    BY <1>1, <1>2, <1>3, TogetherStays DEF Inv, BillInv
  <1>11. SecondIsRepeated'
    <2>1. ASSUME NEW q \in Requests, req'[q].pc = "insert", usage'[req'[q].key] # {}
          PROVE  req'[q].key \in repeated'
      <3>1. q # r /\ req'[q] = req[q] /\ UnderWay(q) /\ req[q].key \in Keys
        BY <1>3, <2>1 DEF Moves, UnderWay, Inv, Typed, Addressed
      <3>2. CASE req[q].key = k
        BY <1>1, <1>2, <3>1, <3>2 DEF Inv, BillInv, TogetherIsRepeated
      <3>3. CASE req[q].key # k
        BY <1>2, <1>4, <2>1, <3>1, <3>3 DEF Inv, BillInv, SecondIsRepeated
      <3> QED BY <3>2, <3>3
    <2>2. ASSUME NEW j \in Keys, NEW p \in usage'[j], NEW q \in usage'[j], p # q
          PROVE  j \in repeated'
      <3>1. CASE p \in usage[j] /\ q \in usage[j]
        BY <1>2, <2>2, <3>1 DEF Inv, BillInv, SecondIsRepeated
      <3>2. CASE ~(p \in usage[j] /\ q \in usage[j])
        <4>1. j = k /\ usage[k] # {}
          BY <1>4, <2>2, <3>2
        <4> QED BY <1>1, <1>2, <4>1 DEF Inv, BillInv, SecondIsRepeated
      <3> QED BY <3>1, <3>2
    <2> QED BY <2>1, <2>2 DEF SecondIsRepeated
  <1>12. UsageIsFinite'
    <2> SUFFICES ASSUME NEW j \in Keys PROVE IsFiniteSet(usage'[j])
      BY DEF UsageIsFinite
    <2>1. IsFiniteSet(usage[j])
      BY DEF Inv, BillInv, UsageIsFinite
    <2>2. IsFiniteSet(usage[j] \cup {r})
      BY <2>1, FS_AddElement
    <2> QED BY <1>4, <2>1, <2>2
  <1> QED BY <1>5, <1>6, <1>7, <1>8, <1>9, <1>10, <1>11, <1>12 DEF Inv, OwnerInv, BillInv

\* The process dies: whoever was under way is over, and what is stored stays.
LEMMA CrashKeeps == ASSUME Inv, Crash PROVE Inv'
  <1> DEFINE over(r) == [req[r] EXCEPT !.pc = "done", !.outcome = "error"]
  <1>1. req \in [Requests -> RequestState] /\ faults \in Nat
    BY DEF Inv, Typed, TypeOK
  <1>2. \A r \in Requests :
          /\ over(r) \in RequestState /\ over(r).pc = "done" /\ over(r).outcome = "error"
          /\ over(r).user = req[r].user /\ over(r).conv = req[r].conv
          /\ over(r).key = req[r].key
    <2> SUFFICES ASSUME NEW r \in Requests
                 PROVE  /\ over(r) \in RequestState /\ over(r).pc = "done"
                        /\ over(r).outcome = "error" /\ over(r).user = req[r].user
                        /\ over(r).conv = req[r].conv /\ over(r).key = req[r].key
      OBVIOUS
    <2>1. req[r] \in RequestState /\ "done" \in PCs /\ "error" \in Outcomes
      BY <1>1 DEF PCs, Outcomes
    <2> QED BY <2>1 DEF RequestState
  <1>3. req' = [r \in Requests |-> IF UnderWay(r) THEN over(r) ELSE req[r]]
    BY DEF Crash
  <1> HIDE DEF over
  <1>4. /\ req' \in [Requests -> RequestState]
        /\ \A r \in Requests :
             /\ req'[r].user = req[r].user /\ req'[r].conv = req[r].conv
             /\ req'[r].key = req[r].key
             /\ UnderWay(r) => req'[r].pc = "done" /\ req'[r].outcome = "error"
             /\ ~UnderWay(r) => req'[r] = req[r]
    BY <1>1, <1>2, <1>3
  <1>5. faults' \in Nat /\ UNCHANGED <<owner, log, since, summary, usage, ragRuns, langchain,
                                       repeated>>
    <2>1. faults' = faults + 1
      BY DEF Crash
    <2>2. UNCHANGED <<conversation, accounting, langchain, repeated>>
      BY DEF Crash
    <2> QED BY <1>1, <2>1, <2>2 DEF conversation, accounting
  <1>6. \A r \in Requests : req'[r].pc \in {"idle", "done"}
    BY <1>4 DEF UnderWay, RequestState
  <1>7. Typed'
    <2>1. TypeOK'
      BY <1>4, <1>5 DEF Inv, Typed, TypeOK
    <2>2. Addressed'
      BY <1>4 DEF Inv, Typed, Addressed, UnderWay
    <2> QED BY <2>1, <2>2 DEF Typed
  <1>8. OwnerInv'
    <2>1. AdmittedOwns'
      BY <1>6 DEF AdmittedOwns, Admitted
    <2>2. WritersOwn'
      BY <1>4, <1>5, WritersStay DEF Inv, OwnerInv, UnderWay
    <2> QED BY <2>1, <2>2 DEF OwnerInv
  <1>9. CountInv'
    BY <1>5, <1>6 DEF Inv, CountInv, SummaryIsOfMessages, CounterIsUncovered
  <1>10. BillInv'
    <2>1. PastInsertIsBilled'
      BY <1>4, <1>5, <1>6 DEF Inv, BillInv, PastInsertIsBilled, UnderWay
    <2>2. TogetherIsRepeated'
      BY <1>6 DEF TogetherIsRepeated, UnderWay
    <2>3. SecondIsRepeated'
      BY <1>5, <1>6 DEF Inv, BillInv, SecondIsRepeated
    <2> QED BY <1>5, <2>1, <2>2, <2>3 DEF Inv, BillInv, UsageIsFinite
  <1> QED BY <1>7, <1>8, <1>9, <1>10 DEF Inv

-----------------------------------------------------------------------------
(* The theorems.                                                            *)

LEMMA InitInv == Init => Inv
  <1> SUFFICES ASSUME Init PROVE Inv
    OBVIOUS
  <1>1. Typed
    BY ChatAssumption, IdleIsState DEF Init, Typed, TypeOK, Addressed, Idle
  <1>2. OwnerInv
    BY DEF Init, OwnerInv, AdmittedOwns, WritersOwn, Idle, Admitted
  <1>3. CountInv
    <2>1. SummaryIsOfMessages
      BY DEF Init, SummaryIsOfMessages, Idle
    <2>2. CounterIsUncovered
      <3> SUFFICES ASSUME NEW c \in Conversations
                   PROVE  since[c] <= Cardinality(DOMAIN log[c] \ summary[c])
        BY DEF CounterIsUncovered
      <3>1. since[c] = 0 /\ DOMAIN log[c] \ summary[c] = {}
        BY DEF Init
      <3> QED BY <3>1, FS_EmptySet
    <2> QED BY <2>1, <2>2 DEF CountInv
  <1>4. BillInv
    BY FS_EmptySet DEF Init, BillInv, PastInsertIsBilled, TogetherIsRepeated,
       SecondIsRepeated, UsageIsFinite, UnderWay, Idle
  <1> QED BY <1>1, <1>2, <1>3, <1>4 DEF Inv

LEMMA NextInv == Inv /\ [Next]_vars => Inv'
  <1> SUFFICES ASSUME Inv, [Next]_vars PROVE Inv'
    OBVIOUS
  <1>1. ASSUME NEW r \in Requests, Step(r) PROVE Inv'
    BY <1>1, StartKeeps, WaitingKeeps, CreateKeeps, ReadingKeeps, RecordKeeps, SaveKeeps,
       UsageReadKeeps, InsertKeeps DEF Step
  <1>2. CASE Crash
    BY <1>2, CrashKeeps
  <1>3. CASE UNCHANGED vars
    BY <1>3 DEF vars, conversation, accounting, Inv, Typed, TypeOK, Addressed,
       OwnerInv, AdmittedOwns, WritersOwn, CountInv, SummaryIsOfMessages,
       CounterIsUncovered, BillInv, PastInsertIsBilled, TogetherIsRepeated,
       SecondIsRepeated, UsageIsFinite, UnderWay
  <1> QED BY <1>1, <1>2, <1>3 DEF Next

\* All of the above holds of every reachable state.
LEMMA Invariance == Spec => []Inv
  BY InitInv, NextInv, PTL DEF Spec

\* ensure_conversation compares the owner once, long before record_exchange: yet a
\* conversation holds messages of its owner only, for any number of users that send the
\* same new id at once.
THEOREM OnlyOwnersWrite == Spec => []OnlyOwnerWrites
  <1>1. Inv => OnlyOwnerWrites
    BY DEF Inv, OwnerInv, WritersOwn, OnlyOwnerWrites
  <1> QED BY <1>1, Invariance, PTL

\* messages_since_summary counts messages the saved summary does not account for,
\* whatever summarizers and exchanges of a conversation interleave, fail or die.
THEOREM CounterCountsUncovered == Spec => []CounterIsUncovered
  <1>1. Inv => CounterIsUncovered
    BY DEF Inv, CountInv
  <1> QED BY <1>1, Invariance, PTL

\* An answered request has a usage event under its key.
THEOREM EveryAnswerIsBilled == Spec => []AnsweredIsBilled
  <1>1. Inv => AnsweredIsBilled
    BY DEF Inv, BillInv, PastInsertIsBilled, AnsweredIsBilled
  <1> QED BY <1>1, Invariance, PTL

\* A key has a second usage event only if two of its deliveries were under way together:
\* a repetition after an error, a crash or an answer is not billed again.
THEOREM RepetitionIsBilledOnce == Spec => []BilledOncePerKey
  <1>1. Inv => BilledOncePerKey
    <2> SUFFICES ASSUME Inv, NEW k \in Keys, Cardinality(usage[k]) > 1
                 PROVE  k \in repeated
      BY DEF BilledOncePerKey
    <2>1. \E r, q \in usage[k] : r # q
      <3> SUFFICES ASSUME \A r, q \in usage[k] : r = q PROVE FALSE
        OBVIOUS
      <3>1. usage[k] = {} \/ \E r \in usage[k] : usage[k] = {r}
        OBVIOUS
      <3>2. Cardinality(usage[k]) = 0 \/ Cardinality(usage[k]) = 1
        BY <3>1, FS_EmptySet, FS_Singleton
      <3> QED BY <3>2
    <2> QED BY <2>1 DEF Inv, BillInv, SecondIsRepeated
  <1> QED BY <1>1, Invariance, PTL

-----------------------------------------------------------------------------
(* NothingForgotten: what summary and history together still hold.          *)

\* A counter below the trigger leaves room in the history for the messages it counts and
\* for one exchange that was not counted, and in the window of the summarizer for the
\* exchanges of two requests besides (10, 12 and 50 by default).
WindowsFit ==
  /\ SummaryTrigger > 0
  /\ \A n \in Nat : 2 * n < SummaryTrigger =>
       2 * n + 2 <= HistoryLimit /\ 2 * n + 6 <= SummaryWindow

\* The labels of a request that has recorded its exchange and may have to summarise, and
\* those of one that records nothing any more.
Busy == {"count", "window", "current", "condense", "save"}
Recorded == Busy \cup {"seen", "insert", "rag", "done"}

\* All messages of c but the last n.
AllBut(n, c) == {i \in DOMAIN log[c] : i + n <= Len(log[c])}

\* Requests of a conversation that are under way know each other.
TheyMet ==
  /\ \A r \in Requests : req[r].pc = "idle" => req[r].met = {}
  /\ \A r, q \in Requests :
       r # q /\ UnderWay(r) /\ UnderWay(q) /\ req[r].conv = req[q].conv => q \in req[r].met

\* Exchanges are counted whole.
CounterIsEven == \A c \in Conversations : \E n \in Nat : since[c] = 2 * n

\* The summary lacks one exchange that is not counted at most.
SummaryIsNear(c) == AllBut(since[c] + 2, c) \subseteq summary[c]

\* Somebody r met has recorded.
Late(r) == \E q \in req[r].met : req[q].pc \in Recorded

\* A summarizer has read all there was, and one exchange came since at most.
ReadingIsNear(r, c) ==
  /\ req[r].pc = "current" =>
       \/ Last(SummaryWindow, c) \subseteq req[r].read
       \/ Late(r) /\ Last(SummaryWindow, c) \cap AllBut(2, c) \subseteq req[r].read
  /\ req[r].pc \in {"condense", "save"} =>
       \/ DOMAIN log[c] \subseteq req[r].read
       \/ Late(r) /\ AllBut(2, c) \subseteq req[r].read

IsBusy(r, c) == req[r].conv = c /\ req[r].pc \in Busy

\* The counter is below the trigger, but for m messages.
Below(m, c) == \E n \in Nat : 2 * n < SummaryTrigger /\ since[c] <= 2 * n + m

\* It is beyond by the exchanges of those who have not summarised yet.
CounterIsBounded(c) ==
  \/ Below(0, c)
  \/ Below(2, c) /\ \E r \in Requests : IsBusy(r, c)
  \/ Below(4, c) /\ \E r, q \in Requests : r # q /\ IsBusy(r, c) /\ IsBusy(q, c)

\* The summary a lone request has got lacks no more than the history will give.
ContextIsNear(r, c) ==
  req[r].pc = "history" /\ req[r].met = {} => AllBut(HistoryLimit, c) \subseteq req[r].context

Near(c) ==
  /\ SummaryIsNear(c) /\ CounterIsBounded(c)
  /\ \A r \in Requests : req[r].conv = c => ReadingIsNear(r, c) /\ ContextIsNear(r, c)

PairInv == \A c \in Conversations : faults = 0 /\ InPairs(c) => Near(c)
SummaryInv == TheyMet /\ CounterIsEven /\ PairInv

LEMMA NoThird ==
  ASSUME TheyMet, NEW c, InPairs(c), NEW r \in Requests, NEW p \in Requests, NEW q \in Requests,
         UnderWay(r), UnderWay(p), UnderWay(q),
         req[r].conv = c, req[p].conv = c, req[q].conv = c, r # p, r # q
  PROVE  p = q
  BY DEF TheyMet, InPairs

\* Where no message, counter or summary changes, requests that were not in pairs or not
\* near before are not so now, and nobody but r changes.
LEMMA QuietNear ==
  ASSUME PairInv, req \in [Requests -> RequestState], NEW r \in Requests,
         UNCHANGED <<log, since, summary, faults>>,
         \A q \in Requests : /\ req[q].met \subseteq req'[q].met
                             /\ req[q].pc \in Recorded => req'[q].pc \in Recorded,
         \A q \in Requests \ {r} :
           /\ req'[q].pc = req[q].pc /\ req'[q].conv = req[q].conv
           /\ req'[q].read = req[q].read /\ req'[q].context = req[q].context,
         req'[r].conv = req[r].conv \/ (req[r].met = {} /\ req[r].pc = "idle"),
         \A c \in Conversations :
           faults = 0 /\ InPairs(c) /\ req'[r].conv = c =>
             ReadingIsNear(r, c)' /\ ContextIsNear(r, c)',
         \A c \in Conversations :
           faults = 0 /\ InPairs(c) /\ IsBusy(r, c) => IsBusy(r, c)' \/ Below(0, c)
  PROVE  PairInv'
  <1> SUFFICES ASSUME NEW c \in Conversations, faults' = 0, InPairs(c)'
               PROVE  Near(c)'
    BY DEF PairInv
  <1>1. InPairs(c)
    <2> SUFFICES ASSUME NEW q \in Requests, req[q].conv = c,
                        NEW p \in req[q].met, NEW s \in req[q].met
                 PROVE  p = s
      BY DEF InPairs
    <2>1. req'[q].conv = c
      OBVIOUS
    <2> QED BY <2>1 DEF InPairs
  <1>2. Near(c) /\ faults = 0
    BY <1>1 DEF PairInv
  <1>3. SummaryIsNear(c)'
    BY <1>2 DEF Near, SummaryIsNear, AllBut
  <1>4. \A m : Below(m, c) => Below(m, c)'
    BY DEF Below
  <1>5. \A q \in Requests : IsBusy(q, c) => IsBusy(q, c)' \/ Below(0, c)
    BY <1>1, <1>2 DEF IsBusy
  <1>6. CounterIsBounded(c)'
    BY <1>2, <1>4, <1>5 DEF Near, CounterIsBounded
  <1>7. ASSUME NEW q \in Requests, req'[q].conv = c
        PROVE  ReadingIsNear(q, c)' /\ ContextIsNear(q, c)'
    <2>1. CASE q = r
      BY <1>1, <1>2, <1>7, <2>1
    <2>2. CASE q # r
      <3>1. req[q].conv = c /\ ReadingIsNear(q, c) /\ ContextIsNear(q, c)
        BY <1>2, <1>7, <2>2 DEF Near
      <3>2. Late(q) => Late(q)'
        <4> SUFFICES ASSUME NEW p \in req[q].met, req[p].pc \in Recorded PROVE Late(q)'
          BY DEF Late
        <4>1. p \in req'[q].met /\ p \in Requests
          BY DEF RequestState
        <4> QED BY <4>1 DEF Late
      <3>3. AllBut(2, c)' = AllBut(2, c) /\ Last(SummaryWindow, c)' = Last(SummaryWindow, c)
            /\ AllBut(HistoryLimit, c)' = AllBut(HistoryLimit, c)
        BY DEF AllBut, Last
      <3>4. ReadingIsNear(q, c)'
        BY <2>2, <3>1, <3>2, <3>3 DEF ReadingIsNear
      <3>5. ContextIsNear(q, c)'
        BY <2>2, <3>1, <3>3 DEF ContextIsNear
      <3> QED BY <3>4, <3>5
    <2> QED BY <2>1, <2>2
  <1> QED BY <1>3, <1>6, <1>7 DEF Near

\* Those who are under way met before, and r among them.
LEMMA MetStays ==
  ASSUME TheyMet, NEW r \in Requests, NEW label \in PCs \ {"idle"}, Moves(r, label), UnderWay(r)
  PROVE  TheyMet'
  <1>1. \A q \in Requests :
          /\ req'[q].met = req[q].met /\ req'[q].conv = req[q].conv
          /\ UnderWay(q)' => UnderWay(q)
          /\ req'[q].pc = "idle" => req[q].pc = "idle"
    BY DEF Moves, UnderWay
  <1> QED BY <1>1 DEF TheyMet

\* The same of a step of r that was under way and goes on to a label.
LEMMA MovesNear ==
  ASSUME Inv, SummaryInv, NEW r \in Requests, NEW label \in PCs \ {"idle"}, Moves(r, label),
         UnderWay(r), UNCHANGED <<log, since, summary, faults>>,
         req[r].pc \in Recorded => label \in Recorded,
         \A c \in Conversations : c = req[r].conv /\ faults = 0 /\ InPairs(c) =>
           /\ ReadingIsNear(r, c)' /\ ContextIsNear(r, c)'
           /\ req[r].pc \in Busy => label \in Busy \/ Below(0, c)
  PROVE  SummaryInv'
  <1>1. TheyMet' /\ CounterIsEven'
    BY MetStays DEF SummaryInv, CounterIsEven
  <1>2. PairInv'
    <2>1. \A q \in Requests : /\ req[q].met \subseteq req'[q].met
                              /\ req[q].pc \in Recorded => req'[q].pc \in Recorded
      BY DEF Moves
    <2>2. \A q \in Requests \ {r} : req'[q] = req[q]
      BY DEF Moves
    <2>3. req'[r].conv = req[r].conv /\ req'[r].pc = label
      BY DEF Moves
    <2>4. \A c \in Conversations :
            faults = 0 /\ InPairs(c) /\ IsBusy(r, c) => IsBusy(r, c)' \/ Below(0, c)
      BY <2>3 DEF IsBusy
    <2>5. req \in [Requests -> RequestState] /\ PairInv
      BY DEF Inv, Typed, TypeOK, SummaryInv
    <2> QED BY <2>1, <2>2, <2>3, <2>4, <2>5, QuietNear
  <1> QED BY <1>1, <1>2 DEF SummaryInv

\* A label that asks for nothing to be near.
LEMMA FreeNear ==
  ASSUME Inv, SummaryInv, NEW r \in Requests,
         NEW label \in PCs \ {"idle", "history", "current", "condense", "save"},
         Moves(r, label), UnderWay(r), UNCHANGED <<log, since, summary, faults>>,
         req[r].pc \in Recorded => label \in Recorded,
         req[r].pc \in Busy => label \in Busy \/ Below(0, req[r].conv)
  PROVE  SummaryInv'
  <1>1. \A c : ReadingIsNear(r, c)' /\ ContextIsNear(r, c)'
    BY DEF ReadingIsNear, ContextIsNear, Moves
  <1> QED BY <1>1, MovesNear

\* After a fault nothing is promised.
LEMMA FaultNear ==
  ASSUME SummaryInv, faults \in Nat, faults' = faults + 1, UNCHANGED since, TheyMet'
  PROVE  SummaryInv'
  BY DEF SummaryInv, CounterIsEven, PairInv

\* Steps that only go on to another label that asks for nothing.
LEMMA WaitingNear ==
  ASSUME Inv, SummaryInv, NEW r \in Requests,
         ProviderReady(r) \/ ProviderMissing(r) \/ EnsureConversation(r) \/ CreateConversation(r)
           \/ LegacySearch(r) \/ Chain(r) \/ FindUsage(r) \/ InsertUsage(r) \/ WriteRagRun(r)
  PROVE  SummaryInv'
  <1>1. req \in [Requests -> RequestState]
    BY DEF Inv, Typed, TypeOK
  <1>2. UNCHANGED <<log, since, summary, faults>>
    BY DEF ProviderReady, ProviderMissing, EnsureConversation, CreateConversation,
           LegacySearch, Chain, FindUsage, InsertUsage, WriteRagRun, conversation
  <1>3. /\ req[r].pc \in {"provider", "ensure", "create", "search", "chain", "seen", "insert", "rag"}
        /\ UnderWay(r)
    BY DEF ProviderReady, ProviderMissing, EnsureConversation, CreateConversation,
           LegacySearch, Chain, FindUsage, InsertUsage, WriteRagRun, At, UnderWay
  <1>4. \/ \E label \in {"ensure", "create", "summary", "record"} :
             Goto(r, label) /\ req[r].pc \in {"provider", "ensure", "create", "chain"}
        \/ \E label \in {"insert", "rag"} : Goto(r, label)
        \/ \E outcome \in Outcomes : Finish(r, outcome)
    BY DEF ProviderReady, ProviderMissing, EnsureConversation, CreateConversation, LegacySearch,
           Chain, FindUsage, InsertUsage, WriteRagRun, At, Outcomes
  <1>5. PICK label \in {"ensure", "create", "summary", "record", "insert", "rag", "done"} :
          /\ Moves(r, label)
          /\ label \in {"insert", "rag", "done"}
             \/ req[r].pc \in {"provider", "ensure", "create", "chain"}
    <2>1. ASSUME NEW label \in {"ensure", "create", "summary", "record", "insert", "rag"},
                 Goto(r, label)
          PROVE  Moves(r, label)
      BY <1>1, <2>1, GotoMoves DEF PCs
    <2>2. ASSUME NEW outcome \in Outcomes, Finish(r, outcome) PROVE Moves(r, "done")
      BY <1>1, <2>2, FinishMoves
    <2> QED BY <1>4, <2>1, <2>2
  <1>6. req[r].pc \in Recorded => label \in Recorded
    BY <1>3, <1>5 DEF Recorded, Busy
  <1>7. req[r].pc \notin Busy
    BY <1>3 DEF Busy
  <1> QED BY <1>2, <1>3, <1>5, <1>6, <1>7, FreeNear DEF PCs

\* A failing model or database: a fault.
LEMMA FailureNear ==
  ASSUME Inv, SummaryInv, NEW r \in Requests, CondenseFails(r) \/ Raises(r)
  PROVE  SummaryInv'
  <1>1. req \in [Requests -> RequestState] /\ faults \in Nat /\ TheyMet
    BY DEF Inv, Typed, TypeOK, SummaryInv
  <1>2. faults' = faults + 1 /\ UNCHANGED since /\ UnderWay(r)
    BY DEF CondenseFails, Raises, conversation, At, UnderWay
  <1>3. Moves(r, "seen") \/ Moves(r, "done")
    BY <1>1, GotoMoves, FinishMoves DEF CondenseFails, Raises, PCs, Outcomes
  <1>4. TheyMet'
    BY <1>1, <1>2, <1>3, MetStays DEF PCs
  <1> QED BY <1>1, <1>2, <1>4, FaultNear

LEMMA CrashNear == ASSUME Inv, SummaryInv, Crash PROVE SummaryInv'
  <1>1. req \in [Requests -> RequestState] /\ faults \in Nat /\ TheyMet
    BY DEF Inv, Typed, TypeOK, SummaryInv
  <1>2. faults' = faults + 1 /\ UNCHANGED since
    BY DEF Crash, conversation
  <1>3. \A q \in Requests : ~UnderWay(q)' /\ (req'[q].pc = "idle" => req'[q] = req[q])
    <2> SUFFICES ASSUME NEW q \in Requests
                 PROVE  ~UnderWay(q)' /\ (req'[q].pc = "idle" => req'[q] = req[q])
      OBVIOUS
    <2>1. [req[q] EXCEPT !.pc = "done", !.outcome = "error"].pc = "done"
      BY <1>1 DEF RequestState
    <2>2. req'[q] = IF UnderWay(q) THEN [req[q] EXCEPT !.pc = "done", !.outcome = "error"]
                                   ELSE req[q]
      BY DEF Crash
    <2> QED BY <2>1, <2>2 DEF UnderWay
  <1>4. TheyMet'
    BY <1>1, <1>3 DEF TheyMet
  <1> QED BY <1>1, <1>2, <1>4, FaultNear

\* A new request meets those under way in its conversation, and they meet it.
LEMMA StartNear ==
  ASSUME Inv, SummaryInv, NEW r \in Requests, NEW u \in Users, NEW c \in Conversations,
         NEW k \in Keys, Start(r, u, c, k)
  PROVE  SummaryInv'
  <1>1. req \in [Requests -> RequestState] /\ TheyMet /\ PairInv /\ CounterIsEven
    BY DEF Inv, Typed, TypeOK, SummaryInv
  <1>2. req[r].pc = "idle" /\ r \notin Beside(c) /\ UNCHANGED <<log, since, summary, faults>>
    BY DEF Start, At, Beside, UnderWay, conversation
  <1>3. /\ req'[r].pc = "provider" /\ req'[r].conv = c /\ req'[r].met = Beside(c)
        /\ \A q \in Requests \ {r} :
             /\ req'[q].pc = req[q].pc /\ req'[q].conv = req[q].conv
             /\ req'[q].read = req[q].read /\ req'[q].context = req[q].context
             /\ req'[q].met = IF q \in Beside(c) THEN req[q].met \cup {r} ELSE req[q].met
    <2>1. req'[r] = [Idle EXCEPT !.pc = "provider", !.user = u, !.conv = c, !.key = k,
                                 !.met = Beside(c)]
      BY <1>2 DEF Start
    <2>2. ASSUME NEW q \in Requests \ {r}
          PROVE  /\ req'[q].pc = req[q].pc /\ req'[q].conv = req[q].conv
                 /\ req'[q].read = req[q].read /\ req'[q].context = req[q].context
                 /\ req'[q].met = IF q \in Beside(c) THEN req[q].met \cup {r} ELSE req[q].met
      <3>1. CASE q \in Beside(c)
        <4>1. req'[q] = [req[q] EXCEPT !.met = @ \cup {r}]
          BY <3>1, <2>2 DEF Start
        <4> QED BY <1>1, <3>1, <4>1 DEF RequestState
      <3>2. CASE q \notin Beside(c)
        <4>1. req'[q] = req[q]
          BY <3>2, <2>2 DEF Start
        <4> QED BY <3>2, <4>1
      <3> QED BY <3>1, <3>2
    <2> QED BY <2>1, <2>2 DEF Idle
  <1>4. TheyMet'
    <2>1. ASSUME NEW q \in Requests, req'[q].pc = "idle" PROVE req'[q].met = {}
      <3>1. q # r /\ req[q].pc = "idle"
        BY <1>3, <2>1
      <3>2. q \notin Beside(c) /\ req[q].met = {}
        BY <1>1, <3>1 DEF TheyMet, Beside, UnderWay
      <3> QED BY <1>3, <3>1, <3>2
    <2>2. ASSUME NEW p \in Requests, NEW q \in Requests, p # q, UnderWay(p)', UnderWay(q)',
                 req'[p].conv = req'[q].conv
          PROVE  q \in req'[p].met
      <3>1. CASE p # r /\ q # r
        <4>1. UnderWay(p) /\ UnderWay(q) /\ req[p].conv = req[q].conv
          BY <1>3, <2>2, <3>1 DEF UnderWay
        <4>2. q \in req[p].met
          BY <1>1, <2>2, <4>1 DEF TheyMet
        <4> QED BY <1>3, <3>1, <4>2
      <3>2. CASE p = r
        BY <1>3, <2>2, <3>2 DEF Beside, UnderWay
      <3>3. CASE q = r
        BY <1>3, <2>2, <3>3 DEF Beside, UnderWay
      <3> QED BY <3>1, <3>2, <3>3
    <2> QED BY <2>1, <2>2 DEF TheyMet
  <1>5. PairInv'
    <2>1. req[r].met = {}
      BY <1>1, <1>2 DEF TheyMet
    <2>2. \A q \in Requests : /\ req[q].met \subseteq req'[q].met
                              /\ req[q].pc \in Recorded => req'[q].pc \in Recorded
      BY <1>2, <1>3, <2>1 DEF Recorded, Busy
    <2>3. \A d \in Conversations : ReadingIsNear(r, d)' /\ ContextIsNear(r, d)'
      BY <1>3 DEF ReadingIsNear, ContextIsNear
    <2>4. \A d \in Conversations : ~IsBusy(r, d)
      BY <1>2 DEF IsBusy, Busy
    <2> QED BY <1>1, <1>2, <1>3, <2>1, <2>2, <2>3, <2>4, QuietNear
  <1>6. CounterIsEven'
    BY <1>1, <1>2 DEF CounterIsEven
  <1> QED BY <1>4, <1>5, <1>6 DEF SummaryInv

\* A lone request finds nobody in the middle of a summary.
LEMMA LoneIsBelow ==
  ASSUME TheyMet, NEW r \in Requests, UnderWay(r), req[r].pc \notin Busy, req[r].met = {},
         CounterIsBounded(req[r].conv)
  PROVE  Below(0, req[r].conv)
  <1>1. ASSUME NEW q \in Requests, IsBusy(q, req[r].conv) PROVE FALSE
    <2>1. q # r /\ UnderWay(q) /\ req[q].conv = req[r].conv
      BY <1>1 DEF IsBusy, Busy, UnderWay
    <2> QED BY <2>1 DEF TheyMet
  <1> QED BY <1>1 DEF CounterIsBounded

\* What a summary that lacks n messages has is more than what one that lacks more has.
LEMMA FewerAreMore ==
  ASSUME log \in [Conversations -> Seq(Requests)], NEW c \in Conversations,
         NEW m \in Nat, NEW n \in Nat, m <= n
  PROVE  AllBut(n, c) \subseteq AllBut(m, c)
  <1>1. Len(log[c]) \in Nat /\ DOMAIN log[c] \subseteq Nat
    OBVIOUS
  <1> QED BY <1>1 DEF AllBut

\* GetSummary: the counter bounds what a lone request is not told.
LEMMA GetSummaryNear ==
  ASSUME WindowsFit, Inv, SummaryInv, NEW r \in Requests, GetSummary(r)
  PROVE  SummaryInv'
  <1>0. PICK c \in Conversations : c = req[r].conv
    BY DEF Inv, Typed, Addressed, GetSummary, At
  <1>1. /\ req \in [Requests -> RequestState] /\ log \in [Conversations -> Seq(Requests)]
        /\ since \in [Conversations -> Nat] /\ summary \in [Conversations -> SUBSET Nat]
        /\ req[r].pc = "summary" /\ UnderWay(r)
        /\ UNCHANGED <<log, since, summary, faults>>
    BY DEF Inv, Typed, TypeOK, GetSummary, At, UnderWay, conversation
  <1>2. Moves(r, "history") /\ req'[r].context = summary[c]
    <2>1. [req[r] EXCEPT !.pc = "history", !.context = summary[c]] \in RequestState
      <3>1. req[r] \in RequestState /\ "history" \in PCs /\ summary[c] \in SUBSET Nat
        BY <1>1 DEF PCs
      <3> QED BY <3>1 DEF RequestState
    <2>2. req' = [req EXCEPT ![r].pc = "history", ![r].context = summary[c]]
      BY <1>0 DEF GetSummary
    <2> QED BY <1>1, <2>1, <2>2 DEF Moves, RequestState
  <1>3. ASSUME faults = 0, InPairs(c), req[r].met = {}
        PROVE  AllBut(HistoryLimit, c) \subseteq summary[c]
    <2>1. SummaryIsNear(c) /\ CounterIsBounded(c) /\ TheyMet
      BY <1>1, <1>3 DEF SummaryInv, PairInv, Near
    <2>2. PICK n \in Nat : 2 * n < SummaryTrigger /\ since[c] <= 2 * n + 0
      BY <1>0, <1>1, <1>3, <2>1, LoneIsBelow DEF Busy, Below
    <2>3. since[c] + 2 <= HistoryLimit /\ since[c] + 2 \in Nat /\ HistoryLimit \in Nat
      BY <1>1, <2>2, ChatAssumption DEF WindowsFit
    <2>4. AllBut(HistoryLimit, c) \subseteq AllBut(since[c] + 2, c)
      BY <1>1, <2>3, FewerAreMore
    <2> QED BY <2>1, <2>4 DEF SummaryIsNear
  <1>4. ASSUME faults = 0, InPairs(c) PROVE ContextIsNear(r, c)'
    <2>1. AllBut(HistoryLimit, c)' = AllBut(HistoryLimit, c)
      BY <1>1 DEF AllBut
    <2> QED BY <1>2, <1>3, <1>4, <2>1 DEF ContextIsNear, Moves
  <1>5. ReadingIsNear(r, c)'
    BY <1>2 DEF ReadingIsNear, Moves
  <1>6. req[r].pc \notin Recorded /\ req[r].pc \notin Busy
    BY <1>1 DEF Recorded, Busy
  <1> QED BY <1>0, <1>1, <1>2, <1>4, <1>5, <1>6, MovesNear DEF PCs

LEMMA GetHistoryNear ==
  ASSUME Inv, SummaryInv, NEW r \in Requests, GetHistory(r)
  PROVE  SummaryInv'
  <1>1. /\ req \in [Requests -> RequestState] /\ log \in [Conversations -> Seq(Requests)]
        /\ req[r].pc = "history" /\ UnderWay(r) /\ req[r].conv \in Conversations
        /\ UNCHANGED <<log, since, summary, faults>>
    BY DEF Inv, Typed, TypeOK, Addressed, GetHistory, At, UnderWay, conversation
  <1>2. PICK label \in {"chain", "search"} :
          req' = [req EXCEPT ![r].pc = label,
                             ![r].context = @ \cup Last(HistoryLimit, req[r].conv)]
    BY DEF GetHistory
  <1>3. Moves(r, label)
    <2>1. [req[r] EXCEPT !.pc = label, !.context = @ \cup Last(HistoryLimit, req[r].conv)]
            \in RequestState
      <3>1. req[r] \in RequestState /\ label \in PCs
            /\ Last(HistoryLimit, req[r].conv) \in SUBSET Nat
        BY <1>1 DEF PCs, Last
      <3> QED BY <3>1 DEF RequestState
    <2> QED BY <1>1, <1>2, <2>1 DEF Moves, RequestState
  <1>4. req[r].pc \notin Recorded /\ req[r].pc \notin Busy
    BY <1>1 DEF Recorded, Busy
  <1> QED BY <1>1, <1>3, <1>4, FreeNear DEF PCs

\* CheckTrigger: whoever does not summarise has found the counter below the trigger.
LEMMA TriggerNear ==
  ASSUME Inv, SummaryInv, NEW r \in Requests, CheckTrigger(r)
  PROVE  SummaryInv'
  <1>1. /\ req \in [Requests -> RequestState] /\ since \in [Conversations -> Nat]
        /\ req[r].pc = "count" /\ UnderWay(r) /\ req[r].conv \in Conversations
        /\ UNCHANGED <<log, since, summary, faults>>
    BY DEF Inv, Typed, TypeOK, Addressed, CheckTrigger, At, UnderWay, conversation
  <1>2. CASE since[req[r].conv] >= SummaryTrigger
    <2>1. Moves(r, "window")
      BY <1>1, <1>2, GotoMoves DEF CheckTrigger, PCs
    <2> QED BY <1>1, <2>1, FreeNear DEF PCs, Recorded, Busy
  <1>3. CASE ~(since[req[r].conv] >= SummaryTrigger)
    <2>1. Moves(r, "seen")
      BY <1>1, <1>3, GotoMoves DEF CheckTrigger, PCs
    <2>2. Below(0, req[r].conv)
      <3>1. PICK n \in Nat : since[req[r].conv] = 2 * n
        BY <1>1 DEF SummaryInv, CounterIsEven
      <3>2. 2 * n < SummaryTrigger /\ since[req[r].conv] <= 2 * n + 0
        BY <1>1, <1>3, <3>1, ChatAssumption
      <3> QED BY <3>2 DEF Below
    <2> QED BY <1>1, <2>1, <2>2, FreeNear DEF PCs, Recorded, Busy
  <1> QED BY <1>2, <1>3

\* The summarizer reads the window, ...
LEMMA WindowNear ==
  ASSUME Inv, SummaryInv, NEW r \in Requests, ReadWindow(r)
  PROVE  SummaryInv'
  <1>0. PICK c \in Conversations : c = req[r].conv
    BY DEF Inv, Typed, Addressed, ReadWindow, At
  <1>1. /\ req \in [Requests -> RequestState] /\ log \in [Conversations -> Seq(Requests)]
        /\ req[r].pc = "window" /\ UnderWay(r)
        /\ UNCHANGED <<log, since, summary, faults>>
    BY DEF Inv, Typed, TypeOK, ReadWindow, At, UnderWay, conversation
  <1>2. Moves(r, "current") /\ req'[r].read = Last(SummaryWindow, c)
    <2>1. [req[r] EXCEPT !.pc = "current", !.read = Last(SummaryWindow, c)] \in RequestState
      <3>1. req[r] \in RequestState /\ "current" \in PCs /\ Last(SummaryWindow, c) \in SUBSET Nat
        BY <1>1 DEF PCs, Last
      <3> QED BY <3>1 DEF RequestState
    <2>2. req' = [req EXCEPT ![r].pc = "current", ![r].read = Last(SummaryWindow, c)]
      BY <1>0 DEF ReadWindow
    <2> QED BY <1>1, <2>1, <2>2 DEF Moves, RequestState
  <1>3. req'[r].pc = "current" /\ Last(SummaryWindow, c)' = Last(SummaryWindow, c)
    BY <1>1, <1>2 DEF Last, Moves
  <1>4. ReadingIsNear(r, c)' /\ ContextIsNear(r, c)'
    BY <1>2, <1>3 DEF ReadingIsNear, ContextIsNear
  <1> QED BY <1>0, <1>1, <1>2, <1>4, MovesNear DEF PCs, Recorded, Busy

\* ... then the summary, which has what the window is too short for ...
LEMMA CurrentNear ==
  ASSUME WindowsFit, Inv, SummaryInv, NEW r \in Requests, ReadCurrent(r)
  PROVE  SummaryInv'
  <1>0. PICK c \in Conversations : c = req[r].conv
    BY DEF Inv, Typed, Addressed, ReadCurrent, At
  <1> DEFINE read == req[r].read \cup summary[c]
  <1>1. /\ req \in [Requests -> RequestState] /\ log \in [Conversations -> Seq(Requests)]
        /\ since \in [Conversations -> Nat] /\ summary \in [Conversations -> SUBSET Nat]
        /\ req[r].pc = "current" /\ UnderWay(r)
        /\ UNCHANGED <<log, since, summary, faults>>
    BY DEF Inv, Typed, TypeOK, ReadCurrent, At, UnderWay, conversation
  <1>2. Moves(r, "condense") /\ req'[r].read = read
    <2>1. [req[r] EXCEPT !.pc = "condense", !.read = read] \in RequestState
      <3>1. req[r] \in RequestState /\ "condense" \in PCs /\ summary[c] \in SUBSET Nat
        BY <1>1 DEF PCs
      <3> QED BY <3>1 DEF RequestState
    <2>2. req' = [req EXCEPT ![r].pc = "condense", ![r].read = read]
      BY <1>0 DEF ReadCurrent
    <2> QED BY <1>1, <2>1, <2>2 DEF Moves, RequestState
  <1>3. ASSUME faults = 0, InPairs(c)
        PROVE  DOMAIN log[c] \subseteq read \/ (Late(r) /\ AllBut(2, c) \subseteq read)
    <2>1. Near(c)
      BY <1>1, <1>3 DEF SummaryInv, PairInv
    <2>2. PICK n \in Nat : 2 * n < SummaryTrigger /\ since[c] <= 2 * n + 4
      <3>1. \A m \in {0, 2, 4} : Below(m, c) =>
              \E n \in Nat : 2 * n < SummaryTrigger /\ since[c] <= 2 * n + 4
        BY <1>1 DEF Below
      <3> QED BY <2>1, <3>1 DEF Near, CounterIsBounded
    <2>3. since[c] + 2 <= SummaryWindow /\ SummaryWindow \in Nat /\ since[c] \in Nat
      BY <1>1, <2>2, ChatAssumption DEF WindowsFit
    <2>4. Len(log[c]) \in Nat /\ DOMAIN log[c] \subseteq Nat
      BY <1>1
    <2>5. ASSUME NEW i \in DOMAIN log[c], i \notin Last(SummaryWindow, c) PROVE i \in summary[c]
      <3>1. i \in AllBut(since[c] + 2, c)
        <4>1. ~(i + SummaryWindow > Len(log[c])) /\ i \in Nat
          BY <2>4, <2>5 DEF Last
        <4>2. i + (since[c] + 2) <= Len(log[c])
          BY <2>3, <2>4, <4>1
        <4> QED BY <4>2 DEF AllBut
      <3> QED BY <2>1, <3>1 DEF Near, SummaryIsNear
    <2>6. \/ Last(SummaryWindow, c) \subseteq req[r].read
          \/ Late(r) /\ Last(SummaryWindow, c) \cap AllBut(2, c) \subseteq req[r].read
      BY <1>0, <1>1, <2>1 DEF Near, ReadingIsNear
    <2>7. AllBut(2, c) \subseteq DOMAIN log[c]
      BY DEF AllBut
    <2> QED BY <2>5, <2>6, <2>7
  <1>4. ASSUME faults = 0, InPairs(c) PROVE ReadingIsNear(r, c)'
    <2>1. AllBut(2, c)' = AllBut(2, c) /\ DOMAIN log'[c] = DOMAIN log[c]
      BY <1>1 DEF AllBut
    <2>2. req'[r].pc = "condense" /\ req'[r].met = req[r].met
          /\ \A q \in Requests \ {r} : req'[q] = req[q]
      BY <1>2 DEF Moves
    <2>3. Late(r) => Late(r)'
      <3>1. req[r].met \subseteq Requests
        BY <1>1 DEF RequestState
      <3> QED BY <1>1, <2>2, <3>1 DEF Late, Recorded, Busy
    <2> HIDE DEF read
    <2> QED BY <1>2, <1>3, <1>4, <2>1, <2>2, <2>3 DEF ReadingIsNear
  <1>5. ContextIsNear(r, c)'
    BY <1>2 DEF ContextIsNear, Moves
  <1> QED BY <1>0, <1>1, <1>2, <1>4, <1>5, MovesNear DEF PCs, Recorded, Busy

\* ... and calls the model.
LEMMA CondenseNear ==
  ASSUME Inv, SummaryInv, NEW r \in Requests, Condense(r)
  PROVE  SummaryInv'
  <1>0. PICK c \in Conversations : c = req[r].conv
    BY DEF Inv, Typed, Addressed, Condense, At
  <1>1. /\ req \in [Requests -> RequestState] /\ req[r].pc = "condense" /\ UnderWay(r)
        /\ UNCHANGED <<log, since, summary, faults>>
    BY DEF Inv, Typed, TypeOK, Condense, At, UnderWay, conversation
  <1>2. Moves(r, "save") /\ req'[r].read = req[r].read
    BY <1>1, GotoMoves DEF Condense, PCs
  <1>3. AllBut(2, c)' = AllBut(2, c) /\ DOMAIN log'[c] = DOMAIN log[c]
    BY <1>1 DEF AllBut
  <1>4. req'[r].pc = "save" /\ req'[r].met = req[r].met
        /\ \A q \in Requests \ {r} : req'[q] = req[q]
    BY <1>2 DEF Moves
  <1>5. Late(r) => Late(r)'
    <2>1. req[r].met \subseteq Requests
      BY <1>1 DEF RequestState
    <2> QED BY <1>1, <1>4, <2>1 DEF Late, Recorded, Busy
  <1>6. ASSUME faults = 0, InPairs(c) PROVE ReadingIsNear(r, c)'
    <2>1. ReadingIsNear(r, c)
      BY <1>0, <1>6 DEF SummaryInv, PairInv, Near
    <2> QED BY <1>1, <1>2, <1>3, <1>4, <1>5, <2>1 DEF ReadingIsNear
  <1>7. ContextIsNear(r, c)'
    BY <1>4 DEF ContextIsNear
  <1> QED BY <1>0, <1>1, <1>2, <1>6, <1>7, MovesNear DEF PCs, Recorded, Busy

\* RecordExchange: whoever is summarising meets one recorder only, and that one once.
LEMMA RecordNear ==
  ASSUME Inv, SummaryInv, NEW r \in Requests, RecordExchange(r)
  PROVE  SummaryInv'
  <1>0. PICK c \in Conversations : c = req[r].conv
    BY DEF Inv, Typed, Addressed, RecordExchange, At
  <1>1. /\ req \in [Requests -> RequestState] /\ log \in [Conversations -> Seq(Requests)]
        /\ since \in [Conversations -> Nat] /\ summary \in [Conversations -> SUBSET Nat]
        /\ req[r].pc = "record" /\ UnderWay(r) /\ UNCHANGED <<summary, faults>>
    BY DEF Inv, Typed, TypeOK, RecordExchange, At, UnderWay
  <1>2. Moves(r, "count")
    BY <1>1, GotoMoves DEF RecordExchange, PCs
  <1>3. /\ since'[c] = since[c] + 2 /\ log'[c] = log[c] \o <<r, r>>
        /\ \A d \in Conversations \ {c} : since'[d] = since[d] /\ log'[d] = log[d]
    BY <1>0, <1>1 DEF RecordExchange
  <1>4. /\ Len(log[c]) \in Nat /\ DOMAIN log[c] = 1 .. Len(log[c])
        /\ Len(log'[c]) = Len(log[c]) + 2 /\ DOMAIN log'[c] = 1 .. Len(log[c]) + 2
    BY <1>1, <1>3
  <1>5. /\ req'[r].pc = "count" /\ req'[r].conv = c
        /\ \A q \in Requests : req'[q].met = req[q].met /\ req'[q].conv = req[q].conv
        /\ \A q \in Requests \ {r} : req'[q] = req[q]
    BY <1>0, <1>2 DEF Moves
  <1>6. TheyMet /\ TheyMet'
    BY <1>1, <1>2, MetStays DEF SummaryInv, PCs
  <1>7. CounterIsEven'
    <2> SUFFICES ASSUME NEW d \in Conversations PROVE \E n \in Nat : since'[d] = 2 * n
      BY DEF CounterIsEven
    <2>1. PICK n \in Nat : since[d] = 2 * n
      BY DEF SummaryInv, CounterIsEven
    <2>2. CASE d = c
      <3>1. since'[d] = 2 * (n + 1) /\ n + 1 \in Nat
        BY <1>3, <2>1, <2>2
      <3> QED BY <3>1
    <2>3. CASE d # c
      BY <1>3, <2>1, <2>3
    <2> QED BY <2>2, <2>3
  <1>8. \A q \in Requests : req[q].pc \in Recorded => req'[q].pc \in Recorded
    BY <1>5 DEF Recorded, Busy
  <1>9. \A q \in Requests : Late(q) => Late(q)'
    <2> SUFFICES ASSUME NEW q \in Requests, NEW p \in req[q].met, req[p].pc \in Recorded
                 PROVE  Late(q)'
      BY DEF Late
    <2>1. p \in req'[q].met /\ p \in Requests
      BY <1>1, <1>5 DEF RequestState
    <2> QED BY <1>8, <2>1 DEF Late
  <1>10. \A d \in Conversations, q \in Requests : IsBusy(q, d) => IsBusy(q, d)'
    BY <1>1, <1>5 DEF IsBusy, Busy
  <1>11. ASSUME NEW d \in Conversations, faults' = 0, InPairs(d)' PROVE Near(d)'
    <2>1. InPairs(d) /\ faults = 0
      BY <1>1, <1>5, <1>11 DEF InPairs
    <2>2. Near(d)
      BY <2>1 DEF SummaryInv, PairInv
    <2>3. CASE d # c
      <3>1. since'[d] = since[d] /\ log'[d] = log[d] /\ summary'[d] = summary[d]
        BY <1>1, <1>3, <2>3
      <3>2. \A n : AllBut(n, d)' = AllBut(n, d) /\ Last(n, d)' = Last(n, d)
        BY <3>1 DEF AllBut, Last
      <3>3. SummaryIsNear(d)'
        BY <2>2, <3>1 DEF Near, SummaryIsNear, AllBut
      <3>4. CounterIsBounded(d)'
        BY <1>10, <2>2, <3>1 DEF Near, CounterIsBounded, Below
      <3>5. ASSUME NEW q \in Requests, req'[q].conv = d
            PROVE  ReadingIsNear(q, d)' /\ ContextIsNear(q, d)'
        <4>1. req'[q] = req[q] /\ ReadingIsNear(q, d) /\ ContextIsNear(q, d)
          BY <1>5, <2>2, <2>3, <3>5 DEF Near
        <4>2. ReadingIsNear(q, d)'
          BY <1>9, <3>1, <3>2, <4>1 DEF ReadingIsNear
        <4>3. ContextIsNear(q, d)'
          BY <3>2, <4>1 DEF ContextIsNear
        <4> QED BY <4>2, <4>3
      <3> QED BY <3>3, <3>4, <3>5 DEF Near
    <2>4. CASE d = c
      <3>1. SummaryIsNear(c)'
        <4>1. ASSUME NEW i \in DOMAIN log'[c], i + (since[c] + 2 + 2) <= Len(log'[c])
              PROVE  i \in summary[c]
          <5>1. i \in DOMAIN log[c] /\ i + (since[c] + 2) <= Len(log[c])
            BY <1>1, <1>4, <4>1
          <5> QED BY <2>2, <2>4, <5>1 DEF Near, SummaryIsNear, AllBut
        <4> QED BY <1>1, <1>3, <4>1 DEF SummaryIsNear, AllBut
      <3>2. CounterIsBounded(c)'
        <4>1. IsBusy(r, c)' /\ ~IsBusy(r, c)
          BY <1>1, <1>5 DEF IsBusy, Busy
        <4>2. \A m \in Nat : Below(m, c) => Below(m + 2, c)'
          BY <1>1, <1>3 DEF Below
        <4>3. CASE Below(0, c)
          <5>1. Below(0 + 2, c)' /\ 0 + 2 = 2
            BY <4>2, <4>3
          <5> QED BY <4>1, <5>1 DEF CounterIsBounded
        <4>4. CASE Below(2, c) /\ \E q \in Requests : IsBusy(q, c)
          <5>1. Below(2 + 2, c)' /\ 2 + 2 = 4
            BY <4>2, <4>4
          <5>2. PICK q \in Requests : IsBusy(q, c)
            BY <4>4
          <5>3. q # r /\ IsBusy(q, c)'
            BY <1>10, <4>1, <5>2
          <5> QED BY <4>1, <5>1, <5>3 DEF CounterIsBounded
        <4>5. ASSUME NEW p \in Requests, NEW q \in Requests, p # q, IsBusy(p, c), IsBusy(q, c)
              PROVE  FALSE
          <5>1. UnderWay(p) /\ UnderWay(q) /\ req[p].conv = c /\ req[q].conv = c
            BY <4>5 DEF IsBusy, Busy, UnderWay
          <5>2. r # p /\ r # q
            BY <4>1, <4>5
          <5> QED BY <1>0, <1>1, <1>6, <2>1, <2>4, <4>5, <5>1, <5>2, NoThird
        <4> QED BY <2>2, <2>4, <4>3, <4>4, <4>5 DEF Near, CounterIsBounded
      <3>3. ASSUME NEW q \in Requests, req'[q].conv = c
            PROVE  ReadingIsNear(q, c)' /\ ContextIsNear(q, c)'
        <4>1. CASE q = r
          BY <1>5, <4>1 DEF ReadingIsNear, ContextIsNear
        <4>2. CASE q # r /\ UnderWay(q)
          <5>1. req'[q] = req[q] /\ r \in req[q].met /\ ReadingIsNear(q, c)
            BY <1>0, <1>1, <1>5, <1>6, <2>2, <2>4, <3>3, <4>2 DEF TheyMet, Near
          <5>2. Late(q)' /\ ~Late(q)
            <6>1. r \in req'[q].met /\ req'[r].pc \in Recorded /\ req[r].pc \notin Recorded
              BY <1>1, <1>5, <5>1 DEF Recorded, Busy
            <6>2. \A p \in req[q].met : p = r
              BY <2>1, <2>4, <3>3, <5>1 DEF InPairs
            <6> QED BY <6>1, <6>2 DEF Late
          <5>3. AllBut(2, c)' = DOMAIN log[c]
            BY <1>4 DEF AllBut
          <5>4. Last(SummaryWindow, c)' \cap AllBut(2, c)' \subseteq Last(SummaryWindow, c)
            BY <1>4, <5>3, ChatAssumption DEF Last
          <5>5. ReadingIsNear(q, c)'
            BY <5>1, <5>2, <5>3, <5>4 DEF ReadingIsNear
          <5>6. ContextIsNear(q, c)'
            BY <5>1 DEF ContextIsNear
          <5> QED BY <5>5, <5>6
        <4>3. CASE q # r /\ ~UnderWay(q)
          <5>1. req'[q].pc \in {"idle", "done"}
            BY <1>5, <4>3 DEF UnderWay
          <5> QED BY <5>1 DEF ReadingIsNear, ContextIsNear
        <4> QED BY <4>1, <4>2, <4>3
      <3> QED BY <2>4, <3>1, <3>2, <3>3 DEF Near
    <2> QED BY <2>3, <2>4
  <1> QED BY <1>6, <1>7, <1>11 DEF SummaryInv, PairInv

\* SaveSummary: the saved summary lacks an exchange at most, and the counter is zero.
LEMMA SaveNear ==
  ASSUME WindowsFit, Inv, SummaryInv, NEW r \in Requests, SaveSummary(r)
  PROVE  SummaryInv'
  <1>0. PICK c \in Conversations : c = req[r].conv
    BY DEF Inv, Typed, Addressed, SaveSummary, At
  <1>1. /\ req \in [Requests -> RequestState] /\ log \in [Conversations -> Seq(Requests)]
        /\ since \in [Conversations -> Nat] /\ summary \in [Conversations -> SUBSET Nat]
        /\ req[r].pc = "save" /\ UnderWay(r) /\ UNCHANGED <<log, faults>>
    BY DEF Inv, Typed, TypeOK, SaveSummary, At, UnderWay
  <1>2. Moves(r, "seen")
    BY <1>1, GotoMoves DEF SaveSummary, PCs
  <1>3. /\ since'[c] = 0 /\ summary'[c] = req[r].read
        /\ \A d \in Conversations \ {c} : since'[d] = since[d] /\ summary'[d] = summary[d]
    BY <1>0, <1>1 DEF SaveSummary
  <1>4. /\ req'[r].pc = "seen" /\ req'[r].conv = c
        /\ \A q \in Requests : req'[q].met = req[q].met /\ req'[q].conv = req[q].conv
        /\ \A q \in Requests \ {r} : req'[q] = req[q]
    BY <1>0, <1>2 DEF Moves
  <1>5. TheyMet'
    BY <1>1, <1>2, MetStays DEF SummaryInv, PCs
  <1>6. CounterIsEven'
    <2> SUFFICES ASSUME NEW d \in Conversations PROVE \E n \in Nat : since'[d] = 2 * n
      BY DEF CounterIsEven
    <2>1. CASE d = c
      <3>1. since'[d] = 2 * 0 /\ 0 \in Nat
        BY <1>3, <2>1
      <3> QED BY <3>1
    <2>2. CASE d # c
      BY <1>3, <2>2 DEF SummaryInv, CounterIsEven
    <2> QED BY <2>1, <2>2
  <1>7. \A q \in Requests : Late(q) => Late(q)'
    <2> SUFFICES ASSUME NEW q \in Requests, NEW p \in req[q].met, req[p].pc \in Recorded
                 PROVE  Late(q)'
      BY DEF Late
    <2>1. p \in req'[q].met /\ p \in Requests
      BY <1>1, <1>4 DEF RequestState
    <2>2. req'[p].pc \in Recorded
      BY <1>4, <2>1 DEF Recorded
    <2> QED BY <2>1, <2>2 DEF Late
  <1>8. ASSUME NEW d \in Conversations, faults' = 0, InPairs(d)' PROVE Near(d)'
    <2>1. InPairs(d) /\ faults = 0
      BY <1>1, <1>4, <1>8 DEF InPairs
    <2>2. Near(d)
      BY <2>1 DEF SummaryInv, PairInv
    <2>3. \A n : AllBut(n, d)' = AllBut(n, d) /\ Last(n, d)' = Last(n, d)
      BY <1>1 DEF AllBut, Last
    <2>4. ASSUME NEW q \in Requests, req'[q].conv = d
          PROVE  ReadingIsNear(q, d)' /\ ContextIsNear(q, d)'
      <3>1. CASE q = r
        BY <1>4, <3>1 DEF ReadingIsNear, ContextIsNear
      <3>2. CASE q # r
        <4>1. req'[q] = req[q] /\ ReadingIsNear(q, d) /\ ContextIsNear(q, d)
          BY <1>4, <2>2, <2>4, <3>2 DEF Near
        <4>2. ReadingIsNear(q, d)'
          BY <1>1, <1>7, <2>3, <4>1 DEF ReadingIsNear
        <4>3. ContextIsNear(q, d)'
          BY <2>3, <4>1 DEF ContextIsNear
        <4> QED BY <4>2, <4>3
      <3> QED BY <3>1, <3>2
    <2>5. CASE d # c
      <3>1. since'[d] = since[d] /\ summary'[d] = summary[d]
        BY <1>3, <2>5
      <3>2. SummaryIsNear(d)'
        BY <1>1, <2>2, <3>1 DEF Near, SummaryIsNear, AllBut
      <3>3. \A q \in Requests : IsBusy(q, d) => IsBusy(q, d)'
        BY <1>0, <1>4, <2>5 DEF IsBusy
      <3>4. CounterIsBounded(d)'
        BY <2>2, <3>1, <3>3 DEF Near, CounterIsBounded, Below
      <3> QED BY <2>4, <3>2, <3>4 DEF Near
    <2>6. CASE d = c
      <3>1. AllBut(2, c) \subseteq req[r].read
        <4>1. AllBut(2, c) \subseteq DOMAIN log[c]
          BY DEF AllBut
        <4> QED BY <1>0, <1>1, <2>2, <2>6, <4>1 DEF Near, ReadingIsNear
      <3>2. SummaryIsNear(c)'
        <4>1. since'[c] + 2 = 2 /\ AllBut(2, c)' = AllBut(2, c)
          BY <1>3, <2>3, <2>6
        <4>2. \A n : n = 2 => AllBut(n, c)' = AllBut(2, c)
          BY <4>1
        <4> QED BY <1>1, <1>3, <3>1, <4>1 DEF SummaryIsNear, AllBut
      <3>3. Below(0, c)'
        <4>1. 2 * 0 < SummaryTrigger /\ since'[c] <= 2 * 0 + 0 /\ 0 \in Nat
          BY <1>3, ChatAssumption DEF WindowsFit
        <4> QED BY <4>1 DEF Below
      <3> QED BY <2>4, <2>6, <3>2, <3>3 DEF Near, CounterIsBounded
    <2> QED BY <2>5, <2>6
  <1> QED BY <1>5, <1>6, <1>8 DEF SummaryInv, PairInv

LEMMA InitNear == ASSUME WindowsFit, Init PROVE SummaryInv
  <1>1. TheyMet
    BY DEF Init, TheyMet, UnderWay, Idle
  <1>2. CounterIsEven
    <2>1. \A c \in Conversations : since[c] = 2 * 0 /\ 0 \in Nat
      BY DEF Init
    <2> QED BY <2>1 DEF CounterIsEven
  <1>3. ASSUME NEW c \in Conversations PROVE Near(c)
    <2>1. since[c] = 0 /\ DOMAIN log[c] = {} /\ \A r \in Requests : req[r].pc = "idle"
      BY DEF Init, Idle
    <2>2. Below(0, c)
      <3>1. 2 * 0 < SummaryTrigger /\ since[c] <= 2 * 0 + 0 /\ 0 \in Nat
        BY <2>1, ChatAssumption DEF WindowsFit
      <3> QED BY <3>1 DEF Below
    <2>3. SummaryIsNear(c)
      BY <2>1 DEF SummaryIsNear, AllBut
    <2>4. \A r \in Requests : ReadingIsNear(r, c) /\ ContextIsNear(r, c)
      BY <2>1 DEF ReadingIsNear, ContextIsNear
    <2> QED BY <2>2, <2>3, <2>4 DEF Near, CounterIsBounded
  <1> QED BY <1>1, <1>2, <1>3 DEF SummaryInv, PairInv

LEMMA NextNear == ASSUME WindowsFit, Inv, SummaryInv, [Next]_vars PROVE SummaryInv'
  <1>1. ASSUME NEW r \in Requests, Step(r) PROVE SummaryInv'
    BY <1>1, StartNear, WaitingNear, FailureNear, GetSummaryNear, GetHistoryNear, TriggerNear,
       WindowNear, CurrentNear, CondenseNear, RecordNear, SaveNear DEF Step
  <1>2. CASE Crash
    BY <1>2, CrashNear
  <1>3. CASE UNCHANGED vars
    BY <1>3 DEF vars, conversation, SummaryInv, TheyMet, CounterIsEven, PairInv, InPairs, Near,
       SummaryIsNear, CounterIsBounded, Below, IsBusy, ReadingIsNear, ContextIsNear, AllBut,
       Last, Late, UnderWay
  <1> QED BY <1>1, <1>2, <1>3 DEF Next

\* A step of one request leaves the others at their labels.
LEMMA OthersWait ==
  ASSUME req \in [Requests -> RequestState], NEW q \in Requests, Step(q), NEW r \in Requests,
         q # r
  PROVE  req'[r].pc = req[r].pc
  <1>1. ASSUME NEW u \in Users, NEW c \in Conversations, NEW k \in Keys, Start(q, u, c, k)
        PROVE  req'[r].pc = req[r].pc
    <2>1. CASE r \in Beside(c)
      <3>1. req'[r] = [req[r] EXCEPT !.met = @ \cup {q}]
        BY <1>1, <2>1 DEF Start
      <3> QED BY <3>1 DEF RequestState
    <2>2. CASE r \notin Beside(c)
      BY <1>1, <2>2 DEF Start
    <2> QED BY <2>1, <2>2
  <1>2. CASE ProviderReady(q) \/ ProviderMissing(q) \/ EnsureConversation(q)
    BY <1>2 DEF ProviderReady, ProviderMissing, EnsureConversation, Goto, Finish
  <1>3. CASE CreateConversation(q) \/ LegacySearch(q) \/ Chain(q) \/ RecordExchange(q)
    BY <1>3 DEF CreateConversation, LegacySearch, Chain, RecordExchange, Goto, Finish
  <1>4. CASE GetSummary(q) \/ GetHistory(q) \/ ReadWindow(q) \/ ReadCurrent(q)
    BY <1>4 DEF GetSummary, GetHistory, ReadWindow, ReadCurrent
  <1>5. CASE CheckTrigger(q) \/ Condense(q) \/ CondenseFails(q) \/ SaveSummary(q)
    BY <1>5 DEF CheckTrigger, Condense, CondenseFails, SaveSummary, Goto
  <1>6. CASE FindUsage(q) \/ InsertUsage(q) \/ WriteRagRun(q) \/ Raises(q)
    BY <1>6 DEF FindUsage, InsertUsage, WriteRagRun, Raises, Goto, Finish
  <1> QED BY <1>1, <1>2, <1>3, <1>4, <1>5, <1>6 DEF Step

\* What the history gives a lone request is what its summary lacks.
LEMMA HistoryCompletes ==
  ASSUME Inv, SummaryInv, [Next]_vars, NEW r \in Requests,
         At(r, "history"), req'[r].pc \in {"search", "chain"}, req[r].met = {},
         InPairs(req[r].conv), faults = 0
  PROVE  DOMAIN log[req[r].conv] \subseteq req'[r].context
  <1>1. /\ req \in [Requests -> RequestState] /\ log \in [Conversations -> Seq(Requests)]
        /\ req[r].pc = "history" /\ req[r].conv \in Conversations
    BY DEF Inv, Typed, TypeOK, Addressed, At
  <1>2. GetHistory(r)
    <2>1. ASSUME NEW q \in Requests, Step(q), q # r PROVE FALSE
      BY <1>1, <2>1, OthersWait
    <2>2. ASSUME Step(r), ~GetHistory(r) PROVE FALSE
      <3>1. CASE \/ \E u \in Users, c \in Conversations, k \in Keys : Start(r, u, c, k)
                 \/ ProviderReady(r) \/ ProviderMissing(r)
                 \/ EnsureConversation(r) \/ CreateConversation(r)
        BY <1>1, <3>1 DEF At, Start, ProviderReady, ProviderMissing, EnsureConversation,
                          CreateConversation
      <3>2. CASE \/ GetSummary(r) \/ LegacySearch(r) \/ Chain(r) \/ RecordExchange(r)
                 \/ CheckTrigger(r) \/ ReadWindow(r) \/ ReadCurrent(r)
        BY <1>1, <3>2 DEF At, GetSummary, LegacySearch, Chain, RecordExchange, CheckTrigger,
                          ReadWindow, ReadCurrent
      <3>3. CASE \/ Condense(r) \/ CondenseFails(r) \/ SaveSummary(r)
                 \/ FindUsage(r) \/ InsertUsage(r) \/ WriteRagRun(r)
        BY <1>1, <3>3 DEF At, Condense, CondenseFails, SaveSummary, FindUsage, InsertUsage,
                          WriteRagRun
      <3>4. CASE Raises(r)
        <4>1. Moves(r, "done")
          BY <1>1, <3>4, FinishMoves DEF Raises, Outcomes
        <4> QED BY <4>1 DEF Moves
      <3> QED BY <2>2, <3>1, <3>2, <3>3, <3>4 DEF Step
    <2>3. ~Crash /\ ~UNCHANGED vars
      <3>1. ~UNCHANGED vars
        BY <1>1 DEF vars
      <3>2. ASSUME Crash PROVE FALSE
        <4>1. req'[r] = [req[r] EXCEPT !.pc = "done", !.outcome = "error"]
          BY <1>1, <3>2 DEF Crash, UnderWay
        <4>2. [req[r] EXCEPT !.pc = "done", !.outcome = "error"].pc = "done"
          BY <1>1 DEF RequestState
        <4> QED BY <4>1, <4>2
      <3> QED BY <3>1, <3>2
    <2> QED BY <2>1, <2>2, <2>3 DEF Next
  <1>3. req'[r].context = req[r].context \cup Last(HistoryLimit, req[r].conv)
    BY <1>1, <1>2 DEF GetHistory, RequestState
  <1>4. AllBut(HistoryLimit, req[r].conv) \subseteq req[r].context
    BY <1>1 DEF SummaryInv, PairInv, Near, ContextIsNear
  <1>5. \A i \in DOMAIN log[req[r].conv] :
          i \in AllBut(HistoryLimit, req[r].conv) \/ i \in Last(HistoryLimit, req[r].conv)
    BY <1>1, ChatAssumption DEF AllBut, Last
  <1> QED BY <1>3, <1>4, <1>5

\* For any number of requests of any users, where no request of the conversation meets more
\* than one other: one that meets none gets every message of its conversation, although
\* summaries overwrite each other and reset a counter that an exchange just increased
\* (chat/summarizer.py, chat/store.py).
THEOREM NothingIsForgotten == ASSUME WindowsFit PROVE Spec => NothingForgotten
  <1>1. Init => SummaryInv
    BY InitNear
  <1>2. Inv /\ SummaryInv /\ [Next]_vars => SummaryInv'
    BY NextNear
  <1>3. Inv /\ SummaryInv /\ [Next]_vars =>
          [\A r \in Requests :
             /\ At(r, "history") /\ req'[r].pc \in {"search", "chain"}
             /\ req[r].met = {} /\ InPairs(req[r].conv) /\ faults = 0
             => DOMAIN log[req[r].conv] \subseteq req'[r].context]_vars
    BY HistoryCompletes
  <1> QED BY <1>1, <1>2, <1>3, Invariance, PTL DEF Spec, NothingForgotten
=============================================================================
