------------------------------- MODULE KbAsk -------------------------------
(***************************************************************************)
(* The dialogue side of the MVP knowledge base: POST /api/kb/ask and       *)
(* /api/kb/ask/stream (app/api/kb_mvp/chat.py, rag.py), the conversations  *)
(* and messages they keep in SQLite (app/services/kb_store.py), and how the*)
(* export of training pairs (iter_feedback_pairs) reads them back.         *)
(*                                                                         *)
(* /ask is a plain function: FastAPI runs each call in a thread, so the    *)
(* statements of two calls interleave freely.  /ask/stream is a coroutine  *)
(* of the one event loop: between two awaits no other stream runs, so the  *)
(* two inserts that keep its turn are interleaved by threads only.  The    *)
(* connection is in autocommit mode, each statement is a step of its own.  *)
(* Question and answer texts are abstracted to the request they belong to; *)
(* the history read into the prompt, titles and timestamps are left out.   *)
(***************************************************************************)
EXTENDS Naturals, Sequences, SequencesExt, FiniteSets, FiniteSetsExt

CONSTANTS
  Asks,           \* requests to /ask
  Streams,        \* requests to /ask/stream
  Dialogues,      \* conversation ids (uuid4: never reused)
  NoDialogue,
  MaxTokens,      \* bound: deltas of one provider's stream
  MaxSetbacks     \* bound: uncaught sqlite errors and stops of the server process

Asking == Asks \union Streams

VARIABLES
  dialogues,   \* rows of kb_conversations
  named,       \* ids ever given out
  messages,    \* kb_messages in id order; a row dies with its conversation (cascade)
  ask,         \* one record per request
  loop,        \* the stream the event loop is inside of, between two awaits
  setbacks

kbVars == <<dialogues, named, messages, ask, loop, setbacks>>

\* Where an answer comes from; "none" is the fixed text for an empty shortlist.
Sources == {"primary", "legacy", "extractive", "none"}

NotAsking == "not_asking"
Idle == [pc |-> "idle", dialogue |-> NoDialogue, stage |-> "none",
         sent |-> <<>>]

Init ==
  /\ dialogues = {} /\ named = {} /\ messages = <<>>
  /\ ask = [r \in Asking |-> Idle]
  /\ loop = NotAsking /\ setbacks = 0

LiveMessage(m) == messages[m].dialogue \in dialogues
MessageIds == {m \in DOMAIN messages : LiveMessage(m)}

Setback == setbacks < MaxSetbacks /\ setbacks' = setbacks + 1
SetAsk(r, new) == ask' = [ask EXCEPT ![r] = new]

-----------------------------------------------------------------------------
(* kb_store: conversations and messages *)

\* Mutant: an await between the two inserts, another stream may run there.
MayAlwaysRun(r) == TRUE

\* A thread runs whenever it likes; a stream needs the event loop.
MayRun(r) == r \in Streams => loop \in {NotAsking, r}

\* create_conversation: a fresh row.
CreateConversation(d) ==
  /\ d \notin named
  /\ named' = named \union {d}
  /\ dialogues' = dialogues \union {d}

\* add_message, when the conversation is there.
AddMessage(r, role) ==
  messages' = Append(messages, [dialogue |-> ask[r].dialogue, role |-> role, req |-> r,
                                source |-> IF role = "user" THEN "none" ELSE ask[r].stage])

\* DELETE /conversations/{id}: messages and feedback go with the row.
DeleteConversation(d) ==
  /\ d \in dialogues
  /\ dialogues' = dialogues \ {d}
  /\ UNCHANGED <<named, messages, ask, loop, setbacks>>

-----------------------------------------------------------------------------
(* Both endpoints: the target conversation and the shortlist *)

\* What the request does after retrieval: no hits is answered with a fixed
\* text, otherwise the first available source is asked.
FirstStage(hits, primary, legacy) ==
  IF ~hits THEN "none"
  ELSE IF primary THEN "primary"
  ELSE IF legacy THEN "legacy" ELSE "extractive"

StageAfter(stage, legacy) ==
  IF stage = "primary" /\ legacy THEN "legacy" ELSE "extractive"

Ask(r, d, hits, primary, legacy) ==
  /\ ask[r].pc = "idle" /\ MayRun(r)
  /\ \/ d \in dialogues /\ UNCHANGED <<dialogues, named>>
     \/ CreateConversation(d)
  /\ SetAsk(r, [ask[r] EXCEPT !.pc = "answering", !.dialogue = d,
                              !.stage = FirstStage(hits, primary, legacy)])
  /\ UNCHANGED <<messages, loop, setbacks>>

\* 404: the conversation asked for is not there.
AskUnknown(r) ==
  /\ ask[r].pc = "idle" /\ MayRun(r)
  /\ named \ dialogues # {}
  /\ SetAsk(r, [ask[r] EXCEPT !.pc = "refused"])
  /\ UNCHANGED <<dialogues, named, messages, loop, setbacks>>

-----------------------------------------------------------------------------
(* /ask: _generate_answer, then the turn is kept *)

\* The source that was asked fails or returns an empty text: the next one.
Generated(r, legacy) ==
  /\ ask[r].stage \in {"primary", "legacy"}
  /\ SetAsk(r, [ask[r] EXCEPT !.stage = StageAfter(ask[r].stage, legacy)])

Generate(r) ==
  /\ r \in Asks /\ ask[r].pc = "answering"
  /\ \/ SetAsk(r, [ask[r] EXCEPT !.pc = "saving", !.sent = <<ask[r].stage>>])
     \/ \E legacy \in BOOLEAN : Generated(r, legacy)
  /\ UNCHANGED <<dialogues, named, messages, loop, setbacks>>

-----------------------------------------------------------------------------
(* /ask/stream: the event generator up to the save *)

Pieces(stage) == IF stage = "primary" THEN MaxTokens ELSE 1

\* A delta is forwarded as a token event.
Token(r) ==
  /\ r \in Streams /\ ask[r].pc = "answering" /\ MayRun(r)
  /\ Len(ask[r].sent) < Pieces(ask[r].stage)
  /\ SetAsk(r, [ask[r] EXCEPT !.sent = Append(ask[r].sent, ask[r].stage)])
  /\ UNCHANGED <<dialogues, named, messages, loop, setbacks>>

\* Mutant: any error sends the request to the next source.
FallsBackOnError(r, failed) == failed \/ ask[r].sent = <<>>

\* The next source is asked only when no token was forwarded.
FallsBack(r, failed) == ask[r].sent = <<>>

\* The source ends: cleanly, or with an error event (a transport error, any
\* other exception, or "empty completion").  The extractive text and the
\* fixed text never fail.
EndOfSource(r, failed, legacy) ==
  /\ r \in Streams /\ ask[r].pc = "answering" /\ MayRun(r)
  /\ ask[r].stage \in {"extractive", "none"} => ~failed /\ ask[r].sent # <<>>
  /\ IF FallsBack(r, failed) /\ ask[r].stage # "none"
       THEN SetAsk(r, [ask[r] EXCEPT !.stage = StageAfter(ask[r].stage, legacy)])
       ELSE SetAsk(r, [ask[r] EXCEPT !.pc = "saving"])
  /\ UNCHANGED <<dialogues, named, messages, loop, setbacks>>

\* The client goes away: Starlette cancels the generator where it awaits.
Disconnect(r) ==
  /\ r \in Streams /\ ask[r].pc \in {"answering", "saved"} /\ MayRun(r)
  /\ SetAsk(r, [ask[r] EXCEPT !.pc = "gone"])
  /\ UNCHANGED <<dialogues, named, messages, loop, setbacks>>

-----------------------------------------------------------------------------
(* Both endpoints: the turn is kept as two messages, then reported *)

\* add_message finds no conversation (LookupError): logged, the answer stands.
ConversationGone(r) == ask[r].dialogue \notin dialogues

\* Any other database error is not caught: a 500, or a stream cut short.
DbError(r) ==
  /\ Setback
  /\ SetAsk(r, [ask[r] EXCEPT !.pc = "failed"])
  /\ loop' = IF loop = r THEN NotAsking ELSE loop
  /\ UNCHANGED <<dialogues, named, messages>>

SaveQuestion(r) ==
  /\ ask[r].pc = "saving" /\ MayRun(r)
  /\ \/ /\ ConversationGone(r)
        /\ SetAsk(r, [ask[r] EXCEPT !.pc = "saved"])
        /\ UNCHANGED <<messages, loop>>
     \/ /\ ~ConversationGone(r)
        /\ AddMessage(r, "user")
        /\ SetAsk(r, [ask[r] EXCEPT !.pc = "half_saved"])
        /\ loop' = IF r \in Streams THEN r ELSE loop
  /\ UNCHANGED <<dialogues, named, setbacks>>

\* Mutant: an answer assembled without a model is not kept.
SaveModelAnswer(r) ==
  /\ ask[r].pc = "half_saved" /\ MayRun(r)
  /\ IF ConversationGone(r) \/ ask[r].stage \in {"extractive", "none"}
       THEN UNCHANGED messages ELSE AddMessage(r, "assistant")
  /\ SetAsk(r, [ask[r] EXCEPT !.pc = "saved"])
  /\ loop' = IF r \in Streams THEN NotAsking ELSE loop
  /\ UNCHANGED <<dialogues, named, setbacks>>

SaveAnswer(r) ==
  /\ ask[r].pc = "half_saved" /\ MayRun(r)
  /\ IF ConversationGone(r) THEN UNCHANGED messages ELSE AddMessage(r, "assistant")
  /\ SetAsk(r, [ask[r] EXCEPT !.pc = "saved"])
  /\ loop' = IF r \in Streams THEN NotAsking ELSE loop
  /\ UNCHANGED <<dialogues, named, setbacks>>

SaveError(r) ==
  /\ ask[r].pc \in {"saving", "half_saved"} /\ MayRun(r)
  /\ DbError(r)

\* The response of /ask, the done event of /ask/stream.
Reply(r) ==
  /\ ask[r].pc = "saved" /\ MayRun(r)
  /\ SetAsk(r, [ask[r] EXCEPT !.pc = "done"])
  /\ UNCHANGED <<dialogues, named, messages, loop, setbacks>>

\* The server process stops and starts again: requests end, rows stay.
Stop ==
  /\ Setback
  /\ ask' = [r \in Asking |->
               IF ask[r].pc \in {"idle", "refused", "failed", "gone", "done"}
                 THEN ask[r] ELSE [ask[r] EXCEPT !.pc = "gone"]]
  /\ loop' = NotAsking
  /\ UNCHANGED <<dialogues, named, messages>>

-----------------------------------------------------------------------------
(* What the export of training pairs makes of the messages *)

\* iter_feedback_pairs: the question a voted message is taken to answer is the
\* latest of these.
Preceding(m) == {k \in MessageIds : /\ k < m
                                    /\ messages[k].dialogue = messages[m].dialogue
                                    /\ messages[k].role = "user"}

-----------------------------------------------------------------------------

Next ==
  \/ \E r \in Asking :
       \/ \E d \in Dialogues, hits, primary, legacy \in BOOLEAN : Ask(r, d, hits, primary, legacy)
       \/ AskUnknown(r) \/ Generate(r) \/ Token(r)
       \/ \E failed, legacy \in BOOLEAN : EndOfSource(r, failed, legacy)
       \/ Disconnect(r) \/ SaveQuestion(r) \/ SaveAnswer(r) \/ SaveError(r) \/ Reply(r)
  \/ \E d \in Dialogues : DeleteConversation(d)
  \/ Stop

Spec == Init /\ [][Next]_kbVars

-----------------------------------------------------------------------------

\* The export pairs an answer with the last user message before it.  In a
\* conversation only streams have written to, that message is the question
\* the answer was given to, whatever requests ran at the same time, failed
\* half way or were cut off: the two inserts of a stream are one step of the
\* event loop.  (With /ask among the writers it is not: two threads may insert
\* both questions before both answers.)
StreamedPromptIsItsQuestion ==
  \A a \in MessageIds :
    (/\ messages[a].role = "assistant"
     /\ \A m \in MessageIds : messages[m].dialogue = messages[a].dialogue
                                => messages[m].req \in Streams)
    => /\ Preceding(a) # {}
       /\ messages[Max(Preceding(a))].req = messages[a].req

\* The pieces of one answer come from one source, and the message kept carries
\* the name of that source: after the first token no other provider is asked.
AnswerHasOneSource ==
  /\ \A r \in Asking : \A i \in DOMAIN ask[r].sent : ask[r].sent[i] = ask[r].stage
  /\ \A m \in MessageIds : messages[m].role = "assistant" =>
       messages[m].source = ask[messages[m].req].stage

\* A reply means the turn is in its conversation, the question once and then
\* the answer once, unless the conversation has been deleted.
RepliedTurnIsKept ==
  \A r \in Asking : (ask[r].pc = "done" /\ ~ConversationGone(r)) =>
    LET rows(role) == {m \in MessageIds : messages[m].req = r /\ messages[m].role = role}
    IN  /\ Cardinality(rows("user")) = 1 /\ Cardinality(rows("assistant")) = 1
        /\ Max(rows("user")) < Max(rows("assistant"))

\* The conversation a reader gets back is the one that took place.
ConversationsAreTrue ==
  StreamedPromptIsItsQuestion /\ AnswerHasOneSource /\ RepliedTurnIsKept
=============================================================================
