--------------------------- MODULE RequestsProofs ---------------------------
(***************************************************************************)
(* Proofs about two components whose requests meet each other and the end  *)
(* of the server, as MCServices puts them side by side: KbAsk, the chat of *)
(* the MVP service, and ApiIngest, the ingest inside the API process.  The *)
(* layout is that of ServicesProofs: an invariant for each component,      *)
(* InitInv, Step, Holds, and the theorem of MCServices.                    *)
(***************************************************************************)
EXTENDS MCServices, FiniteSetTheorems, TLAPS

-----------------------------------------------------------------------------
(* KbAsk: the conversation a reader gets back is the one that took place.   *)

AskLabels == {"idle", "refused", "answering", "saving", "half_saved", "saved", "done",
              "gone", "failed"}
AskRecords == [pc : AskLabels, dialogue : Dialogues \cup {NoDialogue}, stage : K!Sources,
               sent : Seq(K!Sources)]
MessageRows == [dialogue : Dialogues \cup {NoDialogue}, role : {"user", "assistant"},
                req : K!Asking, source : K!Sources]

AskTyped ==
  /\ ask \in [K!Asking -> AskRecords] /\ messages \in Seq(MessageRows)
  /\ dialogues \subseteq named /\ loop \in {K!NotAsking} \cup Streams

IsMessage(m, r, role) == messages[m].req = r /\ messages[m].role = role

\* A request that was begun has a dialogue that was given out.
BegunIsNamed ==
  \A r \in K!Asking : ask[r].pc \notin {"idle", "refused"} => ask[r].dialogue \in named

\* Messages are of requests that have come so far, in their dialogue.
MessagesAreOfRequests ==
  \A m \in DOMAIN messages :
    LET r == messages[m].req
    IN  /\ messages[m].dialogue = ask[r].dialogue
        /\ ask[r].pc \in {"half_saved", "saved", "done", "gone", "failed"}
        /\ messages[m].role = "assistant" =>
             ask[r].pc \in {"saved", "done", "gone"} /\ messages[m].source = ask[r].stage

\* A request keeps one question and one answer.
KeptOnce ==
  \A m, n \in DOMAIN messages :
    messages[m].req = messages[n].req /\ messages[m].role = messages[n].role => m = n

\* No stream wrote between the two.
NoStreamBetween(u, a) == \A k \in DOMAIN messages : u < k /\ k < a => messages[k].req \notin Streams

\* An answer comes after its question; that of a stream follows at once, but for threads.
AnswersFollow ==
  \A a \in DOMAIN messages : messages[a].role = "assistant" =>
    \E u \in DOMAIN messages :
      /\ u < a /\ IsMessage(u, messages[a].req, "user")
      /\ messages[a].req \in Streams => NoStreamBetween(u, a)

\* A stream between its two inserts has the event loop, and no other wrote since.
HalfSavedHasLoop ==
  \A r \in K!Asking : ask[r].pc = "half_saved" =>
    \E u \in DOMAIN messages :
      /\ IsMessage(u, r, "user")
      /\ r \in Streams => loop = r /\ NoStreamBetween(u, Len(messages) + 1)

\* The answer of a turn that was saved is there as long as its dialogue is.
SavedIsKept ==
  \A r \in K!Asking : ask[r].pc \in {"saved", "done"} /\ ask[r].dialogue \in dialogues =>
    \E a \in DOMAIN messages : IsMessage(a, r, "assistant")

\* The pieces sent are of the source asked last.
SentByStage(h) == \A i \in DOMAIN h.sent : h.sent[i] = h.stage
NothingSent(h, r) ==
  h.pc = "idle" \/ (r \in Asks /\ h.pc = "answering") => h.sent = <<>>
OneSource == \A r \in K!Asking : SentByStage(ask[r]) /\ NothingSent(ask[r], r)

AskInv ==
  /\ AskTyped /\ BegunIsNamed /\ MessagesAreOfRequests /\ KeptOnce /\ AnswersFollow
  /\ HalfSavedHasLoop /\ SavedIsKept /\ OneSource

-----------------------------------------------------------------------------
LEMMA MessageIsRow ==
  ASSUME AskInv, NEW m \in DOMAIN messages
  PROVE  /\ messages[m] \in MessageRows /\ m \in Nat /\ messages[m].req \in K!Asking
         /\ messages[m].role \in {"user", "assistant"}
  <1>1. messages \in Seq(MessageRows)
    BY DEF AskInv, AskTyped
  <1>2. messages[m] \in MessageRows /\ m \in Nat
    BY <1>1
  <1> QED BY <1>2 DEF MessageRows

LEMMA RequestIsRecord ==
  ASSUME AskInv, NEW r \in K!Asking
  PROVE  /\ ask[r] \in AskRecords /\ ask[r].pc \in AskLabels /\ ask[r].stage \in K!Sources
         /\ ask[r].sent \in Seq(K!Sources) /\ ask[r].dialogue \in Dialogues \cup {NoDialogue}
  <1>1. ask[r] \in AskRecords
    BY DEF AskInv, AskTyped
  <1> QED BY <1>1 DEF AskRecords

LEMMA AskInitInv == K!Init => AskInv
  <1> SUFFICES ASSUME K!Init PROVE AskInv
    OBVIOUS
  <1> DEFINE none == K!Idle
  <1>1. /\ dialogues = {} /\ named = {} /\ messages = <<>> /\ loop = K!NotAsking
        /\ ask = [r \in K!Asking |-> none]
    BY DEF K!Init
  <1>2. none \in AskRecords /\ none.pc = "idle" /\ none.sent = <<>>
    BY DEF K!Idle, AskRecords, AskLabels, K!Sources
  <1> HIDE DEF none
  <1>3. AskTyped
    BY <1>1, <1>2 DEF AskTyped
  <1>4. BegunIsNamed /\ HalfSavedHasLoop /\ SavedIsKept
    BY <1>1, <1>2 DEF BegunIsNamed, HalfSavedHasLoop, SavedIsKept
  <1>5. MessagesAreOfRequests /\ KeptOnce /\ AnswersFollow
    BY <1>1 DEF MessagesAreOfRequests, KeptOnce, AnswersFollow
  <1>6. OneSource
    BY <1>1, <1>2 DEF OneSource, SentByStage, NothingSent
  <1> QED BY <1>3, <1>4, <1>5, <1>6 DEF AskInv

-----------------------------------------------------------------------------
\* A request moves on and keeps no message.
MovedOn(r) ==
  /\ ask'[r].pc # "half_saved"
  /\ ask'[r].pc \notin {"idle", "refused"} => ask'[r].dialogue \in named'
  /\ \/ ask[r].pc \in {"idle", "answering"}
     \/ ask'[r].dialogue = ask[r].dialogue /\ ask'[r].stage = ask[r].stage
  /\ \/ ask[r].pc \in {"idle", "answering", "saving"}
     \/ ask[r].pc = "half_saved" /\ ask'[r].pc \in {"failed", "gone", "saved"}
     \/ ask[r].pc = "saved" /\ ask'[r].pc \in {"done", "gone"}
  /\ ask'[r].pc \in {"saved", "done"} =>
       ask[r].pc = "saved" \/ ask'[r].dialogue \notin dialogues'
  /\ SentByStage(ask[r])' /\ NothingSent(ask[r], r)'

\* Requests move on, dialogues come and go, no message is kept.
LEMMA MovesKeep ==
  ASSUME AskInv, ask' \in [K!Asking -> AskRecords], UNCHANGED messages,
         \A r \in K!Asking : ask'[r] = ask[r] \/ MovedOn(r),
         loop' \in {K!NotAsking} \cup Streams,
         \A r \in Streams : ask[r].pc = "half_saved" /\ ask'[r].pc = "half_saved" /\ loop = r
                              => loop' = r,
         named \subseteq named', dialogues' \subseteq named', dialogues' \cap named \subseteq dialogues
  PROVE  AskInv'
  <1>1. AskTyped'
    BY DEF AskInv, AskTyped
  <1>2. BegunIsNamed'
    <2> SUFFICES ASSUME NEW r \in K!Asking, ask'[r].pc \notin {"idle", "refused"}
                 PROVE  ask'[r].dialogue \in named'
      BY DEF BegunIsNamed
    <2>1. CASE ask'[r] = ask[r]
      BY <2>1 DEF AskInv, BegunIsNamed
    <2>2. CASE MovedOn(r)
      BY <2>2 DEF MovedOn
    <2> QED BY <2>1, <2>2
  <1>3. MessagesAreOfRequests'
    <2> SUFFICES ASSUME NEW m \in DOMAIN messages
                 PROVE  /\ messages[m].dialogue = ask'[messages[m].req].dialogue
                        /\ ask'[messages[m].req].pc
                             \in {"half_saved", "saved", "done", "gone", "failed"}
                        /\ messages[m].role = "assistant" =>
                             /\ ask'[messages[m].req].pc \in {"saved", "done", "gone"}
                             /\ messages[m].source = ask'[messages[m].req].stage
      BY DEF MessagesAreOfRequests
    <2> DEFINE r == messages[m].req
    <2>1. r \in K!Asking
      BY MessageIsRow
    <2>2. /\ messages[m].dialogue = ask[r].dialogue
          /\ ask[r].pc \in {"half_saved", "saved", "done", "gone", "failed"}
          /\ messages[m].role = "assistant" =>
               ask[r].pc \in {"saved", "done", "gone"} /\ messages[m].source = ask[r].stage
      BY DEF AskInv, MessagesAreOfRequests
    <2> HIDE DEF r
    <2>3. CASE ask'[r] = ask[r]
      BY <2>2, <2>3 DEF r
    <2>4. CASE MovedOn(r)
      <3>1. ask'[r].dialogue = ask[r].dialogue /\ ask'[r].stage = ask[r].stage
        BY <2>2, <2>4 DEF MovedOn
      <3>2. ask'[r].pc \in {"saved", "done", "gone", "failed"}
        BY <2>2, <2>4 DEF MovedOn
      <3>3. ask[r].pc \in {"saved", "done", "gone"} => ask'[r].pc \in {"done", "gone"}
        BY <2>2, <2>4 DEF MovedOn
      <3> QED BY <2>2, <3>1, <3>2, <3>3 DEF r
    <2> QED BY <2>1, <2>3, <2>4
  <1>4. KeptOnce'
    BY DEF AskInv, KeptOnce
  <1>5. AnswersFollow'
    BY DEF AskInv, AnswersFollow, IsMessage, NoStreamBetween
  <1>6. HalfSavedHasLoop'
    <2> SUFFICES ASSUME NEW r \in K!Asking, ask'[r].pc = "half_saved"
                 PROVE  \E u \in DOMAIN messages :
                          /\ IsMessage(u, r, "user")
                          /\ r \in Streams => loop' = r /\ NoStreamBetween(u, Len(messages) + 1)
      BY DEF HalfSavedHasLoop, IsMessage, NoStreamBetween
    <2>1. ask[r].pc = "half_saved"
      BY DEF MovedOn
    <2> QED BY <2>1 DEF AskInv, HalfSavedHasLoop
  <1>7. SavedIsKept'
    <2> SUFFICES ASSUME NEW r \in K!Asking, ask'[r].pc \in {"saved", "done"},
                        ask'[r].dialogue \in dialogues'
                 PROVE  \E a \in DOMAIN messages : IsMessage(a, r, "assistant")
      BY DEF SavedIsKept, IsMessage
    <2>1. ask[r].pc \in {"saved", "done"} /\ ask'[r].dialogue = ask[r].dialogue
      BY DEF MovedOn
    <2>2. ask[r].dialogue \in named
      BY <2>1 DEF AskInv, BegunIsNamed
    <2> QED BY <2>1, <2>2 DEF AskInv, SavedIsKept
  <1>8. OneSource'
    <2> SUFFICES ASSUME NEW r \in K!Asking PROVE SentByStage(ask[r])' /\ NothingSent(ask[r], r)'
      BY DEF OneSource
    <2>1. CASE ask'[r] = ask[r]
      BY <2>1 DEF AskInv, OneSource, SentByStage, NothingSent
    <2>2. CASE MovedOn(r)
      BY <2>2 DEF MovedOn
    <2> QED BY <2>1, <2>2
  <1> QED BY <1>1, <1>2, <1>3, <1>4, <1>5, <1>6, <1>7, <1>8 DEF AskInv

\* SetAsk: one request changes its record.
LEMMA SetAskEffect ==
  ASSUME AskInv, NEW r \in K!Asking, NEW new \in AskRecords, K!SetAsk(r, new)
  PROVE  /\ ask' \in [K!Asking -> AskRecords] /\ ask'[r] = new
         /\ \A q \in K!Asking \ {r} : ask'[q] = ask[q]
  BY DEF K!SetAsk, AskInv, AskTyped

\* The record of a request with another label.
Relabelled(new, h, pc) ==
  new.pc = pc /\ new.dialogue = h.dialogue /\ new.stage = h.stage /\ new.sent = h.sent

LEMMA LabelChanged ==
  ASSUME AskInv, NEW r \in K!Asking, NEW pc \in AskLabels
  PROVE  /\ [ask[r] EXCEPT !.pc = pc] \in AskRecords
         /\ Relabelled([ask[r] EXCEPT !.pc = pc], ask[r], pc)
  <1>1. ask[r] \in AskRecords
    BY RequestIsRecord
  <1> QED BY <1>1 DEF AskRecords, Relabelled

\* A request changes its label and nothing else; no dialogue, message or label of the loop
\* changes with it.
LEMMA LabelKeeps ==
  ASSUME AskInv, NEW r \in K!Asking, NEW pc \in AskLabels \ {"idle", "half_saved"},
         NEW new \in AskRecords, Relabelled(new, ask[r], pc), K!SetAsk(r, new),
         \/ ask[r].pc = "idle" /\ pc = "refused"
         \/ ask[r].pc \in {"answering", "saving"} /\ pc \in {"saving", "gone", "failed", "saved"}
         \/ ask[r].pc = "half_saved" /\ pc \in {"failed", "saved"}
         \/ ask[r].pc = "saved" /\ pc \in {"done", "gone"},
         pc \in {"saved", "done"} => ask[r].pc = "saved" \/ ask[r].dialogue \notin dialogues,
         loop' = loop \/ (loop' = K!NotAsking /\ loop = r),
         UNCHANGED <<dialogues, named, messages>>
  PROVE  AskInv'
  <1>1. /\ new.pc = pc /\ new.dialogue = ask[r].dialogue
        /\ new.stage = ask[r].stage /\ new.sent = ask[r].sent
    BY DEF Relabelled
  <1>2. /\ ask' \in [K!Asking -> AskRecords] /\ ask'[r] = new
        /\ \A q \in K!Asking \ {r} : ask'[q] = ask[q]
    BY SetAskEffect
  <1>3. SentByStage(ask[r])' /\ NothingSent(ask[r], r)'
    <2>1. SentByStage(ask[r])'
      BY <1>1, <1>2 DEF AskInv, OneSource, SentByStage
    <2>2. NothingSent(ask[r], r)'
      BY <1>1, <1>2 DEF NothingSent
    <2> QED BY <2>1, <2>2
  <1>4. ask[r].pc \notin {"idle"} => ask[r].dialogue \in named
    BY DEF AskInv, BegunIsNamed
  <1>5. MovedOn(r)
    BY <1>1, <1>2, <1>3, <1>4 DEF MovedOn
  <1>6. loop' \in {K!NotAsking} \cup Streams
    BY DEF AskInv, AskTyped
  <1>7. ask'[r].pc # "half_saved"
    BY <1>1, <1>2
  <1>8. \A q \in Streams : ask[q].pc = "half_saved" /\ ask'[q].pc = "half_saved" /\ loop = q
                             => loop' = q
    BY <1>7
  <1>9. dialogues' \subseteq named'
    BY DEF AskInv, AskTyped
  <1> QED BY <1>2, <1>5, <1>6, <1>8, <1>9, MovesKeep

\* A request begins to answer or goes on with it.
LEMMA AnsweringKeeps ==
  ASSUME AskInv, NEW r \in K!Asking, NEW new \in AskRecords, K!SetAsk(r, new),
         ask[r].pc \in {"idle", "answering"}, new.pc \in {"answering", "saving"},
         new.dialogue \in named', SentByStage(new), NothingSent(new, r),
         named \subseteq named', dialogues' \subseteq named', dialogues' \cap named \subseteq dialogues,
         UNCHANGED <<messages, loop>>
  PROVE  AskInv'
  <1>1. /\ ask' \in [K!Asking -> AskRecords] /\ ask'[r] = new
        /\ \A q \in K!Asking \ {r} : ask'[q] = ask[q]
    BY SetAskEffect
  <1>2. SentByStage(ask[r])' /\ NothingSent(ask[r], r)'
    BY <1>1 DEF SentByStage, NothingSent
  <1>3. MovedOn(r)
    BY <1>1, <1>2 DEF MovedOn
  <1>4. loop' \in {K!NotAsking} \cup Streams
    BY DEF AskInv, AskTyped
  <1> QED BY <1>1, <1>3, <1>4, MovesKeep

LEMMA StagesAreSources ==
  /\ \A hits, primary, with \in BOOLEAN : K!FirstStage(hits, primary, with) \in K!Sources
  /\ \A stage, with : K!StageAfter(stage, with) \in K!Sources
  BY DEF K!FirstStage, K!StageAfter, K!Sources

LEMMA AskKeeps ==
  ASSUME AskInv, NEW r \in K!Asking, NEW d \in Dialogues, NEW hits \in BOOLEAN,
         NEW primary \in BOOLEAN, NEW with \in BOOLEAN, K!Ask(r, d, hits, primary, with)
  PROVE  AskInv'
  <1> DEFINE stage == K!FirstStage(hits, primary, with)
             new == [ask[r] EXCEPT !.pc = "answering", !.dialogue = d, !.stage = stage]
  <1>1. ask[r].pc = "idle" /\ K!SetAsk(r, new) /\ UNCHANGED <<messages, loop>>
    BY DEF K!Ask
  <1>2. stage \in K!Sources
    BY StagesAreSources
  <1> HIDE DEF stage
  <1>3. ask[r] \in AskRecords /\ ask[r].sent = <<>>
    BY <1>1, RequestIsRecord DEF AskInv, OneSource, NothingSent
  <1>4. /\ new \in AskRecords /\ new.pc = "answering" /\ new.dialogue = d /\ new.sent = <<>>
    BY <1>2, <1>3 DEF AskRecords, AskLabels
  <1> HIDE DEF new
  <1>5. dialogues \subseteq named
    BY DEF AskInv, AskTyped
  <1>6. /\ d \in named' /\ named \subseteq named' /\ dialogues' \subseteq named'
        /\ dialogues' \cap named \subseteq dialogues
    <2>1. CASE d \in dialogues /\ UNCHANGED <<dialogues, named>>
      BY <1>5, <2>1
    <2>2. CASE K!CreateConversation(d)
      BY <1>5, <2>2 DEF K!CreateConversation
    <2> QED BY <2>1, <2>2 DEF K!Ask
  <1>7. SentByStage(new) /\ NothingSent(new, r)
    BY <1>4 DEF SentByStage, NothingSent
  <1> QED BY <1>1, <1>4, <1>6, <1>7, AnsweringKeeps

\* The next source is asked, nothing was sent.
LEMMA NextSourceKeeps ==
  ASSUME AskInv, NEW r \in K!Asking, NEW with \in BOOLEAN, ask[r].pc = "answering",
         ask[r].sent = <<>>,
         K!SetAsk(r, [ask[r] EXCEPT !.stage = K!StageAfter(ask[r].stage, with)]),
         UNCHANGED <<dialogues, named, messages, loop>>
  PROVE  AskInv'
  <1> DEFINE stage == K!StageAfter(ask[r].stage, with)
             new == [ask[r] EXCEPT !.stage = stage]
  <1>1. stage \in K!Sources /\ K!SetAsk(r, new)
    BY StagesAreSources
  <1> HIDE DEF stage
  <1>2. ask[r] \in AskRecords
    BY RequestIsRecord
  <1>3. /\ new \in AskRecords /\ new.pc = "answering" /\ new.dialogue = ask[r].dialogue
        /\ new.sent = <<>>
    BY <1>1, <1>2 DEF AskRecords
  <1> HIDE DEF new
  <1>4. /\ ask[r].dialogue \in named /\ dialogues \subseteq named
    BY DEF AskInv, AskTyped, BegunIsNamed
  <1>5. SentByStage(new) /\ NothingSent(new, r)
    BY <1>3 DEF SentByStage, NothingSent
  <1> QED BY <1>1, <1>3, <1>4, <1>5, AnsweringKeeps

LEMMA GenerateKeeps == ASSUME AskInv, NEW r \in K!Asking, K!Generate(r) PROVE AskInv'
  <1>1. r \in Asks /\ ask[r].pc = "answering" /\ UNCHANGED <<dialogues, named, messages, loop>>
    BY DEF K!Generate
  <1>2. CASE K!SetAsk(r, [ask[r] EXCEPT !.pc = "saving", !.sent = <<ask[r].stage>>])
    <2> DEFINE one == <<ask[r].stage>>
               new == [ask[r] EXCEPT !.pc = "saving", !.sent = one]
    <2>1. K!SetAsk(r, new)
      BY <1>2
    <2>2. one \in Seq(K!Sources) /\ \A i \in DOMAIN one : one[i] = ask[r].stage
      BY RequestIsRecord
    <2> HIDE DEF one
    <2>3. ask[r] \in AskRecords
      BY RequestIsRecord
    <2>4. /\ new \in AskRecords /\ new.pc = "saving" /\ new.dialogue = ask[r].dialogue
          /\ new.sent = one /\ new.stage = ask[r].stage
      BY <2>2, <2>3 DEF AskRecords, AskLabels
    <2> HIDE DEF new
    <2>5. ask[r].dialogue \in named /\ dialogues \subseteq named
      BY <1>1 DEF AskInv, AskTyped, BegunIsNamed
    <2>6. SentByStage(new) /\ NothingSent(new, r)
      BY <2>2, <2>4 DEF SentByStage, NothingSent
    <2> QED BY <1>1, <2>1, <2>4, <2>5, <2>6, AnsweringKeeps
  <1>3. ASSUME NEW with \in BOOLEAN, K!Generated(r, with) PROVE AskInv'
    <2>1. ask[r].sent = <<>>
      BY <1>1 DEF AskInv, OneSource, NothingSent
    <2>2. K!SetAsk(r, [ask[r] EXCEPT !.stage = K!StageAfter(ask[r].stage, with)])
      BY <1>3 DEF K!Generated
    <2> QED BY <1>1, <2>1, <2>2, NextSourceKeeps
  <1> QED BY <1>2, <1>3 DEF K!Generate

LEMMA TokenKeeps == ASSUME AskInv, NEW r \in K!Asking, K!Token(r) PROVE AskInv'
  <1> DEFINE more == Append(ask[r].sent, ask[r].stage)
             new == [ask[r] EXCEPT !.sent = more]
  <1>1. /\ r \in Streams /\ ask[r].pc = "answering" /\ K!SetAsk(r, new)
        /\ UNCHANGED <<dialogues, named, messages, loop>>
    BY DEF K!Token
  <1>2. /\ ask[r] \in AskRecords /\ ask[r].sent \in Seq(K!Sources) /\ ask[r].stage \in K!Sources
        /\ \A i \in DOMAIN ask[r].sent : ask[r].sent[i] = ask[r].stage
    BY RequestIsRecord DEF AskInv, OneSource, SentByStage
  <1>3. more \in Seq(K!Sources) /\ \A i \in DOMAIN more : more[i] = ask[r].stage
    BY <1>2
  <1> HIDE DEF more
  <1>4. /\ new \in AskRecords /\ new.pc = "answering" /\ new.dialogue = ask[r].dialogue
        /\ new.sent = more /\ new.stage = ask[r].stage
    BY <1>1, <1>2, <1>3 DEF AskRecords
  <1> HIDE DEF new
  <1>5. ask[r].dialogue \in named /\ dialogues \subseteq named
    BY <1>1 DEF AskInv, AskTyped, BegunIsNamed
  <1>6. SentByStage(new) /\ NothingSent(new, r)
    BY <1>1, <1>3, <1>4, ServicesAssumption DEF SentByStage, NothingSent
  <1> QED BY <1>1, <1>4, <1>5, <1>6, AnsweringKeeps

LEMMA EndOfSourceKeeps ==
  ASSUME AskInv, NEW r \in K!Asking, NEW failed \in BOOLEAN, NEW with \in BOOLEAN,
         K!EndOfSource(r, failed, with)
  PROVE  AskInv'
  <1>1. ask[r].pc = "answering" /\ UNCHANGED <<dialogues, named, messages, loop>>
    BY DEF K!EndOfSource
  <1>2. CASE /\ ask[r].sent = <<>>
             /\ K!SetAsk(r, [ask[r] EXCEPT !.stage = K!StageAfter(ask[r].stage, with)])
    BY <1>1, <1>2, NextSourceKeeps
  <1>3. CASE K!SetAsk(r, [ask[r] EXCEPT !.pc = "saving"])
    <2>1. "saving" \in AskLabels
      BY DEF AskLabels
    <2>2. PICK new \in AskRecords : Relabelled(new, ask[r], "saving") /\ K!SetAsk(r, new)
      BY <1>3, <2>1, LabelChanged
    <2> QED BY <1>1, <2>1, <2>2, LabelKeeps
  <1> QED BY <1>2, <1>3 DEF K!EndOfSource, K!FallsBack

\* The steps that change a label only.
LEMMA LabelStepsKeep ==
  ASSUME AskInv, NEW r \in K!Asking,
         K!AskUnknown(r) \/ K!Disconnect(r) \/ K!SaveError(r) \/ K!Reply(r)
  PROVE  AskInv'
  <1>1. {"refused", "gone", "failed", "done"} \subseteq AskLabels
    BY DEF AskLabels
  <1>2. CASE K!AskUnknown(r)
    <2>1. ask[r].pc = "idle" /\ UNCHANGED <<dialogues, named, messages, loop>>
      BY <1>2 DEF K!AskUnknown
    <2>2. PICK new \in AskRecords : Relabelled(new, ask[r], "refused") /\ K!SetAsk(r, new)
      BY <1>1, <1>2, LabelChanged DEF K!AskUnknown
    <2> QED BY <1>1, <2>1, <2>2, LabelKeeps
  <1>3. CASE K!Disconnect(r)
    <2>1. ask[r].pc \in {"answering", "saved"} /\ UNCHANGED <<dialogues, named, messages, loop>>
      BY <1>3 DEF K!Disconnect
    <2>2. PICK new \in AskRecords : Relabelled(new, ask[r], "gone") /\ K!SetAsk(r, new)
      BY <1>1, <1>3, LabelChanged DEF K!Disconnect
    <2> QED BY <1>1, <2>1, <2>2, LabelKeeps
  <1>4. CASE K!SaveError(r)
    <2>1. /\ ask[r].pc \in {"saving", "half_saved"} /\ UNCHANGED <<dialogues, named, messages>>
          /\ loop' = loop \/ (loop' = K!NotAsking /\ loop = r)
      BY <1>4 DEF K!SaveError, K!DbError
    <2>2. PICK new \in AskRecords : Relabelled(new, ask[r], "failed") /\ K!SetAsk(r, new)
      BY <1>1, <1>4, LabelChanged DEF K!SaveError, K!DbError
    <2> QED BY <1>1, <2>1, <2>2, LabelKeeps
  <1>5. CASE K!Reply(r)
    <2>1. ask[r].pc = "saved" /\ UNCHANGED <<dialogues, named, messages, loop>>
      BY <1>5 DEF K!Reply
    <2>2. PICK new \in AskRecords : Relabelled(new, ask[r], "done") /\ K!SetAsk(r, new)
      BY <1>1, <1>5, LabelChanged DEF K!Reply
    <2> QED BY <1>1, <2>1, <2>2, LabelKeeps
  <1> QED BY <1>2, <1>3, <1>4, <1>5

LEMMA DeleteKeeps ==
  ASSUME AskInv, NEW d \in Dialogues, K!DeleteConversation(d) PROVE AskInv'
  <1>1. dialogues' = dialogues \ {d} /\ UNCHANGED <<named, messages, ask, loop>>
    BY DEF K!DeleteConversation
  <1>2. /\ ask' \in [K!Asking -> AskRecords] /\ dialogues' \subseteq named'
        /\ loop' \in {K!NotAsking} \cup Streams
    BY <1>1 DEF AskInv, AskTyped
  <1> QED BY <1>1, <1>2, MovesKeep

LEMMA StopKeeps == ASSUME AskInv, K!Stop PROVE AskInv'
  <1> DEFINE Over == {"idle", "refused", "failed", "gone", "done"}
             Gone(h) == [h EXCEPT !.pc = "gone"]
  <1>1. /\ ask' = [r \in K!Asking |-> IF ask[r].pc \in Over THEN ask[r] ELSE Gone(ask[r])]
        /\ loop' = K!NotAsking /\ UNCHANGED <<dialogues, named, messages>>
    BY DEF K!Stop
  <1>2. ASSUME NEW h \in AskRecords
        PROVE  /\ Gone(h) \in AskRecords /\ Gone(h).pc = "gone" /\ Gone(h).dialogue = h.dialogue
               /\ Gone(h).stage = h.stage /\ Gone(h).sent = h.sent
    BY <1>2 DEF AskRecords, AskLabels
  <1> HIDE DEF Gone
  <1>3. ask' \in [K!Asking -> AskRecords]
    BY <1>1, <1>2, RequestIsRecord
  <1>4. ASSUME NEW r \in K!Asking PROVE ask'[r] = ask[r] \/ MovedOn(r)
    <2>1. CASE ask[r].pc \in Over
      BY <1>1, <2>1
    <2>2. CASE ask[r].pc \notin Over
      <3>1. ask'[r] = Gone(ask[r]) /\ ask[r] \in AskRecords /\ ask[r].pc \in AskLabels
        BY <1>1, <2>2, RequestIsRecord
      <3>2. /\ ask'[r].pc = "gone" /\ ask'[r].dialogue = ask[r].dialogue
            /\ ask'[r].stage = ask[r].stage /\ ask'[r].sent = ask[r].sent
        BY <1>2, <3>1
      <3>3. ask[r].pc \in {"answering", "saving", "half_saved", "saved"}
        BY <2>2, <3>1 DEF AskLabels
      <3>4. ask[r].dialogue \in named
        BY <3>3 DEF AskInv, BegunIsNamed
      <3>5. SentByStage(ask[r])' /\ NothingSent(ask[r], r)'
        BY <3>2 DEF AskInv, OneSource, SentByStage, NothingSent
      <3> QED BY <1>1, <3>2, <3>3, <3>4, <3>5 DEF MovedOn
    <2> QED BY <2>1, <2>2
  <1>5. \A r \in Streams : ~(ask[r].pc = "half_saved" /\ ask'[r].pc = "half_saved")
    <2> SUFFICES ASSUME NEW r \in Streams, ask[r].pc = "half_saved" PROVE ask'[r].pc = "gone"
      OBVIOUS
    <2>1. r \in K!Asking /\ ask[r].pc \notin Over
      BY DEF K!Asking
    <2>2. ask'[r] = Gone(ask[r]) /\ ask[r] \in AskRecords
      BY <1>1, <2>1, RequestIsRecord
    <2> QED BY <1>2, <2>2
  <1>6. dialogues' \subseteq named' /\ loop' \in {K!NotAsking} \cup Streams
    BY <1>1 DEF AskInv, AskTyped
  <1> QED BY <1>1, <1>3, <1>4, <1>5, <1>6, MovesKeep

-----------------------------------------------------------------------------
\* The row of a message of r.
RowOf(r, role) == [dialogue |-> ask[r].dialogue, role |-> role, req |-> r,
                   source |-> IF role = "user" THEN "none" ELSE ask[r].stage]

\* A message of r is kept, after all the others.
LEMMA MessageKept ==
  ASSUME AskInv, NEW r \in K!Asking, NEW role \in {"user", "assistant"}, K!AddMessage(r, role),
         NEW n, n = Len(messages) + 1
  PROVE  /\ messages' \in Seq(MessageRows) /\ n \in Nat /\ Len(messages') = n
         /\ n \notin DOMAIN messages /\ DOMAIN messages' = DOMAIN messages \cup {n}
         /\ \A k \in DOMAIN messages : k \in Nat /\ k < n /\ messages'[k] = messages[k]
         /\ messages'[n] = RowOf(r, role)
  <1> DEFINE row == RowOf(r, role)
  <1>1. /\ ask[r] \in AskRecords /\ ask[r].stage \in K!Sources
        /\ ask[r].dialogue \in Dialogues \cup {NoDialogue}
    BY RequestIsRecord
  <1>2. row \in MessageRows
    BY <1>1 DEF MessageRows, K!Sources, RowOf
  <1>3. messages' = Append(messages, row)
    BY DEF K!AddMessage, RowOf
  <1> HIDE DEF row
  <1>4. messages \in Seq(MessageRows)
    BY DEF AskInv, AskTyped
  <1>5. /\ messages' \in Seq(MessageRows) /\ n \in Nat /\ Len(messages') = n
        /\ n \notin DOMAIN messages /\ DOMAIN messages' = DOMAIN messages \cup {n}
        /\ \A k \in DOMAIN messages : k \in Nat /\ k < n /\ messages'[k] = messages[k]
        /\ messages'[n] = row
    BY <1>2, <1>3, <1>4
  <1> QED BY <1>5 DEF row

LEMMA OthersKeepSource ==
  ASSUME AskInv, NEW r \in K!Asking, ask'[r].stage = ask[r].stage, ask'[r].sent = ask[r].sent,
         ask'[r].pc \notin {"idle", "answering"}, \A q \in K!Asking \ {r} : ask'[q] = ask[q]
  PROVE  OneSource'
  <1> SUFFICES ASSUME NEW q \in K!Asking PROVE SentByStage(ask[q])' /\ NothingSent(ask[q], q)'
    BY DEF OneSource
  <1>1. CASE q # r
    BY <1>1 DEF AskInv, OneSource, SentByStage, NothingSent
  <1>2. CASE q = r
    BY <1>2 DEF AskInv, OneSource, SentByStage, NothingSent
  <1> QED BY <1>1, <1>2

\* The question is kept: r is between its two inserts.
LEMMA QuestionKept ==
  ASSUME AskInv, NEW r \in K!Asking, ask[r].pc = "saving", K!MayRun(r),
         K!AddMessage(r, "user"), NEW new \in AskRecords, Relabelled(new, ask[r],
         "half_saved"),
         K!SetAsk(r, new), loop' = IF r \in Streams THEN r ELSE loop,
         UNCHANGED <<dialogues, named>>
  PROVE  AskInv'
  <1>1. PICK n : n = Len(messages) + 1
    OBVIOUS
  <1>2. loop' \in {K!NotAsking} \cup Streams /\ "half_saved" \in AskLabels
    BY DEF AskInv, AskTyped, AskLabels
  <1>3. /\ messages' \in Seq(MessageRows) /\ n \in Nat /\ Len(messages') = n
        /\ n \notin DOMAIN messages /\ DOMAIN messages' = DOMAIN messages \cup {n}
        /\ \A k \in DOMAIN messages : k \in Nat /\ k < n /\ messages'[k] = messages[k]
        /\ messages'[n] = RowOf(r, "user")
    BY <1>1, MessageKept
  <1>4. /\ ask' \in [K!Asking -> AskRecords] /\ ask'[r] = new
        /\ \A q \in K!Asking \ {r} : ask'[q] = ask[q]
    BY SetAskEffect
  <1>5. AskTyped'
    BY <1>2, <1>3, <1>4 DEF AskInv, AskTyped
  <1>6. /\ RowOf(r, "user").dialogue = ask[r].dialogue /\ RowOf(r, "user").req = r
        /\ RowOf(r, "user").role = "user"
    BY DEF RowOf
  <1>7. messages'[n] = RowOf(r, "user")
    BY <1>3
  <1>8. /\ messages'[n].dialogue = ask[r].dialogue /\ messages'[n].req = r
        /\ messages'[n].role = "user"
    BY <1>6, <1>7, Zenon
  <1>9. /\ ask'[r].pc = new.pc /\ ask'[r].dialogue = ask[r].dialogue
        /\ ask'[r].stage = ask[r].stage /\ ask'[r].sent = ask[r].sent
    BY <1>4 DEF Relabelled
  <1>10. /\ AskTyped' /\ n \in Nat /\ Len(messages') = n /\ n \notin DOMAIN messages
         /\ DOMAIN messages' = DOMAIN messages \cup {n}
         /\ \A k \in DOMAIN messages : k \in Nat /\ k < n /\ messages'[k] = messages[k]
         /\ messages'[n].dialogue = ask[r].dialogue /\ messages'[n].req = r
         /\ messages'[n].role = "user"
         /\ ask'[r].pc = "half_saved" /\ ask'[r].dialogue = ask[r].dialogue
         /\ ask'[r].stage = ask[r].stage /\ ask'[r].sent = ask[r].sent
         /\ \A q \in K!Asking \ {r} : ask'[q] = ask[q]
    BY <1>3, <1>4, <1>5, <1>8, <1>9 DEF Relabelled
  <1>11. \A m \in DOMAIN messages : messages[m].req # r /\ messages[m].req \in K!Asking
    BY MessageIsRow DEF AskInv, MessagesAreOfRequests
  <1>12. BegunIsNamed'
    BY <1>10 DEF AskInv, BegunIsNamed
  <1>13. MessagesAreOfRequests'
    <2> SUFFICES ASSUME NEW m \in DOMAIN messages'
                 PROVE  /\ messages'[m].dialogue = ask'[messages'[m].req].dialogue
                        /\ ask'[messages'[m].req].pc
                             \in {"half_saved", "saved", "done", "gone", "failed"}
                        /\ messages'[m].role = "assistant" =>
                             /\ ask'[messages'[m].req].pc \in {"saved", "done", "gone"}
                             /\ messages'[m].source = ask'[messages'[m].req].stage
      BY DEF MessagesAreOfRequests
    <2>1. CASE m = n
      BY <1>10, <2>1
    <2>2. CASE m \in DOMAIN messages
      BY <1>10, <1>11, <2>2 DEF AskInv, MessagesAreOfRequests
    <2> QED BY <1>10, <2>1, <2>2
  <1>14. KeptOnce'
    BY <1>10, <1>11 DEF AskInv, KeptOnce
  <1>15. AnswersFollow'
    <2> SUFFICES ASSUME NEW a \in DOMAIN messages', messages'[a].role = "assistant"
                 PROVE  \E u \in DOMAIN messages' :
                          /\ u < a /\ IsMessage(u, messages[a].req, "user")'
                          /\ messages'[a].req \in Streams => NoStreamBetween(u, a)'
      BY DEF AnswersFollow
    <2>1. a \in DOMAIN messages /\ messages[a].role = "assistant"
      BY <1>10
    <2>2. PICK u \in DOMAIN messages :
            /\ u < a /\ IsMessage(u, messages[a].req, "user")
            /\ messages[a].req \in Streams => NoStreamBetween(u, a)
      BY <2>1 DEF AskInv, AnswersFollow
    <2>3. IsMessage(u, messages[a].req, "user")'
      BY <1>10, <2>1, <2>2 DEF IsMessage
    <2>4. messages[a].req \in Streams => NoStreamBetween(u, a)'
      BY <1>10, <2>1, <2>2 DEF NoStreamBetween
    <2> QED BY <1>10, <2>1, <2>2, <2>3, <2>4
  <1>16. HalfSavedHasLoop'
    <2> SUFFICES ASSUME NEW q \in K!Asking, ask'[q].pc = "half_saved"
                 PROVE  \E u \in DOMAIN messages' :
                          /\ IsMessage(u, q, "user")'
                          /\ q \in Streams => loop' = q /\ NoStreamBetween(u, Len(messages) + 1)'
      BY DEF HalfSavedHasLoop
    <2>1. CASE q = r
      <3>1. IsMessage(n, r, "user")'
        BY <1>10 DEF IsMessage
      <3>2. NoStreamBetween(n, Len(messages) + 1)'
        BY <1>10 DEF NoStreamBetween
      <3> QED BY <1>10, <2>1, <3>1, <3>2
    <2>2. CASE q # r
      <3>1. PICK u \in DOMAIN messages :
              /\ IsMessage(u, q, "user")
              /\ q \in Streams => loop = q /\ NoStreamBetween(u, n)
        BY <1>1, <1>10, <2>2 DEF AskInv, HalfSavedHasLoop
      <3>2. q \in Streams => r \notin Streams
        BY <2>2, <3>1, ServicesAssumption DEF K!MayRun, K!NotAsking
      <3>3. IsMessage(u, q, "user")'
        BY <1>10, <3>1 DEF IsMessage
      <3>4. q \in Streams => NoStreamBetween(u, Len(messages) + 1)'
        BY <1>10, <3>1, <3>2 DEF NoStreamBetween
      <3> QED BY <1>10, <3>1, <3>2, <3>3, <3>4
    <2> QED BY <2>1, <2>2
  <1>17. SavedIsKept'
    <2> SUFFICES ASSUME NEW q \in K!Asking, ask'[q].pc \in {"saved", "done"},
                        ask'[q].dialogue \in dialogues
                 PROVE  \E a \in DOMAIN messages' : IsMessage(a, q, "assistant")'
      BY DEF SavedIsKept
    <2>1. q # r
      BY <1>10
    <2>2. PICK a \in DOMAIN messages : IsMessage(a, q, "assistant")
      BY <1>10, <2>1 DEF AskInv, SavedIsKept
    <2>3. IsMessage(a, q, "assistant")'
      BY <1>10, <2>2 DEF IsMessage
    <2> QED BY <1>10, <2>3
  <1>18. OneSource'
    BY <1>10, OthersKeepSource
  <1> QED BY <1>10, <1>12, <1>13, <1>14, <1>15, <1>16, <1>17, <1>18 DEF AskInv

LEMMA SaveQuestionKeeps == ASSUME AskInv, NEW r \in K!Asking, K!SaveQuestion(r) PROVE AskInv'
  <1>1. ask[r].pc = "saving" /\ K!MayRun(r) /\ UNCHANGED <<dialogues, named>>
    BY DEF K!SaveQuestion
  <1>2. "saved" \in AskLabels /\ "half_saved" \in AskLabels
    BY DEF AskLabels
  <1>3. PICK saved \in AskRecords, half \in AskRecords :
          /\ Relabelled(saved, ask[r], "saved") /\ Relabelled(half, ask[r], "half_saved")
          /\ \/ K!ConversationGone(r) /\ K!SetAsk(r, saved) /\ UNCHANGED <<messages, loop>>
             \/ /\ K!AddMessage(r, "user") /\ K!SetAsk(r, half)
                /\ loop' = IF r \in Streams THEN r ELSE loop
    BY <1>2, LabelChanged DEF K!SaveQuestion
  <1>4. CASE K!ConversationGone(r) /\ K!SetAsk(r, saved) /\ UNCHANGED <<messages, loop>>
    <2>1. ask[r].dialogue \notin dialogues
      BY <1>4 DEF K!ConversationGone
    <2> QED BY <1>1, <1>2, <1>3, <1>4, <2>1, LabelKeeps
  <1>5. CASE /\ K!AddMessage(r, "user") /\ K!SetAsk(r, half)
             /\ loop' = IF r \in Streams THEN r ELSE loop
    BY <1>1, <1>3, <1>5, QuestionKept
  <1> QED BY <1>3, <1>4, <1>5

\* The answer is kept, and the event loop is free again.
LEMMA AnswerKept ==
  ASSUME AskInv, NEW r \in K!Asking, ask[r].pc = "half_saved", K!MayRun(r),
         K!AddMessage(r, "assistant"), NEW new \in AskRecords, Relabelled(new, ask[r],
         "saved"),
         K!SetAsk(r, new), loop' = IF r \in Streams THEN K!NotAsking ELSE loop,
         UNCHANGED <<dialogues, named>>
  PROVE  AskInv'
  <1>1. "saved" \in AskLabels
    BY DEF AskLabels
  <1>2. PICK v \in DOMAIN messages :
         /\ IsMessage(v, r, "user")
         /\ r \in Streams => loop = r /\ NoStreamBetween(v, Len(messages) + 1)
    BY DEF AskInv, HalfSavedHasLoop
  <1>3. PICK n : n = Len(messages) + 1
    OBVIOUS
  <1>4. loop' \in {K!NotAsking} \cup Streams
    BY DEF AskInv, AskTyped
  <1>5. /\ messages' \in Seq(MessageRows) /\ n \in Nat /\ Len(messages') = n
        /\ n \notin DOMAIN messages /\ DOMAIN messages' = DOMAIN messages \cup {n}
        /\ \A k \in DOMAIN messages : k \in Nat /\ k < n /\ messages'[k] = messages[k]
        /\ messages'[n] = RowOf(r, "assistant")
    BY <1>3, MessageKept
  <1>6. /\ ask' \in [K!Asking -> AskRecords] /\ ask'[r] = new
        /\ \A q \in K!Asking \ {r} : ask'[q] = ask[q]
    BY SetAskEffect
  <1>7. AskTyped'
    BY <1>4, <1>5, <1>6 DEF AskInv, AskTyped
  <1>8. /\ messages'[n].dialogue = ask[r].dialogue /\ messages'[n].req = r
        /\ messages'[n].role = "assistant" /\ messages'[n].source = ask[r].stage
    BY <1>5 DEF RowOf
  <1>9. /\ ask'[r].pc = new.pc /\ ask'[r].dialogue = ask[r].dialogue
        /\ ask'[r].stage = ask[r].stage /\ ask'[r].sent = ask[r].sent
    BY <1>6 DEF Relabelled
  <1>10. /\ AskTyped' /\ n \in Nat /\ Len(messages') = n /\ n \notin DOMAIN messages
         /\ DOMAIN messages' = DOMAIN messages \cup {n}
         /\ \A k \in DOMAIN messages : k \in Nat /\ k < n /\ messages'[k] = messages[k]
         /\ messages'[n].dialogue = ask[r].dialogue /\ messages'[n].req = r
         /\ messages'[n].role = "assistant" /\ messages'[n].source = ask[r].stage
         /\ ask'[r].pc = "saved" /\ ask'[r].dialogue = ask[r].dialogue
         /\ ask'[r].stage = ask[r].stage /\ ask'[r].sent = ask[r].sent
         /\ \A q \in K!Asking \ {r} : ask'[q] = ask[q]
    BY <1>5, <1>6, <1>7, <1>8, <1>9 DEF Relabelled
  <1>11. \A m \in DOMAIN messages :
           /\ messages[m].req \in K!Asking
           /\ messages[m].req = r => messages[m].role # "assistant"
    BY MessageIsRow DEF AskInv, MessagesAreOfRequests
  <1>12. BegunIsNamed'
    BY <1>10 DEF AskInv, BegunIsNamed
  <1>13. MessagesAreOfRequests'
    <2> SUFFICES ASSUME NEW m \in DOMAIN messages'
                 PROVE  /\ messages'[m].dialogue = ask'[messages'[m].req].dialogue
                        /\ ask'[messages'[m].req].pc
                             \in {"half_saved", "saved", "done", "gone", "failed"}
                        /\ messages'[m].role = "assistant" =>
                             /\ ask'[messages'[m].req].pc \in {"saved", "done", "gone"}
                             /\ messages'[m].source = ask'[messages'[m].req].stage
      BY DEF MessagesAreOfRequests
    <2>1. CASE m = n
      BY <1>10, <2>1
    <2>2. CASE m \in DOMAIN messages
      BY <1>10, <1>11, <2>2 DEF AskInv, MessagesAreOfRequests
    <2> QED BY <1>10, <2>1, <2>2
  <1>14. KeptOnce'
    BY <1>10, <1>11 DEF AskInv, KeptOnce
  <1>15. AnswersFollow'
    <2> SUFFICES ASSUME NEW a \in DOMAIN messages', messages'[a].role = "assistant"
                 PROVE  \E u \in DOMAIN messages' :
                          /\ u < a /\ IsMessage(u, messages[a].req, "user")'
                          /\ messages'[a].req \in Streams => NoStreamBetween(u, a)'
      BY DEF AnswersFollow
    <2>1. CASE a = n
      <3>1. IsMessage(v, messages[a].req, "user")'
        BY <1>2, <1>10, <2>1 DEF IsMessage
      <3>2. r \in Streams => NoStreamBetween(v, a)'
        BY <1>2, <1>3, <1>10, <2>1 DEF NoStreamBetween
      <3> QED BY <1>2, <1>10, <2>1, <3>1, <3>2
    <2>2. CASE a \in DOMAIN messages
      <3>1. PICK u \in DOMAIN messages :
              /\ u < a /\ IsMessage(u, messages[a].req, "user")
              /\ messages[a].req \in Streams => NoStreamBetween(u, a)
        BY <1>10, <2>2 DEF AskInv, AnswersFollow
      <3>2. IsMessage(u, messages[a].req, "user")'
        BY <1>10, <2>2, <3>1 DEF IsMessage
      <3>3. messages[a].req \in Streams => NoStreamBetween(u, a)'
        BY <1>10, <2>2, <3>1 DEF NoStreamBetween
      <3> QED BY <1>10, <2>2, <3>1, <3>2, <3>3
    <2> QED BY <1>10, <2>1, <2>2
  <1>16. HalfSavedHasLoop'
    <2> SUFFICES ASSUME NEW q \in K!Asking, ask'[q].pc = "half_saved"
                 PROVE  \E u \in DOMAIN messages' :
                          /\ IsMessage(u, q, "user")'
                          /\ q \in Streams => loop' = q /\ NoStreamBetween(u, Len(messages) + 1)'
      BY DEF HalfSavedHasLoop
    <2>1. q # r
      BY <1>10
    <2>2. PICK u \in DOMAIN messages :
            /\ IsMessage(u, q, "user")
            /\ q \in Streams => loop = q /\ NoStreamBetween(u, n)
      BY <1>3, <1>10, <2>1 DEF AskInv, HalfSavedHasLoop
    <2>3. q \in Streams => r \notin Streams
      BY <1>2, <2>1, <2>2
    <2>4. IsMessage(u, q, "user")'
      BY <1>10, <2>2 DEF IsMessage
    <2>5. q \in Streams => NoStreamBetween(u, Len(messages) + 1)'
      BY <1>10, <2>2, <2>3 DEF NoStreamBetween
    <2> QED BY <1>10, <2>2, <2>3, <2>4, <2>5
  <1>17. SavedIsKept'
    <2> SUFFICES ASSUME NEW q \in K!Asking, ask'[q].pc \in {"saved", "done"},
                        ask'[q].dialogue \in dialogues
                 PROVE  \E a \in DOMAIN messages' : IsMessage(a, q, "assistant")'
      BY DEF SavedIsKept
    <2>1. CASE q = r
      BY <1>10, <2>1 DEF IsMessage
    <2>2. CASE q # r
      <3>1. PICK a \in DOMAIN messages : IsMessage(a, q, "assistant")
        BY <1>10, <2>2 DEF AskInv, SavedIsKept
      <3>2. IsMessage(a, q, "assistant")'
        BY <1>10, <3>1 DEF IsMessage
      <3> QED BY <1>10, <3>2
    <2> QED BY <2>1, <2>2
  <1>18. OneSource'
    BY <1>10, OthersKeepSource
  <1> QED BY <1>10, <1>12, <1>13, <1>14, <1>15, <1>16, <1>17, <1>18 DEF AskInv

LEMMA SaveAnswerKeeps == ASSUME AskInv, NEW r \in K!Asking, K!SaveAnswer(r) PROVE AskInv'
  <1>1. /\ ask[r].pc = "half_saved" /\ K!MayRun(r) /\ UNCHANGED <<dialogues, named>>
        /\ loop' = IF r \in Streams THEN K!NotAsking ELSE loop
    BY DEF K!SaveAnswer
  <1>2. r \in Streams => loop = r
    BY <1>1 DEF AskInv, HalfSavedHasLoop
  <1>3. "saved" \in AskLabels
    BY DEF AskLabels
  <1>4. PICK new \in AskRecords : Relabelled(new, ask[r], "saved") /\ K!SetAsk(r, new)
    BY <1>3, LabelChanged DEF K!SaveAnswer
  <1>5. CASE K!ConversationGone(r) /\ UNCHANGED messages
    <2>1. loop' = loop \/ (loop' = K!NotAsking /\ loop = r)
      BY <1>1, <1>2
    <2>2. ask[r].dialogue \notin dialogues
      BY <1>5 DEF K!ConversationGone
    <2> QED BY <1>1, <1>3, <1>4, <1>5, <2>1, <2>2, LabelKeeps
  <1>6. CASE K!AddMessage(r, "assistant")
    BY <1>1, <1>4, <1>6, AnswerKept
  <1> QED BY <1>5, <1>6 DEF K!SaveAnswer

LEMMA AskStep == ASSUME AskInv, K!Next PROVE AskInv'
  <1>1. ASSUME NEW r \in K!Asking, NEW d \in Dialogues, NEW hits \in BOOLEAN,
               NEW primary \in BOOLEAN, NEW with \in BOOLEAN, K!Ask(r, d, hits, primary, with)
        PROVE  AskInv'
    BY <1>1, AskKeeps
  <1>2. ASSUME NEW r \in K!Asking, NEW failed \in BOOLEAN, NEW with \in BOOLEAN,
               K!EndOfSource(r, failed, with)
        PROVE  AskInv'
    BY <1>2, EndOfSourceKeeps
  <1>3. ASSUME NEW r \in K!Asking,
               \/ K!AskUnknown(r) \/ K!Generate(r) \/ K!Token(r) \/ K!Disconnect(r)
               \/ K!SaveQuestion(r) \/ K!SaveAnswer(r) \/ K!SaveError(r) \/ K!Reply(r)
        PROVE  AskInv'
    BY <1>3, LabelStepsKeep, GenerateKeeps, TokenKeeps, SaveQuestionKeeps, SaveAnswerKeeps
  <1>4. ASSUME NEW d \in Dialogues, K!DeleteConversation(d) PROVE AskInv'
    BY <1>4, DeleteKeeps
  <1>5. CASE K!Stop
    BY <1>5, StopKeeps
  <1> QED BY <1>1, <1>2, <1>3, <1>4, <1>5 DEF K!Next

-----------------------------------------------------------------------------
\* The answer of a stream is paired with its own question.
LEMMA PromptIsQuestion == AskInv => K!StreamedPromptIsItsQuestion
  <1> SUFFICES ASSUME AskInv, NEW a \in K!MessageIds, messages[a].role = "assistant",
                      \A m \in K!MessageIds : messages[m].dialogue = messages[a].dialogue
                                                => messages[m].req \in Streams
               PROVE  /\ K!Preceding(a) # {}
                      /\ messages[K!Max(K!Preceding(a))].req = messages[a].req
    BY DEF K!StreamedPromptIsItsQuestion
  <1>1. a \in DOMAIN messages /\ messages[a].dialogue \in dialogues
    BY DEF K!MessageIds, K!LiveMessage
  <1>2. messages[a].req \in Streams
    OBVIOUS
  <1>3. PICK u \in DOMAIN messages :
          u < a /\ IsMessage(u, messages[a].req, "user") /\ NoStreamBetween(u, a)
    BY <1>1, <1>2 DEF AskInv, AnswersFollow
  <1>4. messages[u].dialogue = messages[a].dialogue
    BY <1>1, <1>3 DEF AskInv, MessagesAreOfRequests, IsMessage
  <1>5. u \in K!Preceding(a)
    BY <1>1, <1>3, <1>4 DEF K!Preceding, K!MessageIds, K!LiveMessage, IsMessage
  <1>6. ASSUME NEW k \in K!Preceding(a) PROVE k \in Nat /\ u >= k
    <2>1. /\ k \in DOMAIN messages /\ k < a /\ k \in K!MessageIds
          /\ messages[k].dialogue = messages[a].dialogue
      BY <1>6 DEF K!Preceding, K!MessageIds
    <2>2. messages[k].req \in Streams
      BY <2>1
    <2>3. k \in Nat /\ u \in Nat
      BY <2>1, MessageIsRow
    <2> QED BY <1>3, <2>1, <2>2, <2>3 DEF NoStreamBetween
  <1>7. u \in Nat
    BY MessageIsRow
  <1>8. K!Max(K!Preceding(a)) = u
    BY <1>5, <1>6, <1>7 DEF K!Max
  <1> QED BY <1>3, <1>5, <1>8 DEF IsMessage

\* What was kept of a turn that was replied to is there once, in order.
LEMMA RepliedIsKept == AskInv => K!RepliedTurnIsKept
  <1> SUFFICES ASSUME AskInv, NEW r \in K!Asking, ask[r].pc = "done", ~K!ConversationGone(r)
               PROVE  LET rows(role) == {m \in K!MessageIds : /\ messages[m].req = r
                                                              /\ messages[m].role = role}
                      IN  /\ K!Cardinality(rows("user")) = 1
                          /\ K!Cardinality(rows("assistant")) = 1
                          /\ K!Max(rows("user")) < K!Max(rows("assistant"))
    BY DEF K!RepliedTurnIsKept
  <1> DEFINE rows(role) == {m \in K!MessageIds : messages[m].req = r /\ messages[m].role = role}
  <1>1. ask[r].dialogue \in dialogues
    BY DEF K!ConversationGone
  <1>2. PICK a \in DOMAIN messages : IsMessage(a, r, "assistant")
    BY <1>1 DEF AskInv, SavedIsKept
  <1>3. PICK u \in DOMAIN messages : u < a /\ IsMessage(u, r, "user")
    BY <1>2 DEF AskInv, AnswersFollow, IsMessage
  <1>4. ASSUME NEW m \in DOMAIN messages, NEW role, IsMessage(m, r, role)
        PROVE  rows(role) = {m}
    <2>1. messages[m].dialogue \in dialogues
      BY <1>1, <1>4 DEF AskInv, MessagesAreOfRequests, IsMessage
    <2> QED BY <1>4, <2>1 DEF AskInv, KeptOnce, IsMessage, K!MessageIds, K!LiveMessage
  <1>5. rows("user") = {u} /\ rows("assistant") = {a}
    BY <1>2, <1>3, <1>4
  <1> HIDE DEF rows
  <1>6. a \in Nat /\ u \in Nat
    BY MessageIsRow
  <1>7. K!Max({u}) = u /\ K!Max({a}) = a
    BY <1>6 DEF K!Max
  <1>8. K!Cardinality({u}) = 1 /\ K!Cardinality({a}) = 1
    BY FS_Singleton DEF Cardinality, K!Cardinality
  <1>9. /\ K!Cardinality(rows("user")) = 1 /\ K!Cardinality(rows("assistant")) = 1
        /\ K!Max(rows("user")) < K!Max(rows("assistant"))
    BY <1>3, <1>5, <1>7, <1>8
  <1> QED BY <1>9 DEF rows

LEMMA AskHolds == AskInv => K!ConversationsAreTrue
  <1> SUFFICES ASSUME AskInv PROVE K!ConversationsAreTrue
    OBVIOUS
  <1>1. K!AnswerHasOneSource
    BY DEF AskInv, OneSource, SentByStage, MessagesAreOfRequests, K!AnswerHasOneSource,
           K!MessageIds
  <1> QED BY <1>1, PromptIsQuestion, RepliedIsKept DEF K!ConversationsAreTrue

\* For any number of requests, streams, deletions and stops of the server: the conversation
\* a reader gets back is the one that took place (app/api/kb_mvp/chat.py, app/services/kb_store.py).
THEOREM ConversationsStayTrue == Spec => []ConversationsAreTrue
  <1> DEFINE Here == scene = "ask" => AskInv
  <1>1. Init => Here
    BY AskInitInv DEF Init
  <1>2. Here /\ [Next]_vars => Here'
    <2> SUFFICES ASSUME Here, [Next]_vars, scene' = "ask" PROVE AskInv'
      OBVIOUS
    <2>1. CASE Apart("ask") /\ K!Next
      BY <2>1, AskStep DEF Apart
    <2>2. CASE UNCHANGED <<scene, askVars>>
      BY <2>2 DEF askVars, AskInv, AskTyped, BegunIsNamed, MessagesAreOfRequests, KeptOnce,
                  AnswersFollow, HalfSavedHasLoop, SavedIsKept, OneSource, IsMessage,
                  NoStreamBetween, SentByStage, NothingSent
    <2> QED BY <2>1, <2>2 DEF Next, vars, Apart
  <1>3. Here => ConversationsAreTrue
    BY AskHolds DEF ConversationsAreTrue
  <1> QED BY <1>1, <1>2, <1>3, PTL DEF Spec

-----------------------------------------------------------------------------
(* ApiIngest: what the API shows of a file is backed.                       *)

JobStatuses == {"queued", "processing", "completed", "failed"}
JobRows == [of : Documents, path : Extensions \cup {NoneYet}, attempt : Nat, status : JobStatuses]
Hands == [pc : {"idle", "ready", "backoff"}, job : Nat, of : Documents \cup {NoneYet},
          path : Extensions \cup {NoneYet}, attempt : Nat]

ApiTyped ==
  /\ shown \in [Documents -> {"none", "queued", "processing", "completed", "failed"}]
  /\ pathOf \in [Documents -> Extensions \cup {NoneYet}]
  /\ jobTable \in Seq(JobRows)
  /\ hand \in [I!Actors -> Hands]

\* A row of c with that status.
HasRow(c, status) == \E j \in DOMAIN jobTable : jobTable[j].of = c /\ jobTable[j].status = status
\* A request or the drain waits to try c again.
BacksOff(c) == \E a \in I!Actors : hand[a].pc = "backoff" /\ hand[a].of = c

\* A job in hand is a row of that file.
HandsAreRows ==
  \A a \in I!Actors : hand[a].pc # "idle" =>
    hand[a].job \in DOMAIN jobTable /\ jobTable[hand[a].job].of = hand[a].of

\* A file shown as being processed has a row that is, also when it is stranded.
ProcessingHasRow == \A c \in Documents : shown[c] = "processing" => HasRow(c, "processing")

QueuedHasWork ==
  \A c \in Documents : shown[c] = "queued" /\ c \notin stranded =>
    HasRow(c, "queued") \/ HasRow(c, "processing") \/ BacksOff(c)

\* The blob of a file that has a row is there, at the path of the row, or was taken.
RowsHaveBlobs ==
  \A c \in Documents :
    /\ shown[c] # "none" => <<c, pathOf[c]>> \in blobs \cup taken
    /\ shown[c] = "none" => \A s \in Extensions : <<c, s>> \notin blobs

\* The file of a row is known.
RowsAreShown == \A j \in DOMAIN jobTable : shown[jobTable[j].of] # "none"

ApiInv == ApiTyped /\ RowsAreShown /\ HandsAreRows /\ ProcessingHasRow /\ QueuedHasWork /\ RowsHaveBlobs

\* Every row is there with its status, and the only new row is one of c.
RowsStay == \A d \in Documents, status \in JobStatuses : HasRow(d, status) => HasRow(d, status)'
OnlyNewRowOf(c) ==
  \A j \in DOMAIN jobTable' :
    \/ jobTable'[j].of = c
    \/ j \in DOMAIN jobTable /\ jobTable'[j] = jobTable[j]

LEMMA ApiHolds == ApiInv => I!ApiFilesAreBacked
  <1> SUFFICES ASSUME ApiInv PROVE I!ApiFilesAreBacked
    OBVIOUS
  <1>1. I!WaitingHasWork
    BY DEF ApiInv, ProcessingHasRow, QueuedHasWork, HasRow, BacksOff, I!WaitingHasWork,
           I!Holds
  <1>2. I!BlobsFollowRecords
    BY DEF ApiInv, RowsHaveBlobs, I!BlobsFollowRecords
  <1> QED BY <1>1, <1>2 DEF I!ApiFilesAreBacked

LEMMA IdleHand == I!Idle \in Hands /\ I!Idle.pc = "idle"
  BY DEF I!Idle, Hands

LEMMA ApiInitInv == I!ApiIngestInit => ApiInv
  <1> SUFFICES ASSUME I!ApiIngestInit PROVE ApiInv
    OBVIOUS
  <1>1. /\ shown = [c \in Documents |-> "none"] /\ pathOf = [c \in Documents |-> NoneYet]
        /\ blobs = {} /\ jobTable = <<>> /\ hand = [a \in I!Actors |-> I!Idle]
    BY DEF I!ApiIngestInit
  <1>2. jobTable \in Seq(JobRows)
    BY <1>1
  <1>3. ApiTyped
    BY <1>1, <1>2, IdleHand DEF ApiTyped
  <1>4. HandsAreRows
    BY <1>1, IdleHand DEF HandsAreRows
  <1>5. ProcessingHasRow /\ QueuedHasWork /\ RowsHaveBlobs /\ RowsAreShown
    BY <1>1 DEF ProcessingHasRow, QueuedHasWork, RowsHaveBlobs, RowsAreShown
  <1> QED BY <1>3, <1>4, <1>5 DEF ApiInv

\* A row that is appended.
LEMMA RowAppended ==
  ASSUME ApiInv, NEW row \in JobRows, jobTable' = Append(jobTable, row)
  PROVE  /\ jobTable' \in Seq(JobRows)
         /\ Len(jobTable) + 1 \in Nat /\ Len(jobTable) + 1 \in DOMAIN jobTable'
         /\ jobTable'[Len(jobTable) + 1] = row
         /\ \A j \in DOMAIN jobTable : j \in DOMAIN jobTable' /\ jobTable'[j] = jobTable[j]
         /\ DOMAIN jobTable' = DOMAIN jobTable \cup {Len(jobTable) + 1}
  BY DEF ApiInv, ApiTyped

\* enqueue_job: the file has a row that waits, and nothing else changes of rows and hands,
\* but for the hand that takes it.
LEMMA EnqueueEffect ==
  ASSUME ApiInv, NEW a \in I!Actors, NEW c \in Documents, NEW s \in Extensions \cup {NoneYet},
         NEW attempt \in Nat, I!Enqueue(a, c, s, attempt)
  PROVE  /\ jobTable' \in Seq(JobRows)
         /\ RowsStay
         /\ HasRow(c, "queued")'
         /\ OnlyNewRowOf(c)
         /\ stranded' = stranded \ {c}
         /\ hand' \in [I!Actors -> Hands] /\ HandsAreRows'
         /\ \A b \in I!Actors \ {a} : hand'[b] = hand[b]
         /\ hand'[a] = hand[a] \/ hand'[a].pc = "ready"
  <1> DEFINE row == I!Row(c, s, attempt)
             new == I!InHand(row, Len(jobTable) + 1, attempt)
  <1>1. row \in JobRows /\ row.of = c /\ row.status = "queued"
    BY DEF I!Row, JobRows, JobStatuses
  <1>2. jobTable' = Append(jobTable, row) /\ stranded' = stranded \ {c}
    BY DEF I!Enqueue
  <1>3. new = [pc |-> "ready", job |-> Len(jobTable) + 1, of |-> row.of, path |-> row.path,
               attempt |-> attempt]
    BY DEF I!InHand
  <1>4. hand' = [hand EXCEPT ![a] = new] \/ UNCHANGED hand
    BY DEF I!Enqueue
  <1> HIDE DEF row
  <1>5. /\ jobTable' \in Seq(JobRows)
        /\ Len(jobTable) + 1 \in Nat /\ Len(jobTable) + 1 \in DOMAIN jobTable'
        /\ jobTable'[Len(jobTable) + 1] = row
        /\ \A j \in DOMAIN jobTable : j \in DOMAIN jobTable' /\ jobTable'[j] = jobTable[j]
        /\ DOMAIN jobTable' = DOMAIN jobTable \cup {Len(jobTable) + 1}
    BY <1>1, <1>2, RowAppended
  <1>6. new \in Hands /\ new.pc = "ready" /\ new.job = Len(jobTable) + 1 /\ new.of = row.of
    BY <1>1, <1>3, <1>5 DEF JobRows, Hands
  <1> HIDE DEF new
  <1>7. /\ hand' \in [I!Actors -> Hands]
        /\ \A b \in I!Actors \ {a} : hand'[b] = hand[b]
        /\ hand'[a] \in {hand[a], new}
    BY <1>4, <1>6 DEF ApiInv, ApiTyped
  <1>8. HandsAreRows'
    <2> SUFFICES ASSUME NEW b \in I!Actors, hand'[b].pc # "idle"
                 PROVE  hand'[b].job \in DOMAIN jobTable' /\ jobTable'[hand'[b].job].of = hand'[b].of
      BY DEF HandsAreRows
    <2>1. CASE hand'[b] = hand[b]
      BY <2>1, <1>5 DEF ApiInv, HandsAreRows
    <2>2. CASE hand'[b] = new
      BY <2>2, <1>5, <1>6
    <2> QED BY <2>1, <2>2, <1>7
  <1>9. RowsStay
    BY <1>5 DEF HasRow, RowsStay
  <1>10. HasRow(c, "queued")'
    BY <1>1, <1>5 DEF HasRow
  <1>11. OnlyNewRowOf(c)
    BY <1>1, <1>5 DEF OnlyNewRowOf
  <1> QED BY <1>2, <1>5, <1>6, <1>7, <1>8, <1>9, <1>10, <1>11

\* The file of a row is one of the files.
LEMMA RowOfDocument ==
  ASSUME ApiInv, NEW j \in DOMAIN jobTable
  PROVE  jobTable[j] \in JobRows /\ jobTable[j].of \in Documents
  <1>1. jobTable \in Seq(JobRows)
    BY DEF ApiInv, ApiTyped
  <1>2. jobTable[j] \in JobRows
    BY <1>1
  <1> QED BY <1>2 DEF JobRows

\* Rows of files that are known, and a new one of c.
LEMMA NewRowIsShown ==
  ASSUME ApiInv, NEW c, OnlyNewRowOf(c), shown'[c] # "none",
         \A d \in Documents \ {c} : shown'[d] = shown[d]
  PROVE  RowsAreShown'
  <1> SUFFICES ASSUME NEW j \in DOMAIN jobTable' PROVE shown'[jobTable'[j].of] # "none"
    BY DEF RowsAreShown
  <1>1. CASE jobTable'[j].of = c
    BY <1>1
  <1>2. CASE j \in DOMAIN jobTable /\ jobTable'[j] = jobTable[j]
    <2>1. jobTable[j].of \in Documents
      BY <1>2, RowOfDocument
    <2>2. shown[jobTable[j].of] # "none"
      BY <1>2 DEF ApiInv, RowsAreShown
    <2> QED BY <1>2, <2>1, <2>2
  <1> QED BY <1>1, <1>2 DEF OnlyNewRowOf

\* Whoever was in a backoff still is.
LEMMA BackoffStays ==
  ASSUME NEW a \in I!Actors, \A b \in I!Actors \ {a} : hand'[b] = hand[b],
         hand'[a] = hand[a] \/ hand[a].pc # "backoff"
  PROVE  \A c : BacksOff(c) => BacksOff(c)'
  BY DEF BacksOff

LEMMA UploadQueuedKeeps ==
  ASSUME ApiInv, NEW a \in HttpCalls, NEW c \in Documents, NEW s \in Extensions,
         I!UploadQueued(a, c, s)
  PROVE  ApiInv'
  <1>1. /\ hand[a].pc = "idle" /\ a \in I!Actors /\ shown[c] \in {"none", "failed"}
        /\ blobs' = blobs \cup {<<c, s>>} /\ shown' = [shown EXCEPT ![c] = "queued"]
        /\ pathOf' = [pathOf EXCEPT ![c] = s] /\ I!Enqueue(a, c, s, 0) /\ UNCHANGED taken
    BY DEF I!UploadQueued, I!Call, I!Holds, I!Actors
  <1>2. /\ jobTable' \in Seq(JobRows)
        /\ RowsStay
        /\ HasRow(c, "queued")'
        /\ OnlyNewRowOf(c)
        /\ stranded' = stranded \ {c}
        /\ hand' \in [I!Actors -> Hands] /\ HandsAreRows'
        /\ \A b \in I!Actors \ {a} : hand'[b] = hand[b]
    BY <1>1, EnqueueEffect
  <1>3. \A d : BacksOff(d) => BacksOff(d)'
    BY <1>1, <1>2, BackoffStays
  <1>4. /\ ApiTyped' /\ shown'[c] = "queued" /\ \A d \in Documents \ {c} : shown'[d] = shown[d]
        /\ pathOf'[c] = s /\ \A d \in Documents \ {c} : pathOf'[d] = pathOf[d]
    BY <1>1, <1>2 DEF ApiInv, ApiTyped
  <1>5. ProcessingHasRow'
    BY <1>2, <1>4 DEF ApiInv, ProcessingHasRow, RowsStay, JobStatuses
  <1>6. QueuedHasWork'
    BY <1>2, <1>3, <1>4 DEF ApiInv, QueuedHasWork, RowsStay, JobStatuses
  <1>7. RowsHaveBlobs'
    BY <1>1, <1>4 DEF ApiInv, RowsHaveBlobs
  <1>8. RowsAreShown'
    <2>1. shown'[c] # "none"
      BY <1>4
    <2> QED BY <1>2, <1>4, <2>1, NewRowIsShown
  <1> QED BY <1>2, <1>4, <1>5, <1>6, <1>7, <1>8 DEF ApiInv

\* Uploads that are refused or known move blobs only.
LEMMA UploadMovesBlobs ==
  ASSUME ApiInv, NEW a \in HttpCalls, NEW c \in Documents, NEW s \in Extensions,
         I!UploadRefused(a, c, s) \/ I!UploadKnown(a, c, s)
  PROVE  ApiInv'
  <1>1. UNCHANGED <<shown, pathOf, jobTable, hand, stranded>>
    BY DEF I!UploadRefused, I!UploadKnown
  <1>2. RowsHaveBlobs'
    BY <1>1 DEF I!UploadRefused, I!UploadKnown, ApiInv, RowsHaveBlobs
  <1> QED BY <1>1, <1>2 DEF ApiInv, ApiTyped, HandsAreRows, ProcessingHasRow, QueuedHasWork,
             RowsAreShown, HasRow, BacksOff

LEMMA ReingestKeeps ==
  ASSUME ApiInv, NEW a \in HttpCalls, NEW c \in Documents, NEW force \in BOOLEAN,
         I!Reingest(a, c, force)
  PROVE  ApiInv'
  <1> DEFINE reset == force \/ shown[c] \notin {"queued", "processing"}
  <1>1. /\ hand[a].pc = "idle" /\ a \in I!Actors /\ shown[c] # "none"
        /\ shown' = IF reset THEN [shown EXCEPT ![c] = "queued"] ELSE shown
        /\ UNCHANGED <<pathOf, blobs, taken>>
    BY DEF I!Reingest, I!Call, I!Holds, I!Actors
  <1>2. /\ shown'[c] = IF reset THEN "queued" ELSE shown[c]
        /\ \A d \in Documents \ {c} : shown'[d] = shown[d]
        /\ shown' \in [Documents -> {"none", "queued", "processing", "completed", "failed"}]
        /\ shown'[c] # "none"
    BY <1>1 DEF ApiInv, ApiTyped
  <1>3. RowsHaveBlobs'
    BY <1>1, <1>2 DEF ApiInv, RowsHaveBlobs
  <1>4. CASE I!Full
    <2>1. /\ stranded' = IF reset THEN stranded \cup {c} ELSE stranded
          /\ UNCHANGED <<jobTable, hand>>
      BY <1>4 DEF I!Reingest
    <2>2. ApiTyped' /\ HandsAreRows' /\ RowsAreShown'
      BY <1>1, <1>2, <2>1 DEF ApiInv, ApiTyped, HandsAreRows, RowsAreShown
    <2>3. ProcessingHasRow'
      BY <1>2, <2>1 DEF ApiInv, ProcessingHasRow, HasRow
    <2>4. QueuedHasWork'
      BY <1>2, <2>1 DEF ApiInv, QueuedHasWork, HasRow, BacksOff
    <2> QED BY <1>3, <2>2, <2>3, <2>4 DEF ApiInv
  <1>5. CASE ~I!Full
    <2>1. I!Enqueue(a, c, pathOf[c], 0) /\ pathOf[c] \in Extensions \cup {NoneYet}
      BY <1>5 DEF I!Reingest, ApiInv, ApiTyped
    <2>2. /\ jobTable' \in Seq(JobRows)
          /\ RowsStay
          /\ HasRow(c, "queued")'
          /\ OnlyNewRowOf(c)
          /\ stranded' = stranded \ {c}
          /\ hand' \in [I!Actors -> Hands] /\ HandsAreRows'
          /\ \A b \in I!Actors \ {a} : hand'[b] = hand[b]
      BY <1>1, <2>1, EnqueueEffect
    <2>3. \A d : BacksOff(d) => BacksOff(d)'
      BY <1>1, <2>2, BackoffStays
    <2>4. ApiTyped'
      BY <1>1, <1>2, <2>2 DEF ApiInv, ApiTyped
    <2>5. ProcessingHasRow'
      BY <1>2, <2>2 DEF ApiInv, ProcessingHasRow, RowsStay, JobStatuses
    <2>6. QueuedHasWork'
      BY <1>2, <2>2, <2>3 DEF ApiInv, QueuedHasWork, RowsStay, JobStatuses
    <2>7. RowsAreShown'
      BY <1>2, <2>2, NewRowIsShown
    <2> QED BY <1>3, <2>2, <2>4, <2>5, <2>6, <2>7 DEF ApiInv
  <1> QED BY <1>4, <1>5

-----------------------------------------------------------------------------
\* A row gets another status.
LEMMA RowFinished ==
  ASSUME ApiInv, NEW j \in DOMAIN jobTable, NEW status \in JobStatuses, NEW attempt \in Nat,
         \/ jobTable' = [jobTable EXCEPT ![j].status = status]
         \/ jobTable' = [jobTable EXCEPT ![j].status = status, ![j].attempt = attempt]
  PROVE  /\ jobTable' \in Seq(JobRows) /\ DOMAIN jobTable' = DOMAIN jobTable
         /\ \A i \in DOMAIN jobTable : jobTable'[i].of = jobTable[i].of
         /\ jobTable'[j].status = status
         /\ \A i \in DOMAIN jobTable \ {j} : jobTable'[i] = jobTable[i]
  <1> DEFINE one == [jobTable[j] EXCEPT !.status = status]
             two == [jobTable[j] EXCEPT !.status = status, !.attempt = attempt]
  <1>1. jobTable \in Seq(JobRows) /\ jobTable[j] \in JobRows
    BY DEF ApiInv, ApiTyped
  <1>2. /\ one \in JobRows /\ one.of = jobTable[j].of /\ one.status = status
        /\ two \in JobRows /\ two.of = jobTable[j].of /\ two.status = status
    BY <1>1 DEF JobRows
  <1>3. jobTable' = [jobTable EXCEPT ![j] = one] \/ jobTable' = [jobTable EXCEPT ![j] = two]
    OBVIOUS
  <1> HIDE DEF one, two
  <1> QED BY <1>1, <1>2, <1>3

LEMMA DequeueKeeps ==
  ASSUME ApiInv, NEW j \in DOMAIN jobTable, I!Dequeue(j) PROVE ApiInv'
  <1> DEFINE attempt == jobTable[j].attempt + IF jobTable[j].status = "queued" THEN 0 ELSE 1
             new == I!InHand(jobTable[j], j, attempt)
  <1>1. /\ hand[Drain].pc = "idle" /\ Drain \in I!Actors
        /\ jobTable' = [jobTable EXCEPT ![j].status = "processing", ![j].attempt = attempt]
        /\ hand' = [hand EXCEPT ![Drain] = new]
        /\ UNCHANGED <<shown, pathOf, blobs, stranded, taken>>
    BY DEF I!Dequeue, I!Holds, I!Actors
  <1>2. jobTable[j] \in JobRows /\ j \in Nat
    BY DEF ApiInv, ApiTyped
  <1>3. attempt \in Nat
    BY <1>2 DEF JobRows
  <1>4. new = [pc |-> "ready", job |-> j, of |-> jobTable[j].of, path |-> jobTable[j].path,
               attempt |-> attempt]
    BY DEF I!InHand
  <1> HIDE DEF attempt
  <1>5. new \in Hands /\ new.pc = "ready" /\ new.job = j /\ new.of = jobTable[j].of
    BY <1>2, <1>3, <1>4 DEF JobRows, Hands
  <1> HIDE DEF new
  <1>6. /\ jobTable' \in Seq(JobRows) /\ DOMAIN jobTable' = DOMAIN jobTable
        /\ \A i \in DOMAIN jobTable : jobTable'[i].of = jobTable[i].of
        /\ jobTable'[j].status = "processing"
        /\ \A i \in DOMAIN jobTable \ {j} : jobTable'[i] = jobTable[i]
    BY <1>1, <1>3, RowFinished DEF JobStatuses
  <1>7. /\ hand' \in [I!Actors -> Hands] /\ hand'[Drain] = new
        /\ \A b \in I!Actors \ {Drain} : hand'[b] = hand[b]
    BY <1>1, <1>5 DEF ApiInv, ApiTyped
  <1>8. ApiTyped'
    BY <1>1, <1>6, <1>7 DEF ApiInv, ApiTyped
  <1>9. HandsAreRows'
    BY <1>5, <1>6, <1>7 DEF ApiInv, HandsAreRows
  <1>10. \A c : HasRow(c, "processing") => HasRow(c, "processing")'
    BY <1>6 DEF HasRow
  <1>11. \A c : HasRow(c, "queued") => HasRow(c, "queued")' \/ HasRow(c, "processing")'
    BY <1>6 DEF HasRow
  <1>12. \A c : BacksOff(c) => BacksOff(c)'
    BY <1>1, <1>7, BackoffStays
  <1>13. ProcessingHasRow' /\ QueuedHasWork' /\ RowsHaveBlobs'
    <2>1. ProcessingHasRow'
      BY <1>1, <1>10 DEF ApiInv, ProcessingHasRow
    <2>2. QueuedHasWork'
      BY <1>1, <1>10, <1>11, <1>12 DEF ApiInv, QueuedHasWork
    <2>3. RowsHaveBlobs'
      BY <1>1 DEF ApiInv, RowsHaveBlobs
    <2> QED BY <2>1, <2>2, <2>3
  <1>14. RowsAreShown'
    BY <1>1, <1>6 DEF ApiInv, RowsAreShown
  <1> QED BY <1>8, <1>9, <1>13, <1>14 DEF ApiInv

\* A job in hand is a row of a file that is known.
LEMMA InHandIsRow ==
  ASSUME ApiInv, NEW a \in I!Actors, hand[a].pc # "idle"
  PROVE  /\ hand[a] \in Hands /\ hand[a].of \in Documents
         /\ hand[a].job \in DOMAIN jobTable /\ jobTable[hand[a].job].of = hand[a].of
         /\ shown[hand[a].of] # "none"
  <1>1. hand[a] \in Hands /\ jobTable \in Seq(JobRows)
    BY DEF ApiInv, ApiTyped
  <1>2. hand[a].job \in DOMAIN jobTable /\ jobTable[hand[a].job].of = hand[a].of
    BY DEF ApiInv, HandsAreRows
  <1>3. jobTable[hand[a].job] \in JobRows
    BY <1>1, <1>2
  <1> QED BY <1>1, <1>2, <1>3 DEF ApiInv, RowsAreShown, JobRows

\* The end of a job, or its start once more: what its row and its hand must then show.
LEMMA WorkKeeps ==
  ASSUME ApiInv, NEW a \in I!Actors, hand[a].pc = "ready",
         NEW c, c = hand[a].of, NEW j, j = hand[a].job,
         jobTable' \in Seq(JobRows), DOMAIN jobTable' = DOMAIN jobTable,
         \A i \in DOMAIN jobTable : jobTable'[i].of = jobTable[i].of,
         \A i \in DOMAIN jobTable \ {j} : jobTable'[i] = jobTable[i],
         hand' \in [I!Actors -> Hands],
         \A b \in I!Actors \ {a} : hand'[b] = hand[b],
         hand'[a].pc # "idle" => hand'[a].job = j /\ hand'[a].of = c,
         shown' \in [Documents -> {"none", "queued", "processing", "completed", "failed"}],
         \A d \in Documents \ {c} : shown'[d] = shown[d],
         shown'[c] # "none",
         shown'[c] = "processing" =>
           jobTable'[j].status = "processing" \/ (UNCHANGED jobTable /\ shown[c] = "processing"),
         shown'[c] = "queued" =>
           hand'[a].pc = "backoff" \/ (UNCHANGED jobTable /\ shown[c] = "queued"),
         UNCHANGED <<pathOf, blobs, stranded, taken>>
  PROVE  ApiInv'
  <1>1. c \in Documents /\ j \in DOMAIN jobTable /\ jobTable[j].of = c /\ shown[c] # "none"
    BY InHandIsRow
  <1>2. ApiTyped'
    BY DEF ApiInv, ApiTyped
  <1>3. HandsAreRows'
    <2> SUFFICES ASSUME NEW b \in I!Actors, hand'[b].pc # "idle"
                 PROVE  hand'[b].job \in DOMAIN jobTable' /\ jobTable'[hand'[b].job].of = hand'[b].of
      BY DEF HandsAreRows
    <2>1. CASE b = a
      BY <2>1, <1>1
    <2>2. CASE b # a
      BY <2>2 DEF ApiInv, HandsAreRows
    <2> QED BY <2>1, <2>2
  <1>4. ASSUME NEW d \in Documents \ {c}, NEW status, HasRow(d, status) PROVE HasRow(d, status)'
    <2>1. PICK i \in DOMAIN jobTable : jobTable[i].of = d /\ jobTable[i].status = status
      BY <1>4 DEF HasRow
    <2>2. i # j
      BY <2>1, <1>1
    <2> QED BY <2>1, <2>2 DEF HasRow
  <1>5. \A d : BacksOff(d) => BacksOff(d)'
    BY BackoffStays
  <1>6. ProcessingHasRow'
    <2> SUFFICES ASSUME NEW d \in Documents, shown'[d] = "processing" PROVE HasRow(d, "processing")'
      BY DEF ProcessingHasRow
    <2>1. CASE d # c
      BY <2>1, <1>4 DEF ApiInv, ProcessingHasRow
    <2>2. CASE d = c /\ jobTable'[j].status = "processing"
      BY <2>2, <1>1 DEF HasRow
    <2>3. CASE d = c /\ UNCHANGED jobTable /\ shown[c] = "processing"
      BY <2>3, <1>1 DEF ApiInv, ProcessingHasRow, HasRow
    <2> QED BY <2>1, <2>2, <2>3
  <1>7. QueuedHasWork'
    <2> SUFFICES ASSUME NEW d \in Documents, shown'[d] = "queued", d \notin stranded'
                 PROVE  HasRow(d, "queued")' \/ HasRow(d, "processing")' \/ BacksOff(d)'
      BY DEF QueuedHasWork
    <2>1. CASE d # c
      BY <2>1, <1>4, <1>5 DEF ApiInv, QueuedHasWork
    <2>2. CASE d = c /\ hand'[a].pc = "backoff"
      BY <2>2 DEF BacksOff
    <2>3. CASE d = c /\ UNCHANGED jobTable /\ shown[c] = "queued"
      BY <2>3, <1>1, <1>5 DEF ApiInv, QueuedHasWork, HasRow
    <2> QED BY <2>1, <2>2, <2>3
  <1>8. RowsAreShown'
    <2> SUFFICES ASSUME NEW i \in DOMAIN jobTable PROVE shown'[jobTable[i].of] # "none"
      BY DEF RowsAreShown
    <2>1. jobTable[i].of \in Documents
      BY RowOfDocument
    <2> QED BY <2>1 DEF ApiInv, RowsAreShown
  <1>9. RowsHaveBlobs'
    BY <1>1 DEF ApiInv, RowsHaveBlobs
  <1> QED BY <1>2, <1>3, <1>6, <1>7, <1>8, <1>9 DEF ApiInv

\* Free: the hand is empty, the others hold what they held.
LEMMA FreeEffect ==
  ASSUME ApiInv, NEW a \in I!Actors, I!Free(a)
  PROVE  /\ hand' \in [I!Actors -> Hands] /\ hand'[a].pc = "idle"
         /\ \A b \in I!Actors \ {a} : hand'[b] = hand[b]
  BY IdleHand DEF I!Free, ApiInv, ApiTyped

LEMMA StopAtCompletedKeeps ==
  ASSUME ApiInv, NEW a \in I!Actors, I!StopAtCompleted(a) PROVE ApiInv'
  <1> DEFINE j == hand[a].job
  <1>1. /\ hand[a].pc = "ready" /\ shown[hand[a].of] = "completed" /\ I!Free(a)
        /\ jobTable' = IF jobTable[j].status = "queued"
                       THEN [jobTable EXCEPT ![j].status = "completed"] ELSE jobTable
        /\ UNCHANGED <<shown, pathOf, blobs, stranded, taken>>
    BY DEF I!StopAtCompleted, I!Holds
  <1>2. j \in DOMAIN jobTable
    BY <1>1, InHandIsRow
  <1>3. /\ jobTable' \in Seq(JobRows) /\ DOMAIN jobTable' = DOMAIN jobTable
        /\ \A i \in DOMAIN jobTable : jobTable'[i].of = jobTable[i].of
        /\ \A i \in DOMAIN jobTable \ {j} : jobTable'[i] = jobTable[i]
    <2>1. CASE jobTable[j].status = "queued"
      <3>1. jobTable' = [jobTable EXCEPT ![j].status = "completed"] /\ 0 \in Nat
        BY <1>1, <2>1
      <3> HIDE DEF j
      <3> QED BY <3>1, <1>2, RowFinished DEF JobStatuses
    <2>2. CASE jobTable[j].status # "queued"
      BY <1>1, <2>2 DEF ApiInv, ApiTyped
    <2> QED BY <2>1, <2>2
  <1>4. /\ hand' \in [I!Actors -> Hands] /\ hand'[a].pc = "idle"
        /\ \A b \in I!Actors \ {a} : hand'[b] = hand[b]
    BY <1>1, FreeEffect
  <1>5. shown' \in [Documents -> {"none", "queued", "processing", "completed", "failed"}]
    BY <1>1 DEF ApiInv, ApiTyped
  <1> QED BY <1>1, <1>3, <1>4, <1>5, WorkKeeps

\* Finish: the row of the job in hand.
LEMMA FinishEffect ==
  ASSUME ApiInv, NEW a \in I!Actors, hand[a].pc = "ready", NEW status \in JobStatuses,
         I!Finish(a, status)
  PROVE  /\ jobTable' \in Seq(JobRows) /\ DOMAIN jobTable' = DOMAIN jobTable
         /\ \A i \in DOMAIN jobTable : jobTable'[i].of = jobTable[i].of
         /\ jobTable'[hand[a].job].status = status
         /\ \A i \in DOMAIN jobTable \ {hand[a].job} : jobTable'[i] = jobTable[i]
  <1>1. hand[a].job \in DOMAIN jobTable /\ 0 \in Nat
    BY InHandIsRow
  <1>2. jobTable' = [jobTable EXCEPT ![hand[a].job].status = status]
    BY DEF I!Finish
  <1> QED BY <1>1, <1>2, RowFinished

LEMMA ProcessDoneKeeps ==
  ASSUME ApiInv, NEW a \in I!Actors, I!ProcessDone(a) PROVE ApiInv'
  <1> DEFINE c == hand[a].of
  <1>1. /\ hand[a].pc = "ready" /\ shown' = [shown EXCEPT ![c] = "completed"]
        /\ I!Finish(a, "completed") /\ I!Free(a)
        /\ UNCHANGED <<pathOf, blobs, stranded, taken>>
    BY DEF I!ProcessDone, I!Ingesting, I!Holds
  <1>2. c \in Documents
    BY <1>1, InHandIsRow
  <1>3. /\ jobTable' \in Seq(JobRows) /\ DOMAIN jobTable' = DOMAIN jobTable
        /\ \A i \in DOMAIN jobTable : jobTable'[i].of = jobTable[i].of
        /\ \A i \in DOMAIN jobTable \ {hand[a].job} : jobTable'[i] = jobTable[i]
    BY <1>1, FinishEffect DEF JobStatuses
  <1>4. /\ hand' \in [I!Actors -> Hands] /\ hand'[a].pc = "idle"
        /\ \A b \in I!Actors \ {a} : hand'[b] = hand[b]
    BY <1>1, FreeEffect
  <1>5. /\ shown' \in [Documents -> {"none", "queued", "processing", "completed", "failed"}]
        /\ shown'[c] = "completed" /\ \A d \in Documents \ {c} : shown'[d] = shown[d]
    BY <1>1, <1>2 DEF ApiInv, ApiTyped
  <1> QED BY <1>1, <1>3, <1>4, <1>5, WorkKeeps

\* _handle_failure: the file is left so, or waits with the backoff of a.
LEMMA FailsWithEffect ==
  ASSUME ApiInv, NEW a \in I!Actors, hand[a].pc = "ready",
         NEW left \in {"none", "queued", "processing", "completed", "failed"},
         I!FailsWith(a, left)
  PROVE  /\ shown' \in [Documents -> {"none", "queued", "processing", "completed", "failed"}]
         /\ \A d \in Documents \ {hand[a].of} : shown'[d] = shown[d]
         /\ hand' \in [I!Actors -> Hands]
         /\ \A b \in I!Actors \ {a} : hand'[b] = hand[b]
         /\ \/ shown'[hand[a].of] = left /\ hand'[a].pc = "idle"
            \/ /\ shown'[hand[a].of] = "queued" /\ hand'[a].pc = "backoff"
               /\ hand'[a].job = hand[a].job /\ hand'[a].of = hand[a].of
  <1> DEFINE c == hand[a].of
             more == hand[a].attempt + 1
             path == pathOf[c]
             new == [hand[a] EXCEPT !.pc = "backoff", !.attempt = more, !.path = path]
  <1>1. c \in Documents /\ hand[a] \in Hands
    BY InHandIsRow
  <1>2. more \in Nat /\ path \in Extensions \cup {NoneYet}
    BY <1>1 DEF ApiInv, ApiTyped, Hands
  <1>3. CASE shown' = [shown EXCEPT ![c] = left] /\ I!Free(a)
    <2>1. /\ hand' \in [I!Actors -> Hands] /\ hand'[a].pc = "idle"
          /\ \A b \in I!Actors \ {a} : hand'[b] = hand[b]
      BY <1>3, FreeEffect
    <2> QED BY <1>1, <1>3, <2>1 DEF ApiInv, ApiTyped
  <1>4. CASE /\ shown' = [shown EXCEPT ![c] = "queued"]
             /\ hand' = [hand EXCEPT ![a].pc = "backoff", ![a].attempt = more, ![a].path = path]
    <2>1. hand' = [hand EXCEPT ![a] = new]
      BY <1>4 DEF ApiInv, ApiTyped
    <2> HIDE DEF more, path
    <2>2. new \in Hands /\ new.pc = "backoff" /\ new.job = hand[a].job /\ new.of = hand[a].of
      BY <1>1, <1>2 DEF Hands
    <2> HIDE DEF new
    <2>3. /\ hand' \in [I!Actors -> Hands] /\ hand'[a] = new
          /\ \A b \in I!Actors \ {a} : hand'[b] = hand[b]
      BY <2>1, <2>2 DEF ApiInv, ApiTyped
    <2> QED BY <1>1, <1>4, <2>2, <2>3 DEF ApiInv, ApiTyped
  <1> QED BY <1>3, <1>4 DEF I!FailsWith

LEMMA ProcessFailsKeeps ==
  ASSUME ApiInv, NEW a \in I!Actors, I!ProcessFails(a) PROVE ApiInv'
  <1>1. /\ hand[a].pc = "ready" /\ I!Finish(a, "failed") /\ I!FailsWith(a, "failed")
        /\ UNCHANGED <<pathOf, blobs, stranded, taken>>
    BY DEF I!ProcessFails, I!Ingesting, I!Holds
  <1>2. /\ jobTable' \in Seq(JobRows) /\ DOMAIN jobTable' = DOMAIN jobTable
        /\ \A i \in DOMAIN jobTable : jobTable'[i].of = jobTable[i].of
        /\ \A i \in DOMAIN jobTable \ {hand[a].job} : jobTable'[i] = jobTable[i]
    BY <1>1, FinishEffect DEF JobStatuses
  <1>3. /\ shown' \in [Documents -> {"none", "queued", "processing", "completed", "failed"}]
        /\ \A d \in Documents \ {hand[a].of} : shown'[d] = shown[d]
        /\ hand' \in [I!Actors -> Hands]
        /\ \A b \in I!Actors \ {a} : hand'[b] = hand[b]
        /\ \/ shown'[hand[a].of] = "failed" /\ hand'[a].pc = "idle"
           \/ /\ shown'[hand[a].of] = "queued" /\ hand'[a].pc = "backoff"
              /\ hand'[a].job = hand[a].job /\ hand'[a].of = hand[a].of
    BY <1>1, FailsWithEffect
  <1> QED BY <1>1, <1>2, <1>3, WorkKeeps

LEMMA ProcessRaisesKeeps ==
  ASSUME ApiInv, NEW a \in I!Actors, NEW begun \in BOOLEAN, I!ProcessRaises(a, begun)
  PROVE  ApiInv'
  <1>1. hand[a].pc = "ready" /\ UNCHANGED <<pathOf, blobs, stranded, taken>>
    BY DEF I!ProcessRaises, I!Ingesting, I!Holds
  <1>2. shown[hand[a].of] \in {"queued", "processing", "completed", "failed"}
    BY <1>1, InHandIsRow DEF ApiInv, ApiTyped
  <1>3. CASE I!Finish(a, "processing") /\ I!FailsWith(a, "processing")
    <2>1. /\ jobTable' \in Seq(JobRows) /\ DOMAIN jobTable' = DOMAIN jobTable
          /\ \A i \in DOMAIN jobTable : jobTable'[i].of = jobTable[i].of
          /\ jobTable'[hand[a].job].status = "processing"
          /\ \A i \in DOMAIN jobTable \ {hand[a].job} : jobTable'[i] = jobTable[i]
      BY <1>1, <1>3, FinishEffect DEF JobStatuses
    <2>2. /\ shown' \in [Documents -> {"none", "queued", "processing", "completed", "failed"}]
          /\ \A d \in Documents \ {hand[a].of} : shown'[d] = shown[d]
          /\ hand' \in [I!Actors -> Hands]
          /\ \A b \in I!Actors \ {a} : hand'[b] = hand[b]
          /\ \/ shown'[hand[a].of] = "processing" /\ hand'[a].pc = "idle"
             \/ /\ shown'[hand[a].of] = "queued" /\ hand'[a].pc = "backoff"
                /\ hand'[a].job = hand[a].job /\ hand'[a].of = hand[a].of
      BY <1>1, <1>3, FailsWithEffect
    <2> QED BY <1>1, <2>1, <2>2, WorkKeeps
  <1>4. CASE UNCHANGED jobTable /\ I!FailsWith(a, shown[hand[a].of])
    <2>1. /\ jobTable' \in Seq(JobRows) /\ DOMAIN jobTable' = DOMAIN jobTable
          /\ \A i \in DOMAIN jobTable : jobTable'[i].of = jobTable[i].of
          /\ \A i \in DOMAIN jobTable \ {hand[a].job} : jobTable'[i] = jobTable[i]
      BY <1>4 DEF ApiInv, ApiTyped
    <2> DEFINE left == shown[hand[a].of]
    <2>2. I!FailsWith(a, left) /\ left \in {"none", "queued", "processing", "completed", "failed"}
      BY <1>2, <1>4
    <2>3. left # "none"
      BY <1>2
    <2>4. /\ shown' \in [Documents -> {"none", "queued", "processing", "completed", "failed"}]
          /\ \A d \in Documents \ {hand[a].of} : shown'[d] = shown[d]
          /\ hand' \in [I!Actors -> Hands]
          /\ \A b \in I!Actors \ {a} : hand'[b] = hand[b]
          /\ \/ shown'[hand[a].of] = left /\ hand'[a].pc = "idle"
             \/ /\ shown'[hand[a].of] = "queued" /\ hand'[a].pc = "backoff"
                /\ hand'[a].job = hand[a].job /\ hand'[a].of = hand[a].of
      <3> HIDE DEF left
      <3> QED BY <1>1, <2>2, FailsWithEffect
    <2> QED BY <1>1, <1>4, <2>1, <2>3, <2>4, WorkKeeps
  <1> QED BY <1>3, <1>4 DEF I!ProcessRaises

-----------------------------------------------------------------------------
LEMMA RetryKeeps == ASSUME ApiInv, NEW a \in I!Actors, I!Retry(a) PROVE ApiInv'
  <1>1. /\ hand[a].pc = "backoff"
        /\ I!Enqueue(a, hand[a].of, hand[a].path, hand[a].attempt)
        /\ UNCHANGED <<shown, pathOf, blobs, taken>>
    BY DEF I!Retry, I!Holds
  <1>2. /\ hand[a].of \in Documents /\ shown[hand[a].of] # "none"
        /\ hand[a].path \in Extensions \cup {NoneYet} /\ hand[a].attempt \in Nat
    BY <1>1, InHandIsRow DEF Hands
  <1>3. PICK c \in Documents, s \in Extensions \cup {NoneYet}, attempt \in Nat :
          c = hand[a].of /\ shown[c] # "none" /\ I!Enqueue(a, c, s, attempt)
    BY <1>2, <1>1
  <1>4. /\ jobTable' \in Seq(JobRows)
        /\ RowsStay
        /\ HasRow(c, "queued")'
        /\ OnlyNewRowOf(c)
        /\ stranded' = stranded \ {c}
        /\ hand' \in [I!Actors -> Hands] /\ HandsAreRows'
        /\ \A b \in I!Actors \ {a} : hand'[b] = hand[b]
    BY <1>3, EnqueueEffect
  <1>5. \A d \in Documents \ {c} : BacksOff(d) => BacksOff(d)'
    BY <1>3, <1>4 DEF BacksOff
  <1>6. ApiTyped'
    BY <1>1, <1>4 DEF ApiInv, ApiTyped
  <1>7. ProcessingHasRow'
    BY <1>1, <1>4 DEF ApiInv, ProcessingHasRow, RowsStay, JobStatuses
  <1>8. QueuedHasWork'
    <2> SUFFICES ASSUME NEW d \in Documents, shown'[d] = "queued", d \notin stranded'
                 PROVE  HasRow(d, "queued")' \/ HasRow(d, "processing")' \/ BacksOff(d)'
      BY DEF QueuedHasWork
    <2>1. CASE d = c
      BY <2>1, <1>4
    <2>2. CASE d # c
      BY <2>2, <1>1, <1>4, <1>5 DEF ApiInv, QueuedHasWork, RowsStay, JobStatuses
    <2> QED BY <2>1, <2>2
  <1>9. RowsAreShown'
    BY <1>1, <1>3, <1>4, NewRowIsShown
  <1>10. RowsHaveBlobs'
    BY <1>1 DEF ApiInv, RowsHaveBlobs
  <1> QED BY <1>4, <1>6, <1>7, <1>8, <1>9, <1>10 DEF ApiInv

LEMMA RetryRaisesKeeps == ASSUME ApiInv, NEW a \in I!Actors, I!RetryRaises(a) PROVE ApiInv'
  <1> DEFINE c == hand[a].of
             more == hand[a].attempt + 1
             path == pathOf[c]
             new == [hand[a] EXCEPT !.attempt = more, !.path = path]
  <1>1. hand[a].pc = "backoff" /\ UNCHANGED <<pathOf, blobs, jobTable, taken>>
    BY DEF I!RetryRaises, I!Holds
  <1>2. /\ c \in Documents /\ hand[a] \in Hands /\ shown[c] # "none"
        /\ hand[a].job \in DOMAIN jobTable /\ jobTable[hand[a].job].of = c
    BY <1>1, InHandIsRow
  <1>3. more \in Nat /\ path \in Extensions \cup {NoneYet}
    BY <1>2 DEF ApiInv, ApiTyped, Hands
  <1>4. CASE /\ hand' = [hand EXCEPT ![a].attempt = more, ![a].path = path]
             /\ shown' = [shown EXCEPT ![c] = "queued"] /\ UNCHANGED stranded
    <2>1. hand' = [hand EXCEPT ![a] = new]
      BY <1>4 DEF ApiInv, ApiTyped
    <2> HIDE DEF more, path
    <2>2. new \in Hands /\ new.pc = "backoff" /\ new.job = hand[a].job /\ new.of = c
      BY <1>1, <1>2, <1>3 DEF Hands
    <2> HIDE DEF new, c
    <2>3. /\ hand' \in [I!Actors -> Hands] /\ hand'[a] = new
          /\ \A b \in I!Actors \ {a} : hand'[b] = hand[b]
      BY <2>1, <2>2 DEF ApiInv, ApiTyped
    <2>4. /\ shown' \in [Documents -> {"none", "queued", "processing", "completed", "failed"}]
          /\ shown'[c] = "queued" /\ \A d \in Documents \ {c} : shown'[d] = shown[d]
      BY <1>2, <1>4 DEF ApiInv, ApiTyped
    <2>5. ApiTyped'
      BY <1>1, <2>3, <2>4 DEF ApiInv, ApiTyped
    <2>6. HandsAreRows'
      <3> SUFFICES ASSUME NEW b \in I!Actors, hand'[b].pc # "idle"
                   PROVE  /\ hand'[b].job \in DOMAIN jobTable'
                          /\ jobTable'[hand'[b].job].of = hand'[b].of
        BY DEF HandsAreRows
      <3>1. CASE b = a
        BY <3>1, <1>1, <1>2, <2>2, <2>3
      <3>2. CASE b # a
        BY <3>2, <1>1, <2>3 DEF ApiInv, HandsAreRows
      <3> QED BY <3>1, <3>2
    <2>7. ProcessingHasRow'
      BY <1>1, <2>4 DEF ApiInv, ProcessingHasRow, HasRow
    <2>8. QueuedHasWork'
      <3> SUFFICES ASSUME NEW d \in Documents, shown'[d] = "queued", d \notin stranded'
                   PROVE  HasRow(d, "queued")' \/ HasRow(d, "processing")' \/ BacksOff(d)'
        BY DEF QueuedHasWork
      <3>1. CASE d = c
        BY <3>1, <2>2, <2>3 DEF BacksOff
      <3>2. CASE d # c
        <4>1. BacksOff(d) => BacksOff(d)'
          BY <2>2, <2>3, <3>2 DEF BacksOff, c
        <4> QED BY <4>1, <3>2, <1>1, <1>4, <2>4 DEF ApiInv, QueuedHasWork, HasRow
      <3> QED BY <3>1, <3>2
    <2>9. RowsAreShown' /\ RowsHaveBlobs'
      <3>1. RowsAreShown'
        <4> SUFFICES ASSUME NEW i \in DOMAIN jobTable PROVE shown'[jobTable[i].of] # "none"
          BY <1>1 DEF RowsAreShown
        <4>1. jobTable[i].of \in Documents
          BY RowOfDocument
        <4> QED BY <4>1, <2>4 DEF ApiInv, RowsAreShown
      <3>2. RowsHaveBlobs'
        BY <1>1, <1>2, <2>4 DEF ApiInv, RowsHaveBlobs
      <3> QED BY <3>1, <3>2
    <2> QED BY <2>5, <2>6, <2>7, <2>8, <2>9 DEF ApiInv
  <1>5. CASE /\ I!Free(a) /\ UNCHANGED shown
             /\ stranded' = IF shown[c] = "queued" THEN stranded \cup {c} ELSE stranded
    <2>1. /\ hand' \in [I!Actors -> Hands] /\ hand'[a].pc = "idle"
          /\ \A b \in I!Actors \ {a} : hand'[b] = hand[b]
      BY <1>5, FreeEffect
    <2>2. ApiTyped' /\ RowsAreShown' /\ RowsHaveBlobs'
      BY <1>1, <1>5, <2>1 DEF ApiInv, ApiTyped, RowsAreShown, RowsHaveBlobs
    <2>3. HandsAreRows'
      BY <1>1, <2>1 DEF ApiInv, HandsAreRows
    <2>4. ProcessingHasRow'
      BY <1>1, <1>5 DEF ApiInv, ProcessingHasRow, HasRow
    <2>5. QueuedHasWork'
      <3> SUFFICES ASSUME NEW d \in Documents, shown[d] = "queued", d \notin stranded'
                   PROVE  HasRow(d, "queued")' \/ HasRow(d, "processing")' \/ BacksOff(d)'
        BY <1>5 DEF QueuedHasWork
      <3>1. d # c /\ d \notin stranded
        BY <1>5
      <3>2. BacksOff(d) => BacksOff(d)'
        BY <2>1, <3>1 DEF BacksOff
      <3> QED BY <3>1, <3>2, <1>1 DEF ApiInv, QueuedHasWork, HasRow
    <2> QED BY <2>2, <2>3, <2>4, <2>5 DEF ApiInv
  <1> QED BY <1>4, <1>5 DEF I!RetryRaises

\* A process is killed, with a job that has begun or without.
LEMMA DiesKeeps ==
  ASSUME ApiInv, NEW dead \in SUBSET I!Actors, NEW cut \in SUBSET dead, I!Dies(dead, cut)
  PROVE  ApiInv'
  <1> DEFINE Cut(c) == \E a \in cut : hand[a].of = c
             CutRow(j) == \E a \in cut : hand[a].job = j
  <1>1. /\ \A a \in cut : hand[a].pc = "ready"
        /\ shown' = [c \in Documents |-> IF Cut(c) THEN "processing" ELSE shown[c]]
        /\ jobTable' = [j \in DOMAIN jobTable |->
             IF CutRow(j) THEN [jobTable[j] EXCEPT !.status = "processing"] ELSE jobTable[j]]
        /\ stranded' = stranded \cup
             {c \in Documents :
                shown[c] = "queued" /\ \E a \in dead : hand[a].pc = "backoff" /\ hand[a].of = c}
        /\ hand' = [a \in I!Actors |-> IF a \in dead THEN I!Idle ELSE hand[a]]
        /\ UNCHANGED <<pathOf, blobs, taken>>
    BY DEF I!Dies, I!Ingesting, I!Holds
  <1>2. jobTable \in Seq(JobRows)
    BY DEF ApiInv, ApiTyped
  <1>3. \A j \in DOMAIN jobTable :
          /\ [jobTable[j] EXCEPT !.status = "processing"] \in JobRows
          /\ [jobTable[j] EXCEPT !.status = "processing"].of = jobTable[j].of
          /\ [jobTable[j] EXCEPT !.status = "processing"].status = "processing"
    <2> SUFFICES ASSUME NEW j \in DOMAIN jobTable
                 PROVE  /\ [jobTable[j] EXCEPT !.status = "processing"] \in JobRows
                        /\ [jobTable[j] EXCEPT !.status = "processing"].of = jobTable[j].of
                        /\ [jobTable[j] EXCEPT !.status = "processing"].status = "processing"
      OBVIOUS
    <2>1. jobTable[j] \in JobRows
      BY RowOfDocument
    <2> QED BY <2>1 DEF JobRows, JobStatuses
  <1>4. /\ DOMAIN jobTable' = DOMAIN jobTable
        /\ \A j \in DOMAIN jobTable : /\ jobTable'[j].of = jobTable[j].of
                                      /\ jobTable'[j] \in JobRows
                                      /\ CutRow(j) => jobTable'[j].status = "processing"
                                      /\ ~CutRow(j) => jobTable'[j] = jobTable[j]
    <2>1. DOMAIN jobTable' = DOMAIN jobTable
      BY <1>1
    <2>2. ASSUME NEW j \in DOMAIN jobTable
          PROVE  /\ jobTable'[j].of = jobTable[j].of
                 /\ jobTable'[j] \in JobRows
                 /\ CutRow(j) => jobTable'[j].status = "processing"
                 /\ ~CutRow(j) => jobTable'[j] = jobTable[j]
      <3> HIDE DEF CutRow
      <3>1. CASE CutRow(j)
        <4>1. jobTable'[j] = [jobTable[j] EXCEPT !.status = "processing"]
          BY <1>1, <3>1
        <4> QED BY <4>1, <1>3, <3>1
      <3>2. CASE ~CutRow(j)
        BY <1>1, <1>2, <3>2
      <3> QED BY <3>1, <3>2
    <2> QED BY <2>1, <2>2
  <1>5. jobTable' \in Seq(JobRows)
    <2>1. Len(jobTable) \in Nat /\ DOMAIN jobTable = 1..Len(jobTable)
      BY <1>2
    <2>2. jobTable' \in [1..Len(jobTable) -> JobRows]
      <3>1. jobTable' = [j \in DOMAIN jobTable' |-> jobTable'[j]]
        <4> HIDE DEF CutRow
        <4> QED BY <1>1
      <3> QED BY <1>4, <2>1, <3>1
    <2> QED BY <2>1, <2>2
  <1>6. /\ shown' \in [Documents -> {"none", "queued", "processing", "completed", "failed"}]
        /\ \A c \in Documents : IF Cut(c) THEN shown'[c] = "processing" ELSE shown'[c] = shown[c]
    <2> HIDE DEF Cut
    <2> QED BY <1>1 DEF ApiInv, ApiTyped
  <1>7. /\ hand' \in [I!Actors -> Hands]
        /\ \A a \in I!Actors : /\ a \in dead => hand'[a].pc = "idle"
                               /\ a \notin dead => hand'[a] = hand[a]
    BY <1>1, IdleHand DEF ApiInv, ApiTyped
  <1>8. \A a \in cut : /\ hand[a].job \in DOMAIN jobTable /\ jobTable[hand[a].job].of = hand[a].of
                       /\ shown[hand[a].of] # "none"
    BY <1>1, InHandIsRow
  <1>9. ApiTyped'
    BY <1>1, <1>5, <1>6, <1>7 DEF ApiInv, ApiTyped
  <1>10. HandsAreRows'
    BY <1>4, <1>7 DEF ApiInv, HandsAreRows
  <1>11. \A c \in Documents : Cut(c) => HasRow(c, "processing")'
    BY <1>4, <1>8 DEF HasRow
  <1>12. \A c \in Documents : HasRow(c, "processing") => HasRow(c, "processing")'
    <2> HIDE DEF CutRow
    <2> QED BY <1>4 DEF HasRow
  <1>13. \A c \in Documents : HasRow(c, "queued") => HasRow(c, "queued")' \/ HasRow(c, "processing")'
    <2> HIDE DEF CutRow
    <2> QED BY <1>4 DEF HasRow
  <1> HIDE DEF CutRow
  <1>14. ProcessingHasRow'
    <2> HIDE DEF Cut
    <2> QED BY <1>6, <1>11, <1>12 DEF ApiInv, ProcessingHasRow
  <1>15. QueuedHasWork'
    <2> SUFFICES ASSUME NEW c \in Documents, shown'[c] = "queued", c \notin stranded'
                 PROVE  HasRow(c, "queued")' \/ HasRow(c, "processing")' \/ BacksOff(c)'
      BY DEF QueuedHasWork
    <2>1. shown[c] = "queued"
      <3> HIDE DEF Cut
      <3> QED BY <1>6
    <2>2. c \notin stranded /\ \A a \in dead : ~(hand[a].pc = "backoff" /\ hand[a].of = c)
      BY <1>1, <2>1
    <2>3. BacksOff(c) => BacksOff(c)'
      BY <1>7, <2>2 DEF BacksOff
    <2> QED BY <1>12, <1>13, <2>1, <2>2, <2>3 DEF ApiInv, QueuedHasWork
  <1>16. RowsAreShown'
    <2> SUFFICES ASSUME NEW j \in DOMAIN jobTable PROVE shown'[jobTable[j].of] # "none"
      BY <1>4 DEF RowsAreShown
    <2>1. jobTable[j].of \in Documents
      BY RowOfDocument
    <2> HIDE DEF Cut
    <2> QED BY <1>6, <2>1 DEF ApiInv, RowsAreShown
  <1>17. RowsHaveBlobs'
    <2>1. \A c \in Documents : Cut(c) => shown[c] # "none"
      BY <1>8
    <2> HIDE DEF Cut
    <2> QED BY <1>1, <1>6, <2>1 DEF ApiInv, RowsHaveBlobs
  <1> QED BY <1>9, <1>10, <1>14, <1>15, <1>16, <1>17 DEF ApiInv

LEMMA ApiDiesKeeps == ASSUME ApiInv, I!ApiDies \/ I!WorkerDies PROVE ApiInv'
  <1>1. CASE I!ApiDies
    <2> DEFINE dead == IF arranged = "inline" THEN I!Actors ELSE HttpCalls
    <2>1. PICK cut \in {{}} \cup {{a} : a \in dead} : I!Dies(dead, cut)
      BY <1>1 DEF I!ApiDies
    <2>2. dead \in SUBSET I!Actors /\ cut \in SUBSET dead
      BY DEF I!Actors
    <2> HIDE DEF dead
    <2> QED BY <2>1, <2>2, DiesKeeps
  <1>2. CASE I!WorkerDies
    <2>1. PICK cut \in {{}, {Drain}} : I!Dies({Drain}, cut)
      BY <1>2 DEF I!WorkerDies
    <2>2. {Drain} \in SUBSET I!Actors /\ cut \in SUBSET {Drain}
      BY DEF I!Actors
    <2> QED BY <2>1, <2>2, DiesKeeps
  <1> QED BY <1>1, <1>2

LEMMA ApiStep == ASSUME ApiInv, I!ApiIngestNext PROVE ApiInv'
  BY UploadQueuedKeeps, UploadMovesBlobs, ReingestKeeps, DequeueKeeps, StopAtCompletedKeeps,
     ProcessDoneKeeps, ProcessFailsKeeps, ProcessRaisesKeeps, RetryKeeps, RetryRaisesKeeps,
     ApiDiesKeeps DEF I!ApiIngestNext

\* For any number of contents, requests, refusals and kills, in both arrangements of the
\* service: a file shown as waiting has a row or a coroutine that works on it unless it was
\* stranded, and one shown as completed has its blob (app/ingest/service.py, app/api/v1).
THEOREM FilesShownAreBacked == Spec => []ApiFilesAreBacked
  <1> DEFINE Here == scene = "ingest" => ApiInv
  <1>1. Init => Here
    BY ApiInitInv DEF Init
  <1>2. Here /\ [Next]_vars => Here'
    <2> SUFFICES ASSUME Here, [Next]_vars, scene' = "ingest" PROVE ApiInv'
      OBVIOUS
    <2>1. CASE Apart("ingest") /\ I!ApiIngestNext
      BY <2>1, ApiStep DEF Apart
    <2>2. CASE UNCHANGED <<scene, apiIngestVars>>
      BY <2>2 DEF apiIngestVars, ApiInv, ApiTyped, HasRow, BacksOff, HandsAreRows,
                  ProcessingHasRow, QueuedHasWork, RowsHaveBlobs, RowsAreShown
    <2> QED BY <2>1, <2>2 DEF Next, vars, Apart
  <1>3. Here => ApiFilesAreBacked
    BY ApiHolds DEF ApiFilesAreBacked
  <1> QED BY <1>1, <1>2, <1>3, PTL DEF Spec
=============================================================================
