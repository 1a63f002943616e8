--------------------------- MODULE ServicesProofs ---------------------------
(***************************************************************************)
(* Proofs about the components that run apart from the ingest pipeline, as *)
(* MCServices puts them side by side: AuthSessions, LoraAdapters,          *)
(* LlamaManager, ChatSocket, ModelDownload, Archives, QdrantStore and      *)
(* LegacyKb.  For each of them                                             *)
(* an inductive invariant of its own variables, that its initial states    *)
(* have it (InitInv), that its steps keep it (Step), that the property     *)
(* follows (Holds), and the theorem: in every scene of MCServices, for all *)
(* values of the constants that ServicesAssumption allows.                 *)
(***************************************************************************)
EXTENDS MCServices, TLAPS

-----------------------------------------------------------------------------
(* AuthSessions: the tokens of a user who logged out.                       *)

\* Pairs are of members, and whatever a logout has covered is inactive in the registry of
\* this process: a restart empties both.
AuthInv ==
  /\ pairs \in Seq(Members)
  /\ signedOut \subseteq registry.inactive

LEMMA AuthStep ==
  ASSUME AuthInv, A!AuthNext PROVE AuthInv'
  <1> USE DEF AuthInv, A!Issued, A!EmptyRegistry
  <1>1. ASSUME NEW u \in Members, A!LoginFails(u) PROVE AuthInv'
    BY <1>1 DEF A!LoginFails
  <1>2. ASSUME NEW u \in Members, A!Login(u) PROVE AuthInv'
    BY <1>2 DEF A!Login, A!Issue
  <1>3. ASSUME NEW u \in Members, A!WindowPasses(u) PROVE AuthInv'
    BY <1>3 DEF A!WindowPasses
  <1>4. ASSUME NEW u \in Members, A!SwitchUser(u) PROVE AuthInv'
    BY <1>4 DEF A!SwitchUser
  <1>5. ASSUME NEW k \in A!Issued, A!DecodeRefresh(k) PROVE AuthInv'
    BY <1>5 DEF A!DecodeRefresh
  <1>6. ASSUME NEW k \in A!Issued, A!Rotate(k) PROVE AuthInv'
    BY <1>6 DEF A!Rotate, A!Issue
  <1>7. ASSUME NEW k \in A!Issued, A!RefreshRefused(k) PROVE AuthInv'
    BY <1>7 DEF A!RefreshRefused
  <1>8. ASSUME NEW k \in A!Issued, NEW bearer, A!Logout(k, bearer) PROVE AuthInv'
    BY <1>8 DEF A!Logout
  <1>9. ASSUME A!SwitchTenant PROVE AuthInv'
    BY <1>9 DEF A!SwitchTenant
  <1>10. ASSUME A!Restart PROVE AuthInv'
    BY <1>10 DEF A!Restart
  <1> QED BY <1>1, <1>2, <1>3, <1>4, <1>5, <1>6, <1>7, <1>8, <1>9, <1>10 DEF A!AuthNext

LEMMA AuthInitInv == A!AuthInit => AuthInv
  BY DEF A!AuthInit, AuthInv, A!EmptyRegistry

LEMMA AuthHolds == AuthInv => A!LogoutEndsSessions
  BY DEF AuthInv, A!LogoutEndsSessions, A!Served

\* However logins, refreshes, switches and restarts interleave, no session of a user is
\* served after the logout of the user (app/api/v1/auth.py, app/core/auth.py).
THEOREM LogoutIsFinal == Spec => []LogoutEndsSessions
  <1> DEFINE Here == scene = "auth" => AuthInv
  <1>1. Init => Here
    BY AuthInitInv DEF Init
  <1>2. Here /\ [Next]_vars => Here'
    <2> SUFFICES ASSUME Here, [Next]_vars, scene' = "auth" PROVE AuthInv'
      OBVIOUS
    <2>1. CASE Apart("auth") /\ A!AuthNext
      BY <2>1, AuthStep DEF Apart
    <2>2. CASE UNCHANGED <<scene, authVars>>
      BY <2>2 DEF authVars, AuthInv
    <2> QED BY <2>1, <2>2 DEF Next, vars, Apart
  <1>3. Here => LogoutEndsSessions
    BY AuthHolds DEF LogoutEndsSessions
  <1> QED BY <1>1, <1>2, <1>3, PTL DEF Spec

-----------------------------------------------------------------------------
(* LoraAdapters: the model that serves.                                     *)

WorkLabels == {"idle", "building", "loading", "ready"}
LoraNames == Adapters \cup {NoAdapter, Default}
Providers == [model : BOOLEAN, lora : LoraNames, shown : LoraNames]

\* A model without its adapter is being given it by a thread, or that failed.
LoraInv ==
  /\ work \in [Workers -> WorkLabels] /\ serving \in Providers /\ loadFailed \in BOOLEAN
  /\ serving.model /\ Default # NoAdapter /\ ~loadFailed =>
       serving.lora = Default \/ \E w \in Workers : work[w] = "loading"

LEMMA ProvidersAreTyped ==
  L!NewProvider \in Providers /\ \A a \in LoraNames : L!Loaded(a) \in Providers
  BY DEF L!NewProvider, L!Loaded, Providers, LoraNames

LEMMA LoraInitInv == L!LoraInit => LoraInv
  <1> SUFFICES ASSUME L!LoraInit PROVE LoraInv
    OBVIOUS
  <1>1. serving \in Providers /\ serving.model = FALSE
    BY ProvidersAreTyped DEF L!LoraInit, L!NewProvider
  <1> QED BY <1>1 DEF L!LoraInit, LoraInv, WorkLabels

LEMMA GotoWork ==
  ASSUME work \in [Workers -> WorkLabels], NEW w \in Workers, NEW label \in WorkLabels,
         L!Goto(w, label)
  PROVE  /\ work' \in [Workers -> WorkLabels] /\ work'[w] = label
         /\ \A v \in Workers \ {w} : work'[v] = work[v]
  BY DEF L!Goto

LEMMA LoraStep == ASSUME LoraInv, L!LoraNext PROVE LoraInv'
  <1> USE DEF LoraInv
  <1>1. ASSUME UNCHANGED <<serving, work, loadFailed>> PROVE LoraInv'
    BY <1>1
  <1>2. ASSUME NEW a, L!LoadV1(a) PROVE LoraInv'
    BY <1>1, <1>2 DEF L!LoadV1
  <1>3. ASSUME NEW a, NEW valid, L!LoadAdmin(a, valid) PROVE LoraInv'
    BY <1>1, <1>3 DEF L!LoadAdmin
  <1>4. ASSUME NEW a, L!UnloadV1(a) \/ L!UnloadAdmin(a) PROVE LoraInv'
    BY <1>1, <1>4 DEF L!UnloadV1, L!UnloadAdmin
  <1>5. ASSUME NEW a, L!Restart(a) PROVE LoraInv'
    <2>1. serving' = L!NewProvider /\ loadFailed' = FALSE
          /\ work' = [w \in Workers |-> "idle"]
      BY <1>5 DEF L!Restart, L!Create
    <2> QED BY <2>1, ProvidersAreTyped DEF L!NewProvider, WorkLabels
  <1>6. CASE L!FilesChange
    BY <1>1, <1>6 DEF L!FilesChange
  <1>7. ASSUME NEW w \in Workers, L!Begin(w) \/ L!Generate(w) PROVE LoraInv'
    <2>1. UNCHANGED <<serving, loadFailed>> /\ work[w] # "loading"
      BY <1>7 DEF L!Begin, L!Generate
    <2>2. L!Goto(w, "ready") \/ L!Goto(w, "building") \/ L!Goto(w, "idle")
      BY <1>7 DEF L!Begin, L!Generate
    <2>3. work' \in [Workers -> WorkLabels] /\ \A v \in Workers \ {w} : work'[v] = work[v]
      BY <2>2, GotoWork DEF WorkLabels
    <2> QED BY <2>1, <2>3
  <1>8. ASSUME NEW w \in Workers, NEW fails \in BOOLEAN, L!Build(w, fails) PROVE LoraInv'
    <2>1. work[w] = "building" /\ UNCHANGED loadFailed
      BY <1>8 DEF L!Build
    <2>2. CASE fails
      <3>1. L!Goto(w, "idle") /\ UNCHANGED serving
        BY <1>8, <2>2 DEF L!Build
      <3>2. work' \in [Workers -> WorkLabels] /\ \A v \in Workers \ {w} : work'[v] = work[v]
        BY <3>1, GotoWork DEF WorkLabels
      <3> QED BY <2>1, <3>1, <3>2
    <2>3. CASE ~fails
      <3>1. serving' = [serving EXCEPT !.model = TRUE, !.lora = NoAdapter]
        BY <1>8, <2>3 DEF L!Build
      <3>2. serving' \in Providers
        BY <3>1 DEF Providers, LoraNames
      <3>3. CASE Default = NoAdapter
        <4>1. L!Goto(w, "ready")
          BY <1>8, <2>3, <3>3 DEF L!Build
        <4> QED BY <2>1, <3>2, <3>3, <4>1, GotoWork DEF WorkLabels
      <3>4. CASE Default # NoAdapter
        <4>1. L!Goto(w, "loading")
          BY <1>8, <2>3, <3>4 DEF L!Build
        <4> QED BY <2>1, <3>2, <4>1, GotoWork DEF WorkLabels
      <3> QED BY <3>3, <3>4
    <2> QED BY <2>2, <2>3
  <1>9. ASSUME NEW w \in Workers, NEW fails \in BOOLEAN, L!LoadDefault(w, fails)
        PROVE  LoraInv'
    <2>1. CASE fails \/ Default \notin present
      <3>1. L!Goto(w, "idle") /\ loadFailed' = TRUE /\ UNCHANGED serving
        BY <1>9, <2>1 DEF L!LoadDefault
      <3> QED BY <3>1, GotoWork DEF WorkLabels
    <2>2. CASE ~(fails \/ Default \notin present)
      <3>1. L!Goto(w, "ready") /\ serving' = L!Loaded(Default) /\ UNCHANGED loadFailed
        BY <1>9, <2>2 DEF L!LoadDefault
      <3>2. serving' \in Providers /\ serving'.lora = Default
        BY <3>1, ProvidersAreTyped DEF L!Loaded, LoraNames
      <3> QED BY <3>1, <3>2, GotoWork DEF WorkLabels
    <2> QED BY <2>1, <2>2
  <1>10. ASSUME NEW w \in Workers, NEW fails \in BOOLEAN, L!EnsureAdapter(w, fails)
         PROVE  LoraInv'
    <2>1. work[w] = "ready" /\ L!Goto(w, "idle") /\ UNCHANGED loadFailed
      BY <1>10 DEF L!EnsureAdapter
    <2>2. work' \in [Workers -> WorkLabels] /\ \A v \in Workers \ {w} : work'[v] = work[v]
      BY <2>1, GotoWork DEF WorkLabels
    <2>3. serving' = serving \/ serving' = L!Loaded(Default)
      BY <1>10 DEF L!EnsureAdapter
    <2>4. CASE serving' = serving
      BY <2>1, <2>2, <2>4
    <2>5. CASE serving' = L!Loaded(Default)
      <3>1. serving' \in Providers /\ serving'.lora = Default
        BY <2>5, ProvidersAreTyped DEF L!Loaded, LoraNames
      <3> QED BY <2>1, <2>2, <3>1
    <2> QED BY <2>3, <2>4, <2>5
  <1> QED BY <1>2, <1>3, <1>4, <1>5, <1>6, <1>7, <1>8, <1>9, <1>10 DEF L!LoraNext

LEMMA LoraHolds == LoraInv => L!ServingModelIsWhole
  BY DEF LoraInv, L!ServingModelIsWhole

-----------------------------------------------------------------------------
(* LlamaManager: the lock and the status.                                   *)

CallLabels == {"idle", "waiting", "building", "built"}
LlamaCalls == [pc : CallLabels, kind : {"load", "unload", "status"},
               file : LoraFiles \cup {NoLora}]

\* Whoever rebuilds holds the lock; the status is wrong only while an unload rebuilds.
LlamaInv ==
  /\ call \in [Callers -> LlamaCalls] /\ broken \in BOOLEAN
  /\ llama \in [built : BOOLEAN, lora : LoraFiles \cup {NoLora}]
  /\ \A c \in Callers : call[c].pc \in {"building", "built"} => lock = c
  /\ \A c \in Callers : call[c].pc = "built" => adapter = llama.lora
  /\ ~broken => \/ adapter = llama.lora
                \/ \E c \in Callers : call[c].pc = "building" /\ call[c].kind = "unload"

LEMMA LlamaInitInv == G!LlamaInit => LlamaInv
  <1> SUFFICES ASSUME G!LlamaInit PROVE LlamaInv
    OBVIOUS
  <1>1. G!NoCall \in LlamaCalls /\ G!NoCall.pc = "idle"
    BY DEF G!NoCall, LlamaCalls, CallLabels
  <1>2. llama \in [built : BOOLEAN, lora : LoraFiles \cup {NoLora}] /\ llama.lora = NoLora
    BY DEF G!LlamaInit, G!NoLlama
  <1> QED BY <1>1, <1>2 DEF G!LlamaInit, LlamaInv

\* A coroutine that goes on, returns or starts leaves the others where they are.
LEMMA CallMoves ==
  ASSUME call \in [Callers -> LlamaCalls], NEW c \in Callers
  PROVE  /\ \A label \in CallLabels : G!Move(c, label) =>
              /\ call' \in [Callers -> LlamaCalls]
              /\ call'[c].pc = label /\ call'[c].kind = call[c].kind
              /\ \A d \in Callers \ {c} : call'[d] = call[d]
         /\ G!Return(c) =>
              /\ call' \in [Callers -> LlamaCalls] /\ call'[c].pc = "idle"
              /\ \A d \in Callers \ {c} : call'[d] = call[d]
  <1>1. ASSUME NEW label \in CallLabels, G!Move(c, label)
        PROVE  /\ call' \in [Callers -> LlamaCalls]
               /\ call'[c].pc = label /\ call'[c].kind = call[c].kind
               /\ \A d \in Callers \ {c} : call'[d] = call[d]
    <2>1. [call[c] EXCEPT !.pc = label] \in LlamaCalls
      BY DEF LlamaCalls
    <2> QED BY <1>1, <2>1 DEF G!Move, LlamaCalls
  <1>2. G!NoCall \in LlamaCalls /\ G!NoCall.pc = "idle"
    BY DEF G!NoCall, LlamaCalls, CallLabels
  <1> QED BY <1>1, <1>2 DEF G!Return

LEMMA LlamaStep == ASSUME LlamaInv, G!LlamaNext PROVE LlamaInv'
  <1> USE DEF LlamaInv
  <1>1. ASSUME NEW c \in Callers, NEW kind \in {"load", "unload", "status"},
               NEW file \in LoraFiles \cup {NoLora}, G!Start(c, kind, file)
        PROVE  LlamaInv'
    <2> DEFINE new == [pc |-> "waiting", kind |-> kind, file |-> file]
    <2>1. new \in LlamaCalls /\ new.pc = "waiting"
      BY DEF LlamaCalls, CallLabels
    <2>2. /\ call' = [call EXCEPT ![c] = new] /\ call[c].pc = "idle"
          /\ UNCHANGED <<lock, llama, adapter, broken>>
      BY <1>1 DEF G!Start, G!InCall
    <2> HIDE DEF new
    <2> QED BY <2>1, <2>2
  <1>2. ASSUME NEW c \in Callers, G!Enter(c) PROVE LlamaInv'
    <2>1. call[c].pc = "waiting" /\ lock = NoCaller /\ UNCHANGED <<adapter, broken>>
      BY <1>2 DEF G!Enter, G!InCall
    <2>2. \A d \in Callers : call[d].pc \notin {"building", "built"}
      BY <2>1, ServicesAssumption
    <2>3. CASE call[c].kind = "status" \/ G!Refused(c)
      <3>1. G!Return(c) /\ UNCHANGED <<lock, llama>>
        BY <1>2, <2>3 DEF G!Enter
      <3> QED BY <2>1, <2>2, <3>1, CallMoves
    <2>4. CASE ~(call[c].kind = "status" \/ G!Refused(c))
      <3>1. /\ lock' = c /\ G!Move(c, "building")
            /\ llama' = IF call[c].kind = "unload" THEN [llama EXCEPT !.lora = NoLora]
                                                   ELSE llama
        BY <1>2, <2>4 DEF G!Enter
      <3>2. llama' \in [built : BOOLEAN, lora : LoraFiles \cup {NoLora}]
        BY <3>1
      <3>3. /\ call' \in [Callers -> LlamaCalls] /\ call'[c].pc = "building"
            /\ call'[c].kind = call[c].kind /\ \A d \in Callers \ {c} : call'[d] = call[d]
        BY <3>1, CallMoves DEF CallLabels
      <3>4. ~broken => adapter = llama.lora
        BY <2>2
      <3>5. call[c].kind # "unload" => llama' = llama
        BY <3>1
      <3> QED BY <2>1, <2>2, <3>1, <3>2, <3>3, <3>4, <3>5
    <2> QED BY <2>3, <2>4
  <1>3. ASSUME NEW c \in Callers, NEW fails \in BOOLEAN, G!Rebuild(c, fails) PROVE LlamaInv'
    <2>1. call[c].pc = "building" /\ lock = c
      BY <1>3 DEF G!Rebuild, G!InCall
    <2>2. \A d \in Callers \ {c} : call[d].pc \notin {"building", "built"}
      BY <2>1
    <2>3. CASE fails
      <3>1. /\ G!Return(c) /\ broken' = (broken \/ call[c].kind = "unload")
            /\ UNCHANGED <<llama, adapter>>
        BY <1>3, <2>3 DEF G!Rebuild
      <3> QED BY <2>1, <2>2, <3>1, CallMoves
    <2>4. CASE ~fails
      <3>1. /\ llama' = [built |-> TRUE, lora |-> NoLora] /\ adapter' = NoLora
            /\ G!Move(c, "built") /\ UNCHANGED <<lock, broken>>
        BY <1>3, <2>4 DEF G!Rebuild
      <3>2. /\ call' \in [Callers -> LlamaCalls] /\ call'[c].pc = "built"
            /\ \A d \in Callers \ {c} : call'[d] = call[d]
        BY <3>1, CallMoves DEF CallLabels
      <3>3. llama'.lora = adapter'
            /\ llama' \in [built : BOOLEAN, lora : LoraFiles \cup {NoLora}]
        BY <3>1
      <3> QED BY <2>1, <2>2, <3>1, <3>2, <3>3
    <2> QED BY <2>3, <2>4
  <1>4. ASSUME NEW c \in Callers, NEW fails \in BOOLEAN, G!Complete(c, fails) PROVE LlamaInv'
    <2>1. /\ call[c].pc = "built" /\ lock = c /\ adapter = llama.lora
          /\ G!Return(c) /\ UNCHANGED broken
      BY <1>4 DEF G!Complete, G!InCall
    <2>2. \A d \in Callers \ {c} : call[d].pc \notin {"building", "built"}
      BY <2>1
    <2>3. /\ llama' \in [built : BOOLEAN, lora : LoraFiles \cup {NoLora}]
          /\ adapter' = llama'.lora
      <3>1. CASE call[c].kind = "load" /\ ~fails
        <4>1. llama' = [llama EXCEPT !.lora = call[c].file] /\ adapter' = call[c].file
          BY <1>4, <3>1 DEF G!Complete
        <4>2. call[c].file \in LoraFiles \cup {NoLora}
          BY DEF LlamaCalls
        <4> QED BY <4>1, <4>2
      <3>2. CASE ~(call[c].kind = "load" /\ ~fails)
        BY <1>4, <2>1, <3>2 DEF G!Complete
      <3> QED BY <3>1, <3>2
    <2> QED BY <2>1, <2>2, <2>3, CallMoves
  <1> QED BY <1>1, <1>2, <1>3, <1>4 DEF G!LlamaNext

LEMMA LlamaHolds == LlamaInv => G!StatusIsOfTheModel
  <1> SUFFICES ASSUME LlamaInv, lock = NoCaller, ~broken PROVE adapter = llama.lora
    BY DEF G!StatusIsOfTheModel
  <1> QED BY ServicesAssumption DEF LlamaInv

\* The model of either manager has the adapter it is said to have: in the scene of each,
\* the invariant of its component.
THEOREM ModelsHaveTheirAdapters == Spec => []ModelHasItsAdapter
  <1> DEFINE Here == (scene = "lora" => LoraInv) /\ (scene = "llama" => LlamaInv)
  <1>1. Init => Here
    BY LoraInitInv, LlamaInitInv DEF Init
  <1>2. Here /\ [Next]_vars => Here'
    <2>1. ASSUME Here, [Next]_vars, scene' = "lora" PROVE LoraInv'
      <3>1. CASE Apart("lora") /\ L!LoraNext
        BY <2>1, <3>1, LoraStep DEF Apart
      <3>2. CASE UNCHANGED <<scene, loraVars>>
        BY <2>1, <3>2 DEF loraVars, LoraInv
      <3> QED BY <2>1, <3>1, <3>2 DEF Next, vars, Apart
    <2>2. ASSUME Here, [Next]_vars, scene' = "llama" PROVE LlamaInv'
      <3>1. CASE Apart("llama") /\ G!LlamaNext
        BY <2>2, <3>1, LlamaStep DEF Apart
      <3>2. CASE UNCHANGED <<scene, llamaVars>>
        BY <2>2, <3>2 DEF llamaVars, LlamaInv
      <3> QED BY <2>2, <3>1, <3>2 DEF Next, vars, Apart
    <2> QED BY <2>1, <2>2
  <1>3. Here => ModelHasItsAdapter
    BY LoraHolds, LlamaHolds DEF ModelHasItsAdapter
  <1> QED BY <1>1, <1>2, <1>3, PTL DEF Spec

-----------------------------------------------------------------------------
(* ChatSocket: a client that listens and answers its pings.                 *)

\* While a client has only listened and was never late: everything it sent is a pong, the
\* wait is not longer than an interval, and between its last pong and a ping without one
\* there is an interval at most.
Listening ==
  /\ socket \in {"waiting", "gone"}
  /\ \A i \in DOMAIN inbox : inbox[i] = "pong"
  /\ since <= clock /\ clock - since <= Interval
  /\ lastPong <= clock
  /\ inbox # <<>> => pinged = 0
  /\ inbox = <<>> /\ pinged = 0 => lastPong = since
  /\ pinged # 0 => /\ pinged <= clock /\ clock - pinged <= PongDelay
                   /\ pinged - lastPong <= Interval

SocketInv ==
  /\ clock \in Nat \ {0} /\ since \in Nat /\ lastPong \in Nat /\ pinged \in Nat
  /\ asked \in Nat /\ late \in BOOLEAN
  /\ inbox \in Seq({"pong", "request", "nonsense"})
  /\ asked = 0 /\ ~late => Listening

LEMMA SocketInitInv == S!SocketInit => SocketInv
  <1> SUFFICES ASSUME S!SocketInit PROVE SocketInv
    OBVIOUS
  <1>1. /\ clock = 1 /\ socket = "waiting" /\ since = clock /\ lastPong = clock
        /\ inbox = <<>> /\ pinged = 0 /\ late = FALSE /\ asked = 0
    BY DEF S!SocketInit
  <1>2. inbox \in Seq({"pong", "request", "nonsense"}) /\ DOMAIN inbox = {}
    BY <1>1
  <1>3. /\ socket \in {"waiting", "gone"} /\ since <= clock /\ clock - since <= Interval
        /\ lastPong <= clock /\ pinged = 0 /\ lastPong = since
    BY <1>1, ServicesAssumption
  <1>4. Listening
    BY <1>2, <1>3 DEF Listening
  <1>5. /\ clock \in Nat \ {0} /\ since \in Nat /\ lastPong \in Nat /\ pinged \in Nat
        /\ asked \in Nat
    BY <1>1
  <1>6. late \in BOOLEAN
    BY <1>1
  <1> QED BY <1>2, <1>4, <1>5, <1>6 DEF SocketInv

LEMMA SocketStep == ASSUME SocketInv, S!SocketNext PROVE SocketInv'
  <1> USE DEF SocketInv
  <1>1. CASE S!ClientPong
    BY <1>1 DEF S!ClientPong, Listening
  <1>2. ASSUME NEW message \in {"request", "nonsense"}, S!ClientSends(message)
        PROVE  SocketInv'
    BY <1>2 DEF S!ClientSends
  <1>3. CASE S!Receive
    <2>1. /\ socket = "waiting" /\ inbox # <<>> /\ inbox' = Tail(inbox) /\ since' = clock
          /\ UNCHANGED <<clock, pinged, late, asked>>
          /\ lastPong' = IF Head(inbox) = "pong" THEN clock ELSE lastPong
          /\ socket' = IF Head(inbox) = "request" THEN "answering" ELSE "waiting"
      BY <1>3 DEF S!Receive
    <2>2. Head(inbox) = inbox[1] /\ 1 \in DOMAIN inbox
          /\ inbox' \in Seq({"pong", "request", "nonsense"})
          /\ \A i \in DOMAIN inbox' : i + 1 \in DOMAIN inbox /\ inbox'[i] = inbox[i + 1]
      BY <2>1
    <2>3. ASSUME asked = 0, ~late PROVE Listening'
      <3>1. Listening
        BY <2>3
      <3>2. lastPong' = clock /\ socket' = "waiting" /\ pinged = 0
        BY <2>1, <2>2, <3>1 DEF Listening
      <3> QED BY <2>1, <2>2, <3>1, <3>2, ServicesAssumption DEF Listening
    <2> QED BY <2>1, <2>2, <2>3
  <1>4. CASE S!Answered
    BY <1>4 DEF S!Answered, Listening
  <1>5. CASE S!Heartbeat
    <2>1. /\ socket = "waiting" /\ inbox = <<>> /\ clock - since >= Interval
          /\ UNCHANGED <<clock, lastPong, inbox, late, asked>>
      BY <1>5 DEF S!Heartbeat, S!WaitIsOver
    <2>2. since' \in Nat /\ pinged' \in Nat
      BY <1>5 DEF S!Heartbeat
    <2>3. ASSUME asked = 0, ~late PROVE Listening'
      <3>1. Listening
        BY <2>3
      <3>2. clock - lastPong < Timeout
        BY <2>1, <3>1, ServicesAssumption DEF Listening
      <3>3. /\ since' = clock /\ UNCHANGED socket
            /\ pinged' = IF pinged = 0 THEN clock ELSE pinged
        BY <1>5, <3>2, ServicesAssumption DEF S!Heartbeat
      <3> QED BY <2>1, <3>1, <3>3, ServicesAssumption DEF Listening
    <2> QED BY <2>1, <2>2, <2>3
  <1>6. CASE S!Disconnected
    BY <1>6 DEF S!Disconnected, Listening
  <1>7. CASE S!SocketTick
    <2>1. /\ clock' = clock + 1 /\ ~S!WaitIsOver /\ ~(socket = "waiting" /\ inbox # <<>>)
          /\ socket \in {"waiting", "answering"}
          /\ late' = (late \/ (pinged # 0 /\ clock - pinged >= PongDelay))
          /\ UNCHANGED <<socket, since, lastPong, inbox, pinged, asked>>
      BY <1>7 DEF S!SocketTick
    <2>2. ASSUME asked' = 0, ~late' PROVE Listening'
      <3>1. Listening /\ asked = 0 /\ ~late
        BY <2>1, <2>2
      <3>2. socket = "waiting" /\ inbox = <<>> /\ ~(clock - since >= Interval)
        BY <2>1, <3>1 DEF Listening, S!WaitIsOver
      <3>3. pinged # 0 => ~(clock - pinged >= PongDelay)
        BY <2>1, <2>2
      <3> QED BY <2>1, <3>1, <3>2, <3>3, ServicesAssumption DEF Listening
    <2> QED BY <2>1, <2>2
  <1> QED BY <1>1, <1>2, <1>3, <1>4, <1>5, <1>6, <1>7 DEF S!SocketNext

LEMMA SocketHolds == SocketInv => S!PromptListenerIsKept
  BY DEF SocketInv, Listening, S!PromptListenerIsKept

\* The heartbeat never closes the socket of a client that only listens and answers each ping
\* within PongDelay, whenever its pongs come (app/api/v1/chat.py).
THEOREM PromptListenersStay == Spec => []PromptListenerIsKept
  <1> DEFINE Here == scene = "socket" => SocketInv
  <1>1. Init => Here
    BY SocketInitInv DEF Init
  <1>2. Here /\ [Next]_vars => Here'
    <2> SUFFICES ASSUME Here, [Next]_vars, scene' = "socket" PROVE SocketInv'
      OBVIOUS
    <2>1. CASE Apart("socket") /\ S!SocketNext
      BY <2>1, SocketStep DEF Apart
    <2>2. CASE UNCHANGED <<scene, socketVars>>
      BY <2>2 DEF socketVars, SocketInv, Listening
    <2> QED BY <2>1, <2>2 DEF Next, vars, Apart
  <1>3. Here => PromptListenerIsKept
    BY SocketHolds DEF PromptListenerIsKept
  <1> QED BY <1>1, <1>2, <1>3, PTL DEF Spec

-----------------------------------------------------------------------------
(* ModelDownload: the manifest and the file in place.                       *)

DownloadLabels == {"idle", "http", "check", "hub", "hub_file", "hub_check", "update", "dump"}
DownloadEnds == {"none", "ok", "failed", "killed"}
ModelCopies == {"none", "first", "second", "cut"}
DownloadRuns ==
  [pc : DownloadLabels, via : {"none", "hub", "http"}, sha : ModelCopies, expected : ModelCopies, tries : Nat,
   before : ModelCopies, override : BOOLEAN, end : DownloadEnds]

DownloadTyped ==
  /\ download \in DownloadRuns /\ manifest \in [whole : BOOLEAN, sha : ModelCopies]
  /\ upstream \in W!Revisions /\ modelAt \in ModelCopies /\ tmpAt \in ModelCopies

\* What a run knows at each of its labels: over HTTP the old model is in place until the
\* checksum was compared, and the checksum it began with is that of the manifest.
DownloadInv ==
  /\ download.pc \in {"http", "check"} =>
       download.via = "http" /\ modelAt = download.before
  /\ download.pc \in {"hub", "hub_file", "hub_check"} => download.via = "hub"
  /\ download.pc \notin {"idle", "dump"} /\ ~download.override => download.sha = manifest.sha
  /\ W!ModelIsAccountedFor

\* The run in the new state has these fields, and the others it had.
GoesOnAt(label, how) ==
  /\ download' \in DownloadRuns
  /\ download'.pc = label /\ download'.end = how
  /\ download'.via = download.via /\ download'.sha = download.sha
  /\ download'.before = download.before /\ download'.override = download.override

LEMMA DownloadInitInv == W!DownloadInit => DownloadTyped /\ DownloadInv
  <1> SUFFICES ASSUME W!DownloadInit PROVE DownloadTyped /\ DownloadInv
    OBVIOUS
  <1>1. W!NoDownload \in DownloadRuns /\ W!NoDownload.pc = "idle" /\ W!NoDownload.end = "none"
    BY DEF W!NoDownload, DownloadRuns, DownloadLabels, DownloadEnds, ModelCopies, W!NoFile
  <1>2. download = W!NoDownload /\ manifest \in [whole : BOOLEAN, sha : ModelCopies]
        /\ upstream = "first" /\ modelAt = "none" /\ tmpAt = "none"
    BY DEF W!DownloadInit, ModelCopies, W!NoFile
  <1>3. DownloadTyped
    BY <1>1, <1>2 DEF DownloadTyped, ModelCopies, W!Revisions
  <1>4. DownloadInv
    BY <1>1, <1>2 DEF DownloadInv, W!ModelIsAccountedFor
  <1> QED BY <1>3, <1>4

\* A run that ends keeps what it knew.
LEMMA EndsEffect ==
  ASSUME DownloadTyped, NEW how \in DownloadEnds, W!Ends(how)
  PROVE  GoesOnAt("idle", how)
  BY DEF W!Ends, DownloadTyped, DownloadRuns, GoesOnAt, DownloadLabels

\* A run that goes on does so too.
LEMMA GoesOn ==
  ASSUME DownloadTyped, NEW label \in DownloadLabels, download' = [download EXCEPT !.pc = label]
  PROVE  GoesOnAt(label, download.end)
  BY DEF DownloadTyped, DownloadRuns, GoesOnAt

LEMMA TryFailsKeeps ==
  ASSUME DownloadTyped, DownloadInv, download.pc \in {"http", "check"}, W!TryFails
  PROVE  DownloadTyped' /\ DownloadInv'
  <1>1. tmpAt' = "none" /\ UNCHANGED <<upstream, modelAt, manifest>>
    BY DEF W!TryFails, W!NoFile
  <1>2. CASE download.tries + 1 >= MaxTries
    <2>1. download' = [download EXCEPT !.pc = "idle", !.end = "failed"]
      BY <1>2 DEF W!TryFails
    <2>2. GoesOnAt("idle", "failed")
      BY <2>1, EndsEffect DEF W!Ends, DownloadEnds
    <2> QED BY <1>1, <2>2 DEF GoesOnAt, DownloadTyped, DownloadInv, ModelCopies,
               W!ModelIsAccountedFor, W!NoFile
  <1>3. CASE ~(download.tries + 1 >= MaxTries)
    <2> DEFINE more == download.tries + 1
    <2>1. more \in Nat /\ download' = [download EXCEPT !.pc = "http", !.tries = more]
      BY <1>3 DEF W!TryFails, DownloadTyped, DownloadRuns
    <2> HIDE DEF more
    <2>2. GoesOnAt("http", download.end)
      BY <2>1 DEF DownloadTyped, DownloadRuns, GoesOnAt, DownloadLabels
    <2> QED BY <1>1, <2>2 DEF GoesOnAt, DownloadTyped, DownloadInv, ModelCopies,
               W!ModelIsAccountedFor, W!NoFile
  <1> QED BY <1>2, <1>3

LEMMA StartDownloadKeeps ==
  ASSUME DownloadTyped, DownloadInv, NEW sha \in W!Revisions \union {W!NoFile},
         NEW overwrite \in BOOLEAN, W!StartDownload(sha, overwrite)
  PROVE  DownloadTyped' /\ DownloadInv'
  <1> DEFINE known == IF sha = "none" THEN manifest.sha ELSE sha
             skip == modelAt # "none" /\ ~overwrite /\ known # "none" /\ modelAt = known
             via == W!Via(known)
             pc == IF skip THEN "idle" ELSE via
             end == IF skip THEN "ok" ELSE "none"
             new == [pc |-> pc, via |-> via, sha |-> known, expected |-> known,
                     tries |-> 0, before |-> modelAt, override |-> sha # "none", end |-> end]
  <1>1. download' = new /\ UNCHANGED <<upstream, modelAt, tmpAt, manifest>>
    BY DEF W!StartDownload, W!NoFile
  <1>2. via \in {"hub", "http"}
    BY DEF W!Via
  <1>3. known \in ModelCopies
    BY DEF W!Revisions, ModelCopies, W!NoFile, DownloadTyped
  <1>4. (sha = "none" => known = manifest.sha) /\ (skip => modelAt = known)
        /\ pc \in {"idle", via} /\ (pc = "idle" /\ via # "idle" => skip)
        /\ end \in {"ok", "none"} /\ (end = "ok" => skip)
        /\ (pc = via => end = "none" \/ skip)
    OBVIOUS
  <1>5. modelAt \in ModelCopies
    BY DEF DownloadTyped
  <1> HIDE DEF known, skip, via, pc, end
  <1>6. new \in DownloadRuns
    BY <1>2, <1>3, <1>4, <1>5 DEF DownloadRuns, DownloadLabels, DownloadEnds
  <1>7. /\ new.pc = pc /\ new.via = via /\ new.sha = known /\ new.before = modelAt
        /\ new.override = (sha # "none") /\ new.end = end
    OBVIOUS
  <1> HIDE DEF new
  <1>8. DownloadTyped'
    BY <1>1, <1>6 DEF DownloadTyped
  <1>9. DownloadInv'
    <2>1. UNCHANGED <<modelAt, manifest>> /\ download' = new
      BY <1>1
    <2> QED BY <2>1, <1>2, <1>4, <1>7 DEF DownloadInv, W!ModelIsAccountedFor
  <1> QED BY <1>8, <1>9

LEMMA DownloadStep ==
  ASSUME DownloadTyped, DownloadInv, W!DownloadNext PROVE DownloadTyped' /\ DownloadInv'
  <1>1. ASSUME NEW sha \in W!Revisions \union {W!NoFile}, NEW overwrite \in BOOLEAN,
               W!StartDownload(sha, overwrite)
        PROVE  DownloadTyped' /\ DownloadInv'
    BY <1>1, StartDownloadKeeps
  <1>2. CASE W!Unreachable
    BY <1>2, TryFailsKeeps DEF W!Unreachable
  <1>3. ASSUME NEW file \in W!Revisions \union {"cut"}, W!Fetch(file)
        PROVE  DownloadTyped' /\ DownloadInv'
    <2>1. GoesOnAt("check", download.end)
      BY <1>3, GoesOn DEF W!Fetch, DownloadLabels
    <2> QED BY <1>3, <2>1 DEF W!Fetch, GoesOnAt, DownloadTyped, DownloadInv, ModelCopies,
                              W!Revisions,
               W!ModelIsAccountedFor
  <1>4. CASE W!Check
    <2>1. CASE download.expected \in {"none", tmpAt}
      <3>1. /\ modelAt' = tmpAt /\ tmpAt' = "none" /\ download.pc = "check"
            /\ download' = [download EXCEPT !.pc = "update"]
            /\ UNCHANGED <<upstream, manifest>>
        BY <1>4, <2>1 DEF W!Check, W!NoFile
      <3>2. GoesOnAt("update", download.end)
        BY <3>1, GoesOn DEF DownloadLabels
      <3> QED BY <3>1, <3>2 DEF GoesOnAt, DownloadTyped, DownloadInv, ModelCopies,
                 W!ModelIsAccountedFor
    <2>2. CASE download.expected \notin {"none", tmpAt}
      BY <1>4, <2>2, TryFailsKeeps DEF W!Check, W!NoFile
    <2> QED BY <2>1, <2>2
  <1>5. CASE W!HubMetadata
    <2> DEFINE checksum == IF download.expected = "none" THEN upstream ELSE download.expected
    <2>1. /\ download.pc = "hub" /\ UNCHANGED <<upstream, modelAt, tmpAt, manifest>>
          /\ download' = [download EXCEPT !.pc = "hub_file", !.expected = checksum]
      BY <1>5 DEF W!HubMetadata, W!NoFile, DownloadTyped, DownloadRuns
    <2>2. checksum \in ModelCopies
      BY DEF DownloadTyped, DownloadRuns, ModelCopies, W!Revisions
    <2> HIDE DEF checksum
    <2>3. GoesOnAt("hub_file", download.end)
      BY <2>1, <2>2 DEF DownloadTyped, DownloadRuns, GoesOnAt, DownloadLabels
    <2> QED BY <2>1, <2>3 DEF GoesOnAt, DownloadTyped, DownloadInv, W!ModelIsAccountedFor
  <1>6. CASE W!HubFails
    <2>1. GoesOnAt("idle", "failed")
      BY <1>6, EndsEffect DEF W!HubFails, DownloadEnds
    <2> QED BY <1>6, <2>1 DEF W!HubFails, GoesOnAt, DownloadTyped, DownloadInv,
               W!ModelIsAccountedFor
  <1>7. CASE W!HubFile
    <2>1. GoesOnAt("hub_check", download.end)
      BY <1>7, GoesOn DEF W!HubFile, DownloadLabels
    <2> QED BY <1>7, <2>1 DEF W!HubFile, GoesOnAt, DownloadTyped, DownloadInv, ModelCopies,
               W!Revisions, W!ModelIsAccountedFor
  <1>8. CASE W!HubCheck
    <2>1. CASE modelAt = download.expected
      <3>1. GoesOnAt("update", download.end)
        BY <1>8, <2>1, GoesOn DEF W!HubCheck, DownloadLabels
      <3> QED BY <1>8, <3>1 DEF W!HubCheck, GoesOnAt, DownloadTyped, DownloadInv,
                 W!ModelIsAccountedFor
    <2>2. CASE modelAt # download.expected
      <3>1. GoesOnAt("idle", "failed")
        BY <1>8, <2>2, EndsEffect DEF W!HubCheck, DownloadEnds
      <3> QED BY <1>8, <3>1 DEF W!HubCheck, GoesOnAt, DownloadTyped, DownloadInv,
                 W!ModelIsAccountedFor
    <2> QED BY <2>1, <2>2
  <1>9. CASE W!UpdateManifest
    <2>1. CASE download.sha = modelAt
      <3>1. GoesOnAt("idle", "ok")
        BY <1>9, <2>1, EndsEffect DEF W!UpdateManifest, DownloadEnds
      <3> QED BY <1>9, <2>1, <3>1 DEF W!UpdateManifest, GoesOnAt, DownloadTyped,
                                      DownloadInv,
                 W!ModelIsAccountedFor
    <2>2. CASE download.sha # modelAt
      <3>1. GoesOnAt("dump", download.end)
        BY <1>9, <2>2, GoesOn DEF W!UpdateManifest, DownloadLabels
      <3>2. manifest' \in [whole : BOOLEAN, sha : ModelCopies]
            /\ UNCHANGED <<upstream, modelAt, tmpAt>>
        BY <1>9, <2>2 DEF W!UpdateManifest, DownloadTyped
      <3> QED BY <3>1, <3>2 DEF GoesOnAt, DownloadTyped, DownloadInv, W!ModelIsAccountedFor
    <2> QED BY <2>1, <2>2
  <1>10. CASE W!DumpManifest
    <2>1. GoesOnAt("idle", "ok")
      BY <1>10, EndsEffect DEF W!DumpManifest, DownloadEnds
    <2>2. manifest' = [whole |-> TRUE, sha |-> modelAt] /\ UNCHANGED <<upstream, modelAt, tmpAt>>
      BY <1>10 DEF W!DumpManifest
    <2> QED BY <2>1, <2>2 DEF GoesOnAt, DownloadTyped, DownloadInv, W!ModelIsAccountedFor
  <1>11. CASE W!KillDownload
    <2>1. GoesOnAt("idle", "killed")
      BY <1>11, EndsEffect DEF W!KillDownload, DownloadEnds
    <2> QED BY <1>11, <2>1 DEF W!KillDownload, GoesOnAt, DownloadTyped, DownloadInv,
                               ModelCopies,
               W!ModelIsAccountedFor
  <1>12. CASE W!Publish
    BY <1>12 DEF W!Publish, DownloadTyped, DownloadInv, W!ModelIsAccountedFor, W!Revisions
  <1> QED BY <1>1, <1>2, <1>3, <1>4, <1>5, <1>6, <1>7, <1>8, <1>9, <1>10, <1>11, <1>12
          DEF W!DownloadNext

LEMMA DownloadHolds == DownloadTyped /\ DownloadInv => W!ModelIsAccountedFor
  BY DEF DownloadInv

\* After any sequence of runs that fail, are killed or fall back to the hub: one that
\* succeeded without --sha256 leaves a manifest that names the file in place, and one that
\* failed over HTTP leaves the old model (scripts/download_model.py).
THEOREM ModelsAreAccountedFor == Spec => []ModelIsAccountedFor
  <1> DEFINE Here == scene = "download" => (DownloadTyped /\ DownloadInv)
  <1>1. Init => Here
    BY DownloadInitInv DEF Init
  <1>2. Here /\ [Next]_vars => Here'
    <2> SUFFICES ASSUME Here, [Next]_vars, scene' = "download" PROVE (DownloadTyped /\ DownloadInv)'
      OBVIOUS
    <2>1. CASE Apart("download") /\ W!DownloadNext
      BY <2>1, DownloadStep DEF Apart
    <2>2. CASE UNCHANGED <<scene, downloadVars>>
      BY <2>2 DEF downloadVars, DownloadTyped, DownloadInv, W!ModelIsAccountedFor
    <2> QED BY <2>1, <2>2 DEF Next, vars, Apart
  <1>3. Here => ModelIsAccountedFor
    BY DownloadHolds DEF ModelIsAccountedFor
  <1> QED BY <1>1, <1>2, <1>3, PTL DEF Spec

-----------------------------------------------------------------------------
(* Archives: restores that are killed and repeated.                         *)

ArchiveRecords == [made : BOOLEAN, rows : SUBSET DocIds, blobs : SUBSET DocIds]
BackupRuns == [pc : {"idle", "db", "blobs"}, listed : SUBSET DocIds, rows : SUBSET DocIds,
               blobs : SUBSET DocIds]
RestoreRuns == [pc : {"idle", "db", "blobs", "done"}, mode : {"replace", "merge"},
                from : ArchiveRecords, todo : SUBSET DocIds]

ArchiveTyped ==
  /\ rowsHere \subseteq DocIds /\ blobsHere \subseteq DocIds /\ checkpointed \subseteq DocIds
  /\ backupRun \in BackupRuns /\ archive \in ArchiveRecords /\ restoreRun \in RestoreRuns
  /\ blobsThere \in [DOMAIN blobsThere -> {"here", "there"}]

\* The original of d is in one of the directories.
KeptIn(d, directories) == \E b \in directories : d \in DOMAIN b /\ b[d] = "there"

Replacing == restoreRun.mode = "replace" /\ restoreRun.pc \in {"db", "blobs"}

\* While a replacing restore runs, every original is in a directory moved aside, and what
\* is under kb_files is of the archive, together with what it still has to write all of it.
ArchiveInv ==
  /\ \A d \in owned : KeptIn(d, {blobsThere} \cup asideThere)
  /\ Replacing =>
       /\ \A d \in owned : KeptIn(d, asideThere)
       /\ DOMAIN blobsThere \cup restoreRun.todo = restoreRun.from.blobs
       /\ \A d \in DOMAIN blobsThere : blobsThere[d] = "here"
       /\ restoreRun.pc = "blobs" => dbThere.rows = [d \in restoreRun.from.rows |-> "here"]
  /\ restoreRun.pc = "done" /\ restoreRun.mode = "replace" =>
       /\ dbThere.rows = [d \in restoreRun.from.rows |-> "here"]
       /\ blobsThere = [d \in restoreRun.from.blobs |-> "here"]

LEMMA ArchiveInitInv == R!ArchiveInit => ArchiveTyped /\ ArchiveInv
  <1> SUFFICES ASSUME R!ArchiveInit PROVE ArchiveTyped /\ ArchiveInv
    OBVIOUS
  <1>1. archive = [made |-> FALSE, rows |-> {}, blobs |-> {}] /\ archive \in ArchiveRecords
    BY DEF R!ArchiveInit, ArchiveRecords
  <1>2. backupRun \in BackupRuns
    BY DEF R!ArchiveInit, BackupRuns
  <1>3. restoreRun \in RestoreRuns /\ restoreRun.pc = "idle"
    BY <1>1 DEF R!ArchiveInit, RestoreRuns
  <1>4. blobsThere = [d \in owned |-> "there"]
    BY DEF R!ArchiveInit, R!There
  <1>5. ArchiveTyped
    BY <1>1, <1>2, <1>3, <1>4 DEF R!ArchiveInit, ArchiveTyped
  <1>6. ArchiveInv
    BY <1>3, <1>4 DEF ArchiveInv, Replacing, KeptIn
  <1> QED BY <1>5, <1>6

\* A step of the server or of a backup touches nothing of the target.
LEMMA TargetKept ==
  ASSUME ArchiveInv, UNCHANGED R!targetVars PROVE ArchiveInv'
  BY DEF R!targetVars, ArchiveInv, Replacing, KeptIn

\* What the source and the backup do keeps the types.
LEMMA SourceSteps ==
  ASSUME ArchiveTyped, ArchiveInv,
         \/ \E d \in DocIds : R!AddRow(d) \/ R!AddBlob(d) \/ R!RemoveBlob(d)
         \/ R!Checkpoint \/ R!ListBlobs
  PROVE  ArchiveTyped' /\ ArchiveInv'
  <1>1. UNCHANGED R!targetVars /\ UNCHANGED archive
    BY DEF R!AddRow, R!AddBlob, R!RemoveBlob, R!Checkpoint, R!ListBlobs
  <1>2. backupRun' \in BackupRuns
    <2>1. CASE R!ListBlobs
      BY <2>1 DEF R!ListBlobs, ArchiveTyped, BackupRuns
    <2>2. CASE UNCHANGED backupRun
      BY <2>2 DEF ArchiveTyped
    <2> QED BY <2>1, <2>2 DEF R!AddRow, R!AddBlob, R!RemoveBlob, R!Checkpoint
  <1>3. /\ rowsHere' \subseteq DocIds /\ blobsHere' \subseteq DocIds
        /\ checkpointed' \subseteq DocIds
    BY DEF R!AddRow, R!AddBlob, R!RemoveBlob, R!Checkpoint, R!ListBlobs, ArchiveTyped
  <1>4. ArchiveTyped'
    BY <1>1, <1>2, <1>3 DEF R!targetVars, ArchiveTyped
  <1> QED BY <1>1, <1>4, TargetKept

LEMMA BackupSteps ==
  ASSUME ArchiveTyped, ArchiveInv, R!PackDatabase \/ R!PackBlob \/ R!PackManifest
  PROVE  ArchiveTyped' /\ ArchiveInv'
  <1>1. UNCHANGED R!targetVars /\ UNCHANGED R!sourceVars
    BY DEF R!PackDatabase, R!PackBlob, R!PackManifest
  <1>2. backupRun' \in BackupRuns
    <2>1. CASE R!PackDatabase
      BY <2>1 DEF R!PackDatabase, ArchiveTyped, BackupRuns
    <2>2. CASE R!PackBlob
      <3>1. PICK d \in backupRun.listed \ backupRun.blobs : backupRun' =
              IF d \in blobsHere THEN [backupRun EXCEPT !.blobs = @ \cup {d}]
                                 ELSE [backupRun EXCEPT !.pc = "idle"]
        BY <2>2 DEF R!PackBlob
      <3>2. backupRun \in BackupRuns /\ d \in DocIds
        BY DEF ArchiveTyped, BackupRuns
      <3>3. [backupRun EXCEPT !.blobs = @ \cup {d}] \in BackupRuns
            /\ [backupRun EXCEPT !.pc = "idle"] \in BackupRuns
        BY <3>2 DEF BackupRuns
      <3> QED BY <3>1, <3>3
    <2>3. CASE R!PackManifest
      BY <2>3 DEF R!PackManifest, ArchiveTyped, BackupRuns
    <2> QED BY <2>1, <2>2, <2>3
  <1>3. archive' \in ArchiveRecords
    <2>1. CASE R!PackManifest
      BY <2>1 DEF R!PackManifest, ArchiveTyped, BackupRuns, ArchiveRecords
    <2>2. CASE UNCHANGED archive
      BY <2>2 DEF ArchiveTyped
    <2> QED BY <2>1, <2>2 DEF R!PackDatabase, R!PackBlob
  <1>4. ArchiveTyped'
    BY <1>1, <1>2, <1>3 DEF R!targetVars, R!sourceVars, ArchiveTyped
  <1> QED BY <1>1, <1>4, TargetKept

LEMMA StartRestoreKeeps ==
  ASSUME ArchiveTyped, ArchiveInv, NEW mode \in {"replace", "merge"}, R!StartRestore(mode)
  PROVE  ArchiveTyped' /\ ArchiveInv'
  <1> DEFINE new == [pc |-> "db", mode |-> mode, from |-> archive, todo |-> archive.blobs]
  <1>1. /\ restoreRun' = new
        /\ UNCHANGED <<rowsHere, blobsHere, checkpointed, backupRun, archive, owned, dbThere>>
    BY DEF R!StartRestore, R!sourceVars
  <1>2. new \in RestoreRuns /\ new.pc = "db" /\ new.mode = mode /\ new.todo = new.from.blobs
    BY DEF ArchiveTyped, ArchiveRecords, RestoreRuns
  <1> HIDE DEF new
  <1>3. CASE mode = "replace" /\ DOMAIN blobsThere # {}
    <2>1. asideThere' = asideThere \cup {blobsThere} /\ blobsThere' = R!NoRows
      BY <1>3 DEF R!StartRestore
    <2>2. DOMAIN blobsThere' = {} /\ blobsThere' \in [DOMAIN blobsThere' -> {"here", "there"}]
      BY <2>1 DEF R!NoRows
    <2>3. \A d \in owned : KeptIn(d, asideThere)'
      BY <2>1 DEF ArchiveInv, KeptIn
    <2>4. ArchiveTyped'
      BY <1>1, <1>2, <2>2 DEF ArchiveTyped
    <2>5. ArchiveInv'
      BY <1>1, <1>2, <2>2, <2>3 DEF ArchiveInv, Replacing, KeptIn
    <2> QED BY <2>4, <2>5
  <1>4. CASE ~(mode = "replace" /\ DOMAIN blobsThere # {})
    <2>1. UNCHANGED <<asideThere, blobsThere>>
      BY <1>4 DEF R!StartRestore
    <2>2. ArchiveTyped'
      BY <1>1, <1>2, <2>1 DEF ArchiveTyped
    <2>3. \A d \in owned : KeptIn(d, {blobsThere} \cup asideThere)
      BY DEF ArchiveInv
    <2>4. mode = "replace" => DOMAIN blobsThere = {} /\ \A d \in owned : KeptIn(d, asideThere)
      BY <1>4, <2>3 DEF KeptIn
    <2>5. ArchiveInv'
      BY <1>1, <1>2, <2>1, <2>3, <2>4 DEF ArchiveInv, Replacing, KeptIn
    <2> QED BY <2>2, <2>5
  <1> QED BY <1>3, <1>4

LEMMA RestoreDatabaseKeeps ==
  ASSUME ArchiveTyped, ArchiveInv, R!RestoreDatabase PROVE ArchiveTyped' /\ ArchiveInv'
  <1>1. /\ restoreRun.pc = "db" /\ restoreRun' = [restoreRun EXCEPT !.pc = "blobs"]
        /\ UNCHANGED <<rowsHere, blobsHere, checkpointed, backupRun, archive, owned,
                       blobsThere, asideThere>>
    BY DEF R!RestoreDatabase, R!sourceVars
  <1>2. restoreRun.mode = "replace" => dbThere'.rows = [d \in restoreRun.from.rows |-> "here"]
    BY DEF R!RestoreDatabase
  <1>3. /\ restoreRun' \in RestoreRuns /\ restoreRun'.pc = "blobs"
        /\ restoreRun'.mode = restoreRun.mode /\ restoreRun'.from = restoreRun.from
        /\ restoreRun'.todo = restoreRun.todo
    BY <1>1 DEF ArchiveTyped, RestoreRuns
  <1>4. ArchiveTyped'
    BY <1>1, <1>3 DEF ArchiveTyped
  <1>5. ArchiveInv'
    BY <1>1, <1>2, <1>3 DEF ArchiveInv, Replacing, KeptIn
  <1> QED BY <1>4, <1>5

LEMMA RestoreBlobKeeps ==
  ASSUME ArchiveTyped, ArchiveInv, R!RestoreBlob PROVE ArchiveTyped' /\ ArchiveInv'
  <1>1. /\ restoreRun.pc = "blobs"
        /\ UNCHANGED <<rowsHere, blobsHere, checkpointed, backupRun, archive, owned, dbThere,
                       asideThere>>
    BY DEF R!RestoreBlob, R!sourceVars
  <1>2. PICK d \in restoreRun.todo :
          /\ blobsThere' = IF restoreRun.mode = "merge" /\ d \in DOMAIN blobsThere THEN blobsThere
                           ELSE [b \in DOMAIN blobsThere \cup {d} |->
                                   IF b = d THEN "here" ELSE blobsThere[b]]
          /\ restoreRun' = [restoreRun EXCEPT !.todo = @ \ {d}]
    BY DEF R!RestoreBlob
  <1>3. /\ restoreRun' \in RestoreRuns /\ restoreRun'.pc = "blobs"
        /\ restoreRun'.mode = restoreRun.mode /\ restoreRun'.from = restoreRun.from
        /\ restoreRun'.todo = restoreRun.todo \ {d}
    BY <1>1, <1>2 DEF ArchiveTyped, RestoreRuns
  <1>4. /\ DOMAIN blobsThere' = DOMAIN blobsThere \cup {d}
        /\ blobsThere' \in [DOMAIN blobsThere' -> {"here", "there"}]
        /\ \A b \in DOMAIN blobsThere : blobsThere'[b] \in {"here", blobsThere[b]}
        /\ \A b \in DOMAIN blobsThere : restoreRun.mode = "merge" => blobsThere'[b] = blobsThere[b]
        /\ restoreRun.mode = "replace" => blobsThere'[d] = "here"
    <2>1. CASE restoreRun.mode = "merge" /\ d \in DOMAIN blobsThere
      BY <1>2, <2>1 DEF ArchiveTyped
    <2>2. CASE ~(restoreRun.mode = "merge" /\ d \in DOMAIN blobsThere)
      BY <1>2, <2>2 DEF ArchiveTyped
    <2> QED BY <2>1, <2>2
  <1>5. ArchiveTyped'
    BY <1>1, <1>3, <1>4 DEF ArchiveTyped
  <1>6. restoreRun.mode \in {"replace", "merge"}
    BY DEF ArchiveTyped, RestoreRuns
  <1>7. \A e \in owned : KeptIn(e, {blobsThere} \cup asideThere)'
    <2>1. CASE restoreRun.mode = "merge"
      BY <1>1, <1>4, <2>1 DEF ArchiveInv, KeptIn
    <2>2. CASE restoreRun.mode = "replace"
      BY <1>1, <2>2 DEF ArchiveInv, Replacing, KeptIn
    <2> QED BY <1>6, <2>1, <2>2
  <1>8. ArchiveInv'
    <2>1. CASE restoreRun.mode = "merge"
      BY <1>1, <1>3, <1>7, <2>1 DEF ArchiveInv, Replacing
    <2>2. CASE restoreRun.mode = "replace"
      <3>1. DOMAIN blobsThere' \cup restoreRun'.todo = restoreRun'.from.blobs
        BY <1>1, <1>3, <1>4, <2>2 DEF ArchiveInv, Replacing
      <3>2. \A e \in DOMAIN blobsThere' : blobsThere'[e] = "here"
        BY <1>1, <1>4, <2>2 DEF ArchiveInv, Replacing
      <3>3. dbThere'.rows = [e \in restoreRun'.from.rows |-> "here"]
        BY <1>1, <1>3, <2>2 DEF ArchiveInv, Replacing
      <3>4. \A e \in owned' : KeptIn(e, asideThere)'
        BY <1>1, <2>2 DEF ArchiveInv, Replacing, KeptIn
      <3> QED BY <1>1, <1>3, <1>7, <3>1, <3>2, <3>3, <3>4 DEF ArchiveInv
    <2> QED BY <1>6, <2>1, <2>2
  <1> QED BY <1>5, <1>8

LEMMA RestoreStops ==
  ASSUME ArchiveTyped, ArchiveInv, R!RestoreEnds \/ R!KillRestore
  PROVE  ArchiveTyped' /\ ArchiveInv'
  <1>1. UNCHANGED <<rowsHere, blobsHere, checkpointed, backupRun, archive, owned, dbThere,
                    blobsThere, asideThere>>
    BY DEF R!RestoreEnds, R!KillRestore, R!sourceVars
  <1>2. /\ restoreRun' \in RestoreRuns /\ restoreRun'.pc \in {"done", "idle"}
        /\ restoreRun'.mode = restoreRun.mode /\ restoreRun'.from = restoreRun.from
    BY DEF R!RestoreEnds, R!KillRestore, ArchiveTyped, RestoreRuns
  <1>3. ArchiveTyped'
    BY <1>1, <1>2 DEF ArchiveTyped
  <1>4. ASSUME restoreRun'.pc = "done", restoreRun.mode = "replace"
        PROVE  /\ dbThere.rows = [d \in restoreRun.from.rows |-> "here"]
               /\ blobsThere = [d \in restoreRun.from.blobs |-> "here"]
    <2>1. restoreRun.pc = "blobs" /\ restoreRun.todo = {}
      BY <1>4 DEF R!RestoreEnds, R!KillRestore, ArchiveTyped, RestoreRuns
    <2>2. /\ DOMAIN blobsThere = restoreRun.from.blobs
          /\ \A d \in DOMAIN blobsThere : blobsThere[d] = "here"
          /\ dbThere.rows = [d \in restoreRun.from.rows |-> "here"]
      BY <1>4, <2>1 DEF ArchiveInv, Replacing
    <2> QED BY <2>2 DEF ArchiveTyped
  <1>5. ArchiveInv'
    BY <1>1, <1>2, <1>4 DEF ArchiveInv, Replacing, KeptIn
  <1> QED BY <1>3, <1>5

LEMMA ArchiveStep ==
  ASSUME ArchiveTyped, ArchiveInv, R!ArchiveNext PROVE ArchiveTyped' /\ ArchiveInv'
  BY SourceSteps, BackupSteps, StartRestoreKeeps, RestoreDatabaseKeeps, RestoreBlobKeeps,
     RestoreStops DEF R!ArchiveNext

LEMMA ArchiveHolds == ArchiveInv => R!RestoreIsExactAndLosesNothing
  BY DEF ArchiveInv, KeptIn, R!RestoreIsExactAndLosesNothing

\* Restores that are killed anywhere and repeated lose no original of the target, and a
\* replacing one that finishes leaves the rows and the blobs of its archive, and no others
\* (scripts/cli/backup.py, restore.py).
THEOREM RestoresAreExact == Spec => []RestoreIsExactAndLosesNothing
  <1> DEFINE Here == scene = "archive" => (ArchiveTyped /\ ArchiveInv)
  <1>1. Init => Here
    BY ArchiveInitInv DEF Init
  <1>2. Here /\ [Next]_vars => Here'
    <2> SUFFICES ASSUME Here, [Next]_vars, scene' = "archive" PROVE (ArchiveTyped /\ ArchiveInv)'
      OBVIOUS
    <2>1. CASE Apart("archive") /\ R!ArchiveNext
      BY <2>1, ArchiveStep DEF Apart
    <2>2. CASE UNCHANGED <<scene, archiveVars>>
      BY <2>2 DEF archiveVars, ArchiveTyped, ArchiveInv, KeptIn, Replacing
    <2> QED BY <2>1, <2>2 DEF Next, vars, Apart
  <1>3. Here => RestoreIsExactAndLosesNothing
    BY ArchiveHolds DEF RestoreIsExactAndLosesNothing
  <1> QED BY <1>1, <1>2, <1>3, PTL DEF Spec

-----------------------------------------------------------------------------
(* QdrantStore: what a reindex leaves behind.                               *)

ReindexLabels == {"idle", "refused", "scroll", "copy", "switch", "record", "rollback",
                  "discard", "failed", "done"}
CollectionNames == {"kb", "kb_v1", NoAlias} \cup Reindexers
ReindexRuns == [pc : ReindexLabels, source : CollectionNames, todo : SUBSET Tagged, copied : Nat,
                dryRun : BOOLEAN, switched : BOOLEAN, cleaned : BOOLEAN]

IsFunction(f) == f = [x \in DOMAIN f |-> f[x]]

ReindexTyped ==
  /\ IsFunction(colls)
  /\ aliasOf \in CollectionNames
  /\ reindex \in [Reindexers -> ReindexRuns]

\* The copy of r is there, and holds points of the document.
Complete(r) == r \in DOMAIN colls /\ colls[r] \cap Tagged # {}

\* What is so of run r at each of its labels.
RunIsTrue(r) ==
  /\ reindex[r].pc \notin {"record", "done"} => ~reindex[r].switched
  /\ reindex[r].pc \in {"idle", "refused"} => r \notin DOMAIN colls
  /\ reindex[r].pc \in {"scroll", "copy", "switch"} => r \in DOMAIN colls
  /\ reindex[r].pc = "scroll" => reindex[r].copied = 0
  /\ reindex[r].pc = "copy" /\ reindex[r].copied # 0 => Complete(r)
  /\ reindex[r].pc = "switch" => Complete(r) /\ ~reindex[r].dryRun
  /\ reindex[r].switched => Complete(r) /\ ~reindex[r].dryRun
  /\ reindex[r].pc \in {"record", "done", "failed"} /\ ~reindex[r].switched =>
       (reindex[r].cleaned => r \notin DOMAIN colls)

QdrantInv ==
  /\ \A r \in Reindexers : RunIsTrue(r)
  /\ \A row \in jobRows : row.status = "completed" =>
       row.run \in Reindexers /\ reindex[row.run].switched

LEMMA QdrantInitInv == Q!QdInit => ReindexTyped /\ QdrantInv
  <1> SUFFICES ASSUME Q!QdInit PROVE ReindexTyped /\ QdrantInv
    OBVIOUS
  <1>1. Q!Start \in ReindexRuns /\ Q!Start.pc = "idle" /\ Q!Start.switched = FALSE
    BY DEF Q!Start, Q!Main, ReindexRuns, ReindexLabels, CollectionNames
  <1>2. reindex = [r \in Reindexers |-> Q!Start] /\ jobRows = {}
    BY DEF Q!QdInit
  <1>3. /\ IsFunction(colls) /\ DOMAIN colls \cap Reindexers = {}
        /\ aliasOf \in CollectionNames
    <2>1. PICK held \in SUBSET Points :
            \/ colls = [n \in {} |-> {}] /\ aliasOf = NoAlias
            \/ colls = [n \in {"kb"} |-> held] /\ aliasOf = NoAlias
            \/ colls = [n \in {"kb_v1"} |-> held] /\ aliasOf = "kb_v1"
      BY DEF Q!QdInit, Q!Main, Q!Older
    <2> QED BY <2>1, ServicesAssumption DEF CollectionNames, IsFunction
  <1>4. ReindexTyped
    BY <1>1, <1>2, <1>3 DEF ReindexTyped
  <1>5. QdrantInv
    BY <1>1, <1>2, <1>3 DEF QdrantInv, RunIsTrue
  <1> QED BY <1>4, <1>5

\* A step that leaves a run and its collection alone, but for points that are added, keeps
\* what is so of it.
LEMMA RunStays ==
  ASSUME NEW r \in Reindexers, RunIsTrue(r), reindex'[r] = reindex[r],
         r \in DOMAIN colls' <=> r \in DOMAIN colls,
         r \in DOMAIN colls => colls[r] \subseteq colls'[r]
  PROVE  RunIsTrue(r)'
  BY DEF RunIsTrue, Complete

\* So it is of every run when a step adds points at most.
Grows ==
  /\ DOMAIN colls' \cap Reindexers = DOMAIN colls \cap Reindexers
  /\ \A n \in DOMAIN colls \cap Reindexers : colls[n] \subseteq colls'[n]

LEMMA WriterSteps ==
  ASSUME ReindexTyped, QdrantInv, NEW w \in Writers,
         Q!CheckSchema(w) \/ Q!DropCollection(w) \/ Q!CreateCollection(w) \/ Q!Store(w)
  PROVE  ReindexTyped' /\ QdrantInv'
  <1>1. UNCHANGED <<aliasOf, reindex, jobRows>>
    BY DEF Q!CheckSchema, Q!DropCollection, Q!CreateCollection, Q!Store
  <1>2. IsFunction(colls)' /\ Grows
    <2>1. CASE UNCHANGED colls
      BY <2>1 DEF ReindexTyped, Grows, IsFunction
    <2>2. CASE colls' = Q!Without("kb")
      BY <2>2, ServicesAssumption DEF Q!Without, ReindexTyped, Grows, IsFunction
    <2>3. CASE colls' = Q!Created("kb")
      BY <2>3, ServicesAssumption DEF Q!Created, ReindexTyped, Grows, IsFunction
    <2>4. CASE Q!Store(w) /\ Q!Exists("kb")
      <3> DEFINE name == Q!Reached("kb")
                 point == writing[w].point
      <3>1. name \in DOMAIN colls /\ colls' = [colls EXCEPT ![name] = @ \cup {point}]
        BY <2>4 DEF Q!Store, Q!Exists, Q!PutPoint, Q!Main
      <3> HIDE DEF name, point
      <3> QED BY <3>1 DEF ReindexTyped, Grows, IsFunction
    <2> QED BY <2>1, <2>2, <2>3, <2>4
            DEF Q!CheckSchema, Q!DropCollection, Q!CreateCollection, Q!Store, Q!Main
  <1>3. ReindexTyped'
    BY <1>1, <1>2 DEF ReindexTyped
  <1>4. \A r \in Reindexers : RunIsTrue(r)'
    BY <1>1, <1>2, RunStays DEF Grows, QdrantInv
  <1> QED BY <1>1, <1>3, <1>4 DEF QdrantInv

\* A step of run r: the other runs stay if their collections do.
LEMMA RunSteps ==
  ASSUME ReindexTyped, QdrantInv, NEW r \in Reindexers,
         NEW new \in ReindexRuns, reindex' = [reindex EXCEPT ![r] = new],
         IsFunction(colls)', aliasOf' \in CollectionNames,
         \A n \in Reindexers \ {r} : n \in DOMAIN colls' <=> n \in DOMAIN colls,
         \A n \in Reindexers \ {r} : n \in DOMAIN colls => colls'[n] = colls[n],
         reindex[r].switched => new.switched,
         \A row \in jobRows' \ jobRows : row.status = "completed" => row.run = r /\ new.switched,
         RunIsTrue(r)'
  PROVE  ReindexTyped' /\ QdrantInv'
  <1>1. reindex'[r] = new /\ \A n \in Reindexers \ {r} : reindex'[n] = reindex[n]
    BY DEF ReindexTyped
  <1>2. ReindexTyped'
    BY DEF ReindexTyped
  <1>3. ASSUME NEW n \in Reindexers PROVE RunIsTrue(n)'
    <2>1. CASE n # r
      BY <2>1, <1>1, RunStays DEF QdrantInv
    <2> QED BY <2>1
  <1>4. ASSUME NEW row \in jobRows', row.status = "completed"
        PROVE  row.run \in Reindexers /\ reindex'[row.run].switched
    <2>1. CASE row \in jobRows
      <3>1. row.run \in Reindexers /\ reindex[row.run].switched
        BY <2>1, <1>4 DEF QdrantInv
      <3> QED BY <3>1, <1>1
    <2>2. CASE row \notin jobRows
      BY <2>2, <1>1, <1>4
    <2> QED BY <2>1, <2>2
  <1> QED BY <1>2, <1>3, <1>4 DEF QdrantInv

\* What is left to show of such a step that leaves the collections and the jobs alone.
LEMMA RunMoves ==
  ASSUME ReindexTyped, QdrantInv, NEW r \in Reindexers,
         NEW new \in ReindexRuns, Q!Moves(r, new),
         UNCHANGED <<colls, jobRows>>, aliasOf' \in CollectionNames,
         reindex[r].switched => new.switched,
         RunIsTrue(r)'
  PROVE  ReindexTyped' /\ QdrantInv'
  <1>1. reindex' = [reindex EXCEPT ![r] = new] /\ IsFunction(colls)'
    BY DEF Q!Moves, ReindexTyped
  <1> QED BY <1>1, RunSteps

\* The run of a step has these fields, and the others it had.
Now(r, new, label) ==
  /\ new \in ReindexRuns /\ new.pc = label
  /\ new.dryRun = reindex[r].dryRun /\ new.switched = reindex[r].switched
  /\ new.cleaned = reindex[r].cleaned /\ new.copied = reindex[r].copied

LEMMA MovesTo ==
  ASSUME ReindexTyped, NEW r \in Reindexers, NEW label \in ReindexLabels
  PROVE  /\ [reindex[r] EXCEPT !.pc = label] \in ReindexRuns
         /\ Now(r, [reindex[r] EXCEPT !.pc = label], label)
  BY DEF ReindexTyped, ReindexRuns, Now

LEMMA RunMoved ==
  ASSUME ReindexTyped, NEW r \in Reindexers, NEW new, Q!Moves(r, new)
  PROVE  reindex'[r] = new
  BY DEF ReindexTyped, Q!Moves

LEMMA BeginKeeps ==
  ASSUME ReindexTyped, QdrantInv, NEW r \in Reindexers, NEW dry \in BOOLEAN, Q!Begin(r, dry)
  PROVE  ReindexTyped' /\ QdrantInv'
  <1> DEFINE source == IF requestErrors' # requestErrors THEN "kb" ELSE Q!Reached("kb")
             label == IF Q!Exists(source) THEN "scroll" ELSE "refused"
             new == [Q!Start EXCEPT !.pc = label, !.source = source, !.dryRun = dry]
  <1>1. /\ reindex[r].pc = "idle" /\ Q!Moves(r, new) /\ UNCHANGED <<aliasOf, jobRows>>
        /\ colls' = IF Q!Exists(source) THEN Q!Created(r) ELSE colls
    BY DEF Q!Begin, Q!RunAt, Q!Main
  <1>2. source \in CollectionNames
    BY DEF Q!Reached, Q!Main, ReindexTyped, CollectionNames
  <1>3. label \in {"scroll", "refused"}
    OBVIOUS
  <1>4. ~reindex[r].switched /\ r \notin DOMAIN colls
    BY <1>1 DEF QdrantInv, RunIsTrue
  <1>5. label = "scroll" => colls' = Q!Created(r)
    BY <1>1
  <1>6. label = "refused" => colls' = colls
    BY <1>1
  <1> HIDE DEF source, label
  <1>7. new \in ReindexRuns /\ new.pc = label /\ new.copied = 0 /\ new.switched = FALSE
    BY <1>2, <1>3 DEF Q!Start, Q!Main, ReindexRuns, ReindexLabels, CollectionNames
  <1> HIDE DEF new
  <1>8. reindex'[r] = new
    BY <1>1, RunMoved
  <1>9. /\ IsFunction(colls)' /\ (r \in DOMAIN colls' <=> label = "scroll")
        /\ \A n \in Reindexers \ {r} : n \in DOMAIN colls' <=> n \in DOMAIN colls
        /\ \A n \in Reindexers \ {r} : n \in DOMAIN colls => colls'[n] = colls[n]
    BY <1>3, <1>4, <1>5, <1>6 DEF Q!Created, ReindexTyped, IsFunction
  <1>10. RunIsTrue(r)'
    BY <1>3, <1>7, <1>8, <1>9 DEF RunIsTrue
  <1>11. aliasOf' \in CollectionNames
    BY <1>1 DEF ReindexTyped
  <1> QED BY <1>1, <1>4, <1>7, <1>9, <1>10, <1>11, RunSteps DEF Q!Moves

LEMMA ScrollKeeps ==
  ASSUME ReindexTyped, QdrantInv, NEW r \in Reindexers, Q!Scroll(r)
  PROVE  ReindexTyped' /\ QdrantInv'
  <1> DEFINE todo == colls[Q!Reached(reindex[r].source)] \cap Tagged
  <1>1. reindex[r].pc = "scroll" /\ UNCHANGED <<colls, aliasOf, jobRows>> /\ aliasOf' \in CollectionNames
    BY DEF Q!Scroll, Q!RunAt, ReindexTyped
  <1>2. ~reindex[r].switched /\ r \in DOMAIN colls /\ reindex[r].copied = 0
    BY <1>1 DEF QdrantInv, RunIsTrue
  <1>3. CASE Q!Exists(reindex[r].source)
    <2> DEFINE new == [reindex[r] EXCEPT !.pc = "copy", !.todo = todo]
    <2>1. Q!Moves(r, new)
      BY <1>3 DEF Q!Scroll
    <2>2. todo \in SUBSET Tagged
      OBVIOUS
    <2> HIDE DEF todo
    <2>3. /\ new \in ReindexRuns /\ new.pc = "copy" /\ new.copied = reindex[r].copied
          /\ new.switched = reindex[r].switched
      BY <2>2 DEF ReindexTyped, ReindexRuns, ReindexLabels
    <2> HIDE DEF new
    <2>4. reindex'[r] = new
      BY <2>1, RunMoved
    <2>5. RunIsTrue(r)'
      BY <1>1, <1>2, <2>3, <2>4 DEF RunIsTrue
    <2> QED BY <1>1, <1>2, <2>1, <2>3, <2>5, RunMoves
  <1>4. CASE ~Q!Exists(reindex[r].source)
    <2> DEFINE new == [reindex[r] EXCEPT !.pc = "rollback"]
    <2>1. Q!Moves(r, new)
      BY <1>4 DEF Q!Scroll
    <2>2. new \in ReindexRuns /\ Now(r, new, "rollback")
      BY MovesTo DEF ReindexLabels
    <2> HIDE DEF new
    <2>3. reindex'[r] = new
      BY <2>1, RunMoved
    <2>4. RunIsTrue(r)'
      BY <1>1, <1>2, <2>2, <2>3 DEF RunIsTrue, Now
    <2> QED BY <1>1, <1>2, <2>1, <2>2, <2>4, RunMoves
  <1> QED BY <1>3, <1>4

LEMMA CopyOneKeeps ==
  ASSUME ReindexTyped, QdrantInv, NEW r \in Reindexers, Q!CopyOne(r)
  PROVE  ReindexTyped' /\ QdrantInv'
  <1>1. PICK p \in reindex[r].todo :
          /\ colls' = [colls EXCEPT ![r] = @ \cup {p}]
          /\ Q!Moves(r, [reindex[r] EXCEPT !.todo = @ \ {p}, !.copied = @ + 1])
    BY DEF Q!CopyOne
  <1>2. reindex[r].pc = "copy" /\ UNCHANGED <<aliasOf, jobRows>> /\ aliasOf' \in CollectionNames
    BY DEF Q!CopyOne, Q!RunAt, ReindexTyped
  <1>3. ~reindex[r].switched /\ r \in DOMAIN colls
    BY <1>2 DEF QdrantInv, RunIsTrue
  <1> DEFINE left == reindex[r].todo \ {p}
             more == reindex[r].copied + 1
             new == [reindex[r] EXCEPT !.todo = left, !.copied = more]
  <1>4. reindex[r] \in ReindexRuns
    BY DEF ReindexTyped
  <1>5. left \in SUBSET Tagged /\ more \in Nat /\ more # 0 /\ p \in Tagged
    BY <1>4 DEF ReindexRuns
  <1>6. Q!Moves(r, new)
    BY <1>1, <1>4 DEF ReindexRuns
  <1> HIDE DEF left, more
  <1>7. /\ new \in ReindexRuns /\ new.pc = "copy" /\ new.copied # 0
        /\ new.switched = reindex[r].switched
    BY <1>2, <1>4, <1>5 DEF ReindexRuns
  <1> HIDE DEF new
  <1>8. reindex'[r] = new
    BY <1>6, RunMoved
  <1>9. /\ IsFunction(colls)' /\ DOMAIN colls' = DOMAIN colls
        /\ \A n \in Reindexers \ {r} : n \in DOMAIN colls => colls'[n] = colls[n]
        /\ p \in colls'[r]
    BY <1>1, <1>3 DEF ReindexTyped, IsFunction
  <1>10. Complete(r)'
    BY <1>3, <1>5, <1>9 DEF Complete
  <1>11. RunIsTrue(r)'
    BY <1>3, <1>7, <1>8, <1>9, <1>10 DEF RunIsTrue
  <1> QED BY <1>2, <1>3, <1>6, <1>7, <1>9, <1>11, RunSteps DEF Q!Moves

\* The steps that only move on: a failed copy, and what is decided after the last point.
LEMMA LabelSteps ==
  ASSUME ReindexTyped, QdrantInv, NEW r \in Reindexers, Q!CopyFails(r) \/ Q!Verify(r)
  PROVE  ReindexTyped' /\ QdrantInv'
  <1>1. reindex[r].pc = "copy" /\ UNCHANGED <<colls, aliasOf, jobRows>> /\ aliasOf' \in CollectionNames
    BY DEF Q!CopyFails, Q!Verify, Q!RunAt, ReindexTyped
  <1>2. /\ ~reindex[r].switched /\ r \in DOMAIN colls
        /\ reindex[r].copied # 0 => Complete(r)
    BY <1>1 DEF QdrantInv, RunIsTrue
  <1>3. PICK label \in {"rollback", "discard", "switch"} :
          /\ Q!Moves(r, [reindex[r] EXCEPT !.pc = label])
          /\ label = "switch" => reindex[r].copied # 0 /\ ~reindex[r].dryRun
    <2>1. CASE Q!CopyFails(r)
      BY <2>1 DEF Q!CopyFails
    <2>2. CASE Q!Verify(r)
      BY <2>2 DEF Q!Verify
    <2> QED BY <2>1, <2>2
  <1> DEFINE new == [reindex[r] EXCEPT !.pc = label]
  <1>4. new \in ReindexRuns /\ Now(r, new, label) /\ Q!Moves(r, new)
    BY <1>3, MovesTo DEF ReindexLabels
  <1> HIDE DEF new
  <1>5. reindex'[r] = new
    BY <1>4, RunMoved
  <1>6. RunIsTrue(r)'
    BY <1>1, <1>2, <1>3, <1>4, <1>5 DEF RunIsTrue, Now, Complete
  <1> QED BY <1>1, <1>2, <1>4, <1>6, RunMoves

LEMMA SwitchKeeps ==
  ASSUME ReindexTyped, QdrantInv, NEW r \in Reindexers, Q!SwitchAlias(r)
  PROVE  ReindexTyped' /\ QdrantInv'
  <1>1. reindex[r].pc = "switch" /\ UNCHANGED <<colls, jobRows>> /\ aliasOf' \in CollectionNames
    BY DEF Q!SwitchAlias, Q!RunAt, ReindexTyped, CollectionNames
  <1>2. ~reindex[r].switched /\ Complete(r) /\ ~reindex[r].dryRun
    BY <1>1 DEF QdrantInv, RunIsTrue
  <1>3. CASE Q!Moves(r, [reindex[r] EXCEPT !.pc = "record", !.switched = TRUE])
    <2> DEFINE new == [reindex[r] EXCEPT !.pc = "record", !.switched = TRUE]
    <2>1. /\ new \in ReindexRuns /\ new.pc = "record" /\ new.switched = TRUE
          /\ new.dryRun = reindex[r].dryRun
      BY DEF ReindexTyped, ReindexRuns, ReindexLabels
    <2> HIDE DEF new
    <2>2. reindex'[r] = new
      BY <1>3, RunMoved DEF new
    <2>3. RunIsTrue(r)'
      BY <1>1, <1>2, <2>1, <2>2 DEF RunIsTrue, Complete
    <2> QED BY <1>1, <1>2, <1>3, <2>1, <2>3, RunMoves DEF new
  <1>4. CASE Q!Moves(r, [reindex[r] EXCEPT !.pc = "rollback"])
    <2> DEFINE new == [reindex[r] EXCEPT !.pc = "rollback"]
    <2>1. new \in ReindexRuns /\ Now(r, new, "rollback")
      BY MovesTo DEF ReindexLabels
    <2> HIDE DEF new
    <2>2. reindex'[r] = new
      BY <1>4, RunMoved DEF new
    <2>3. RunIsTrue(r)'
      BY <1>1, <1>2, <2>1, <2>2 DEF RunIsTrue, Now
    <2> QED BY <1>1, <1>2, <1>4, <2>1, <2>3, RunMoves DEF new
  <1> QED BY <1>3, <1>4 DEF Q!SwitchAlias

LEMMA CleanupKeeps ==
  ASSUME ReindexTyped, QdrantInv, NEW r \in Reindexers, Q!Cleanup(r)
  PROVE  ReindexTyped' /\ QdrantInv'
  <1> DEFINE label == IF reindex[r].pc = "discard" THEN "record" ELSE "failed"
  <1>1. reindex[r].pc \in {"rollback", "discard"} /\ UNCHANGED jobRows
    BY DEF Q!Cleanup
  <1>2. ~reindex[r].switched /\ reindex[r] \in ReindexRuns /\ label \in {"record", "failed"}
    BY <1>1 DEF QdrantInv, RunIsTrue, ReindexTyped
  <1>3. CASE /\ colls' = Q!Without(r) /\ aliasOf' = IF aliasOf = r THEN NoAlias ELSE aliasOf
             /\ Q!Moves(r, [reindex[r] EXCEPT !.pc = IF @ = "discard" THEN "record" ELSE "failed"])
    <2> DEFINE new == [reindex[r] EXCEPT !.pc = label]
    <2>1. Q!Moves(r, new)
      BY <1>2, <1>3 DEF ReindexRuns
    <2> HIDE DEF label
    <2>2. new \in ReindexRuns /\ Now(r, new, label)
      BY <1>2, MovesTo DEF ReindexLabels
    <2> HIDE DEF new
    <2>3. reindex'[r] = new
      BY <2>1, RunMoved
    <2>4. /\ IsFunction(colls)' /\ r \notin DOMAIN colls' /\ aliasOf' \in CollectionNames
          /\ \A n \in Reindexers \ {r} : n \in DOMAIN colls' <=> n \in DOMAIN colls
          /\ \A n \in Reindexers \ {r} : n \in DOMAIN colls => colls'[n] = colls[n]
      BY <1>3 DEF Q!Without, ReindexTyped, CollectionNames, IsFunction
    <2>5. RunIsTrue(r)'
      BY <1>2, <2>2, <2>3, <2>4 DEF RunIsTrue, Now
    <2> QED BY <1>1, <1>2, <2>1, <2>2, <2>4, <2>5, RunSteps DEF Q!Moves
  <1>4. CASE /\ UNCHANGED <<colls, aliasOf>>
             /\ Q!Moves(r, [reindex[r] EXCEPT !.pc = IF @ = "discard" THEN "record" ELSE "failed",
                                              !.cleaned = FALSE])
    <2> DEFINE new == [reindex[r] EXCEPT !.pc = label, !.cleaned = FALSE]
    <2>1. Q!Moves(r, new)
      BY <1>2, <1>4 DEF ReindexRuns
    <2> HIDE DEF label
    <2>2. /\ new \in ReindexRuns /\ new.pc = label /\ new.cleaned = FALSE
          /\ new.switched = reindex[r].switched
      BY <1>2 DEF ReindexRuns, ReindexLabels
    <2> HIDE DEF new
    <2>3. reindex'[r] = new
      BY <2>1, RunMoved
    <2>4. aliasOf' \in CollectionNames
      BY <1>4 DEF ReindexTyped
    <2>5. RunIsTrue(r)'
      BY <1>2, <1>4, <2>2, <2>3 DEF RunIsTrue
    <2> QED BY <1>1, <1>2, <1>4, <2>1, <2>2, <2>4, <2>5, RunMoves
  <1> QED BY <1>3, <1>4 DEF Q!Cleanup

LEMMA RecordKeeps ==
  ASSUME ReindexTyped, QdrantInv, NEW r \in Reindexers, Q!Record(r)
  PROVE  ReindexTyped' /\ QdrantInv'
  <1> DEFINE new == [reindex[r] EXCEPT !.pc = "done"]
             job == [run |-> r, status |-> IF reindex[r].switched THEN "completed" ELSE "dry_run"]
  <1>1. /\ reindex[r].pc = "record" /\ Q!Moves(r, new) /\ UNCHANGED <<colls, aliasOf>>
        /\ jobRows' \subseteq jobRows \cup {job}
    BY DEF Q!Record, Q!RunAt
  <1>2. job.run = r /\ (job.status = "completed" => reindex[r].switched)
    OBVIOUS
  <1>3. new \in ReindexRuns /\ Now(r, new, "done")
    BY MovesTo DEF ReindexLabels
  <1> HIDE DEF new, job
  <1>4. reindex'[r] = new
    BY <1>1, RunMoved
  <1>5. RunIsTrue(r)'
    BY <1>1, <1>3, <1>4 DEF QdrantInv, RunIsTrue, Now, Complete
  <1>6. IsFunction(colls)' /\ aliasOf' \in CollectionNames
    BY <1>1 DEF ReindexTyped
  <1>7. \A row \in jobRows' \ jobRows : row.status = "completed" => row.run = r /\ new.switched
    BY <1>1, <1>2, <1>3 DEF Now
  <1>8. reindex[r].switched => new.switched
    BY <1>3 DEF Now
  <1> QED BY <1>1, <1>3, <1>5, <1>6, <1>7, <1>8, RunSteps DEF Q!Moves

LEMMA QdrantStep ==
  ASSUME ReindexTyped, QdrantInv, Q!QdNext PROVE ReindexTyped' /\ QdrantInv'
  BY WriterSteps, BeginKeeps, ScrollKeeps, CopyOneKeeps, LabelSteps, SwitchKeeps,
     CleanupKeeps,
     RecordKeeps DEF Q!QdNext

LEMMA QdrantHolds == ReindexTyped /\ QdrantInv => Q!ReindexIsAllOrNothing
  <1> SUFFICES ASSUME QdrantInv PROVE Q!ReindexIsAllOrNothing
    OBVIOUS
  <1>1. \A r \in Reindexers : reindex[r].pc \in {"done", "failed"} =>
          IF reindex[r].switched
          THEN ~reindex[r].dryRun /\ r \in DOMAIN colls /\ colls[r] \cap Tagged # {}
          ELSE reindex[r].cleaned => r \notin DOMAIN colls
    BY DEF QdrantInv, RunIsTrue, Complete
  <1>2. \A row \in jobRows : row.status = "completed" => row.run \in DOMAIN colls
    BY DEF QdrantInv, RunIsTrue, Complete
  <1> QED BY <1>1, <1>2 DEF Q!ReindexIsAllOrNothing

\* However many reindex runs, writers and request errors meet: a run that switched the alias
\* has its collection in place, holding the document, a run that did not and could clean up
\* leaves none behind, and a job row says completed only of the former
\* (app/services/reindex_service.py).
THEOREM ReindexesAreAllOrNothing == Spec => []ReindexIsAllOrNothing
  <1> DEFINE Here == scene = "qdrant" => (ReindexTyped /\ QdrantInv)
  <1>1. Init => Here
    BY QdrantInitInv DEF Init
  <1>2. Here /\ [Next]_vars => Here'
    <2> SUFFICES ASSUME Here, [Next]_vars, scene' = "qdrant" PROVE (ReindexTyped /\ QdrantInv)'
      OBVIOUS
    <2>1. CASE Apart("qdrant") /\ Q!QdNext
      BY <2>1, QdrantStep DEF Apart
    <2>2. CASE UNCHANGED <<scene, qdrantVars>>
      BY <2>2 DEF qdrantVars, ReindexTyped, QdrantInv, RunIsTrue, Complete, IsFunction
    <2> QED BY <2>1, <2>2 DEF Next, vars, Apart
  <1>3. Here => ReindexIsAllOrNothing
    BY QdrantHolds DEF ReindexIsAllOrNothing
  <1> QED BY <1>1, <1>2, <1>3, PTL DEF Spec

-----------------------------------------------------------------------------
(* LegacyKb: what the stores of the compatibility service tell.             *)

LegacyLabels == {"idle", "file", "index", "generate", "summarize", "remember"}
LegacyRuns == [pc : LegacyLabels, todo : Seq(Y!LegacyFiles), recalled : SUBSET Nat,
               hits : SUBSET Nat]
FilePaths == [name : {"a", "b"}, stamp : Nat]

LegacyTyped ==
  /\ files \in [DOMAIN files -> Nat] /\ DOMAIN files \subseteq FilePaths
  /\ fallbackIndex \subseteq Nat
  /\ exchanges \in Seq(Nat) /\ memory \in Seq(Nat)
  /\ legacy \in LegacyRuns
  /\ legacyCalls \in Nat /\ legacyCalls <= MaxLegacyCalls

\* The files the call under way may still save.
ToSave == CASE legacy.pc = "file" -> Len(legacy.todo)
            [] legacy.pc = "index" -> Len(legacy.todo) - 1
            [] OTHER -> 0

\* The stamps of a name are used from zero on, one for each file saved under it.
StampsTaken(used) ==
  /\ \A name \in {"a", "b"} : \A s \in Nat :
       [name |-> name, stamp |-> s] \in DOMAIN files <=> s < used[name]
  /\ used["a"] + used["b"] + ToSave <= 2 * legacyCalls

FilesInv ==
  /\ \E used \in [{"a", "b"} -> Nat] : StampsTaken(used)
  /\ legacy.pc \in {"file", "index"} => legacy.todo # <<>> /\ Len(legacy.todo) <= 2
  /\ legacy.pc = "index" => \E p \in DOMAIN files : files[p] = legacyCalls
  /\ \A c \in indexed \cup fallbackIndex : \E p \in DOMAIN files : files[p] = c

MemoryInv ==
  /\ \A i \in DOMAIN memory : \E j \in DOMAIN exchanges : exchanges[j] = memory[i]
  /\ \A i, j \in DOMAIN memory : i < j => memory[i] < memory[j]
  /\ \A i \in DOMAIN memory : memory[i] <= legacyCalls
  /\ legacy.pc \in {"generate", "summarize", "remember"} =>
       \A i \in DOMAIN memory : memory[i] < legacyCalls
  /\ legacy.pc \in {"summarize", "remember"} =>
       \E j \in DOMAIN exchanges : exchanges[j] = legacyCalls

LegacyInv == LegacyTyped /\ FilesInv /\ MemoryInv

LEMMA NoCallTyped ==
  /\ Y!NoCall \in LegacyRuns /\ Y!NoCall.pc = "idle"
  /\ [Y!NoCall EXCEPT !.pc = "idle"] = Y!NoCall
  BY DEF Y!NoCall, LegacyRuns, LegacyLabels

LEMMA LegacyInitInv == Y!LegacyInit => LegacyInv
  <1> SUFFICES ASSUME Y!LegacyInit PROVE LegacyInv
    OBVIOUS
  <1>1. /\ files = [p \in {} |-> 0] /\ indexed = {} /\ fallbackIndex = {}
        /\ exchanges = <<>> /\ memory = <<>> /\ legacy = Y!NoCall /\ legacyCalls = 0
    BY DEF Y!LegacyInit
  <1>2. DOMAIN files = {} /\ files \in [DOMAIN files -> Nat]
    BY <1>1
  <1>3. exchanges \in Seq(Nat) /\ memory \in Seq(Nat) /\ DOMAIN memory = {}
    BY <1>1
  <1>4. legacy \in LegacyRuns /\ legacy.pc = "idle"
    BY <1>1, NoCallTyped
  <1>5. LegacyTyped
    BY <1>1, <1>2, <1>3, <1>4, ServicesAssumption DEF LegacyTyped
  <1>6. ToSave = 0
    BY <1>4 DEF ToSave
  <1> DEFINE none == [n \in {"a", "b"} |-> 0]
  <1>7. none \in [{"a", "b"} -> Nat] /\ StampsTaken(none)
    BY <1>1, <1>2, <1>6 DEF StampsTaken
  <1>8. FilesInv
    <2> HIDE DEF none
    <2> QED BY <1>1, <1>4, <1>7 DEF FilesInv
  <1>9. MemoryInv
    BY <1>3, <1>4 DEF MemoryInv
  <1> QED BY <1>5, <1>8, <1>9 DEF LegacyInv

\* The next label, the rest of the call as it was.
LEMMA ContinueEffect ==
  ASSUME LegacyTyped, NEW pc \in LegacyLabels, Y!Continue(pc)
  PROVE  legacy' \in LegacyRuns /\ legacy'.pc = pc /\ legacy'.todo = legacy.todo
  BY DEF Y!Continue, LegacyTyped, LegacyRuns

\* A call that ends or goes on without a file it could save.
LEMMA FilesStay ==
  ASSUME FilesInv, legacy'.pc \notin {"file", "index"},
         UNCHANGED <<files, indexed>>, fallbackIndex' \subseteq fallbackIndex,
         LegacyTyped, LegacyTyped', legacyCalls <= legacyCalls'
  PROVE  FilesInv'
  <1>1. PICK used \in [{"a", "b"} -> Nat] : StampsTaken(used)
    BY DEF FilesInv
  <1>2. ToSave' = 0
    BY DEF ToSave
  <1>3. ToSave \in Nat
    <2>1. Len(legacy.todo) \in Nat /\ (legacy.pc = "index" => Len(legacy.todo) # 0)
      BY DEF FilesInv, LegacyTyped, LegacyRuns
    <2> QED BY <2>1 DEF ToSave
  <1>4. used["a"] \in Nat /\ used["b"] \in Nat /\ legacyCalls \in Nat /\ legacyCalls' \in Nat
    BY DEF LegacyTyped
  <1>5. used["a"] + used["b"] + ToSave' <= 2 * legacyCalls'
    BY <1>1, <1>2, <1>3, <1>4 DEF StampsTaken
  <1>6. StampsTaken(used)'
    BY <1>1, <1>5 DEF StampsTaken
  <1> QED BY <1>6 DEF FilesInv

LEMMA MemoryStays ==
  ASSUME MemoryInv, legacy'.pc \notin {"generate", "summarize", "remember"},
         UNCHANGED <<exchanges, memory>>, LegacyTyped, LegacyTyped', legacyCalls <= legacyCalls'
  PROVE  MemoryInv'
  BY DEF MemoryInv, LegacyTyped

\* A call that ends, with the fallback list or without.
LEMMA CallEnds ==
  ASSUME LegacyInv, legacy' = Y!NoCall, UNCHANGED <<files, indexed, exchanges, memory, legacyCalls>>,
         fallbackIndex' \subseteq fallbackIndex
  PROVE  LegacyInv'
  <1>1. LegacyTyped'
    BY NoCallTyped DEF LegacyInv, LegacyTyped
  <1>2. FilesInv' /\ MemoryInv'
    <2>1. legacy'.pc = "idle"
      BY NoCallTyped
    <2>2. legacyCalls <= legacyCalls'
      BY DEF LegacyInv, LegacyTyped
    <2>3. FilesInv'
      BY <1>1, <2>1, <2>2, FilesStay DEF LegacyInv
    <2>4. MemoryInv'
      BY <1>1, <2>1, <2>2, MemoryStays DEF LegacyInv
    <2> QED BY <2>3, <2>4
  <1> QED BY <1>1, <1>2 DEF LegacyInv

LEMMA BeginsKeeps ==
  ASSUME LegacyInv, NEW new \in LegacyRuns, Y!Begins(new),
         \/ new.pc = "file" /\ new.todo # <<>> /\ Len(new.todo) <= 2
         \/ new.pc = "generate"
  PROVE  LegacyInv'
  <1>1. /\ legacy.pc = "idle" /\ legacyCalls < MaxLegacyCalls /\ legacyCalls' = legacyCalls + 1
        /\ legacy' = new
        /\ UNCHANGED <<files, indexed, fallbackIndex, exchanges, memory>>
    BY DEF Y!Begins, Y!LegacyAt, Y!uploads, Y!chats
  <1>2. LegacyTyped'
    BY <1>1, ServicesAssumption DEF LegacyInv, LegacyTyped
  <1>3. PICK used \in [{"a", "b"} -> Nat] : StampsTaken(used)
    BY DEF LegacyInv, FilesInv
  <1>4. ToSave = 0
    BY <1>1 DEF ToSave
  <1>5. ToSave' \in Nat /\ ToSave' <= 2
    <2>1. Len(new.todo) \in Nat
      BY DEF LegacyRuns
    <2> QED BY <1>1, <2>1 DEF ToSave
  <1>6. used["a"] + used["b"] + ToSave' <= 2 * legacyCalls'
    <2>1. used["a"] \in Nat /\ used["b"] \in Nat /\ legacyCalls \in Nat
      BY DEF LegacyInv, LegacyTyped
    <2>2. used["a"] + used["b"] + ToSave <= 2 * legacyCalls
      BY <1>3 DEF StampsTaken
    <2> QED BY <1>1, <1>4, <1>5, <2>1, <2>2
  <1>7. StampsTaken(used)'
    BY <1>1, <1>3, <1>6 DEF StampsTaken
  <1>8. FilesInv'
    BY <1>1, <1>7 DEF LegacyInv, FilesInv
  <1>9. MemoryInv'
    <2>1. \A i \in DOMAIN memory : memory[i] \in Nat /\ memory[i] <= legacyCalls
      BY DEF LegacyInv, LegacyTyped, MemoryInv
    <2>2. \A i \in DOMAIN memory : memory[i] < legacyCalls'
      BY <1>1, <2>1 DEF LegacyInv, LegacyTyped
    <2>3. \A i \in DOMAIN memory : memory[i] <= legacyCalls'
      BY <1>1, <2>1 DEF LegacyInv, LegacyTyped
    <2> QED BY <1>1, <2>2, <2>3 DEF LegacyInv, MemoryInv
  <1> QED BY <1>2, <1>8, <1>9 DEF LegacyInv

\* The path a new file gets is the first free stamp of its name.
LEMMA FreePathIsNext ==
  ASSUME LegacyInv, NEW used \in [{"a", "b"} -> Nat], StampsTaken(used), ToSave \in Nat \ {0},
         NEW name \in {"a", "b"}
  PROVE  /\ Y!FreePath(name) = [name |-> name, stamp |-> used[name]]
         /\ Y!FreePath(name) \notin DOMAIN files
  <1> DEFINE next == [name |-> name, stamp |-> used[name]]
             Room == [name : {name}, stamp : 0..(2 * MaxLegacyCalls)]
             Free(p) == /\ p \notin DOMAIN files
                        /\ \A s \in 0..(p.stamp - 1) :
                             [name |-> name, stamp |-> s] \in DOMAIN files
  <1>1. used["a"] \in Nat /\ used["b"] \in Nat /\ legacyCalls \in Nat /\ MaxLegacyCalls \in Nat
        /\ legacyCalls <= MaxLegacyCalls
    BY ServicesAssumption DEF LegacyInv, LegacyTyped
  <1>2. used["a"] + used["b"] + ToSave <= 2 * legacyCalls
    BY DEF StampsTaken
  <1>3. used[name] \in 0..(2 * MaxLegacyCalls)
    BY <1>1, <1>2
  <1>4. next \in Room
    BY <1>3
  <1>5. next \notin DOMAIN files
    BY <1>1 DEF StampsTaken
  <1>6. \A s \in 0..(used[name] - 1) : [name |-> name, stamp |-> s] \in DOMAIN files
    BY <1>1 DEF StampsTaken
  <1>7. Free(next)
    BY <1>5, <1>6
  <1>8. ASSUME NEW p \in Room, Free(p) PROVE p = next
    <2>1. p.name = name /\ p.stamp \in Nat /\ p = [name |-> name, stamp |-> p.stamp]
      BY <1>1
    <2>2. ~(p.stamp < used[name])
      BY <1>8, <2>1 DEF StampsTaken
    <2>3. ASSUME used[name] < p.stamp PROVE FALSE
      <3>1. used[name] \in 0..(p.stamp - 1)
        BY <2>1, <2>3, <1>1
      <3>2. next \in DOMAIN files
        BY <1>8, <3>1
      <3> QED BY <3>2, <1>5
    <2>4. p.stamp = used[name]
      BY <2>1, <2>2, <2>3, <1>1
    <2> QED BY <2>1, <2>4
  <1>9. Y!FreePath(name) = CHOOSE p \in Room : Free(p)
    BY DEF Y!FreePath
  <1> HIDE DEF Room, Free
  <1>10. (CHOOSE p \in Room : Free(p)) = next
    BY <1>4, <1>7, <1>8
  <1> QED BY <1>5, <1>9, <1>10

LEMMA SaveFileKeeps == ASSUME LegacyInv, Y!SaveFile PROVE LegacyInv'
  <1>1. /\ legacy.pc = "file" /\ Y!Continue("index")
        /\ files' = Y!Saved(Y!FreePath(Head(legacy.todo).name))
        /\ UNCHANGED <<indexed, fallbackIndex, exchanges, memory, legacyCalls>>
    BY DEF Y!SaveFile, Y!LegacyAt, Y!chats
  <1>2. legacy.todo # <<>> /\ Len(legacy.todo) <= 2 /\ legacy.todo \in Seq(Y!LegacyFiles)
    BY <1>1 DEF LegacyInv, FilesInv, LegacyTyped, LegacyRuns
  <1>3. PICK name \in {"a", "b"} : name = Head(legacy.todo).name
    <2>1. Head(legacy.todo) \in Y!LegacyFiles
      BY <1>2
    <2> QED BY <2>1 DEF Y!LegacyFiles
  <1>4. legacy' \in LegacyRuns /\ legacy'.pc = "index" /\ legacy'.todo = legacy.todo
    BY <1>1, ContinueEffect DEF LegacyInv, LegacyLabels
  <1>5. PICK used \in [{"a", "b"} -> Nat] : StampsTaken(used)
    BY DEF LegacyInv, FilesInv
  <1>6. Len(legacy.todo) \in Nat \ {0} /\ ToSave = Len(legacy.todo)
        /\ ToSave' = Len(legacy.todo) - 1
    <2>1. Len(legacy.todo) \in Nat \ {0}
      BY <1>2
    <2> QED BY <2>1, <1>1, <1>4 DEF ToSave
  <1> DEFINE path == Y!FreePath(name)
  <1>7. path = [name |-> name, stamp |-> used[name]] /\ path \notin DOMAIN files
    BY <1>5, <1>6, FreePathIsNext
  <1> HIDE DEF path
  <1>8. /\ DOMAIN files' = DOMAIN files \cup {path} /\ files'[path] = legacyCalls
        /\ \A p \in DOMAIN files : files'[p] = files[p]
        /\ files' = [p \in DOMAIN files \cup {path} |-> files'[p]]
    BY <1>1, <1>3, <1>7 DEF Y!Saved, path
  <1>9. LegacyTyped'
    <2>1. legacyCalls \in Nat /\ files \in [DOMAIN files -> Nat] /\ DOMAIN files \subseteq FilePaths
      BY DEF LegacyInv, LegacyTyped
    <2>2. path \in FilePaths
      BY <1>3, <1>7 DEF FilePaths
    <2>3. files' \in [DOMAIN files' -> Nat] /\ DOMAIN files' \subseteq FilePaths
      BY <1>8, <2>1, <2>2
    <2> QED BY <1>1, <1>4, <2>3 DEF LegacyInv, LegacyTyped
  <1> DEFINE more == [used EXCEPT ![name] = used[name] + 1]
  <1>10. more \in [{"a", "b"} -> Nat]
    BY <1>3
  <1>11. StampsTaken(more)'
    <2>1. more["a"] + more["b"] = used["a"] + used["b"] + 1
      BY <1>3
    <2>2. used["a"] + used["b"] + ToSave <= 2 * legacyCalls
      BY <1>5 DEF StampsTaken
    <2>3. used["a"] \in Nat /\ used["b"] \in Nat /\ legacyCalls \in Nat
      BY DEF LegacyInv, LegacyTyped
    <2>4. more["a"] + more["b"] + ToSave' <= 2 * legacyCalls'
      BY <1>1, <1>6, <2>1, <2>2, <2>3
    <2>5. ASSUME NEW n \in {"a", "b"}, NEW s \in Nat
          PROVE  [name |-> n, stamp |-> s] \in DOMAIN files' <=> s < more[n]
      <3>1. [name |-> n, stamp |-> s] \in DOMAIN files <=> s < used[n]
        BY <1>5 DEF StampsTaken
      <3>2. [name |-> n, stamp |-> s] = path <=> n = name /\ s = used[name]
        BY <1>7
      <3>3. CASE n = name
        BY <3>1, <3>2, <3>3, <1>3, <1>8
      <3>4. CASE n # name
        BY <3>1, <3>2, <3>4, <1>3, <1>8
      <3> QED BY <3>3, <3>4
    <2> HIDE DEF more
    <2> QED BY <2>4, <2>5 DEF StampsTaken
  <1>12. FilesInv'
    <2>1. \E u \in [{"a", "b"} -> Nat] : StampsTaken(u)'
      <3> HIDE DEF more
      <3> QED BY <1>10, <1>11
    <2>2. \E p \in DOMAIN files' : files'[p] = legacyCalls'
      BY <1>1, <1>8
    <2>3. \A c \in indexed' \cup fallbackIndex' : \E p \in DOMAIN files' : files'[p] = c
      BY <1>1, <1>8 DEF LegacyInv, FilesInv
    <2> HIDE DEF more
    <2> QED BY <1>2, <1>4, <2>1, <2>2, <2>3 DEF FilesInv
  <1>13. MemoryInv'
    BY <1>1, <1>4 DEF LegacyInv, MemoryInv
  <1> QED BY <1>9, <1>12, <1>13 DEF LegacyInv

LEMMA IndexKeeps == ASSUME LegacyInv, Y!Index PROVE LegacyInv'
  <1>1. /\ legacy.pc = "index" /\ UNCHANGED <<files, exchanges, memory, legacyCalls>>
        /\ indexed' \cup fallbackIndex' = indexed \cup fallbackIndex \cup {legacyCalls}
        /\ fallbackIndex' \subseteq fallbackIndex \cup {legacyCalls}
    BY DEF Y!Index, Y!LegacyAt, Y!chats
  <1>2. legacy.todo # <<>> /\ Len(legacy.todo) <= 2 /\ legacy.todo \in Seq(Y!LegacyFiles)
        /\ legacy \in LegacyRuns /\ legacyCalls \in Nat
    BY <1>1 DEF LegacyInv, FilesInv, LegacyTyped, LegacyRuns
  <1>3. PICK used \in [{"a", "b"} -> Nat] : StampsTaken(used)
    BY DEF LegacyInv, FilesInv
  <1>4. ToSave = Len(legacy.todo) - 1
    BY <1>1 DEF ToSave
  <1>5. /\ legacy' \in LegacyRuns /\ legacy'.pc \in {"idle", "file"} /\ ToSave' <= ToSave
        /\ ToSave' \in Nat
        /\ legacy'.pc = "file" => legacy'.todo # <<>> /\ Len(legacy'.todo) <= 2
    <2>1. CASE Len(legacy.todo) = 1
      <3>1. legacy' = Y!NoCall
        BY <2>1 DEF Y!Index
      <3>2. legacy' \in LegacyRuns /\ legacy'.pc = "idle"
        BY <3>1, NoCallTyped
      <3>3. ToSave' = 0
        BY <3>2 DEF ToSave
      <3> QED BY <2>1, <1>4, <3>2, <3>3
    <2>2. CASE Len(legacy.todo) # 1
      <3> DEFINE rest == Tail(legacy.todo)
                 new == [legacy EXCEPT !.pc = "file", !.todo = rest]
      <3>1. legacy' = new
        BY <2>2, <1>2 DEF Y!Index, LegacyRuns
      <3>2. rest \in Seq(Y!LegacyFiles) /\ Len(rest) = Len(legacy.todo) - 1
            /\ Len(legacy.todo) \in Nat \ {0}
        BY <1>2
      <3>3. rest # <<>> /\ Len(rest) <= 2
        <4>1. Len(rest) # Len(<<>>)
          BY <2>2, <3>2
        <4>2. rest # <<>>
          BY <4>1
        <4>3. Len(rest) <= 2
          <5> DEFINE n == Len(legacy.todo)
          <5>1. n \in Nat \ {0} /\ n <= 2 /\ Len(rest) = n - 1
            BY <1>2, <3>2
          <5> HIDE DEF n
          <5> QED BY <5>1
        <4> QED BY <4>2, <4>3
      <3> HIDE DEF rest
      <3>4. new \in LegacyRuns /\ new.pc = "file" /\ new.todo = rest
        BY <1>2, <3>2 DEF LegacyRuns, LegacyLabels
      <3> HIDE DEF new
      <3>5. ToSave' = Len(rest)
        BY <3>1, <3>4 DEF ToSave
      <3> QED BY <3>1, <3>2, <3>3, <3>4, <3>5, <1>4
    <2> QED BY <2>1, <2>2
  <1>6. LegacyTyped'
    BY <1>1, <1>2, <1>5 DEF LegacyInv, LegacyTyped
  <1>7. StampsTaken(used)'
    <2>1. used["a"] + used["b"] + ToSave <= 2 * legacyCalls
      BY <1>3 DEF StampsTaken
    <2>2. ToSave \in Nat /\ used["a"] \in Nat /\ used["b"] \in Nat
      <3>1. Len(legacy.todo) \in Nat \ {0}
        BY <1>2
      <3> QED BY <1>4, <3>1
    <2>3. used["a"] + used["b"] + ToSave' <= 2 * legacyCalls'
      BY <1>1, <1>2, <1>5, <2>1, <2>2
    <2> QED BY <1>1, <1>3, <2>3 DEF StampsTaken
  <1>8. FilesInv'
    <2>1. \A c \in indexed' \cup fallbackIndex' : \E p \in DOMAIN files' : files'[p] = c
      BY <1>1 DEF LegacyInv, FilesInv
    <2>2. legacy'.pc # "index"
      BY <1>5
    <2> QED BY <1>5, <1>7, <2>1, <2>2 DEF FilesInv
  <1>9. MemoryInv'
    BY <1>1, <1>5 DEF LegacyInv, MemoryInv
  <1> QED BY <1>6, <1>8, <1>9 DEF LegacyInv

\* A call of the chat that goes on to another of its labels.
LEMMA ChatGoesOn ==
  ASSUME LegacyInv, NEW pc \in {"summarize", "remember"}, Y!Continue(pc),
         legacy.pc \in {"generate", "summarize"},
         UNCHANGED <<files, indexed, fallbackIndex, memory, legacyCalls>>,
         exchanges' \in Seq(Nat),
         \A j \in DOMAIN exchanges : \E k \in DOMAIN exchanges' : exchanges'[k] = exchanges[j],
         \E k \in DOMAIN exchanges' : exchanges'[k] = legacyCalls
  PROVE  LegacyInv'
  <1>1. legacy' \in LegacyRuns /\ legacy'.pc = pc
    BY ContinueEffect DEF LegacyInv, LegacyLabels
  <1>2. LegacyTyped'
    BY <1>1 DEF LegacyInv, LegacyTyped
  <1>3. FilesInv'
    <2>1. legacyCalls <= legacyCalls'
      BY DEF LegacyInv, LegacyTyped
    <2>2. legacy'.pc \notin {"file", "index"}
      BY <1>1
    <2> QED BY <1>2, <2>1, <2>2, FilesStay DEF LegacyInv
  <1>4. \A i \in DOMAIN memory : \E k \in DOMAIN exchanges' : exchanges'[k] = memory[i]
    BY DEF LegacyInv, MemoryInv
  <1>5. MemoryInv'
    BY <1>1, <1>4 DEF LegacyInv, MemoryInv
  <1> QED BY <1>2, <1>3, <1>5 DEF LegacyInv

LEMMA ExchangeKeeps == ASSUME LegacyInv, Y!Exchange PROVE LegacyInv'
  <1>1. /\ legacy.pc = "generate" /\ exchanges' = Append(exchanges, legacyCalls)
        /\ UNCHANGED <<files, indexed, fallbackIndex, memory, legacyCalls>>
    BY DEF Y!Exchange, Y!LegacyAt, Y!uploads
  <1>2. PICK pc \in {"summarize", "remember"} : Y!Continue(pc)
    BY DEF Y!Exchange
  <1>3. exchanges \in Seq(Nat) /\ legacyCalls \in Nat
    BY DEF LegacyInv, LegacyTyped
  <1>4. /\ exchanges' \in Seq(Nat)
        /\ \A j \in DOMAIN exchanges : j \in DOMAIN exchanges' /\ exchanges'[j] = exchanges[j]
        /\ Len(exchanges) + 1 \in DOMAIN exchanges'
        /\ exchanges'[Len(exchanges) + 1] = legacyCalls
    BY <1>1, <1>3
  <1> QED BY <1>1, <1>2, <1>4, ChatGoesOn

LEMMA SummarizeKeeps == ASSUME LegacyInv, Y!Summarize PROVE LegacyInv'
  <1>1. /\ legacy.pc = "summarize" /\ Y!Continue("remember")
        /\ UNCHANGED <<files, indexed, fallbackIndex, exchanges, memory, legacyCalls>>
    BY DEF Y!Summarize, Y!LegacyAt, Y!uploads
  <1>2. exchanges' \in Seq(Nat) /\ \E k \in DOMAIN exchanges' : exchanges'[k] = legacyCalls
    BY <1>1 DEF LegacyInv, LegacyTyped, MemoryInv
  <1> QED BY <1>1, <1>2, ChatGoesOn

LEMMA RememberKeeps == ASSUME LegacyInv, Y!Remember PROVE LegacyInv'
  <1>1. /\ legacy.pc = "remember" /\ legacy' = Y!NoCall
        /\ UNCHANGED <<files, indexed, fallbackIndex, exchanges, legacyCalls>>
    BY DEF Y!Remember, Y!LegacyAt, Y!uploads
  <1>2. CASE UNCHANGED memory
    BY <1>1, <1>2, CallEnds
  <1>3. CASE memory' = Append(memory, legacyCalls)
    <2>1. memory \in Seq(Nat) /\ legacyCalls \in Nat
      BY DEF LegacyInv, LegacyTyped
    <2>2. /\ memory' \in Seq(Nat) /\ DOMAIN memory' = 1..(Len(memory) + 1)
          /\ DOMAIN memory = 1..Len(memory)
          /\ \A i \in DOMAIN memory : memory'[i] = memory[i] /\ memory[i] \in Nat
          /\ memory'[Len(memory) + 1] = legacyCalls
      BY <1>3, <2>1
    <2>3. LegacyTyped'
      BY <1>1, <2>2, NoCallTyped DEF LegacyInv, LegacyTyped
    <2>4. FilesInv'
      <3>1. legacy'.pc = "idle" /\ legacyCalls <= legacyCalls'
        BY <1>1, <2>1, NoCallTyped
      <3> QED BY <1>1, <2>3, <3>1, FilesStay DEF LegacyInv
    <2>5. /\ \A i \in DOMAIN memory : memory[i] < legacyCalls
          /\ \E j \in DOMAIN exchanges : exchanges[j] = legacyCalls
      BY <1>1 DEF LegacyInv, MemoryInv
    <2>6. \A i \in DOMAIN memory' : i \in DOMAIN memory \/ i = Len(memory) + 1
      BY <2>1, <2>2
    <2>7. \A i \in DOMAIN memory' : \E j \in DOMAIN exchanges' : exchanges'[j] = memory'[i]
      BY <1>1, <2>2, <2>5, <2>6 DEF LegacyInv, MemoryInv
    <2>8. ASSUME NEW i \in DOMAIN memory', NEW j \in DOMAIN memory', i < j
          PROVE  memory'[i] < memory'[j]
      <3>1. i \in DOMAIN memory
        BY <2>1, <2>2, <2>8
      <3>2. CASE j \in DOMAIN memory
        BY <2>2, <2>8, <3>1, <3>2 DEF LegacyInv, MemoryInv
      <3>3. CASE j = Len(memory) + 1
        BY <2>2, <2>5, <3>1, <3>3
      <3> QED BY <2>6, <3>2, <3>3
    <2>9. \A i \in DOMAIN memory' : memory'[i] <= legacyCalls'
      BY <1>1, <2>1, <2>2, <2>5, <2>6
    <2>10. MemoryInv'
      <3>1. legacy'.pc = "idle"
        BY <1>1, NoCallTyped
      <3> QED BY <2>7, <2>8, <2>9, <3>1 DEF MemoryInv
    <2> QED BY <2>3, <2>4, <2>10 DEF LegacyInv
  <1> QED BY <1>2, <1>3 DEF Y!Remember

LEMMA BeginUploadKeeps == ASSUME LegacyInv, Y!BeginUpload PROVE LegacyInv'
  <1>1. PICK f \in Y!LegacyFiles, g \in Y!LegacyFiles : \E todo \in {<<f>>, <<f, g>>} :
          Y!Begins([Y!NoCall EXCEPT !.pc = "file", !.todo = todo])
    BY DEF Y!BeginUpload
  <1>2. PICK todo \in {<<f>>, <<f, g>>} :
          Y!Begins([Y!NoCall EXCEPT !.pc = "file", !.todo = todo])
    BY <1>1
  <1>3. todo \in Seq(Y!LegacyFiles) /\ todo # <<>> /\ Len(todo) <= 2
    <2>1. CASE todo = <<f>>
      BY <2>1
    <2>2. CASE todo = <<f, g>>
      BY <2>2
    <2> QED BY <2>1, <2>2
  <1> DEFINE new == [Y!NoCall EXCEPT !.pc = "file", !.todo = todo]
  <1>4. new \in LegacyRuns /\ new.pc = "file" /\ new.todo = todo
    BY <1>3, NoCallTyped DEF LegacyRuns, LegacyLabels
  <1>5. Y!Begins(new)
    BY <1>2
  <1> HIDE DEF new
  <1> QED BY <1>3, <1>4, <1>5, BeginsKeeps

LEMMA BeginChatKeeps == ASSUME LegacyInv, Y!BeginChat PROVE LegacyInv'
  <1>1. PICK recalled \in {Y!Recalled, {}} :
          Y!Begins([Y!NoCall EXCEPT !.pc = "generate", !.recalled = recalled, !.hits = fallbackIndex])
    BY DEF Y!BeginChat
  <1>2. recalled \in SUBSET Nat /\ fallbackIndex \in SUBSET Nat
    BY DEF Y!Recalled, LegacyInv, LegacyTyped
  <1> DEFINE new == [Y!NoCall EXCEPT !.pc = "generate", !.recalled = recalled, !.hits = fallbackIndex]
  <1>3. new \in LegacyRuns /\ new.pc = "generate"
    BY <1>2, NoCallTyped DEF LegacyRuns, LegacyLabels
  <1>4. Y!Begins(new)
    BY <1>1
  <1> HIDE DEF new
  <1> QED BY <1>3, <1>4, BeginsKeeps

LEMMA LegacyStep == ASSUME LegacyInv, Y!LegacyNext PROVE LegacyInv'
  <1>1. CASE Y!RefuseFile \/ Y!SaveFails \/ Y!ChatFails \/ Y!Reboot
    <2>1. /\ legacy' = Y!NoCall /\ UNCHANGED <<files, indexed, exchanges, memory, legacyCalls>>
          /\ fallbackIndex' \subseteq fallbackIndex
      BY <1>1 DEF Y!RefuseFile, Y!SaveFails, Y!ChatFails, Y!Reboot, Y!uploads, Y!chats
    <2> QED BY <2>1, CallEnds
  <1> QED BY <1>1, BeginUploadKeeps, SaveFileKeeps, IndexKeeps, BeginChatKeeps,
             ExchangeKeeps,
             SummarizeKeeps, RememberKeeps DEF Y!LegacyNext

LEMMA LegacyHolds == LegacyInv => Y!LegacyStoresAgree
  BY DEF LegacyInv, FilesInv, MemoryInv, Y!LegacyStoresAgree

\* No file of the compatibility service is overwritten, what the index knows is a file, and
\* the memory is a part of the conversation, in its order (srv/projects/kb/app/main.py).
THEOREM LegacyStoresStayInStep == Spec => []LegacyStoresAgree
  <1> DEFINE Here == scene = "legacy" => LegacyInv
  <1>1. Init => Here
    BY LegacyInitInv DEF Init
  <1>2. Here /\ [Next]_vars => Here'
    <2> SUFFICES ASSUME Here, [Next]_vars, scene' = "legacy" PROVE LegacyInv'
      OBVIOUS
    <2>1. CASE Apart("legacy") /\ Y!LegacyNext
      BY <2>1, LegacyStep DEF Apart
    <2>2. CASE UNCHANGED <<scene, legacyVars>>
      BY <2>2 DEF legacyVars, LegacyInv, LegacyTyped, FilesInv, MemoryInv, StampsTaken,
                  ToSave
    <2> QED BY <2>1, <2>2 DEF Next, vars, Apart
  <1>3. Here => LegacyStoresAgree
    BY LegacyHolds DEF LegacyStoresAgree
  <1> QED BY <1>1, <1>2, <1>3, PTL DEF Spec
=============================================================================
