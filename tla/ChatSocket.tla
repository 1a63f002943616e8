----------------------------- MODULE ChatSocket -----------------------------
(***************************************************************************)
(* The /ws/chat WebSocket (app/api/v1/chat.py): one coroutine per          *)
(* connection reads a message, answers it, and pings a client it has not   *)
(* heard from for an interval.  While a request is being answered nothing  *)
(* is read: what the client sends waits in the socket.                     *)
(* Time is counted in units of 5 seconds.                                  *)
(***************************************************************************)
EXTENDS Naturals, Sequences

CONSTANTS
  Interval,     \* _HEARTBEAT_INTERVAL_SECONDS
  Timeout,      \* _HEARTBEAT_TIMEOUT_SECONDS
  PongDelay,    \* a client that answers a ping within this time is prompt
  MaxClock,     \* bound: length of a connection
  MaxRequests   \* bound: chat requests of a connection

VARIABLES
  clock,
  socket,     \* "waiting" for a message, "answering", "closed", "gone"
  since,      \* when this wait began
  lastPong,
  inbox,      \* messages of the client that were not read yet
  pinged,     \* history: when the oldest ping without a pong was sent (0: none)
  late,       \* history: a ping was not answered in time
  asked       \* requests sent so far

socketVars == <<clock, socket, since, lastPong, inbox, pinged, late, asked>>

SocketInit ==
  /\ clock = 1 /\ socket = "waiting" /\ since = 1 /\ lastPong = 1
  /\ inbox = <<>> /\ pinged = 0 /\ late = FALSE /\ asked = 0

\* The client sends a pong for the pings it got, a request, or nonsense.
ClientPong ==
  /\ pinged # 0 /\ socket \in {"waiting", "answering"}
  /\ inbox' = Append(inbox, "pong") /\ pinged' = 0
  /\ UNCHANGED <<clock, socket, since, lastPong, late, asked>>

ClientSends(message) ==
  /\ asked < MaxRequests /\ socket \in {"waiting", "answering"}
  /\ asked' = asked + 1
  /\ inbox' = Append(inbox, message)
  /\ UNCHANGED <<clock, socket, since, lastPong, pinged, late>>

\* receive_json: only a pong renews last_pong; a valid request is acknowledged and
\* answered in the thread pool; anything else is answered with an error at once.
Receive ==
  /\ socket = "waiting" /\ inbox # <<>>
  /\ inbox' = Tail(inbox)
  /\ lastPong' = IF Head(inbox) = "pong" THEN clock ELSE lastPong
  /\ socket' = IF Head(inbox) = "request" THEN "answering" ELSE "waiting"
  /\ since' = clock
  /\ UNCHANGED <<clock, pinged, late, asked>>

\* The response, the partial tokens or an error have been sent.
Answered ==
  /\ socket = "answering"
  /\ socket' = "waiting" /\ since' = clock
  /\ UNCHANGED <<clock, lastPong, inbox, pinged, late, asked>>

WaitIsOver == socket = "waiting" /\ inbox = <<>> /\ clock - since >= Interval

\* Mutant: the silence is compared with the interval.
HeartbeatOfInterval ==
  /\ WaitIsOver
  /\ IF clock - lastPong >= Interval
       THEN socket' = "closed" /\ UNCHANGED <<since, pinged>>
       ELSE /\ since' = clock /\ UNCHANGED socket
            /\ pinged' = IF pinged = 0 THEN clock ELSE pinged
  /\ UNCHANGED <<clock, lastPong, inbox, late, asked>>

\* TimeoutError of the wait: close a client that has been silent, ping the others.
Heartbeat ==
  /\ WaitIsOver
  /\ IF clock - lastPong >= Timeout
       THEN socket' = "closed" /\ UNCHANGED <<since, pinged>>
       ELSE /\ since' = clock /\ UNCHANGED socket
            /\ pinged' = IF pinged = 0 THEN clock ELSE pinged
  /\ UNCHANGED <<clock, lastPong, inbox, late, asked>>

\* WebSocketDisconnect
Disconnected ==
  /\ socket = "waiting" /\ socket' = "gone"
  /\ UNCHANGED <<clock, since, lastPong, inbox, pinged, late, asked>>

\* A message that has arrived and a wait that is over are dealt with at once.
SocketTick ==
  /\ clock < MaxClock /\ socket \in {"waiting", "answering"}
  /\ ~WaitIsOver /\ ~(socket = "waiting" /\ inbox # <<>>)
  /\ clock' = clock + 1
  /\ late' = (late \/ (pinged # 0 /\ clock - pinged >= PongDelay))
  /\ UNCHANGED <<socket, since, lastPong, inbox, pinged, asked>>

SocketNext ==
  \/ ClientPong \/ \E message \in {"request", "nonsense"} : ClientSends(message)
  \/ Receive \/ Answered \/ Heartbeat \/ Disconnected \/ SocketTick

\* The heartbeat closes no client that only listens and answers every ping in time.
\* (A client that is busy is another matter: its requests do not renew last_pong and
\* keep it from being pinged, so its first pause of an interval may end the connection.)
PromptListenerIsKept ==
  (socket = "closed" /\ asked = 0) => late
=============================================================================
