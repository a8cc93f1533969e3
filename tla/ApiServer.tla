-------------------------------- MODULE ApiServer --------------------------------
(***************************************************************************)
(* The HTTP and WebSocket front (api/security.py, api/app.py): the guard   *)
(* admits a request by its key, a chat also by the sliding window of its   *)
(* key, a WebSocket by the slots of its key; a chat may override the swarm *)
(* setting all requests share while it runs; a socket is pinged and closed *)
(* when it stays silent.                                                   *)
(*                                                                         *)
(* The event loop runs one handler at a time between two awaits; agent.run *)
(* runs on a thread.  Time advances in ticks, and not past a timer that is *)
(* due or a pong that a waiting handler can read.                          *)
(* Public paths and routes that keep no state pass unseen.                 *)
(* Bounds: MaxTime, and the durations below, which keep their proportions. *)
(***************************************************************************)
EXTENDS ApiSecurity, FiniteSets, Sequences

CONSTANTS
  Environments, \* settings the server may be started with
  Clients,     \* what clients present
  Requests,    \* requests and sockets under way; one that ended may come again
  Window,                      \* the minute of the chat limit
  PingGap, PongWait, Silence,  \* 30 s, 10 s, 40 s
  MaxTime

ASSUME ApiAssumption ==
  /\ Environments \subseteq Environment /\ Clients \subseteq Credentials
  /\ Window \in Nat \ {0}
  /\ PingGap \in Nat \ {0} /\ PongWait \in Nat \ {0} /\ Silence \in Nat /\ MaxTime \in Nat
  /\ PongWait < Silence
  /\ IsFiniteSet(Requests)

VARIABLES
  config,      \* the settings the server was started with
  now,
  bucket,      \* identity -> SlidingWindowRateLimiter._hits: times of admitted chats
  active,      \* identity -> ConnectionLimiter._active
  swarm,       \* settings.swarm_enabled
  chat,        \* request -> its chat: [at, key, asks, orig, mode]
  socket,      \* request -> its WebSocket: [at, key, busy, pong, heard, timer, wake]
  reply,       \* the guard's last word: <<key, verdict>>
  configured,  \* ghost: swarm_enabled as the process started
  recent,      \* ghost: identity -> chats admitted in the last Window, each the time and a number
  mixed,       \* ghost: two chats that override the swarm setting were under way at once
  excused      \* ghost: sockets that left a ping unanswered, or whose pong had to wait
               \* for a run of their own
guardVars == <<bucket, active, recent, reply>>
chatVars == <<chat, swarm, configured, mixed>>
socketVars == <<socket, excused>>
vars == <<config, now, guardVars, chatVars, socketVars>>

NoReply == <<NoKey, "none">>
NoChat == [at |-> "none", key |-> NoKey, asks |-> "unset", orig |-> "off", mode |-> "unset"]
NoSocket == [at |-> "none", key |-> NoKey, busy |-> FALSE, pong |-> FALSE, heard |-> 0,
             timer |-> "off", wake |-> 0]

Init ==
  /\ config \in {e \in Environments : Sound(e)}
  /\ now = 0 /\ reply = NoReply
  /\ bucket = [k \in Identities |-> <<>>] /\ recent = [k \in Identities |-> {}]
  /\ active = [k \in Identities |-> 0]
  /\ configured \in {"on", "off"} /\ swarm = configured
  /\ chat = [r \in Requests |-> NoChat]
  /\ socket = [r \in Requests |-> NoSocket]
  /\ mixed = FALSE /\ excused = {}

Free(r) == chat[r].at = "none" /\ socket[r].at = "none"

--------------------------------------------------------------------------------
(* APIGuardMiddleware *)

\* The loop of hit(): hits are dropped from the left as long as they are too old.
After(times, cutoff) ==
  LET old == {n \in 0 .. Len(times) : \A i \in 1 .. n : times[i] <= cutoff}
      dropped == CHOOSE n \in old : \A m \in old : m <= n
  IN SubSeq(times, dropped + 1, Len(times))

\* No key of the server, or not from this host: no bucket is touched.
Unauthorized(c, isSocket) ==
  /\ Identity(config, c, isSocket) = NoKey
  /\ reply' = <<NoKey, "401">>
  /\ UNCHANGED <<config, now, bucket, active, recent, chatVars, socketVars>>

HitCountsRefused(k) ==      \* mutant: a refused hit is recorded too
  LET kept == After(bucket[k], now - Window)
  IN bucket' = [bucket EXCEPT ![k] = Append(kept, now)]

\* hit(): what left the window is dropped, and a refused hit is not recorded.
Hit(k) ==
  LET kept == After(bucket[k], now - Window)
  IN bucket' = [bucket EXCEPT ![k] = IF Len(kept) < config.chats THEN Append(kept, now) ELSE kept]

\* Who gets past the key check.
Known(isSocket) == {Identity(config, c, isSocket) : c \in Clients} \ {NoKey}

Room(k) == Len(After(bucket[k], now - Window)) < config.chats

ChatArrives(r, k) ==
  /\ Free(r)
  /\ Hit(k)
  /\ IF Room(k)
     THEN /\ chat' = [chat EXCEPT ![r] = [NoChat EXCEPT !.at = "entered", !.key = k]]
          /\ recent' = [recent EXCEPT ![k] = @ \cup {<<now, Cardinality(@)>>}]
          /\ reply' = <<k, "chat">>
     ELSE /\ reply' = <<k, "429">>
          /\ UNCHANGED <<chat, recent>>
  /\ UNCHANGED <<config, now, active, swarm, configured, mixed, socketVars>>

SocketArrives(r, k) ==
  /\ Free(r)
  /\ IF active[k] < config.sockets
     THEN /\ active' = [active EXCEPT ![k] = @ + 1]
          /\ socket' = [socket EXCEPT ![r] = [NoSocket EXCEPT !.at = "handshake", !.key = k]]
          /\ reply' = <<k, "socket">>
     ELSE /\ reply' = <<k, "full">>
          /\ UNCHANGED <<active, socket>>
  /\ UNCHANGED <<config, now, bucket, recent, chatVars, excused>>

LeavesKeepingSlot(r) ==      \* mutant: no finally
  /\ socket' = [socket EXCEPT ![r] = NoSocket]
  /\ excused' = excused \ {r}
  /\ UNCHANGED active

\* The handler has returned or raised: the finally of the guard releases the slot.
Leaves(r) ==
  /\ socket' = [socket EXCEPT ![r] = NoSocket]
  /\ excused' = excused \ {r}
  /\ LET k == socket[r].key
     IN active' = [active EXCEPT ![k] = IF @ > 0 THEN @ - 1 ELSE 0]

--------------------------------------------------------------------------------
(* POST /api/chat *)

Overriding(r) == chat[r].at \in {"ready", "running", "ran"} /\ chat[r].asks # "unset"

ChatGoes(r, c) ==
  /\ chat' = [chat EXCEPT ![r] = c]
  /\ reply' = NoReply
  /\ UNCHANGED <<config, now, bucket, active, recent, configured, socketVars>>

\* 409, 413 or an invalid body.
ChatRefused(r) ==
  /\ chat[r].at = "entered"
  /\ ChatGoes(r, NoChat)
  /\ UNCHANGED <<swarm, mixed>>

ChatStarts(r) == \E asks \in {"unset", "on", "off"} :
  /\ chat[r].at = "entered"
  /\ ChatGoes(r, [chat[r] EXCEPT !.at = "ready", !.asks = asks, !.orig = swarm])
  /\ swarm' = IF asks = "unset" THEN swarm ELSE asks
  /\ mixed' = (mixed \/ (asks # "unset" /\ \E q \in Requests : Overriding(q)))

\* On the thread, agent.run reads the setting.
ChatRuns(r) ==
  /\ chat[r].at = "ready"
  /\ ChatGoes(r, [chat[r] EXCEPT !.at = "running", !.mode = swarm])
  /\ UNCHANGED <<swarm, mixed>>

ChatRan(r) ==
  /\ chat[r].at = "running"
  /\ ChatGoes(r, [chat[r] EXCEPT !.at = "ran"])
  /\ UNCHANGED <<swarm, mixed>>

ChatReturnsAsIs(r) ==      \* mutant: the setting is not put back
  /\ chat[r].at = "ran"
  /\ ChatGoes(r, NoChat)
  /\ UNCHANGED <<swarm, mixed>>

\* Back on the loop, the finally of the route puts the setting back.
ChatReturns(r) ==
  /\ chat[r].at = "ran"
  /\ ChatGoes(r, NoChat)
  /\ swarm' = IF chat[r].asks = "unset" THEN swarm ELSE chat[r].orig
  /\ UNCHANGED mixed

--------------------------------------------------------------------------------
(* ws_dashboard *)

SocketGoes(r, s) ==
  /\ socket' = [socket EXCEPT ![r] = s]
  /\ reply' = NoReply
  /\ UNCHANGED <<config, now, bucket, active, recent, chatVars>>

Listening(r) == socket[r].at \in {"open", "closing"} /\ ~socket[r].busy
Due(r, timer) == socket[r].at = "open" /\ socket[r].timer = timer /\ socket[r].wake = now

Accept(r) ==
  /\ socket[r].at = "handshake"
  /\ SocketGoes(r, [socket[r] EXCEPT !.at = "open", !.heard = now,
                                     !.timer = "gap", !.wake = now + PingGap])
  /\ UNCHANGED excused

\* The client answers at once, or not at all.
Ping(r) == \E answers \in BOOLEAN :
  /\ Due(r, "gap")
  /\ SocketGoes(r, [socket[r] EXCEPT !.timer = "wait", !.wake = now + PongWait,
                                     !.pong = (@ \/ answers)])
  /\ excused' = IF answers THEN excused ELSE excused \cup {r}

\* close(1001) after Silence; asyncio.sleep always takes a little longer.
CheckPong(r) ==
  /\ Due(r, "wait")
  /\ SocketGoes(r, IF now - socket[r].heard >= Silence
                   THEN [socket[r] EXCEPT !.at = "closing", !.timer = "off"]
                   ELSE [socket[r] EXCEPT !.timer = "gap", !.wake = now + PingGap])
  /\ UNCHANGED excused

ReadPongIgnored(r) ==      \* mutant: read, and not taken down
  /\ Listening(r) /\ socket[r].pong
  /\ SocketGoes(r, [socket[r] EXCEPT !.pong = FALSE])
  /\ UNCHANGED excused

ReadPong(r) ==
  /\ Listening(r) /\ socket[r].pong
  /\ SocketGoes(r, [socket[r] EXCEPT !.pong = FALSE, !.heard = now])
  /\ UNCHANGED excused

\* A message starts a run, and nothing else is read until it ends.
RunStarts(r) ==
  /\ Listening(r) /\ socket[r].at = "open"
  /\ SocketGoes(r, [socket[r] EXCEPT !.busy = TRUE])
  /\ UNCHANGED excused

RunEnds(r) ==
  /\ socket[r].busy
  /\ SocketGoes(r, [socket[r] EXCEPT !.busy = FALSE])
  /\ UNCHANGED excused

\* A bad session id, a disconnect, an oversized message, a failed send.
Disconnect(r) ==
  /\ Listening(r) \/ socket[r].at = "handshake"
  /\ Leaves(r)
  /\ reply' = NoReply
  /\ UNCHANGED <<config, now, bucket, recent, chatVars>>

--------------------------------------------------------------------------------

Urgent(r) == Due(r, "gap") \/ Due(r, "wait") \/ (Listening(r) /\ socket[r].pong)

Tick ==
  /\ now < MaxTime
  /\ \A r \in Requests : ~Urgent(r)
  /\ now' = now + 1
  /\ recent' = [k \in Identities |-> {h \in recent[k] : h[1] > now + 1 - Window}]
  /\ excused' = excused \cup {r \in Requests : socket[r].busy /\ socket[r].pong}
  /\ reply' = NoReply
  /\ UNCHANGED <<config, bucket, active, chatVars, socket>>

ChatStep(r) ==
  ChatRefused(r) \/ ChatStarts(r) \/ ChatRuns(r) \/ ChatRan(r) \/ ChatReturns(r)

SocketStep(r) ==
  \/ Accept(r) \/ Ping(r) \/ CheckPong(r) \/ ReadPong(r)
  \/ RunStarts(r) \/ RunEnds(r) \/ Disconnect(r)

Next ==
  \/ Tick
  \/ \E c \in Clients, isSocket \in BOOLEAN : Unauthorized(c, isSocket)
  \/ \E r \in Requests : ChatStep(r) \/ SocketStep(r)
  \/ \E r \in Requests, k \in Known(FALSE) : ChatArrives(r, k)
  \/ \E r \in Requests, k \in Known(TRUE) : SocketArrives(r, k)

Spec == Init /\ [][Next]_vars

--------------------------------------------------------------------------------
(* Properties *)

TypeOK ==
  /\ config \in Environment
  /\ now \in 0 .. MaxTime
  /\ bucket \in [Identities -> Seq(Nat)] /\ recent \in [Identities -> SUBSET (Nat \X Nat)]
  /\ active \in [Identities -> Nat]
  /\ swarm \in {"on", "off"} /\ configured \in {"on", "off"}
  /\ chat \in [Requests ->
       [at : {"none", "entered", "ready", "running", "ran"}, key : Identities \cup {NoKey},
        asks : {"unset", "on", "off"}, orig : {"on", "off"}, mode : {"unset", "on", "off"}]]
  /\ socket \in [Requests ->
       [at : {"none", "handshake", "open", "closing"}, key : Identities \cup {NoKey},
        busy : BOOLEAN, pong : BOOLEAN, heard : Nat, timer : {"off", "gap", "wait"},
        wake : Nat]]
  /\ reply \in (Identities \cup {NoKey}) \X {"none", "401", "429", "chat", "full", "socket"}
  /\ mixed \in BOOLEAN /\ excused \subseteq Requests

(***************************************************************************)
(* No stretch of Window holds more admitted chats of a key than the limit, *)
(* and a chat is refused only when the last Window holds exactly as many:  *)
(* refused hits are not held against the key                               *)
(* (security.py SlidingWindowRateLimiter, drops only when it is asked).    *)
(***************************************************************************)
WindowExact ==
  \A k \in Identities :
    /\ Cardinality(recent[k]) <= config.chats
    /\ reply = <<k, "429">> => Cardinality(recent[k]) = config.chats

(***************************************************************************)
(* The slots taken from a key are its sockets whose handler has not        *)
(* returned, however they ended: a failed handshake, a disconnect during a *)
(* run, a close by the ping loop.  They never exceed the limit.            *)
(***************************************************************************)
SlotsAreSockets ==
  \A k \in Identities :
    /\ active[k] = Cardinality({r \in Requests : socket[r].at # "none" /\ socket[r].key = k})
    /\ active[k] <= config.sockets

(***************************************************************************)
(* As long as no two overriding chats have been under way together, an     *)
(* overriding chat runs in the mode it asked for, and between them the     *)
(* setting is the configured one.  (Once two were, it may stay changed for *)
(* every later request: each puts back what it found.)                     *)
(***************************************************************************)
OverrideHolds ==
  ~mixed =>
    /\ \A r \in Requests : Overriding(r) /\ chat[r].at # "ready" => chat[r].mode = chat[r].asks
    /\ (\A r \in Requests : ~Overriding(r)) => swarm = configured

(***************************************************************************)
(* The ping loop closes only a socket whose client missed a ping, or one   *)
(* whose pong could not be read because a run of its own was under way.    *)
(***************************************************************************)
PromptClientKept ==
  \A r \in Requests : socket[r].at = "closing" => r \in excused

=================================================================================
