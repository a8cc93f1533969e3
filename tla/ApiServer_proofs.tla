----------------------------- MODULE ApiServer_proofs -----------------------------
(***************************************************************************)
(* Proofs about the front of the server, for any clients, limits and       *)
(* durations, and any finite number of requests under way.                 *)
(***************************************************************************)
EXTENDS ApiServer, FiniteSetTheorems, SequenceTheorems, WellFoundedInduction, TLAPS

Socket ==
  [at : {"none", "handshake", "open", "closing"}, key : Identities \cup {NoKey},
   busy : BOOLEAN, pong : BOOLEAN, heard : Nat, timer : {"off", "gap", "wait"}, wake : Nat]

Chat ==
  [at : {"none", "entered", "ready", "running", "ran"}, key : Identities \cup {NoKey},
   asks : {"unset", "on", "off"}, orig : {"on", "off"}, mode : {"unset", "on", "off"}]

-----------------------------------------------------------------------------
(***************************************************************************)
(* Types, of what the theorems are about                                   *)
(***************************************************************************)
Typed ==
  /\ config.sockets \in Int /\ config.sockets >= 1
  /\ now \in Nat
  /\ active \in [Identities -> Nat]
  /\ swarm \in {"on", "off"} /\ configured \in {"on", "off"}
  /\ chat \in [Requests -> Chat]
  /\ socket \in [Requests -> Socket]
  /\ mixed \in BOOLEAN

LEMMA InitTyped == Init => Typed
<1> SUFFICES ASSUME Init PROVE Typed
  OBVIOUS
<1>1. config.sockets \in Int /\ config.sockets >= 1
  BY DEF Init, Sound, LimitAccepted
<1>2. NoChat \in Chat /\ NoSocket \in Socket
  BY DEF NoChat, NoSocket, Chat, Socket
<1> QED BY <1>1, <1>2 DEF Init, Typed

(* A step changes one chat at most, one socket at most, or the time.       *)
LEMMA ChatStepTypes ==
  ASSUME Typed, NEW r \in Requests, ChatStep(r)
  PROVE  Typed'
<1> USE DEF Typed, ChatGoes, guardVars, socketVars
<1>1. NoChat \in Chat
  BY DEF NoChat, Chat
<1>2. CASE ChatRefused(r)
  BY <1>1, <1>2 DEF ChatRefused
<1>3. CASE ChatStarts(r)
  <2>1. PICK asks \in {"unset", "on", "off"} :
          /\ chat' = [chat EXCEPT ![r] = [chat[r] EXCEPT !.at = "ready", !.asks = asks, !.orig = swarm]]
          /\ swarm' = IF asks = "unset" THEN swarm ELSE asks
          /\ mixed' = (mixed \/ (asks # "unset" /\ \E q \in Requests : Overriding(q)))
          /\ UNCHANGED <<config, now, active, configured, socket>>
    BY <1>3 DEF ChatStarts
  <2>2. [chat[r] EXCEPT !.at = "ready", !.asks = asks, !.orig = swarm] \in Chat
    BY DEF Chat
  <2>3. chat' \in [Requests -> Chat]
    BY <2>1, <2>2
  <2>4. swarm' \in {"on", "off"} /\ mixed' \in BOOLEAN
    BY <2>1
  <2> QED BY <2>1, <2>3, <2>4
<1>4. CASE ChatRuns(r)
  <2>1. [chat[r] EXCEPT !.at = "running", !.mode = swarm] \in Chat
    BY DEF Chat
  <2> QED BY <1>4, <2>1 DEF ChatRuns
<1>5. CASE ChatRan(r)
  <2>1. [chat[r] EXCEPT !.at = "ran"] \in Chat
    BY DEF Chat
  <2> QED BY <1>5, <2>1 DEF ChatRan
<1>6. CASE ChatReturns(r)
  <2>1. chat[r].orig \in {"on", "off"}
    BY DEF Chat
  <2> QED BY <1>1, <1>6, <2>1 DEF ChatReturns
<1> QED BY <1>2, <1>3, <1>4, <1>5, <1>6 DEF ChatStep

LEMMA SocketStepTypes ==
  ASSUME Typed, NEW r \in Requests, SocketStep(r)
  PROVE  Typed'
<1>0. /\ socket[r] \in Socket /\ now \in Nat
      /\ now + PingGap \in Nat /\ now + PongWait \in Nat
  BY ApiAssumption DEF Typed
<1>1. ASSUME NEW s \in Socket, SocketGoes(r, s) PROVE Typed'
  BY <1>1 DEF Typed, SocketGoes, chatVars
<1>2. CASE Accept(r)
  <2>1. [socket[r] EXCEPT !.at = "open", !.heard = now, !.timer = "gap", !.wake = now + PingGap] \in Socket
    BY <1>0 DEF Socket
  <2> QED BY <1>1, <1>2, <2>1 DEF Accept
<1>3. CASE Ping(r)
  <2>1. PICK answers \in BOOLEAN :
          SocketGoes(r, [socket[r] EXCEPT !.timer = "wait", !.wake = now + PongWait,
                                          !.pong = (@ \/ answers)])
    BY <1>3 DEF Ping
  <2>2. [socket[r] EXCEPT !.timer = "wait", !.wake = now + PongWait, !.pong = (@ \/ answers)] \in Socket
    BY <1>0 DEF Socket
  <2> QED BY <1>1, <2>1, <2>2
<1>4. CASE CheckPong(r)
  <2>1. [socket[r] EXCEPT !.at = "closing", !.timer = "off"] \in Socket
    BY <1>0 DEF Socket
  <2>2. [socket[r] EXCEPT !.timer = "gap", !.wake = now + PingGap] \in Socket
    BY <1>0 DEF Socket
  <2> QED BY <1>1, <1>4, <2>1, <2>2 DEF CheckPong
<1>5. CASE ReadPong(r)
  <2>1. [socket[r] EXCEPT !.pong = FALSE, !.heard = now] \in Socket
    BY <1>0 DEF Socket
  <2> QED BY <1>1, <1>5, <2>1 DEF ReadPong
<1>6. CASE RunStarts(r) \/ RunEnds(r)
  <2>1. \A b \in BOOLEAN : [socket[r] EXCEPT !.busy = b] \in Socket
    BY <1>0 DEF Socket
  <2> QED BY <1>1, <1>6, <2>1 DEF RunStarts, RunEnds
<1>7. CASE Disconnect(r)
  <2>1. NoSocket \in Socket
    BY DEF NoSocket, Socket
  <2>2. active' \in [Identities -> Nat]
    <3> DEFINE k == socket[r].key
               left == IF active[k] > 0 THEN active[k] - 1 ELSE 0
    <3>1. active' = [active EXCEPT ![k] = left]
      BY <1>7 DEF Disconnect, Leaves
    <3>2. active \in [Identities -> Nat]
      BY DEF Typed
    <3>3. k \in Identities => left \in Nat
      BY <3>2
    <3> QED BY <3>1, <3>2, <3>3
  <2>3. socket' \in [Requests -> Socket]
    BY <1>7, <2>1 DEF Disconnect, Leaves, Typed
  <2> QED BY <1>7, <2>2, <2>3 DEF Disconnect, Typed, chatVars
<1> QED BY <1>2, <1>3, <1>4, <1>5, <1>6, <1>7 DEF SocketStep

LEMMA KnownIdentities == \A b \in BOOLEAN : Known(b) \subseteq Identities
<1> SUFFICES ASSUME NEW b \in BOOLEAN, NEW c \in Clients, Identity(config, c, b) # NoKey
             PROVE  Identity(config, c, b) \in Identities
  BY DEF Known
<1>1. c.header \in Keys \cup {NoKey} /\ c.protocol \in Keys \cup {NoKey}
  BY ApiAssumption DEF Credentials
<1> QED BY <1>1 DEF Identity, Presented, Identities

LEMMA NextTyped == Typed /\ [Next]_vars => Typed'
<1> SUFFICES ASSUME Typed, [Next]_vars PROVE Typed'
  OBVIOUS
<1>1. CASE Tick
  BY <1>1 DEF Typed, Tick, chatVars
<1>2. ASSUME NEW c \in Clients, NEW b \in BOOLEAN, Unauthorized(c, b) PROVE Typed'
  BY <1>2 DEF Typed, Unauthorized, chatVars, socketVars
<1>3. ASSUME NEW r \in Requests, NEW k \in Known(FALSE), ChatArrives(r, k) PROVE Typed'
  <2>1. [NoChat EXCEPT !.at = "entered", !.key = k] \in Chat
    BY KnownIdentities DEF NoChat, Chat
  <2>2. chat' \in [Requests -> Chat]
    BY <1>3, <2>1 DEF Typed, ChatArrives
  <2> QED BY <1>3, <2>2 DEF Typed, ChatArrives, socketVars
<1>4. ASSUME NEW r \in Requests, NEW k \in Known(TRUE), SocketArrives(r, k) PROVE Typed'
  <2>1. [NoSocket EXCEPT !.at = "handshake", !.key = k] \in Socket
    BY KnownIdentities DEF NoSocket, Socket
  <2>2. socket' \in [Requests -> Socket] /\ active' \in [Identities -> Nat]
    BY <1>4, <2>1 DEF Typed, SocketArrives
  <2> QED BY <1>4, <2>2 DEF Typed, SocketArrives, chatVars
<1>5. CASE UNCHANGED vars
  BY <1>5 DEF Typed, vars, guardVars, chatVars, socketVars
<1> QED BY <1>1, <1>2, <1>3, <1>4, <1>5, ChatStepTypes, SocketStepTypes DEF Next

-----------------------------------------------------------------------------
(***************************************************************************)
(* The swarm override                                                      *)
(***************************************************************************)
(* The only chat that overrides found the configured setting, and its own  *)
(* is set.                                                                 *)
Override ==
  ~mixed =>
    /\ \A r, q \in Requests : Overriding(r) /\ Overriding(q) => r = q
    /\ \A r \in Requests : Overriding(r) =>
         /\ chat[r].orig = configured /\ swarm = chat[r].asks
         /\ chat[r].at # "ready" => chat[r].mode = chat[r].asks
    /\ (\A r \in Requests : ~Overriding(r)) => swarm = configured

LEMMA InitOverride == Init => Override
BY DEF Init, Override, Overriding, NoChat

LEMMA ChatStepOverride ==
  ASSUME Typed, Override, NEW r \in Requests, ChatStep(r)
  PROVE  Override'
<1> USE DEF Typed, ChatGoes
<1>0. chat[r] \in Chat /\ configured' = configured
      /\ \A q \in Requests \ {r} : chat'[q] = chat[q] /\ (Overriding(q)' <=> Overriding(q))
  BY DEF ChatStep, ChatRefused, ChatStarts, ChatRuns, ChatRan, ChatReturns, Overriding
<1>1. CASE ChatRefused(r)
  <2>1. ~Overriding(r) /\ ~Overriding(r)' /\ swarm' = swarm /\ mixed' = mixed
    BY <1>1 DEF ChatRefused, Overriding, NoChat
  <2> QED BY <1>0, <2>1 DEF Override
<1>2. CASE ChatStarts(r)
  <2>1. PICK asks \in {"unset", "on", "off"} :
          /\ chat' = [chat EXCEPT ![r] = [chat[r] EXCEPT !.at = "ready", !.asks = asks, !.orig = swarm]]
          /\ swarm' = IF asks = "unset" THEN swarm ELSE asks
          /\ mixed' = (mixed \/ (asks # "unset" /\ \E q \in Requests : Overriding(q)))
    BY <1>2 DEF ChatStarts
  <2>2. chat'[r].at = "ready" /\ chat'[r].asks = asks /\ chat'[r].orig = swarm
    BY <1>0, <2>1 DEF Chat
  <2>3. ~Overriding(r)
    BY <1>2 DEF ChatStarts, Overriding
  <2>4. CASE asks = "unset"
    <3>1. ~Overriding(r)' /\ swarm' = swarm /\ mixed' = mixed
      BY <2>1, <2>2, <2>4 DEF Overriding
    <3> QED BY <1>0, <2>3, <3>1 DEF Override
  <2>5. CASE asks # "unset"
    <3>1. SUFFICES ASSUME ~mixed' PROVE Override'
      BY DEF Override
    <3>2. ~mixed /\ \A q \in Requests : ~Overriding(q)
      BY <2>1, <2>5, <3>1
    <3>3. swarm = configured
      BY <3>2 DEF Override
    <3>4. \A q \in Requests \ {r} : ~Overriding(q)'
      BY <1>0, <3>2
    <3>5. Overriding(r)' /\ swarm' = asks
      BY <2>1, <2>2, <2>5 DEF Overriding
    <3> QED BY <1>0, <2>2, <3>3, <3>4, <3>5 DEF Override
  <2> QED BY <2>4, <2>5
<1>3. CASE ChatRuns(r)
  <2>1. /\ chat'[r].at = "running" /\ chat'[r].mode = swarm
        /\ chat'[r].asks = chat[r].asks /\ chat'[r].orig = chat[r].orig
    BY <1>0, <1>3 DEF ChatRuns, Chat
  <2>2. (Overriding(r)' <=> Overriding(r)) /\ swarm' = swarm /\ mixed' = mixed
    BY <1>3, <2>1 DEF ChatRuns, Overriding
  <2> QED BY <1>0, <2>1, <2>2 DEF Override
<1>4. CASE ChatRan(r)
  <2>1. /\ chat[r].at = "running" /\ chat'[r].at = "ran" /\ chat'[r].mode = chat[r].mode
        /\ chat'[r].asks = chat[r].asks /\ chat'[r].orig = chat[r].orig
    BY <1>0, <1>4 DEF ChatRan, Chat
  <2>2. (Overriding(r)' <=> Overriding(r)) /\ swarm' = swarm /\ mixed' = mixed
    BY <1>4, <2>1 DEF ChatRan, Overriding
  <2> QED BY <1>0, <2>1, <2>2 DEF Override
<1>5. CASE ChatReturns(r)
  <2>1. ~Overriding(r)' /\ mixed' = mixed
    BY <1>5 DEF ChatReturns, Overriding, NoChat
  <2>2. CASE chat[r].asks = "unset"
    <3>1. ~Overriding(r) /\ swarm' = swarm
      BY <1>5, <2>2 DEF ChatReturns, Overriding
    <3> QED BY <1>0, <2>1, <3>1 DEF Override
  <2>3. CASE chat[r].asks # "unset"
    <3>1. Overriding(r) /\ swarm' = chat[r].orig
      BY <1>5, <2>3 DEF ChatReturns, Overriding
    <3> QED BY <1>0, <2>1, <3>1 DEF Override
  <2> QED BY <2>2, <2>3
<1> QED BY <1>1, <1>2, <1>3, <1>4, <1>5 DEF ChatStep

LEMMA NextOverride == Typed /\ Override /\ [Next]_vars => Override'
<1> SUFFICES ASSUME Typed, Override, [Next]_vars PROVE Override'
  OBVIOUS
<1>1. ASSUME UNCHANGED chatVars PROVE Override'
  BY <1>1 DEF chatVars, Override, Overriding
<1>2. ASSUME NEW r \in Requests, SocketStep(r) PROVE UNCHANGED chatVars
  BY <1>2 DEF SocketStep, Accept, Ping, CheckPong, ReadPong, RunStarts, RunEnds, Disconnect,
              SocketGoes, chatVars
<1>3. ASSUME NEW r \in Requests, NEW k \in Known(FALSE), ChatArrives(r, k) PROVE Override'
  <2>1. CASE UNCHANGED chat
    BY <1>1, <1>3, <2>1 DEF ChatArrives, chatVars
  <2>2. CASE chat' = [chat EXCEPT ![r] = [NoChat EXCEPT !.at = "entered", !.key = k]]
    <3>1. ~Overriding(r) /\ ~Overriding(r)'
      BY <1>3, <2>2 DEF Typed, ChatArrives, Free, Overriding, NoChat
    <3>2. \A q \in Requests \ {r} : chat'[q] = chat[q] /\ (Overriding(q)' <=> Overriding(q))
      BY <2>2 DEF Typed, Overriding
    <3>3. UNCHANGED <<swarm, configured, mixed>>
      BY <1>3 DEF ChatArrives
    <3> QED BY <3>1, <3>2, <3>3 DEF Override
  <2> QED BY <1>3, <2>1, <2>2 DEF ChatArrives
<1>4. Tick \/ UNCHANGED vars => UNCHANGED chatVars
  BY DEF Tick, vars, chatVars
<1>5. \A c \in Clients, b \in BOOLEAN : Unauthorized(c, b) => UNCHANGED chatVars
  BY DEF Unauthorized, chatVars
<1>6. \A r \in Requests, k \in Known(TRUE) : SocketArrives(r, k) => UNCHANGED chatVars
  BY DEF SocketArrives, chatVars
<1> QED BY <1>1, <1>2, <1>3, <1>4, <1>5, <1>6, ChatStepOverride DEF Next

-----------------------------------------------------------------------------
(***************************************************************************)
(* The ping loop                                                           *)
(***************************************************************************)
(* A socket that owes no pong: it was heard of since the last ping, or its *)
(* pong lies there and no time has passed.                                 *)
Prompt(r) ==
  /\ socket[r].at # "closing"
  /\ socket[r].at = "open" =>
       /\ socket[r].timer = "gap" => ~socket[r].pong
       /\ socket[r].timer = "wait" =>
            IF socket[r].pong THEN socket[r].wake = now + PongWait
            ELSE socket[r].wake <= socket[r].heard + PongWait
  /\ socket[r].at = "handshake" => ~socket[r].pong

Punctual == \A r \in Requests : r \notin excused => Prompt(r)

LEMMA InitPunctual == Init => Punctual
BY DEF Init, Punctual, Prompt, NoSocket

(* A step on another socket, or on none, in no time.                       *)
LEMMA StaysPrompt ==
  ASSUME NEW r \in Requests, Prompt(r), socket'[r] = socket[r], now' = now
  PROVE  Prompt(r)'
BY DEF Prompt

LEMMA SocketStepPunctual ==
  ASSUME Typed, Punctual, NEW r \in Requests, SocketStep(r)
  PROVE  Punctual'
<1> DEFINE s == socket[r]
<1>0. /\ socket[r] \in Socket /\ now \in Nat /\ PingGap \in Nat
      /\ PongWait \in Nat \ {0} /\ Silence \in Nat /\ PongWait < Silence
  BY ApiAssumption DEF Typed
<1>1. now' = now /\ \A q \in Requests \ {r} : socket'[q] = socket[q]
  BY DEF Typed, SocketStep, Accept, Ping, CheckPong, ReadPong, RunStarts, RunEnds, Disconnect,
         SocketGoes, Leaves
<1>2. excused \ {r} \subseteq excused'
  BY DEF SocketStep, Accept, Ping, CheckPong, ReadPong, RunStarts, RunEnds, Disconnect,
         SocketGoes, Leaves
<1>3. SUFFICES ASSUME r \notin excused' PROVE Prompt(r)'
  BY <1>1, <1>2, StaysPrompt DEF Punctual
<1>4. CASE Disconnect(r)
  <2>1. socket'[r] = NoSocket
    BY <1>4 DEF Typed, Disconnect, Leaves
  <2> QED BY <2>1 DEF Prompt, NoSocket
<1>5. CASE Accept(r)
  <2>1. Prompt(r) /\ s.at = "handshake"
    BY <1>3, <1>5 DEF Accept, Punctual
  <2> QED BY <1>0, <1>1, <1>5, <2>1 DEF Typed, Accept, SocketGoes, Prompt, Socket
<1>6. CASE Ping(r)
  <2>1. PICK answers \in BOOLEAN :
          /\ socket' = [socket EXCEPT ![r] = [socket[r] EXCEPT !.timer = "wait",
                          !.wake = now + PongWait, !.pong = (@ \/ answers)]]
          /\ excused' = IF answers THEN excused ELSE excused \cup {r}
    BY <1>6 DEF Ping, SocketGoes
  <2>2. answers
    BY <1>3, <2>1
  <2>3. /\ socket'[r].at = s.at /\ socket'[r].timer = "wait"
        /\ socket'[r].wake = now + PongWait /\ socket'[r].pong
    BY <1>0, <2>1, <2>2 DEF Typed, Socket
  <2> QED BY <1>1, <1>6, <2>3 DEF Ping, Due, Prompt
<1>7. CASE CheckPong(r)
  <2>1. s.at = "open" /\ s.timer = "wait" /\ s.wake = now
    BY <1>7 DEF CheckPong, Due
  <2>2. Prompt(r)
    BY <1>3, <1>7 DEF CheckPong, Punctual
  <2>3. ~s.pong
    BY <1>0, <2>1, <2>2 DEF Prompt
  <2>4. ~(now - s.heard >= Silence)
    <3>1. now <= s.heard + PongWait /\ s.heard \in Nat
      BY <1>0, <2>1, <2>2, <2>3 DEF Prompt, Socket
    <3> QED BY <1>0, <3>1
  <2>5. socket' = [socket EXCEPT ![r] = [socket[r] EXCEPT !.timer = "gap", !.wake = now + PingGap]]
    BY <1>7, <2>4 DEF CheckPong, SocketGoes
  <2>6. socket'[r].at = "open" /\ socket'[r].timer = "gap" /\ ~socket'[r].pong
    BY <1>0, <2>1, <2>3, <2>5 DEF Typed, Socket
  <2> QED BY <2>6 DEF Prompt
<1>8. CASE ReadPong(r)
  <2>1. Prompt(r) /\ s.pong /\ s.at = "open"
    BY <1>3, <1>8 DEF ReadPong, Punctual, Prompt, Listening
  <2>2. /\ socket'[r].at = s.at /\ socket'[r].timer = s.timer /\ socket'[r].wake = s.wake
        /\ ~socket'[r].pong /\ socket'[r].heard = now
    BY <1>0, <1>8 DEF Typed, ReadPong, SocketGoes, Socket
  <2> QED BY <1>0, <2>1, <2>2 DEF Prompt
<1>9. CASE RunStarts(r) \/ RunEnds(r)
  <2>1. Prompt(r)
    BY <1>3, <1>9 DEF RunStarts, RunEnds, Punctual
  <2>2. /\ socket'[r].at = s.at /\ socket'[r].timer = s.timer /\ socket'[r].wake = s.wake
        /\ socket'[r].pong = s.pong /\ socket'[r].heard = s.heard
    BY <1>0, <1>9 DEF Typed, RunStarts, RunEnds, SocketGoes, Socket
  <2> QED BY <1>1, <2>1, <2>2 DEF Prompt
<1> QED BY <1>4, <1>5, <1>6, <1>7, <1>8, <1>9 DEF SocketStep

LEMMA NextPunctual == Typed /\ Punctual /\ [Next]_vars => Punctual'
<1> SUFFICES ASSUME Typed, Punctual, [Next]_vars PROVE Punctual'
  OBVIOUS
<1>1. ASSUME UNCHANGED <<socketVars, now>> PROVE Punctual'
  BY <1>1 DEF socketVars, Punctual, Prompt
<1>2. CASE Tick
  <2>1. /\ socket' = socket /\ now' = now + 1
        /\ excused' = excused \cup {r \in Requests : socket[r].busy /\ socket[r].pong}
        /\ \A r \in Requests : ~Urgent(r)
    BY <1>2 DEF Tick
  <2>2. SUFFICES ASSUME NEW r \in Requests, r \notin excused' PROVE Prompt(r)'
    BY DEF Punctual
  <2>3. Prompt(r) /\ ~(socket[r].busy /\ socket[r].pong)
    BY <2>1, <2>2 DEF Punctual
  <2>4. socket[r].at = "open" => ~socket[r].pong
    BY <2>1, <2>3 DEF Urgent, Listening
  <2> QED BY <2>1, <2>3, <2>4 DEF Prompt
<1>3. ASSUME NEW r \in Requests, NEW k \in Known(TRUE), SocketArrives(r, k) PROVE Punctual'
  <2>1. CASE UNCHANGED socket
    BY <1>1, <1>3, <2>1 DEF SocketArrives, socketVars
  <2>2. CASE socket' = [socket EXCEPT ![r] = [NoSocket EXCEPT !.at = "handshake", !.key = k]]
    <3>1. Prompt(r)'
      BY <2>2 DEF Typed, Prompt, NoSocket
    <3>2. \A q \in Requests \ {r} : socket'[q] = socket[q]
      BY <2>2 DEF Typed
    <3>3. excused' = excused /\ now' = now
      BY <1>3 DEF SocketArrives
    <3> QED BY <3>1, <3>2, <3>3, StaysPrompt DEF Punctual
  <2> QED BY <1>3, <2>1, <2>2 DEF SocketArrives
<1>4. ASSUME NEW r \in Requests, ChatStep(r) PROVE UNCHANGED <<socketVars, now>>
  BY <1>4 DEF ChatStep, ChatRefused, ChatStarts, ChatRuns, ChatRan, ChatReturns, ChatGoes, socketVars
<1>5. UNCHANGED vars => UNCHANGED <<socketVars, now>>
  BY DEF vars, socketVars
<1>6. \A c \in Clients, b \in BOOLEAN : Unauthorized(c, b) => UNCHANGED <<socketVars, now>>
  BY DEF Unauthorized, socketVars
<1>7. \A r \in Requests, k \in Known(FALSE) : ChatArrives(r, k) => UNCHANGED <<socketVars, now>>
  BY DEF ChatArrives, socketVars
<1> QED BY <1>1, <1>2, <1>3, <1>4, <1>5, <1>6, <1>7, SocketStepPunctual DEF Next

-----------------------------------------------------------------------------
(***************************************************************************)
(* The slots                                                               *)
(***************************************************************************)
Holders(k) == {r \in Requests : socket[r].at # "none" /\ socket[r].key = k}

Keyed ==
  \A r \in Requests : /\ socket[r].at # "none" => socket[r].key \in Identities
                      /\ socket[r].busy => socket[r].at # "none"

Slots == SlotsAreSockets /\ Keyed

LEMMA HoldersFinite == \A k : IsFiniteSet(Holders(k)) /\ IsFiniteSet(Holders(k)')
BY ApiAssumption, FS_Subset DEF Holders

LEMMA SlotsHolders ==
  SlotsAreSockets <=>
    \A k \in Identities : active[k] = Cardinality(Holders(k)) /\ active[k] <= config.sockets
BY DEF SlotsAreSockets, Holders

LEMMA InitSlots == Init => Slots
<1> SUFFICES ASSUME Init PROVE Slots
  OBVIOUS
<1>1. \A k \in Identities : Holders(k) = {} /\ active[k] = 0
  BY DEF Init, Holders, NoSocket
<1>2. 0 <= config.sockets
  BY InitTyped DEF Typed
<1> QED BY <1>1, <1>2, FS_EmptySet DEF Slots, Keyed, SlotsAreSockets, Holders, Init, NoSocket

LEMMA NextSlots == Typed /\ Slots /\ [Next]_vars => Slots'
<1> SUFFICES ASSUME Typed, Slots, [Next]_vars PROVE Slots'
  OBVIOUS
<1> DEFINE Same == /\ config' = config /\ active' = active
                   /\ \A r \in Requests : socket'[r].at # "none" <=> socket[r].at # "none"
                   /\ \A r \in Requests : socket'[r].key = socket[r].key
                   /\ \A r \in Requests : socket'[r].busy => socket[r].busy \/ socket[r].at # "none"
<1>1. ASSUME Same PROVE Slots'
  <2>1. \A k : Holders(k)' = Holders(k)
    BY <1>1 DEF Holders
  <2> QED BY <1>1, <2>1 DEF Slots, Keyed, SlotsAreSockets, Holders
<1>2. ASSUME NEW r \in Requests, SocketStep(r), ~Disconnect(r) PROVE Same
  <2>1. /\ config' = config /\ active' = active
        /\ \A q \in Requests \ {r} : socket'[q] = socket[q]
    BY <1>2 DEF Typed, SocketStep, Accept, Ping, CheckPong, ReadPong, RunStarts, RunEnds, SocketGoes
  <2>2. socket[r].at # "none"
    BY <1>2 DEF SocketStep, Accept, Ping, CheckPong, ReadPong, RunStarts, RunEnds, Due, Listening, Slots, Keyed
  <2>3. socket'[r].key = socket[r].key /\ socket'[r].at # "none"
    <3>1. socket[r] \in Socket
      BY DEF Typed
    <3>2. CASE Accept(r)
      BY <3>1, <3>2 DEF Typed, Socket, Accept, SocketGoes
    <3>3. CASE Ping(r)
      BY <2>2, <3>1, <3>3 DEF Typed, Socket, Ping, SocketGoes
    <3>4. CASE CheckPong(r)
      BY <2>2, <3>1, <3>4 DEF Typed, Socket, CheckPong, SocketGoes
    <3>5. CASE ReadPong(r)
      BY <2>2, <3>1, <3>5 DEF Typed, Socket, ReadPong, SocketGoes
    <3>6. CASE RunStarts(r)
      BY <2>2, <3>1, <3>6 DEF Typed, Socket, RunStarts, SocketGoes
    <3>7. CASE RunEnds(r)
      BY <2>2, <3>1, <3>7 DEF Typed, Socket, RunEnds, SocketGoes
    <3> QED BY <1>2, <3>2, <3>3, <3>4, <3>5, <3>6, <3>7 DEF SocketStep
  <2> QED BY <2>1, <2>2, <2>3 DEF Slots, Keyed
<1>3. ASSUME NEW r \in Requests, Disconnect(r) PROVE Slots'
  <2>0. socket[r].at # "none"
    BY <1>3 DEF Disconnect, Listening
  <2> PICK k \in Identities : k = socket[r].key
    BY <2>0 DEF Slots, Keyed
  <2>1. /\ config' = config
        /\ socket' = [socket EXCEPT ![r] = NoSocket]
        /\ active' = [active EXCEPT ![k] = IF active[k] > 0 THEN active[k] - 1 ELSE 0]
    BY <1>3 DEF Disconnect, Leaves
  <2>2. r \in Holders(k)
    BY <2>0 DEF Holders
  <2>3. Holders(k)' = Holders(k) \ {r} /\ \A j \in Identities \ {k} : Holders(j)' = Holders(j)
    <3>1. socket'[r].at = "none" /\ \A q \in Requests \ {r} : socket'[q] = socket[q]
      BY <2>1 DEF Typed, NoSocket
    <3> QED BY <2>2, <3>1 DEF Holders
  <2>4. Cardinality(Holders(k)') = Cardinality(Holders(k)) - 1
    BY <2>2, <2>3, HoldersFinite, FS_RemoveElement
  <2>5. /\ active[k] = Cardinality(Holders(k)) /\ active[k] <= config.sockets
        /\ active[k] \in Nat /\ config.sockets \in Int /\ Cardinality(Holders(k)') \in Nat
    BY HoldersFinite, FS_CardinalityType, SlotsHolders DEF Typed, Slots
  <2>6. active'[k] = Cardinality(Holders(k)') /\ active'[k] <= config.sockets
    BY <2>1, <2>2, <2>4, <2>5 DEF Typed
  <2>7. \A j \in Identities \ {k} : active'[j] = active[j]
    BY <2>1 DEF Typed
  <2>8. \A j \in Identities \ {k} : active'[j] = Cardinality(Holders(j)') /\ active'[j] <= config.sockets
    BY <2>1, <2>3, <2>7, SlotsHolders DEF Slots
  <2>9. Keyed'
    BY <2>1 DEF Typed, Slots, Keyed, NoSocket
  <2>10. \A j \in Identities : active'[j] = Cardinality(Holders(j)') /\ active'[j] <= config'.sockets
    BY <2>1, <2>6, <2>8, <2>9
  <2>11. SlotsAreSockets'
    BY <2>10 DEF SlotsAreSockets, Holders
  <2> QED BY <2>9, <2>11 DEF Slots
<1>4. ASSUME NEW r \in Requests, NEW k \in Known(TRUE), SocketArrives(r, k),
             active[k] < config.sockets
      PROVE  Slots'
  <2>1. /\ config' = config /\ active' = [active EXCEPT ![k] = active[k] + 1]
        /\ socket[r].at = "none"
        /\ socket' = [socket EXCEPT ![r] = [NoSocket EXCEPT !.at = "handshake", !.key = k]]
    BY <1>4 DEF SocketArrives, Free
  <2>2. k \in Identities
    BY KnownIdentities
  <2>3. socket'[r].at = "handshake" /\ socket'[r].key = k
        /\ \A q \in Requests \ {r} : socket'[q] = socket[q]
    BY <2>1 DEF Typed, NoSocket
  <2>4. /\ r \notin Holders(k) /\ Holders(k)' = Holders(k) \cup {r}
        /\ \A j \in Identities \ {k} : Holders(j)' = Holders(j)
    BY <2>1, <2>3 DEF Holders
  <2>5. Cardinality(Holders(k)') = Cardinality(Holders(k)) + 1
    BY <2>4, HoldersFinite, FS_AddElement
  <2>6. /\ active[k] = Cardinality(Holders(k)) /\ active[k] \in Nat /\ config.sockets \in Int
    BY <2>2, SlotsHolders DEF Typed, Slots
  <2>7. active'[k] = Cardinality(Holders(k)') /\ active'[k] <= config.sockets
    BY <1>4, <2>1, <2>2, <2>5, <2>6 DEF Typed
  <2>8. \A j \in Identities \ {k} : active'[j] = active[j]
    BY <2>1 DEF Typed
  <2>9. \A j \in Identities \ {k} : active'[j] = Cardinality(Holders(j)') /\ active'[j] <= config.sockets
    BY <2>1, <2>4, <2>8, SlotsHolders DEF Slots
  <2>10. Keyed'
    BY <2>2, <2>3 DEF Slots, Keyed
  <2>11. \A j \in Identities : active'[j] = Cardinality(Holders(j)') /\ active'[j] <= config'.sockets
    BY <2>1, <2>7, <2>9, <2>10
  <2>12. SlotsAreSockets'
    BY <2>11 DEF SlotsAreSockets, Holders
  <2> QED BY <2>10, <2>12 DEF Slots
<1>5. ASSUME NEW r \in Requests, NEW k \in Known(TRUE), SocketArrives(r, k),
             ~(active[k] < config.sockets)
      PROVE  Same
  BY <1>5 DEF SocketArrives
<1>6. Tick \/ UNCHANGED vars => Same
  BY DEF Tick, vars, guardVars, socketVars
<1>7. ASSUME NEW r \in Requests, ChatStep(r) PROVE Same
  BY <1>7 DEF ChatStep, ChatRefused, ChatStarts, ChatRuns, ChatRan, ChatReturns, ChatGoes, socketVars
<1>8. \A c \in Clients, b \in BOOLEAN : Unauthorized(c, b) => Same
  BY DEF Unauthorized, socketVars
<1>9. \A r \in Requests, k \in Known(FALSE) : ChatArrives(r, k) => Same
  BY DEF ChatArrives, socketVars
<1> QED BY <1>1, <1>2, <1>3, <1>4, <1>5, <1>6, <1>7, <1>8, <1>9 DEF Next

-----------------------------------------------------------------------------
(***************************************************************************)
(* The chat limit                                                          *)
(***************************************************************************)
(* The hits that the loop of hit() drops: the longest prefix that is old.  *)
Cut(times, cutoff, n) ==
  /\ n \in 0 .. Len(times) /\ \A i \in 1 .. n : times[i] <= cutoff
  /\ n < Len(times) => times[n + 1] > cutoff

LEMMA AfterCuts ==
  ASSUME NEW times \in Seq(Nat), NEW cutoff \in Int
  PROVE  \E n : Cut(times, cutoff, n) /\ After(times, cutoff) = SubSeq(times, n + 1, Len(times))
<1> DEFINE size == Len(times)
           old == {n \in 0 .. size : \A i \in 1 .. n : times[i] <= cutoff}
           dropped == CHOOSE n \in old : \A m \in old : m <= n
           T == {size - n : n \in old}
<1>1. size \in Nat /\ 0 \in old
  OBVIOUS
<1>2. T \subseteq Nat /\ T # {}
  <2>1. \A n \in old : size - n \in Nat
    BY <1>1
  <2> QED BY <1>1, <2>1
<1>3. PICK v \in T : \A w \in T : <<w, v>> \notin OpToRel(<, Nat)
  BY <1>2, NatLessThanWellFounded, WFMin
<1>4. PICK n \in old : v = size - n
  OBVIOUS
<1>5. ASSUME NEW m \in old PROVE m <= n
  <2>1. <<size - m, v>> \notin OpToRel(<, Nat)
    BY <1>3
  <2>2. ~(size - m < v)
    BY <1>2, <2>1 DEF OpToRel
  <2> QED BY <1>1, <1>4, <2>2
<1>6. dropped \in old /\ \A m \in old : m <= dropped
  BY <1>5
<1>7. After(times, cutoff) = SubSeq(times, dropped + 1, Len(times))
  BY DEF After
<1> HIDE DEF dropped, T
<1>8. dropped < size => times[dropped + 1] > cutoff
  <2> SUFFICES ASSUME dropped < size, ~(times[dropped + 1] > cutoff) PROVE FALSE
    OBVIOUS
  <2>1. dropped + 1 \in 1 .. size /\ times[dropped + 1] \in Nat
    BY <1>1, <1>6
  <2>2. times[dropped + 1] <= cutoff
    BY <2>1
  <2>3. \A i \in 1 .. dropped + 1 : times[i] <= cutoff
    BY <1>6, <2>2
  <2>4. dropped + 1 \in old
    BY <2>1, <2>3
  <2> QED BY <1>6, <2>4
<1> QED BY <1>6, <1>7, <1>8 DEF Cut

LEMMA AfterCut ==
  ASSUME NEW times \in Seq(Nat), NEW cutoff \in Int, NEW n, Cut(times, cutoff, n)
  PROVE  /\ After(times, cutoff) \in Seq(Nat) /\ Len(After(times, cutoff)) = Len(times) - n
         /\ \A i \in 1 .. Len(times) - n : After(times, cutoff)[i] = times[n + i]
<1>1. PICK m : Cut(times, cutoff, m) /\ After(times, cutoff) = SubSeq(times, m + 1, Len(times))
  BY AfterCuts
<1>2. Len(times) \in Nat /\ \A i \in 1 .. Len(times) : times[i] \in Nat
  OBVIOUS
<1>3. m \in 0 .. Len(times) /\ n \in 0 .. Len(times)
  BY <1>1 DEF Cut
<1>4. ~(m < n)
  BY <1>1, <1>2, <1>3 DEF Cut
<1>5. ~(n < m)
  BY <1>1, <1>2, <1>3 DEF Cut
<1>6. m = n
  BY <1>3, <1>4, <1>5
<1>7. /\ SubSeq(times, n + 1, Len(times)) \in Seq(Nat)
      /\ Len(SubSeq(times, n + 1, Len(times))) = Len(times) - n
      /\ \A i \in 1 .. Len(times) - n : SubSeq(times, n + 1, Len(times))[i] = times[n + i]
  BY <1>2, <1>3
<1> QED BY <1>1, <1>6, <1>7

(* What is too old for one cutoff is for a later one. *)
LEMMA AfterAfter ==
  ASSUME NEW times \in Seq(Nat), NEW c \in Int, NEW d \in Int, c <= d
  PROVE  Len(After(After(times, c), d)) = Len(After(times, d))
<1> DEFINE kept == After(times, c)
<1>1. PICK n : Cut(times, c, n)
  BY AfterCuts
<1>2. /\ kept \in Seq(Nat) /\ Len(kept) = Len(times) - n
      /\ \A i \in 1 .. Len(times) - n : kept[i] = times[n + i]
  BY <1>1, AfterCut
<1> HIDE DEF kept
<1>3. PICK m : Cut(kept, d, m)
  BY <1>2, AfterCuts
<1>4. /\ Len(times) \in Nat /\ \A i \in 1 .. Len(times) : times[i] \in Nat
      /\ n \in 0 .. Len(times) /\ m \in 0 .. Len(times) - n
  BY <1>1, <1>2, <1>3 DEF Cut
<1>5. Cut(times, d, n + m)
  <2>1. ASSUME NEW i \in 1 .. n + m PROVE times[i] <= d
    <3>1. CASE i <= n
      BY <1>1, <1>4, <3>1 DEF Cut
    <3>2. CASE i > n
      <4>1. i - n \in 1 .. m /\ i - n \in 1 .. Len(times) - n /\ n + (i - n) = i
        BY <1>4, <3>2
      <4> QED BY <1>2, <1>3, <4>1 DEF Cut
    <3> QED BY <1>4, <3>1, <3>2
  <2>2. n + m < Len(times) => times[n + m + 1] > d
    <3> SUFFICES ASSUME n + m < Len(times) PROVE times[n + m + 1] > d
      OBVIOUS
    <3>1. m + 1 \in 1 .. Len(times) - n /\ m < Len(kept) /\ n + (m + 1) = n + m + 1
      BY <1>2, <1>4
    <3> QED BY <1>2, <1>3, <3>1 DEF Cut
  <2> QED BY <1>4, <2>1, <2>2 DEF Cut
<1>6. Len(After(times, d)) = Len(times) - (n + m)
  BY <1>5, AfterCut
<1>7. Len(After(kept, d)) = Len(kept) - m
  BY <1>2, <1>3, AfterCut
<1> QED BY <1>2, <1>4, <1>6, <1>7 DEF kept

LEMMA AfterAppend ==
  ASSUME NEW times \in Seq(Nat), NEW c \in Int, NEW t \in Nat, t > c
  PROVE  Len(After(Append(times, t), c)) = Len(After(times, c)) + 1
<1> DEFINE longer == Append(times, t)
<1>1. PICK n : Cut(times, c, n)
  BY AfterCuts
<1>2. /\ longer \in Seq(Nat) /\ Len(longer) = Len(times) + 1
      /\ longer[Len(times) + 1] = t
      /\ \A i \in 1 .. Len(times) : longer[i] = times[i]
  OBVIOUS
<1> HIDE DEF longer
<1>3. Len(times) \in Nat /\ n \in 0 .. Len(times)
  BY <1>1 DEF Cut
<1>4. Cut(longer, c, n)
  <2>1. ASSUME NEW i \in 1 .. n PROVE longer[i] <= c
    <3>1. i \in 1 .. Len(times)
      BY <1>3
    <3>2. times[i] <= c
      BY <1>1 DEF Cut
    <3> QED BY <1>2, <3>1, <3>2
  <2>2. longer[n + 1] > c
    <3>1. CASE n < Len(times)
      <4>1. n + 1 \in 1 .. Len(times)
        BY <1>3, <3>1
      <4>2. times[n + 1] > c
        BY <1>1, <3>1 DEF Cut
      <4> QED BY <1>2, <4>1, <4>2
    <3>2. CASE n = Len(times)
      BY <1>2, <3>2
    <3> QED BY <1>3, <3>1, <3>2
  <2> QED BY <1>2, <1>3, <2>1, <2>2 DEF Cut
<1>5. Len(After(longer, c)) = Len(longer) - n /\ Len(After(times, c)) = Len(times) - n
  BY <1>1, <1>2, <1>4, AfterCut
<1> QED BY <1>2, <1>3, <1>5 DEF longer

LEMMA AfterAll ==
  ASSUME NEW times \in Seq(Nat), NEW c \in Int, \A i \in 1 .. Len(times) : times[i] <= c
  PROVE  Len(After(times, c)) = 0
<1>1. Cut(times, c, Len(times)) /\ Len(times) \in Nat
  BY DEF Cut
<1> QED BY <1>1, AfterCut

(***************************************************************************)
(* Of the chats admitted after any cutoff within the window, the bucket    *)
(* keeps one time each; the number of a chat tells it from the others      *)
(* admitted at the same time.                                              *)
(***************************************************************************)
Admitted(k, cutoff) == {h \in recent[k] : h[1] > cutoff}

Counted(k) ==
  /\ \A i \in 1 .. Len(bucket[k]) : bucket[k][i] <= now
  /\ IsFiniteSet(recent[k])
  /\ \A h \in recent[k] : /\ now - Window < h[1] /\ h[1] <= now
                          /\ h[1] = now => h[2] < Cardinality(recent[k])
  /\ \A cutoff \in Int : cutoff >= now - Window =>
       Cardinality(Admitted(k, cutoff)) = Len(After(bucket[k], cutoff))

Limit ==
  /\ config.chats \in Int /\ config.chats >= 1 /\ now \in Nat
  /\ bucket \in [Identities -> Seq(Nat)] /\ recent \in [Identities -> SUBSET (Nat \X Nat)]
  /\ \A k \in Identities : Counted(k)
  /\ WindowExact

LEMMA AllAdmitted ==
  ASSUME Limit, NEW k \in Identities
  PROVE  /\ Admitted(k, now - Window) = recent[k]
         /\ Cardinality(recent[k]) = Len(After(bucket[k], now - Window))
         /\ Cardinality(recent[k]) \in Nat
<1>1. Counted(k) /\ now - Window \in Int /\ recent[k] \subseteq Nat \X Nat
  BY ApiAssumption DEF Limit
<1>2. Admitted(k, now - Window) = recent[k]
  BY <1>1 DEF Counted, Admitted
<1>3. now - Window >= now - Window
  BY <1>1
<1> QED BY <1>1, <1>2, <1>3, FS_CardinalityType DEF Counted

LEMMA NotRefused == \A k : NoReply # <<k, "429">>
  BY DEF NoReply

LEMMA InitLimit == Init => Limit
<1> SUFFICES ASSUME Init PROVE Limit
  OBVIOUS
<1>1. config.chats \in Int /\ config.chats >= 1
  BY DEF Init, Sound, LimitAccepted
<1>2. \A k \in Identities : bucket[k] = <<>> /\ recent[k] = {} /\ now = 0 /\ reply = NoReply
  BY DEF Init
<1>3. IsFiniteSet({}) /\ Cardinality({}) = 0
  BY FS_EmptySet
<1>4. Len(<<>>) = 0 /\ <<>> \in Seq(Nat)
  OBVIOUS
<1>5. ASSUME NEW k \in Identities PROVE Counted(k)
  <2>1. bucket[k] = <<>> /\ recent[k] = {} /\ 1 .. Len(<<>>) = {}
    BY <1>2, <1>4
  <2>2. ASSUME NEW cutoff \in Int PROVE Cardinality(Admitted(k, cutoff)) = Len(After(bucket[k], cutoff))
    <3>1. Len(After(<<>>, cutoff)) = 0
      BY <1>4, <2>1, AfterAll
    <3>2. Admitted(k, cutoff) = {}
      BY <2>1 DEF Admitted
    <3> QED BY <1>3, <2>1, <3>1, <3>2
  <2>3. \A i \in 1 .. Len(bucket[k]) : bucket[k][i] <= now
    BY <2>1
  <2> QED BY <1>3, <2>1, <2>2, <2>3 DEF Counted
<1>6. WindowExact
  <2>1. ASSUME NEW k \in Identities PROVE reply # <<k, "429">>
    BY NotRefused DEF Init
  <2>2. ASSUME NEW k \in Identities PROVE Cardinality(recent[k]) <= config.chats
    <3>1. recent[k] = {}
      BY <1>2
    <3> QED BY <1>1, <1>3, <3>1
  <2> QED BY <2>1, <2>2 DEF WindowExact
<1>7. bucket \in [Identities -> Seq(Nat)] /\ recent \in [Identities -> SUBSET (Nat \X Nat)] /\ now \in Nat
  BY <1>4 DEF Init
<1> QED BY <1>1, <1>5, <1>6, <1>7 DEF Limit

(* Time passes: what leaves the window was admitted before it. *)
LEMMA TickLimit ==
  ASSUME Limit, Tick
  PROVE  Limit'
<1>1. /\ config' = config /\ bucket' = bucket /\ now' = now + 1 /\ reply' = NoReply
      /\ recent' = [k \in Identities |-> {h \in recent[k] : h[1] > now + 1 - Window}]
  BY DEF Tick
<1>2. now \in Nat /\ now' \in Nat /\ Window \in Nat /\ now' - Window = now + 1 - Window
  BY <1>1, ApiAssumption DEF Limit
<1>3. \A k \in Identities : recent'[k] = {h \in recent[k] : h[1] > now' - Window}
  BY <1>1, <1>2
<1>4. recent' \in [Identities -> SUBSET (Nat \X Nat)]
  BY <1>1 DEF Limit
<1>5. ASSUME NEW k \in Identities
      PROVE  Counted(k)' /\ Cardinality(recent'[k]) <= Cardinality(recent[k])
  <2>1. /\ Counted(k) /\ recent[k] \subseteq Nat \X Nat /\ bucket[k] \in Seq(Nat)
        /\ Len(bucket[k]) \in Nat /\ \A i \in 1 .. Len(bucket[k]) : bucket[k][i] \in Nat
    BY DEF Limit
  <2>2. \A i \in 1 .. Len(bucket'[k]) : bucket'[k][i] <= now'
    BY <1>1, <1>2, <2>1 DEF Counted
  <2>3. IsFiniteSet(recent'[k]) /\ Cardinality(recent'[k]) <= Cardinality(recent[k])
    BY <1>3, <2>1, FS_Subset DEF Counted
  <2>4. ASSUME NEW h \in recent'[k]
        PROVE  now' - Window < h[1] /\ h[1] <= now' /\ h[1] # now'
    <3>1. h \in recent[k] /\ h[1] \in Nat /\ h[1] > now' - Window /\ h[1] <= now
      BY <1>3, <2>1 DEF Counted
    <3> QED BY <1>1, <1>2, <3>1
  <2>5. ASSUME NEW cutoff \in Int, cutoff >= now' - Window
        PROVE  Cardinality(Admitted(k, cutoff)') = Len(After(bucket'[k], cutoff))
    <3>1. cutoff >= now - Window
      BY <1>1, <1>2, <2>5
    <3>2. \A h \in recent[k] : h[1] \in Nat
      BY <2>1
    <3>3. {h \in recent'[k] : h[1] > cutoff} = {h \in recent[k] : h[1] > cutoff}
      BY <1>2, <1>3, <2>5, <3>2
    <3> QED BY <1>1, <2>1, <3>1, <3>3 DEF Counted, Admitted
  <2> QED BY <2>2, <2>3, <2>4, <2>5 DEF Counted
<1>6. WindowExact'
  <2>1. \A k \in Identities : /\ Cardinality(recent'[k]) \in Nat /\ Cardinality(recent[k]) \in Nat
                              /\ Cardinality(recent[k]) <= config.chats
    BY <1>5, FS_CardinalityType DEF Counted, Limit, WindowExact
  <2>2. \A k \in Identities : reply' # <<k, "429">> /\ config'.chats = config.chats /\ config.chats \in Int
    BY <1>1, NotRefused DEF Limit
  <2>3. \A k \in Identities : Cardinality(recent'[k]) <= config'.chats
    BY <1>5, <2>1, <2>2
  <2> QED BY <2>2, <2>3 DEF WindowExact
<1> QED BY <1>1, <1>2, <1>4, <1>5, <1>6 DEF Limit

(* A chat is counted when it is admitted, and not when it is refused. *)
LEMMA HitLimit ==
  ASSUME Limit, NEW r \in Requests, NEW k \in Identities, ChatArrives(r, k)
  PROVE  Limit'
<1> DEFINE start == now - Window
           kept == After(bucket[k], start)
           new == <<now, Cardinality(recent[k])>>
<1>1. /\ bucket[k] \in Seq(Nat) /\ recent[k] \subseteq Nat \X Nat /\ Counted(k)
      /\ now \in Nat /\ start \in Int /\ start < now /\ config.chats \in Int
  BY ApiAssumption DEF Limit
<1>2. kept \in Seq(Nat) /\ Len(kept) = Cardinality(recent[k]) /\ Len(kept) \in Nat
  BY <1>1, AfterCuts, AfterCut, AllAdmitted
<1>3. \A i \in 1 .. Len(kept) : kept[i] <= now
  <2>1. PICK n : Cut(bucket[k], start, n)
    BY <1>1, AfterCuts
  <2>2. /\ Len(kept) = Len(bucket[k]) - n /\ n \in 0 .. Len(bucket[k]) /\ Len(bucket[k]) \in Nat
        /\ \A i \in 1 .. Len(bucket[k]) - n : kept[i] = bucket[k][n + i]
    <3>1. n \in 0 .. Len(bucket[k])
      BY <2>1 DEF Cut
    <3>2. bucket[k] \in Seq(Nat) /\ start \in Int /\ Len(bucket[k]) \in Nat
      BY <1>1
    <3>3. /\ Len(kept) = Len(bucket[k]) - n
          /\ \A i \in 1 .. Len(bucket[k]) - n : kept[i] = bucket[k][n + i]
      <4> HIDE DEF start
      <4> QED BY <2>1, <3>2, AfterCut
    <3> QED BY <3>1, <3>2, <3>3
  <2> HIDE DEF kept
  <2>3. ASSUME NEW i \in 1 .. Len(kept) PROVE kept[i] <= now
    <3>1. i \in 1 .. Len(bucket[k]) - n /\ n + i \in 1 .. Len(bucket[k])
      BY <2>2
    <3>2. kept[i] = bucket[k][n + i]
      BY <2>2, <3>1
    <3>3. bucket[k][n + i] <= now
      BY <1>1, <3>1 DEF Counted
    <3> QED BY <3>2, <3>3
  <2> QED BY <2>3
<1>4. Room(k) <=> Len(kept) < config.chats
  BY DEF Room
<1>5. UNCHANGED <<config, now>>
  BY DEF ChatArrives
<1>6. bucket' = [bucket EXCEPT ![k] = IF Len(kept) < config.chats THEN Append(kept, now) ELSE kept]
  BY DEF ChatArrives, Hit
<1>7. IF Room(k) THEN recent' = [recent EXCEPT ![k] = recent[k] \cup {new}] /\ reply' = <<k, "chat">>
      ELSE recent' = recent /\ reply' = <<k, "429">>
  BY DEF ChatArrives
<1>8. new \in Nat \X Nat /\ new[1] = now /\ new[2] = Cardinality(recent[k])
  BY <1>1, <1>2
<1>9. \A cutoff \in Int : cutoff >= start => Len(After(kept, cutoff)) = Len(After(bucket[k], cutoff))
  BY <1>1, AfterAfter
<1> HIDE DEF kept, new
<1>10. /\ bucket' \in [Identities -> Seq(Nat)]
       /\ \A q \in Identities \ {k} : bucket'[q] = bucket[q]
       /\ bucket'[k] = IF Room(k) THEN Append(kept, now) ELSE kept
  BY <1>1, <1>2, <1>4, <1>6 DEF Limit
<1>11. /\ recent' \in [Identities -> SUBSET (Nat \X Nat)]
       /\ \A q \in Identities \ {k} : recent'[q] = recent[q]
       /\ recent'[k] = IF Room(k) THEN recent[k] \cup {new} ELSE recent[k]
  <2>1. recent \in [Identities -> SUBSET (Nat \X Nat)] /\ recent[k] \cup {new} \in SUBSET (Nat \X Nat)
    BY <1>8 DEF Limit
  <2>2. CASE Room(k)
    BY <1>7, <2>1, <2>2
  <2>3. CASE ~Room(k)
    BY <1>7, <2>1, <2>3
  <2> QED BY <2>2, <2>3
<1>12. ASSUME NEW q \in Identities \ {k} PROVE Counted(q)'
  <2>1. Counted(q) /\ bucket'[q] = bucket[q] /\ recent'[q] = recent[q]
    BY <1>10, <1>11 DEF Limit
  <2> QED BY <1>5, <2>1 DEF Counted, Admitted
<1>13. CASE ~Room(k)
  <2>1. bucket'[k] = kept /\ recent'[k] = recent[k]
    BY <1>10, <1>11, <1>13
  <2>2. Counted(k)'
    BY <1>1, <1>3, <1>5, <1>9, <2>1 DEF Counted, Admitted
  <2>3. Cardinality(recent[k]) = config.chats
    BY <1>1, <1>2, <1>4, <1>13 DEF Limit, WindowExact
  <2>4. WindowExact'
    BY <1>5, <1>7, <1>13, <2>3 DEF Limit, WindowExact
  <2> QED BY <1>1, <1>5, <1>10, <1>11, <1>12, <2>2, <2>4 DEF Limit
<1>14. CASE Room(k)
  <2>1. bucket'[k] = Append(kept, now) /\ recent'[k] = recent[k] \cup {new}
    BY <1>10, <1>11, <1>14
  <2>2. new \notin recent[k]
    BY <1>1, <1>2, <1>8 DEF Counted
  <2>3. IsFiniteSet(recent'[k]) /\ Cardinality(recent'[k]) = Cardinality(recent[k]) + 1
    <3>1. IsFiniteSet(recent[k])
      BY <1>1 DEF Counted
    <3> QED BY <2>1, <2>2, <3>1, FS_AddElement
  <2>4. ASSUME NEW i \in 1 .. Len(bucket'[k]) PROVE bucket'[k][i] <= now'
    BY <1>1, <1>2, <1>3, <1>5, <2>1
  <2>5. ASSUME NEW h \in recent'[k]
        PROVE  now' - Window < h[1] /\ h[1] <= now' /\ (h[1] = now' => h[2] < Cardinality(recent'[k]))
    <3>1. CASE h = new
      BY <1>1, <1>2, <1>5, <1>8, <2>3, <3>1
    <3>2. CASE h \in recent[k]
      <4>1. h[2] \in Nat
        BY <1>1, <3>2
      <4> QED BY <1>1, <1>2, <1>5, <2>3, <3>2, <4>1 DEF Counted
    <3> QED BY <2>1, <3>1, <3>2
  <2>6. ASSUME NEW cutoff \in Int, cutoff >= now' - Window
        PROVE  Cardinality(Admitted(k, cutoff)') = Len(After(bucket'[k], cutoff))
    <3>1. cutoff >= start
      BY <1>5, <2>6
    <3>2. Cardinality(Admitted(k, cutoff)) = Len(After(kept, cutoff))
      BY <1>1, <1>9, <3>1 DEF Counted
    <3>3. CASE cutoff < now
      <4>1. {h \in recent'[k] : h[1] > cutoff} = Admitted(k, cutoff) \cup {new}
        BY <1>1, <1>8, <2>1, <3>3 DEF Admitted
      <4>2. IsFiniteSet(Admitted(k, cutoff)) /\ new \notin Admitted(k, cutoff)
        BY <1>1, <2>2, FS_Subset DEF Admitted, Counted
      <4>3. Cardinality(Admitted(k, cutoff)') = Cardinality(Admitted(k, cutoff)) + 1
        BY <4>1, <4>2, FS_AddElement DEF Admitted
      <4>4. Len(After(Append(kept, now), cutoff)) = Len(After(kept, cutoff)) + 1
        BY <1>1, <1>2, <3>3, AfterAppend
      <4> QED BY <2>1, <3>2, <4>3, <4>4
    <3>4. CASE cutoff >= now
      <4>1. Append(kept, now) \in Seq(Nat)
            /\ \A i \in 1 .. Len(Append(kept, now)) : Append(kept, now)[i] <= cutoff
        <5>1. Append(kept, now) \in Seq(Nat) /\ Len(bucket'[k]) \in Nat
              /\ \A i \in 1 .. Len(bucket'[k]) : bucket'[k][i] \in Nat
          BY <1>1, <1>2, <2>1
        <5>2. ASSUME NEW i \in 1 .. Len(bucket'[k]) PROVE bucket'[k][i] <= cutoff
          BY <1>1, <1>5, <2>4, <3>4, <5>1
        <5> QED BY <2>1, <5>1, <5>2
      <4>2. Len(After(bucket'[k], cutoff)) = 0
        BY <2>1, <4>1, AfterAll
      <4>3. \A h \in recent'[k] : h[1] \in Nat /\ h[1] <= now
        BY <1>5, <1>11, <2>5
      <4>4. {h \in recent'[k] : h[1] > cutoff} = {}
        BY <1>1, <3>4, <4>3
      <4> QED BY <4>2, <4>4, FS_EmptySet DEF Admitted
    <3> QED BY <1>1, <3>3, <3>4
  <2>7. Counted(k)'
    BY <2>3, <2>4, <2>5, <2>6 DEF Counted
  <2>8. WindowExact'
    <3>1. Cardinality(recent'[k]) <= config.chats
      BY <1>1, <1>2, <1>4, <1>14, <2>3
    <3>2. ASSUME NEW q \in Identities PROVE reply' # <<q, "429">>
      BY <1>7, <1>14
    <3>3. ASSUME NEW q \in Identities PROVE Cardinality(recent'[q]) <= config'.chats
      BY <1>5, <1>11, <3>1 DEF Limit, WindowExact
    <3> QED BY <3>2, <3>3 DEF WindowExact
  <2> QED BY <1>1, <1>5, <1>10, <1>11, <1>12, <2>7, <2>8 DEF Limit
<1> QED BY <1>13, <1>14

LEMMA NextLimit == Limit /\ [Next]_vars => Limit'
<1> SUFFICES ASSUME Limit, [Next]_vars PROVE Limit'
  OBVIOUS
<1>1. ASSUME UNCHANGED <<config, now, bucket, recent>>,
             reply' = reply \/ \A k \in Identities : reply' # <<k, "429">>
      PROVE  Limit'
  <2>1. \A k \in Identities : Counted(k)'
    BY <1>1 DEF Limit, Counted, Admitted
  <2>2. WindowExact'
    BY <1>1 DEF Limit, WindowExact
  <2> QED BY <1>1, <2>1, <2>2 DEF Limit
<1>2. ASSUME NEW c \in Clients, NEW b \in BOOLEAN, Unauthorized(c, b) PROVE Limit'
  BY <1>1, <1>2 DEF Unauthorized
<1>3. ASSUME NEW r \in Requests, ChatStep(r) PROVE Limit'
  BY <1>1, <1>3 DEF ChatStep, ChatRefused, ChatStarts, ChatRuns, ChatRan, ChatReturns, ChatGoes, NoReply
<1>4. ASSUME NEW r \in Requests, SocketStep(r) PROVE Limit'
  <2>1. UNCHANGED <<config, now, bucket, recent>> /\ reply' = NoReply
    BY <1>4 DEF SocketStep, Accept, Ping, CheckPong, ReadPong, RunStarts, RunEnds, Disconnect, SocketGoes
  <2> QED BY <1>1, <2>1, NotRefused
<1>5. ASSUME NEW r \in Requests, NEW k \in Known(TRUE), SocketArrives(r, k) PROVE Limit'
  BY <1>1, <1>5 DEF SocketArrives
<1>6. ASSUME NEW r \in Requests, NEW k \in Known(FALSE), ChatArrives(r, k) PROVE Limit'
  BY <1>6, HitLimit, KnownIdentities
<1>7. CASE UNCHANGED vars
  BY <1>1, <1>7 DEF vars, guardVars
<1> QED BY <1>2, <1>3, <1>4, <1>5, <1>6, <1>7, TickLimit DEF Next

-----------------------------------------------------------------------------
(***************************************************************************)
(* The theorems                                                            *)
(***************************************************************************)
FrontInv == Typed /\ Override /\ Punctual /\ Slots /\ Limit

LEMMA FrontInvariant == Spec => []FrontInv
<1>1. Init => FrontInv
  BY InitTyped, InitOverride, InitPunctual, InitSlots, InitLimit DEF FrontInv
<1>2. FrontInv /\ [Next]_vars => FrontInv'
  BY NextTyped, NextOverride, NextPunctual, NextSlots, NextLimit DEF FrontInv
<1> QED BY <1>1, <1>2, PTL DEF Spec

(* No window holds more admitted chats of a key than the limit, and a chat *)
(* is refused only if it holds as many: what hit() drops from the left of  *)
(* the bucket, lazily and only when it is asked, is just what is too old.  *)
THEOREM WindowHolds == Spec => []WindowExact
<1>1. FrontInv => WindowExact
  BY DEF FrontInv, Limit
<1> QED BY <1>1, FrontInvariant, PTL

(* The slots taken are the sockets that are open, never more than allowed. *)
THEOREM SlotsCounted == Spec => []SlotsAreSockets
<1>1. FrontInv => SlotsAreSockets
  BY DEF FrontInv, Slots
<1> QED BY <1>1, FrontInvariant, PTL

(* A chat that overrides the swarm setting alone runs in the mode it asked *)
(* for, and leaves the setting as it was.                                  *)
THEOREM OverrideIsLocal == Spec => []OverrideHolds
<1>1. FrontInv => OverrideHolds
  BY DEF FrontInv, Override, OverrideHolds, Overriding
<1> QED BY <1>1, FrontInvariant, PTL

(* The ping loop closes no socket whose client answered in time, whatever  *)
(* the periods, as long as a pong is waited for less than Silence.         *)
THEOREM ClosesOnlyTheSilent == Spec => []PromptClientKept
<1>1. FrontInv => PromptClientKept
  BY DEF FrontInv, Punctual, Prompt, PromptClientKept
<1> QED BY <1>1, FrontInvariant, PTL

===================================================================================
