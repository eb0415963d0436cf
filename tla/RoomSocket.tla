----------------------------- MODULE RoomSocket -----------------------------
(***************************************************************************)
(* The browser's link to the realtime service: a token, a socket, pings,   *)
(* and reconnecting.  Each match has a link of its own; a socket whose page*)
(* is left stays open without listeners until the next page's link answers.*)
(*                                                                         *)
(* A socket is current when it is the one of the running effect; handlers  *)
(* of other sockets do nothing.                                            *)
(***************************************************************************)
EXTENDS RoomRefresh

CONSTANT MaxSockets  \* BOUND: sockets of a session

ASSUME SocketAssumption == MaxSockets \in Nat

VARIABLES
  linked,      \* the match whose effect runs: its room and round
  ready,       \* readyState of a socket
  current,     \* currentSocket, or 0
  token,       \* a token is being fetched (connecting)
  reconnect,   \* the reconnect timer is set
  tried,       \* reconnectAttempt is not 0
  awaiting,    \* awaitingPong
  rejected,    \* a heartbeat was rejected (heartbeatFailures)
  silent,      \* sockets whose peer is gone without a word
  realtime,    \* what the page shows: CONNECTING, LIVE or POLLING
  deferred,    \* deferredSocketCloses: the socket of each key, or 0
  online       \* navigator.onLine

socketVars ==
  <<linked, ready, current, token, reconnect, tried, awaiting, rejected, silent, realtime, deferred, online>>

Socks == 1 .. MaxSockets
Keys == Rooms \X (1 .. MaxRound)
NoKey == <<0, 0>>

Live(s) == s # 0 /\ ready[s] \in {"CONNECTING", "OPEN"}
IsOpen(s) == s # 0 /\ ready[s] = "OPEN"

SocketTypeOK ==
  /\ linked \in Keys \cup {NoKey}
  /\ ready \in [Socks -> {"NONE", "CONNECTING", "OPEN", "CLOSING", "CLOSED"}]
  /\ current \in 0 .. MaxSockets
  /\ {token, reconnect, tried, awaiting, rejected, online} \subseteq BOOLEAN
  /\ silent \subseteq Socks
  /\ realtime \in {"CONNECTING", "LIVE", "POLLING"}
  /\ deferred \in [Keys -> 0 .. MaxSockets]
  /\ reconnect => linked # NoKey /\ tried /\ ~Live(current)
  /\ awaiting => current # 0
  /\ token => current = 0

SocketInit ==
  /\ linked = NoKey
  /\ ready = [s \in Socks |-> "NONE"]
  /\ current = 0 /\ token = FALSE /\ reconnect = FALSE /\ tried = FALSE
  /\ awaiting = FALSE /\ rejected = FALSE /\ silent = {}
  /\ realtime = "CONNECTING"
  /\ deferred = [k \in Keys |-> 0]
  /\ online = TRUE

(* closeSocket of each of S.                                               *)
Closing(S) == [s \in Socks |-> IF s \in S /\ Live(s) THEN "CLOSING" ELSE ready[s]]

(* A change of realtime starts the polling loop anew.                      *)
Shows(x) ==
  /\ realtime' = x
  /\ poll' = IF x = realtime THEN poll ELSE "TIMER"

RoomKeeps == UNCHANGED <<server, room, shown, status, answer, queued, replies>>

-----------------------------------------------------------------------------
(* Connecting.                                                             *)

(* scheduleReconnect, when no token is being fetched.                      *)
ScheduleReconnect(cur) ==
  IF online /\ ~reconnect /\ ~Live(cur) THEN reconnect' = TRUE /\ tried' = TRUE
  ELSE UNCHANGED <<reconnect, tried>>

(* connect, for which the reconnect timer has been cleared: a socket that  *)
(* is still closing is of an older generation from here on.                *)
Connect(on) ==
  /\ reconnect' = FALSE
  /\ IF ~token /\ on /\ ~Live(current)
       THEN /\ token' = TRUE /\ current' = 0 /\ awaiting' = FALSE
            /\ Shows(IF tried THEN realtime ELSE "CONNECTING")
       ELSE UNCHANGED <<token, current, awaiting, realtime, poll>>

ReconnectFires ==
  /\ reconnect /\ Connect(online)
  /\ RoomKeeps /\ UNCHANGED <<debounce, wanted, left>>
  /\ UNCHANGED <<linked, ready, tried, rejected, silent, deferred, online>>

(* A socket that is gone may be forgotten.                                 *)
Unused == {s \in Socks : ready[s] \in {"NONE", "CLOSED"} /\ s # current /\ \A k \in Keys : deferred[k] # s}

TokenArrives ==
  /\ token /\ token' = FALSE
  /\ \E s \in Unused :
       /\ \A u \in Unused : s <= u
       /\ ready' = [ready EXCEPT ![s] = "CONNECTING"]
       /\ current' = s /\ silent' = silent \ {s}
  /\ awaiting' = FALSE /\ rejected' = FALSE
  /\ RoomKeeps
  /\ UNCHANGED <<debounce, poll, wanted, left, linked, reconnect, tried, realtime, deferred, online>>

TokenFails ==
  /\ token /\ token' = FALSE
  /\ IF online THEN Spend("faults") ELSE left' = left
  /\ Shows("POLLING") /\ ScheduleReconnect(current)
  /\ RoomKeeps
  /\ UNCHANGED <<debounce, wanted, linked, ready, current, awaiting, rejected, silent, deferred, online>>

-----------------------------------------------------------------------------
(* The socket.                                                             *)

(* onOpen: a refresh for what was missed, and the first ping.              *)
SocketOpens(s) ==
  /\ ready[s] = "CONNECTING" /\ s \notin silent
  /\ ready' = [ready EXCEPT ![s] = "OPEN"]
  /\ IF s = current THEN debounce' = TRUE /\ awaiting' = TRUE ELSE UNCHANGED <<debounce, awaiting>>
  /\ RoomKeeps
  /\ UNCHANGED <<poll, wanted, left, linked, current, token, reconnect, tried, rejected, silent,
                 realtime, deferred, online>>

Heartbeat ==
  /\ IsOpen(current) /\ ~awaiting /\ awaiting' = TRUE
  /\ RoomKeeps
  /\ UNCHANGED <<debounce, poll, wanted, left, linked, ready, current, token, reconnect, tried, rejected,
                 silent, realtime, deferred, online>>

(* PONG: the link is live, and the one it replaces is closed.              *)
Pong ==
  /\ IsOpen(current) /\ awaiting /\ current \notin silent
  /\ awaiting' = FALSE /\ rejected' = FALSE
  /\ Shows("LIVE")
  /\ ready' = Closing({deferred[linked]})
  /\ deferred' = [deferred EXCEPT ![linked] = 0]
  /\ RoomKeeps
  /\ UNCHANGED <<debounce, wanted, left, linked, current, token, reconnect, tried, silent, online>>

(* An answer of the service that rejects the ping: RATE_LIMITED does not   *)
(* count as a failure; the second failure in a row closes the socket of a  *)
(* page that is not hidden.                                                *)
PingError ==
  /\ IsOpen(current) /\ awaiting /\ current \notin silent /\ Spend("faults")
  /\ awaiting' = FALSE
  /\ \/ UNCHANGED <<rejected, ready>>
     \/ rejected' = TRUE /\ ready' \in {ready, IF rejected THEN Closing({current}) ELSE ready}
  /\ RoomKeeps
  /\ UNCHANGED <<debounce, poll, wanted, linked, current, token, reconnect, tried, silent,
                 realtime, deferred, online>>

(* The link has been stable: the next reconnect is the first.              *)
Stable ==
  /\ IsOpen(current) /\ realtime = "LIVE" /\ tried /\ tried' = FALSE
  /\ RoomKeeps
  /\ UNCHANGED <<debounce, poll, wanted, left, linked, ready, current, token, reconnect, awaiting, rejected,
                 silent, realtime, deferred, online>>

(* The handshake timer and the watchdog, for a peer that is gone.          *)
TimesOut ==
  /\ Live(current) /\ current \in silent
  /\ ready[current] = "OPEN" => awaiting
  /\ ready' = Closing({current})
  /\ RoomKeeps
  /\ UNCHANGED <<debounce, poll, wanted, left, linked, current, token, reconnect, tried, awaiting, rejected,
                 silent, realtime, deferred, online>>

(* Fault: the page goes on polling without a link.                         *)
BadRetries == UNCHANGED <<reconnect, tried>>
(* onClose retries.                                                        *)
Retries == ScheduleReconnect(0)

SocketClosed(s) ==
  /\ ready[s] = "CLOSING"
  /\ ready' = [ready EXCEPT ![s] = "CLOSED"]
  /\ IF s = current
       THEN current' = 0 /\ awaiting' = FALSE /\ Shows("POLLING") /\ Retries
       ELSE UNCHANGED <<current, awaiting, realtime, poll, reconnect, tried>>
  /\ RoomKeeps
  /\ UNCHANGED <<debounce, wanted, left, linked, token, rejected, silent, deferred, online>>

(* The linked match had version v; it may be over by now.                  *)
WasThere(v) ==
  /\ linked \in {room} \X (1 .. server[room].round)
  /\ linked[2] = server[room].round => v <= server[room].version

(* An event or a snapshot of the match arrives.                            *)
Invalidation(v) ==
  /\ IsOpen(current) /\ current \notin silent
  /\ WasThere(v) /\ v > shown.version
  /\ debounce' = TRUE
  /\ LET s == [room |-> room, round |-> linked[2], version |-> v]
     IN wanted' = IF wanted = Nothing \/ NotOlder(s, wanted) THEN s ELSE wanted
  /\ RoomKeeps
  /\ UNCHANGED <<poll, left, socketVars>>

(* A message without a version, or one that cannot be read: the page looks *)
(* again, whatever it was.                                                 *)
Unreadable ==
  /\ IsOpen(current) /\ current \notin silent /\ Spend("faults")
  /\ debounce' = TRUE
  /\ RoomKeeps
  /\ UNCHANGED <<poll, wanted, socketVars>>

-----------------------------------------------------------------------------
(* The page.                                                               *)

(* Fault: the socket is left to itself.                                    *)
BadDeferred == deferred
(* deferSocketClose: one socket of a key at most waits for its successor.  *)
Deferred == IF Live(current) THEN [deferred EXCEPT ![linked] = current] ELSE deferred

(* The effect ends.                                                        *)
Leave ==
  /\ deferred' = IF linked = NoKey THEN deferred ELSE Deferred
  /\ ready' = IF linked # NoKey /\ Live(current) THEN Closing({deferred[linked]}) ELSE ready
  /\ current' = 0 /\ reconnect' = FALSE /\ tried' = FALSE
  /\ awaiting' = FALSE /\ rejected' = FALSE

(* The page is drawn with the snapshot of another match: its effect runs,  *)
(* and connects.                                                           *)
EffectRuns ==
  /\ shown # Nothing /\ linked # <<shown.room, shown.round>>
  /\ Leave
  /\ linked' = <<shown.room, shown.round>>
  /\ token' = online
  /\ IF online THEN Shows("CONNECTING") ELSE UNCHANGED <<realtime, poll>>
  /\ RoomKeeps /\ UNCHANGED <<debounce, wanted, left, silent, online>>

Moves(r) ==
  /\ MoveTo(r) /\ Leave
  /\ linked' = NoKey /\ token' = FALSE /\ realtime' = "CONNECTING"
  /\ UNCHANGED <<silent, online>>

HandoffTimer(k) ==
  /\ deferred[k] # 0
  /\ deferred' = [deferred EXCEPT ![k] = 0]
  /\ ready' = Closing({deferred[k]})
  /\ RoomKeeps
  /\ UNCHANGED <<debounce, poll, wanted, left, linked, current, token, reconnect, tried, awaiting, rejected,
                 silent, realtime, online>>

GoesOffline ==
  /\ online /\ online' = FALSE /\ Spend("offline")
  /\ IF linked = NoKey THEN UNCHANGED <<reconnect, realtime, poll>>
     ELSE reconnect' = FALSE /\ Shows("POLLING")
  /\ RoomKeeps
  /\ UNCHANGED <<debounce, wanted, linked, ready, current, token, tried, awaiting, rejected, silent, deferred>>

(* The page is online again, or visible again: reconnectImmediately.       *)
Wakes ==
  /\ \/ ~online /\ left' = left
     \/ online /\ Spend("offline")
  /\ online' = TRUE
  /\ IF linked = NoKey THEN UNCHANGED <<debounce, current, awaiting, reconnect, token, realtime, poll>>
     ELSE /\ debounce' = TRUE
          /\ IF IsOpen(current)
               THEN awaiting' = TRUE /\ UNCHANGED <<current, reconnect, token, realtime, poll>>
               ELSE Connect(TRUE)
  /\ RoomKeeps
  /\ UNCHANGED <<wanted, linked, ready, tried, rejected, silent, deferred>>

(* The peer closes, or vanishes without a word.                            *)
PeerLost(s) ==
  /\ Live(s) /\ s \notin silent /\ Spend("closes")
  /\ \/ ready' = Closing({s}) /\ silent' = silent
     \/ silent' = silent \cup {s} /\ ready' = ready
  /\ RoomKeeps
  /\ UNCHANGED <<debounce, poll, wanted, linked, current, token, reconnect, tried, awaiting, rejected,
                 realtime, deferred, online>>
=============================================================================
