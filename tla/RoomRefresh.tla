----------------------------- MODULE RoomRefresh -----------------------------
(***************************************************************************)
(* What a browser shows of a room.  Snapshots come from GET requests, one  *)
(* at a time, and from the answers to the player's own commands; realtime  *)
(* messages only tell that there is something new.  A refresh that finds   *)
(* another in flight asks for one more after it.  An operation of a room   *)
(* the player has left ends without a trace.                               *)
(*                                                                         *)
(* Timers may fire at any time.  A round stands for its match.             *)
(***************************************************************************)
EXTENDS Integers

CONSTANTS
  Rooms,       \* rooms the player visits
  MaxRound,    \* BOUND: rounds of a room
  MaxVersion   \* BOUND: version of a match

ASSUME RefreshAssumption == Rooms \subseteq Nat \ {0} /\ MaxRound \in Nat \ {0} /\ MaxVersion \in Nat

VARIABLES
  server,    \* the server's state of each room
  room,      \* activeRoomCode
  shown,     \* the snapshot: its room, round and version
  status,    \* LOADING, READY, or the ERROR that is shown
  answer,    \* of the request in flight, or that there is none
  queued,    \* refreshQueued
  debounce,  \* the timer of scheduleRoomRefresh is set
  poll,      \* the polling loop: TIMER, or WAIT for its refresh
  replies,   \* answers to commands on their way
  wanted,    \* HISTORY: the newest snapshot a refresh was scheduled for
  left       \* what is left of the budget

refreshVars == <<server, room, shown, status, answer, queued, debounce, poll, replies, wanted, left>>

Snapshot == [room : Rooms, round : 1 .. MaxRound, version : 0 .. MaxVersion]
Nothing == [room |-> 0, round |-> 0, version |-> 0]
Idle == [Nothing EXCEPT !.version = -1]    \* no request is in flight
Failed == [Nothing EXCEPT !.version = -2]  \* the request has failed
Events == {"faults", "moves", "news", "replies", "closes", "offline"}

RefreshTypeOK ==
  /\ server \in [Rooms -> Snapshot]
  /\ room \in Rooms
  /\ shown \in Snapshot \cup {Nothing}
  /\ status \in {"LOADING", "READY", "ERROR"}
  /\ answer \in Snapshot \cup {Nothing, Idle, Failed}
  /\ queued \in BOOLEAN /\ debounce \in BOOLEAN
  /\ poll \in {"TIMER", "WAIT"}
  /\ replies \subseteq Snapshot
  /\ wanted \in Snapshot \cup {Nothing}
  /\ left \in [Events -> Nat]

RefreshInit ==
  /\ server = [r \in Rooms |-> [room |-> r, round |-> 1, version |-> 0]]
  /\ room \in Rooms
  /\ shown = Nothing /\ status = "LOADING"
  /\ answer = Nothing /\ queued = FALSE /\ debounce = FALSE
  /\ poll = "TIMER" /\ replies = {} /\ wanted = Nothing

Spend(e) == left[e] > 0 /\ left' = [left EXCEPT ![e] = @ - 1]

NotOlder(a, b) == a.round > b.round \/ (a.round = b.round /\ a.version >= b.version)

-----------------------------------------------------------------------------
(* Fault: the snapshot that comes last is shown.                           *)
BadAccepts(s) == s.room = room
(* applySnapshot.                                                          *)
Accepts(s) == s.room = room /\ (shown = Nothing \/ NotOlder(s, shown))
Apply(s) ==
  /\ shown' = IF Accepts(s) THEN s ELSE shown
  /\ status' = IF Accepts(s) THEN "READY" ELSE status

(* Fault: the refresh in flight will do.                                   *)
BadOneMore == queued
(* refresh, when one is in flight.                                         *)
OneMore == TRUE
Refresh ==
  /\ queued' = IF answer = Idle THEN FALSE ELSE OneMore
  /\ answer' = IF answer = Idle THEN Nothing ELSE answer

(* The server reads the room, or the request fails or times out.           *)
Serve ==
  /\ answer = Nothing
  /\ \/ answer' = server[room] /\ left' = left
     \/ answer' = Failed /\ Spend("faults")
  /\ UNCHANGED <<server, room, shown, status, queued, debounce, poll, replies, wanted>>

(* The loop of refresh.  An error is shown if there is nothing else, or if *)
(* the player has no access any more.                                      *)
Fetched ==
  /\ answer \notin {Nothing, Idle}
  /\ IF answer # Failed THEN Apply(answer)
     ELSE /\ shown' = shown
          /\ status' \in {"ERROR", IF shown = Nothing THEN "ERROR" ELSE status}
  /\ queued' = FALSE
  /\ answer' = IF queued THEN Nothing ELSE Idle
  /\ poll' = IF ~queued THEN "TIMER" ELSE poll
  /\ wanted' = IF answer = Failed /\ ~queued THEN Nothing ELSE wanted
  /\ UNCHANGED <<server, room, debounce, replies, left>>

DebounceFires ==
  /\ debounce /\ debounce' = FALSE
  /\ Refresh
  /\ UNCHANGED <<server, room, shown, status, poll, replies, wanted, left>>

PollFires ==
  /\ poll = "TIMER" /\ poll' = "WAIT"
  /\ Refresh
  /\ UNCHANGED <<server, room, shown, status, debounce, replies, wanted, left>>

-----------------------------------------------------------------------------
(* The room goes on: an event, or a rematch.                               *)
News(r) ==
  /\ Spend("news")
  /\ \/ server[r].version < MaxVersion /\ server' = [server EXCEPT ![r].version = @ + 1]
     \/ /\ server[r].round < MaxRound
        /\ server' = [server EXCEPT ![r] = [room |-> r, round |-> @.round + 1, version |-> 0]]
  /\ UNCHANGED <<room, shown, status, answer, queued, debounce, poll, replies, wanted>>

(* The answer to a command leaves the server, and arrives.                 *)
Reply ==
  /\ shown # Nothing /\ Spend("replies")
  /\ replies' = replies \cup {server[room]}
  /\ UNCHANGED <<server, room, shown, status, answer, queued, debounce, poll, wanted>>

ReplyArrives(s) ==
  /\ replies' = replies \ {s}
  /\ Apply(s)
  /\ UNCHANGED <<server, room, answer, queued, debounce, poll, wanted, left>>

(* The player goes to a room, or to another page of this one: all anew.    *)
MoveTo(r) ==
  /\ Spend("moves")
  /\ room' = r
  /\ shown' = Nothing /\ status' = "LOADING" /\ wanted' = Nothing
  /\ answer' = Nothing /\ queued' = FALSE /\ debounce' = FALSE /\ poll' = "TIMER"
  /\ UNCHANGED <<server, replies>>

RefreshStep == Serve \/ Fetched \/ DebounceFires \/ \E s \in replies : ReplyArrives(s)
=============================================================================
