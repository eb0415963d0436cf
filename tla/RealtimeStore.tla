---------------------------- MODULE RealtimeStore ----------------------------
(***************************************************************************)
(* What the two realtime transports share: the sessions of one player of   *)
(* one match in the database, the version of the match's event log, the    *)
(* sockets, and the handlers that wait for the database.                   *)
(*                                                                         *)
(* A task is a handler at an await: its pc names the statement that runs,  *)
(* or the result with which the handler goes on.  The statement and what   *)
(* the handler does next are separate steps, so that everything else may   *)
(* happen in between.  Presence in detail (two tabs, two players, the two  *)
(* transactions of a disconnect) is in MatchEngine.                        *)
(*                                                                         *)
(* Time passes in units of 15 seconds.                                     *)
(***************************************************************************)
EXTENDS Integers, FiniteSets, FiniteSetsExt

CONSTANTS
  Socks,       \* sockets of the player; each brings a session of its own
  Limit,       \* events that one query returns at most
  MaxVersion,  \* BOUND: events of the match
  StaleAfter,  \* age at which a session is stale
  Grace,       \* time an absent player has to come back
  SocketCap,   \* sockets a player may have
  None         \* no time

ASSUME StoreAssumption ==
  /\ Socks \subseteq Nat /\ IsFiniteSet(Socks) /\ Socks # {}
  /\ Limit \in Nat \ {0} /\ MaxVersion \in Nat /\ SocketCap \in Nat \ {0}
  /\ StaleAfter \in Nat \ {0} /\ Grace \in Nat /\ Grace >= StaleAfter
  /\ None \notin Int

VARIABLES
  session,   \* realtime_sessions: NONE, OPEN or SHUT
  seen,      \* age of last_seen_at, up to StaleAfter
  away,      \* time left until reconnect_deadline
  phase,     \* the match: ACTIVE, FINISHED, or LEFT when the room has moved on
  version,   \* version of the match
  ws,        \* readyState of a socket, and CLOSED once its close was reported
  cursor,    \* the transport's cursor of a socket
  known,     \* HISTORY: what the client has been told of, up to which version
  repeated,  \* HISTORY: sockets that were sent an event again, or too late
  tasks,     \* handlers at an await
  left,      \* what is left of the budget
  faulted    \* HISTORY: a statement or a message has failed

storeVars == <<session, seen, away, phase, version>>
socketVars == <<ws, cursor, known, repeated>>
realtimeVars == <<storeVars, socketVars, tasks, left, faulted>>

Events == {"upgrades", "commands", "closes", "faults", "appends", "stops", "ends"}

Kinds == {"OPEN", "PING", "SNAPSHOT", "ACT", "CLOSE", "ALARM", "BEAT", "POLL"}
Statements == {"TOUCH", "CONNECT", "EVENTS", "LOAD", "ACT", "WAKE", "DISCONNECT", "SWEEP"}
Results == {"TOUCHED", "CONNECTED", "EVENTS_READ", "LOADED", "ACTED", "WOKEN", "DISCONNECTED",
            "QUEUED", "WAIT", "NEXT", "FAILED", "THROWN"}
Task == [kind : Kinds, sock : Socks, op : Nat, pc : Statements \cup Results,
         from : Nat, at : Int \cup {None}]

StoreTypeOK ==
  /\ session \in [Socks -> {"NONE", "OPEN", "SHUT"}]
  /\ seen \in [Socks -> 0 .. StaleAfter]
  /\ away \in 0 .. Grace \cup {None}
  /\ phase \in {"ACTIVE", "FINISHED", "LEFT"}
  /\ version \in 0 .. MaxVersion
  /\ ws \in [Socks -> {"NONE", "OPEN", "CLOSING", "CLOSED"}]
  /\ cursor \in [Socks -> 0 .. MaxVersion]
  /\ known \in [Socks -> 0 .. MaxVersion]
  /\ repeated \subseteq Socks
  /\ \A t \in tasks : t \in Task
  /\ left \in [Events -> Nat]
  /\ faulted \in BOOLEAN

StoreInit ==
  /\ session = [s \in Socks |-> "NONE"]
  /\ seen = [s \in Socks |-> 0]
  /\ away = None
  /\ phase = "ACTIVE"
  /\ version = 0
  /\ ws = [s \in Socks |-> "NONE"]
  /\ cursor = [s \in Socks |-> 0]
  /\ known = [s \in Socks |-> 0]
  /\ repeated = {}
  /\ tasks = {}
  /\ faulted = FALSE

Spend(e) == left[e] > 0 /\ left' = [left EXCEPT ![e] = @ - 1]

-----------------------------------------------------------------------------
(* Tasks.                                                                  *)

NewTask(kind, s, op, pc) ==
  [kind |-> kind, sock |-> s, op |-> op, pc |-> pc, from |-> 0, at |-> 0]

Start(t) == tasks' = tasks \cup {t}
End(t) == tasks' = tasks \ {t}
Go(t, pc) == tasks' = (tasks \ {t}) \cup {[t EXCEPT !.pc = pc]}
GoWith(t, pc, at) == tasks' = (tasks \ {t}) \cup {[t EXCEPT !.pc = pc, !.at = at]}

Busy(kind, s) == \E t \in tasks : t.kind = kind /\ t.sock = s
SockTasks(s) == {t \in tasks : t.sock = s}

-----------------------------------------------------------------------------
(* Statements.                                                             *)

Least(S) == CHOOSE x \in S : \A y \in S : x <= y
Open == {s \in Socks : session[s] = "OPEN"}

(* The sessions S end, absent since ago.                                   *)
Shut(S, ago) ==
  /\ session' = [s \in Socks |-> IF s \in S THEN "SHUT" ELSE session[s]]
  /\ away' = IF S = {} \/ Open \ S # {} THEN away
             ELSE IF phase = "ACTIVE" THEN Grace - ago ELSE None

StatementUnchanged == UNCHANGED <<version, socketVars, left, faulted>>

(* touchSession, the first half of refreshRealtimeSessionHeartbeat.        *)
Touch(t) ==
  /\ t.pc = "TOUCH"
  /\ IF session[t.sock] = "OPEN" /\ phase # "LEFT"
       THEN seen' = [seen EXCEPT ![t.sock] = 0] /\ Go(t, "TOUCHED")
       ELSE seen' = seen /\ Go(t, "CONNECT")
  /\ UNCHANGED <<session, away, phase>> /\ StatementUnchanged

(* connectSession: the deadline of an absence that is over ends the match. *)
Connected(t) ==
  /\ session' = [session EXCEPT ![t.sock] = "OPEN"]
  /\ seen' = [seen EXCEPT ![t.sock] = 0]
  /\ away' = None
  /\ phase' = IF phase = "ACTIVE" /\ away = 0 THEN "FINISHED" ELSE phase

Connect(t) ==
  /\ t.pc = "CONNECT"
  /\ IF phase = "LEFT"
       THEN Go(t, "FAILED") /\ UNCHANGED <<session, seen, away, phase>>
       ELSE Connected(t) /\ GoWith(t, "CONNECTED", version)
  /\ StatementUnchanged

(* eventsSince.                                                            *)
ReadEvents(t) ==
  /\ t.pc = "EVENTS"
  /\ GoWith(t, "EVENTS_READ", IF version < t.from + Limit THEN version ELSE t.from + Limit)
  /\ UNCHANGED <<session, seen, away, phase>> /\ StatementUnchanged

(* getSnapshotByMatch.                                                     *)
Load(t) ==
  /\ t.pc = "LOAD"
  /\ GoWith(t, "LOADED", version)
  /\ UNCHANGED <<session, seen, away, phase>> /\ StatementUnchanged

Disconnect(t) ==
  /\ t.pc = "DISCONNECT"
  /\ Shut({t.sock} \cap Open, 0)
  /\ Go(t, "DISCONNECTED")
  /\ UNCHANGED <<seen, phase>> /\ StatementUnchanged

(* expireStaleSessions and processDueDisconnects, in this order.  Finishing*)
(* the match leaves reconnect_deadline as it is.  Fault: off by one.       *)
BadExpired == {s \in Open : seen[s] > StaleAfter}
Expired == {s \in Open : seen[s] = StaleAfter}
SweepSessions ==
  /\ Shut(Expired, StaleAfter)
  /\ phase' = IF phase = "ACTIVE" /\ away' = 0 THEN "FINISHED" ELSE phase
  /\ seen' = seen

(* A statement throws: nothing happened, or what a connection did stays    *)
(* although its answer is lost.  THROWN is what no handler of sessions     *)
(* catches.                                                                *)
StatementFails(t) ==
  /\ t.pc \in Statements
  /\ Spend("faults") /\ faulted' = TRUE
  /\ Go(t, IF t.pc \in {"SWEEP", "WAKE"} THEN "THROWN" ELSE "FAILED")
  /\ \/ UNCHANGED <<session, seen, away, phase>>
     \/ t.pc = "CONNECT" /\ phase # "LEFT" /\ Connected(t)
  /\ UNCHANGED <<version, socketVars>>

-----------------------------------------------------------------------------
(* What a client is told.                                                  *)

SendSnapshot(s, v) ==
  /\ known' = [known EXCEPT ![s] = IF v > @ THEN v ELSE @]
  /\ repeated' = repeated

(* The rows from + 1 .. upto, without those up to the cursor c.            *)
(* Fault: off by one.                                                      *)
BadFirstSent(t, c) == (IF t.from > c THEN t.from ELSE c) + 2
FirstSent(t, c) == (IF t.from > c THEN t.from ELSE c) + 1
SendEvents(t, c) ==
  LET s == t.sock
      first == FirstSent(t, c)
  IN IF first > t.at THEN UNCHANGED <<known, repeated>>
     ELSE /\ known' = [known EXCEPT ![s] = IF first <= @ + 1 /\ t.at > @ THEN t.at ELSE @]
          /\ repeated' = IF first <= known[s] THEN repeated \cup {s} ELSE repeated

-----------------------------------------------------------------------------
(* The surroundings.                                                       *)

(* Somebody appends an event.                                              *)
Append ==
  /\ Spend("appends") /\ version < MaxVersion
  /\ version' = version + 1
  /\ UNCHANGED <<session, seen, away, phase, socketVars, tasks, faulted>>

(* The match ends by a verdict, or a rematch takes its place in the room.  *)
MatchEnds ==
  /\ Spend("ends")
  /\ phase' = IF phase = "ACTIVE" THEN "FINISHED" ELSE "LEFT"
  /\ UNCHANGED <<session, seen, away, version, socketVars, tasks, faulted>>

(* The peer closes, or is lost: readyState changes before anyone is told.  *)
PeerCloses(s) ==
  /\ ws[s] = "OPEN"
  /\ Spend("closes")
  /\ ws' = [ws EXCEPT ![s] = "CLOSING"]
  /\ UNCHANGED <<storeVars, cursor, known, repeated, tasks, faulted>>

(* The sweep that does not depend on a room: cron, or another server.      *)
GlobalSweep ==
  /\ Expired # {} \/ (away = 0 /\ phase = "ACTIVE")
  /\ SweepSessions
  /\ UNCHANGED <<version, socketVars, tasks, left, faulted>>

Older ==
  /\ seen' = [s \in Socks |-> IF session[s] = "OPEN" /\ seen[s] < StaleAfter
                                THEN seen[s] + 1 ELSE seen[s]]
  /\ away' = IF away \in {None, 0} THEN away ELSE away - 1
=============================================================================
