---------------------------- MODULE NodeRealtime ----------------------------
(***************************************************************************)
(* The realtime service as a Node process: a client per socket with one    *)
(* heartbeat and one poll in flight at most (CoalescedTask), a chain of    *)
(* commands that run one after the other, timers, and an orderly shutdown. *)
(*                                                                         *)
(* A client is current while it is not closed and its socket is open; its  *)
(* generation changes only when it closes, and is not kept apart.          *)
(***************************************************************************)
EXTENDS RealtimeStore

(* A client is pinged every 15 seconds, a session is stale after 45.       *)
ASSUME NodeAssumption == StaleAfter > 2

VARIABLES
  closed,     \* clients whose close listener has run
  known_id,   \* clients that know the id of their session (snapshotReady)
  alive,      \* clients whose peer has answered the last ping
  requested,  \* clients with a poll to make after the one in flight
  server,     \* UP, or the step of shutdown() that runs
  active,     \* the clients that shutdown() waits for
  beat        \* time until the next ping

nodeVars == <<closed, known_id, alive, requested, server, active, beat>>

ShutdownSteps == <<"UP", "SETUPS", "CHAINS", "TASKS", "DISCONNECTS", "ENDED">>

NodeTypeOK ==
  /\ closed \subseteq Socks /\ known_id \subseteq Socks /\ alive \subseteq Socks
  /\ requested \subseteq Socks /\ active \subseteq Socks
  /\ server \in {ShutdownSteps[i] : i \in 1 .. 6}
  /\ beat \in 0 .. 1

NodeInit ==
  /\ closed = {} /\ known_id = {} /\ alive = {} /\ requested = {} /\ active = {}
  /\ server = "UP"
  /\ beat = 1

NodeKeeps == UNCHANGED <<storeVars, left, faulted>>

IsCurrentClient(s) == s \notin closed /\ ws[s] = "OPEN"
Ready(s) == s \in known_id /\ IsCurrentClient(s)

-----------------------------------------------------------------------------
(* Admission.  The limit is checked in the turn that accepts the socket.   *)

Accepted == {s \in Socks : ws[s] = "OPEN" /\ s \notin closed}

MayAccept == server = "UP" /\ Cardinality(Accepted) < SocketCap

AcceptConnection(s) ==
  /\ ws[s] = "NONE" /\ MayAccept /\ Spend("upgrades")
  /\ ws' = [ws EXCEPT ![s] = "OPEN"]
  /\ alive' = alive \cup {s}
  /\ Start(NewTask("OPEN", s, 0, "CONNECT"))
  /\ UNCHANGED <<storeVars, faulted>>
  /\ UNCHANGED <<cursor, known, repeated, closed, known_id, requested, server, active, beat>>

(* establishRealtimeSession goes on: a close that came first undoes it.    *)
Activate(t) ==
  /\ t.kind = "OPEN" /\ t.pc = "CONNECTED"
  /\ known_id' = known_id \cup {t.sock}
  /\ IF IsCurrentClient(t.sock)
       THEN /\ End(t)
            /\ cursor' = [cursor EXCEPT ![t.sock] = t.at]
            /\ SendSnapshot(t.sock, t.at)
       ELSE /\ Go(t, "DISCONNECT")
            /\ UNCHANGED <<cursor, known, repeated>>
  /\ NodeKeeps
  /\ UNCHANGED <<ws, closed, alive, requested, server, active, beat>>

(* The rollback has been tried, or the connection failed: ws.close().      *)
SetupEnds(t) ==
  /\ t.kind = "OPEN" /\ t.pc \in {"DISCONNECTED", "FAILED"}
  /\ End(t)
  /\ ws' = IF ws[t.sock] = "OPEN" THEN [ws EXCEPT ![t.sock] = "CLOSING"] ELSE ws
  /\ closed' = IF t.sock \in known_id THEN closed \cup {t.sock} ELSE closed
  /\ NodeKeeps
  /\ UNCHANGED <<cursor, known, repeated, known_id, alive, requested, server, active, beat>>

(* The close event.  A rollback that Activate has begun is not repeated.   *)
ClientCloses(s) ==
  /\ ws[s] = "CLOSING"
  /\ ws' = [ws EXCEPT ![s] = "CLOSED"]
  /\ closed' = closed \cup {s}
  /\ requested' = requested \ {s}
  /\ IF s \in known_id /\ ~Busy("OPEN", s) /\ s \notin closed
       THEN Start(NewTask("CLOSE", s, 0, "DISCONNECT")) ELSE UNCHANGED tasks
  /\ NodeKeeps /\ UNCHANGED <<cursor, known, repeated, known_id, alive, server, active, beat>>

-----------------------------------------------------------------------------
(* Heartbeats.                                                             *)

(* requestClientHeartbeat: one in flight, and later requests join it.      *)
Heartbeats(s) ==
  IF Ready(s) /\ ~Busy("BEAT", s) THEN {NewTask("BEAT", s, 0, "TOUCH")} ELSE {}

(* The peer answers a ping.                                                *)
Pong(s) ==
  /\ Ready(s) /\ s \notin alive
  /\ alive' = alive \cup {s}
  /\ tasks' = tasks \cup Heartbeats(s)
  /\ NodeKeeps /\ UNCHANGED <<socketVars, closed, known_id, requested, server, active, beat>>

(* runGuardedRealtimeOperation, when the client was closed meanwhile.      *)
Compensate(t) == tasks' = (tasks \ {t}) \cup {[t EXCEPT !.pc = "DISCONNECT", !.from = 1]}

(* The heartbeat has succeeded or failed.                                  *)
Beaten(t) ==
  /\ t.kind = "BEAT" /\ t.from = 0 /\ t.pc \in {"TOUCHED", "CONNECTED", "FAILED"}
  /\ IF IsCurrentClient(t.sock) THEN End(t) ELSE Compensate(t)
  /\ IF IsCurrentClient(t.sock) /\ t.pc = "CONNECTED"
       THEN /\ cursor' = [cursor EXCEPT ![t.sock] = t.at]
            /\ SendSnapshot(t.sock, t.at)
            /\ ws' = ws
       ELSE UNCHANGED socketVars
  /\ NodeKeeps /\ UNCHANGED nodeVars

Compensated(t) ==
  /\ t.kind = "BEAT" /\ t.from = 1 /\ t.pc \in {"DISCONNECTED", "FAILED"}
  /\ End(t)
  /\ NodeKeeps /\ UNCHANGED <<socketVars, nodeVars>>

(* Every 15 seconds: a peer that has not answered is dropped.              *)
Ping ==
  /\ server = "UP" /\ beat = 0 /\ beat' = 1
  /\ ws' = [s \in Socks |-> IF IsCurrentClient(s) /\ s \notin alive THEN "CLOSING" ELSE ws[s]]
  /\ alive' = {s \in alive : ~IsCurrentClient(s)}
  /\ NodeKeeps
  /\ UNCHANGED <<cursor, known, repeated, tasks, closed, known_id, requested, server, active>>

-----------------------------------------------------------------------------
(* Polls.                                                                  *)

PollTask(s, c) == [NewTask("POLL", s, 0, "EVENTS") EXCEPT !.from = c]

(* requestClientPoll, by the timer or at the end of a command: a request   *)
(* that finds a poll in flight asks for one more.  Polls of the timer that *)
(* would find nothing are left out.                                        *)
Polls(s) == IF Ready(s) /\ ~Busy("POLL", s) THEN {PollTask(s, cursor[s])} ELSE {}
AfterRequest(s) ==
  IF ~Ready(s) THEN requested
  ELSE IF Busy("POLL", s) THEN requested \cup {s} ELSE requested \ {s}

PollTimer(s) ==
  /\ server = "UP" /\ Ready(s) /\ cursor[s] < version
  /\ tasks' = tasks \cup Polls(s)
  /\ requested' = AfterRequest(s)
  /\ NodeKeeps /\ UNCHANGED <<socketVars, closed, known_id, alive, server, active, beat>>

CursorAfter(t) == IF t.at > cursor[t.sock] THEN t.at ELSE cursor[t.sock]

Polled(t) ==
  LET s == t.sock
      current == IsCurrentClient(s)
  IN /\ t.kind = "POLL" /\ t.pc = "EVENTS_READ"
     /\ IF current
          THEN SendEvents(t, cursor[s]) /\ cursor' = [cursor EXCEPT ![s] = CursorAfter(t)]
          ELSE UNCHANGED <<known, repeated, cursor>>
     /\ requested' = requested \ {s}
     /\ tasks' = (tasks \ {t}) \cup (IF s \in requested /\ current THEN {PollTask(s, cursor'[s])} ELSE {})
     /\ NodeKeeps /\ UNCHANGED <<ws, closed, known_id, alive, server, active, beat>>

(* The request for one more is lost with the poll.                         *)
PollFails(t) ==
  /\ t.kind = "POLL" /\ t.pc = "FAILED"
  /\ End(t)
  /\ NodeKeeps /\ UNCHANGED <<socketVars, nodeVars>>

-----------------------------------------------------------------------------
(* Commands, one after the other, also when the client has closed.         *)

CommandKinds == {"PING", "SNAPSHOT", "ACT"}
Chain(s) == {t \in tasks : t.sock = s /\ t.kind \in CommandKinds}

Enqueue(s, kind) ==
  /\ Ready(s) /\ Spend("commands")
  /\ Start(NewTask(kind, s, Cardinality(Chain(s)), "QUEUED"))
  /\ UNCHANGED <<storeVars, faulted, socketVars, nodeVars>>

StartCommand(t) ==
  /\ t.pc = "QUEUED" /\ \A u \in Chain(t.sock) : u.pc = "QUEUED" /\ t.op <= u.op
  /\ CASE t.kind = "PING" -> tasks' = (tasks \ {t}) \cup {[t EXCEPT !.pc = "WAIT"]} \cup Heartbeats(t.sock)
       [] t.kind = "SNAPSHOT" -> Go(t, "LOAD")
       [] t.kind = "ACT" -> Go(t, "ACT")
  /\ NodeKeeps /\ UNCHANGED <<socketVars, nodeVars>>

(* A command of the match engine: whatever else it does, it appends.       *)
Act(t) ==
  /\ t.pc = "ACT"
  /\ version' = IF version < MaxVersion THEN version + 1 ELSE version
  /\ Go(t, "ACTED")
  /\ UNCHANGED <<session, seen, away, phase, socketVars, left, faulted>>

Acted(t) ==
  /\ t.pc = "ACTED"
  /\ tasks' = (tasks \ {t}) \cup {[t EXCEPT !.pc = "WAIT"]} \cup Polls(t.sock)
  /\ requested' = AfterRequest(t.sock)
  /\ NodeKeeps /\ UNCHANGED <<socketVars, closed, known_id, alive, server, active, beat>>

(* Fault: the version is that of the answer's arrival.                     *)
BadSnapshotVersion(t) == version
(* The version that was read, though a poll may be further by now.         *)
SnapshotVersion(t) == t.at

SnapshotLoaded(t) ==
  /\ t.pc = "LOADED"
  /\ cursor' = [cursor EXCEPT ![t.sock] = SnapshotVersion(t)]
  /\ IF IsCurrentClient(t.sock) THEN SendSnapshot(t.sock, t.at) ELSE UNCHANGED <<known, repeated>>
  /\ End(t)
  /\ NodeKeeps /\ UNCHANGED <<ws, nodeVars>>

(* PING waits for the heartbeat, a command of the engine for the poll.     *)
CommandDone(t) ==
  /\ t.kind \in CommandKinds
  /\ \/ t.pc = "FAILED"
     \/ t.pc = "WAIT" /\ ~Busy(IF t.kind = "PING" THEN "BEAT" ELSE "POLL", t.sock)
  /\ End(t)
  /\ NodeKeeps /\ UNCHANGED <<socketVars, nodeVars>>

ClientClosed(t) ==
  /\ t.kind = "CLOSE" /\ t.pc \in {"DISCONNECTED", "FAILED"}
  /\ End(t)
  /\ NodeKeeps /\ UNCHANGED <<socketVars, nodeVars>>

-----------------------------------------------------------------------------
(* Shutdown.                                                               *)

Clients == {s \in Socks : ws[s] \in {"OPEN", "CLOSING"} /\ s \notin closed}

Sigterm ==
  /\ server = "UP" /\ Spend("stops")
  /\ server' = "SETUPS"
  /\ active' = Clients
  /\ ws' = [s \in Socks |-> IF ws[s] = "OPEN" THEN "CLOSING" ELSE ws[s]]
  /\ UNCHANGED <<storeVars, faulted, cursor, known, repeated, tasks, closed, known_id, alive, requested, beat>>

Pending(kinds, S) == \E t \in tasks : t.kind \in kinds /\ t.sock \in S

(* What each step of shutdown() waits for.                                 *)
Awaited == [SETUPS |-> Pending({"OPEN"}, Socks), CHAINS |-> Pending(CommandKinds, active),
            TASKS |-> Pending({"POLL", "BEAT"}, active), DISCONNECTS |-> Pending({"CLOSE"}, active)]

ShutdownStep ==
  \E i \in 2 .. 5 :
    /\ server = ShutdownSteps[i] /\ ~Awaited[server]
    /\ server' = ShutdownSteps[i + 1]
    /\ tasks' = IF server # "TASKS" THEN tasks
                ELSE tasks \cup {NewTask("CLOSE", s, 0, "DISCONNECT") : s \in active \cap known_id}
    /\ NodeKeeps /\ UNCHANGED <<socketVars, closed, known_id, alive, requested, active, beat>>

(* The database client has ended: statements of whoever was not awaited.   *)
StatementCut(t) ==
  /\ server = "ENDED" /\ t.pc \in Statements
  /\ Go(t, "FAILED")
  /\ UNCHANGED <<storeVars, socketVars, left, faulted, nodeVars>>

(* The process dies.                                                       *)
Crash ==
  /\ server # "ENDED" /\ Spend("faults") /\ faulted' = TRUE
  /\ server' = "ENDED" /\ tasks' = {}
  /\ ws' = [s \in Socks |-> IF ws[s] = "NONE" THEN ws[s] ELSE "CLOSED"]
  /\ UNCHANGED <<storeVars, cursor, known, repeated, closed, known_id, alive, requested, active, beat>>

-----------------------------------------------------------------------------
NodeStatement(t) ==
  \/ (Touch(t) \/ Connect(t) \/ ReadEvents(t) \/ Load(t) \/ Act(t) \/ Disconnect(t) \/ StatementFails(t))
       /\ UNCHANGED nodeVars
  \/ StatementCut(t)

NodeResumes(t) ==
  \/ Activate(t) \/ SetupEnds(t) \/ Beaten(t) \/ Compensated(t) \/ Polled(t) \/ PollFails(t)
  \/ StartCommand(t) \/ Acted(t) \/ SnapshotLoaded(t) \/ CommandDone(t) \/ ClientClosed(t)

NodeEvent ==
  \/ Ping \/ Sigterm \/ ShutdownStep \/ Crash
  \/ \E s \in Socks : \/ AcceptConnection(s) \/ ClientCloses(s) \/ Pong(s) \/ PollTimer(s)
                       \/ \E k \in CommandKinds : Enqueue(s, k)

(* Only statements are slow, and not those of connections and heartbeats.  *)
NodeTick ==
  /\ beat # 0 \/ server # "UP"
  /\ \A t \in tasks : t.pc \in Statements /\ t.kind \notin {"OPEN", "BEAT"}
  /\ beat' = 0
  /\ Older
  /\ UNCHANGED <<session, phase, version, socketVars, tasks, left, faulted,
                 closed, known_id, alive, requested, server, active>>
=============================================================================
