------------------------------- MODULE RoomHub -------------------------------
(***************************************************************************)
(* The Durable Object that holds the sockets of one match on Cloudflare.   *)
(* It has one alarm, keeps what it knows of a socket in the socket's       *)
(* attachment, and renews the sessions of its open sockets itself, for a   *)
(* browser may stop the timers of a tab.                                   *)
(*                                                                         *)
(* An event runs until it waits for the database; then others may start.   *)
(* Storage is no such point: the object delivers nothing while it waits    *)
(* for its own storage.  Admission (upgrade, origin, ticket) happened.     *)
(***************************************************************************)
EXTENDS RealtimeStore

CONSTANTS
  RenewAfter,  \* age at which the alarm renews a session
  DueIn        \* how far ahead a deadline is when a request sets it

ASSUME HubAssumption == RenewAfter \in Nat \ {0} /\ RenewAfter < StaleAfter /\ DueIn \in Nat

VARIABLES
  op,       \* operationId of the attachments
  handled,  \* sockets whose attachment says disconnectHandled
  alarm,    \* time until the alarm fires
  leases,   \* sockets that the running alarm has yet to renew
  due,      \* time left until a deadline some request has set
  notice    \* the request's notification is on its way

hubVars == <<op, handled, alarm, leases, due, notice>>

HubTypeOK ==
  /\ op \in [Socks -> Nat]
  /\ handled \subseteq Socks
  /\ alarm \in Nat \cup {None}
  /\ leases \subseteq Socks
  /\ due \in 0 .. DueIn \cup {None}
  /\ notice \in BOOLEAN

HubInit ==
  /\ op = [s \in Socks |-> 0]
  /\ handled = {} /\ leases = {}
  /\ alarm = None /\ due = None /\ notice = FALSE

HubKeeps == UNCHANGED <<storeVars, left, faulted, due, notice>>

-----------------------------------------------------------------------------
(* The alarm.                                                              *)

(* nextMatchWakeAt: whatever will be due, whether or not the match goes on.*)
Deadlines == ({away, due} \ {None}) \cup {RenewAfter - seen[s] : s \in Open}

(* What is due already is due again in five seconds: the next unit.        *)
NextWake == IF Deadlines = {} THEN None
            ELSE Least({IF d <= 0 THEN 1 ELSE d : d \in Deadlines})

(* Fault: the last to schedule wins.                                       *)
BadSchedule(at) == alarm' = IF at = None THEN alarm ELSE at
(* scheduleAt never postpones.                                             *)
Schedule(at) ==
  alarm' = IF at = None \/ (alarm # None /\ alarm <= at) THEN alarm ELSE at

ReadWake(t) ==
  /\ t.pc = "WAKE"
  /\ GoWith(t, "WOKEN", NextWake)
  /\ HubKeeps /\ UNCHANGED <<socketVars, op, handled, alarm, leases>>

(* The last step of every handler: scheduling, and a broadcast.            *)
Arm(t) ==
  /\ t.pc = "WOKEN"
  /\ Schedule(t.at) /\ End(t)
  /\ HubKeeps /\ UNCHANGED <<socketVars, op, handled, leases>>

(* Only the alarm is run again for it; elsewhere it is logged.             *)
GiveUp(t) ==
  /\ t.pc = "THROWN"
  /\ alarm' = IF t.kind = "ALARM" THEN 0 ELSE alarm
  /\ End(t)
  /\ HubKeeps /\ UNCHANGED <<socketVars, op, handled, leases>>

Current(s) == ws[s] = "OPEN" /\ s \notin handled

AlarmFires ==
  /\ alarm = 0 /\ ~\E t \in tasks : t.kind = "ALARM"
  /\ alarm' = None
  /\ leases' = {s \in Socks : Current(s)}
  /\ Start(NewTask("ALARM", Least(Socks), 0, "NEXT"))
  /\ HubKeeps /\ UNCHANGED <<socketVars, op, handled>>

(* refreshOpenSocketSessions: one socket after the other, then the sweeps. *)
NextLease(t) ==
  /\ t.kind = "ALARM" /\ t.pc = "NEXT"
  /\ IF leases = {} THEN leases' = {} /\ Go(t, "SWEEP")
     ELSE LET s == Least(leases)
          IN /\ leases' = leases \ {s}
             /\ IF Current(s)
                  THEN tasks' = (tasks \ {t}) \cup {[t EXCEPT !.sock = s, !.pc = "TOUCH"]}
                  ELSE tasks' = tasks
  /\ HubKeeps /\ UNCHANGED <<socketVars, op, handled, alarm>>

LeaseRenewed(t) ==
  /\ t.kind = "ALARM" /\ t.pc \in {"TOUCHED", "CONNECTED"}
  /\ IF ~Current(t.sock)
       THEN Go(t, "DISCONNECT") /\ UNCHANGED socketVars
       ELSE /\ Go(t, "NEXT")
            /\ IF t.pc = "TOUCHED" THEN UNCHANGED socketVars
               ELSE /\ SendSnapshot(t.sock, t.at)
                    /\ cursor' = [cursor EXCEPT ![t.sock] = IF t.at > @ THEN t.at ELSE @]
                    /\ ws' = ws
  /\ HubKeeps /\ UNCHANGED <<op, handled, alarm, leases>>

LeaseDone(t) ==
  /\ t.kind = "ALARM" /\ t.pc \in {"DISCONNECTED", "FAILED"}
  /\ Go(t, "NEXT")
  /\ HubKeeps /\ UNCHANGED <<socketVars, op, handled, alarm, leases>>

AlarmSweeps(t) ==
  /\ t.kind = "ALARM" /\ t.pc = "SWEEP"
  /\ SweepSessions
  /\ due' = IF due = 0 THEN None ELSE due
  /\ Go(t, "WAKE")
  /\ UNCHANGED <<version, socketVars, left, faulted, op, handled, alarm, leases, notice>>

(* A request sets a deadline and notifies the room, as best it can.        *)
SetDeadline ==
  /\ due = None /\ phase = "ACTIVE" /\ Spend("ends")
  /\ due' = DueIn /\ notice' = TRUE
  /\ UNCHANGED <<storeVars, socketVars, tasks, faulted, op, handled, alarm, leases>>

Notify ==
  /\ notice /\ notice' = FALSE
  /\ IF due = None THEN alarm' = alarm ELSE Schedule(IF due = 0 THEN 1 ELSE due)
  /\ UNCHANGED <<storeVars, socketVars, tasks, left, faulted, op, handled, leases, due>>

NoticeLost ==
  /\ notice /\ notice' = FALSE
  /\ Spend("faults") /\ faulted' = TRUE
  /\ UNCHANGED <<storeVars, socketVars, tasks, op, handled, alarm, leases, due>>

-----------------------------------------------------------------------------
(* Sockets.                                                                *)

Upgrade(s) ==
  /\ ws[s] = "NONE" /\ SockTasks(s) = {} /\ Spend("upgrades")
  /\ Start(NewTask("OPEN", s, 0, "CONNECT"))
  /\ UNCHANGED <<storeVars, socketVars, faulted, hubVars>>

OpenSockets == {s \in Socks : ws[s] = "OPEN"}

RoomForSocket == Cardinality(OpenSockets) < SocketCap

(* The session exists before the limit is checked; accepting the socket    *)
(* and sending the snapshot follow without an await.                       *)
Accept(t) ==
  /\ t.kind = "OPEN" /\ t.pc = "CONNECTED"
  /\ IF RoomForSocket
       THEN /\ ws' = [ws EXCEPT ![t.sock] = "OPEN"]
            /\ cursor' = [cursor EXCEPT ![t.sock] = t.at]
            /\ SendSnapshot(t.sock, t.at)
            /\ Go(t, "WAKE")
       ELSE /\ ws' = [ws EXCEPT ![t.sock] = "CLOSED"]
            /\ UNCHANGED <<cursor, known, repeated>>
            /\ Go(t, "DISCONNECT")
  /\ HubKeeps /\ UNCHANGED <<op, handled, alarm, leases>>

(* The upgrade is over: refused and undone, or without a session.          *)
UpgradeEnds(t) ==
  /\ t.kind = "OPEN" /\ t.pc \in {"DISCONNECTED", "FAILED"}
  /\ End(t)
  /\ ws' = [ws EXCEPT ![t.sock] = "CLOSED"]
  /\ HubKeeps /\ UNCHANGED <<cursor, known, repeated, op, handled, alarm, leases>>

(* PING and SNAPSHOT: the newer operation supersedes the older.            *)
Message(s, kind) ==
  /\ Current(s) /\ Spend("commands")
  /\ op' = [op EXCEPT ![s] = @ + 1]
  /\ Start(NewTask(kind, s, op[s] + 1, IF kind = "PING" THEN "TOUCH" ELSE "CONNECT"))
  /\ UNCHANGED <<storeVars, socketVars, faulted, due, notice, handled, alarm, leases>>

Command(t) == t.kind \in {"PING", "SNAPSHOT"}

(* Fault: an operation that comes too late just ends.                      *)
BadRequireCurrent(t) == tasks' = tasks \ {t}
(* requireCurrentOperation, when it finds that the operation is not.       *)
RequireCurrent(t) == IF Current(t.sock) THEN End(t) ELSE Go(t, "DISCONNECT")

IsCurrent(t) == Current(t.sock) /\ op[t.sock] = t.op

Superseded(t) ==
  /\ Command(t) /\ t.pc \in {"TOUCHED", "CONNECTED", "EVENTS_READ"} /\ ~IsCurrent(t)
  /\ RequireCurrent(t)
  /\ HubKeeps /\ UNCHANGED <<socketVars, op, handled, alarm, leases>>

Touched(t) ==
  /\ t.kind = "PING" /\ t.pc = "TOUCHED" /\ IsCurrent(t)
  /\ tasks' = (tasks \ {t}) \cup {[t EXCEPT !.pc = "EVENTS", !.from = cursor[t.sock]]}
  /\ HubKeeps /\ UNCHANGED <<socketVars, op, handled, alarm, leases>>

(* PING sets the cursor of a copy of the attachment and then stores a      *)
(* fresh copy: only SNAPSHOT moves the cursor.                             *)
PersistedCursor(t) == IF t.kind = "SNAPSHOT" THEN t.at ELSE cursor[t.sock]

Reconnected(t) ==
  /\ Command(t) /\ t.pc = "CONNECTED" /\ IsCurrent(t)
  /\ SendSnapshot(t.sock, t.at)
  /\ cursor' = [cursor EXCEPT ![t.sock] = PersistedCursor(t)]
  /\ Go(t, "WAKE")
  /\ HubKeeps /\ UNCHANGED <<ws, op, handled, alarm, leases>>

EventsRead(t) ==
  /\ t.kind = "PING" /\ t.pc = "EVENTS_READ" /\ IsCurrent(t)
  /\ SendEvents(t, cursor[t.sock])
  /\ cursor' = [cursor EXCEPT ![t.sock] = PersistedCursor(t)]
  /\ Go(t, "WAKE")
  /\ HubKeeps /\ UNCHANGED <<ws, op, handled, alarm, leases>>

CommandEnds(t) ==
  /\ Command(t) /\ t.pc \in {"DISCONNECTED", "FAILED"}
  /\ End(t)
  /\ HubKeeps /\ UNCHANGED <<socketVars, op, handled, alarm, leases>>

(* webSocketClose, webSocketError: whichever comes first; disconnectHandled*)
(* keeps the other from doing anything.                                    *)
SocketCloses(s) ==
  /\ ws[s] = "CLOSING"
  /\ ws' = [ws EXCEPT ![s] = "CLOSED"]
  /\ handled' = handled \cup {s}
  /\ op' = [op EXCEPT ![s] = @ + 1]
  /\ Start(NewTask("CLOSE", s, 0, "DISCONNECT"))
  /\ HubKeeps /\ UNCHANGED <<cursor, known, repeated, alarm, leases>>

SocketClosed(t) ==
  /\ t.kind = "CLOSE" /\ t.pc \in {"DISCONNECTED", "FAILED"}
  /\ IF t.pc = "DISCONNECTED" THEN Go(t, "WAKE") /\ handled' = handled
     ELSE End(t) /\ handled' = handled \ {t.sock}
  /\ HubKeeps /\ UNCHANGED <<socketVars, op, alarm, leases>>

-----------------------------------------------------------------------------
HubStatement(t) ==
  \/ (Touch(t) \/ Connect(t) \/ ReadEvents(t) \/ Disconnect(t) \/ StatementFails(t)) /\ UNCHANGED hubVars
  \/ ReadWake(t) \/ AlarmSweeps(t)

HubResumes(t) ==
  \/ Arm(t) \/ GiveUp(t) \/ NextLease(t) \/ LeaseRenewed(t) \/ LeaseDone(t)
  \/ Accept(t) \/ UpgradeEnds(t) \/ Superseded(t) \/ Touched(t) \/ Reconnected(t)
  \/ EventsRead(t) \/ CommandEnds(t) \/ SocketClosed(t)

HubEvent ==
  \/ AlarmFires \/ SetDeadline \/ Notify \/ NoticeLost
  \/ \E s \in Socks : Upgrade(s) \/ SocketCloses(s) \/ \E k \in {"PING", "SNAPSHOT"} : Message(s, k)

(* Time passes while nothing is due.  Only statements are slow, and not    *)
(* those of a new socket or of the alarm.                                  *)
HubTick ==
  /\ alarm # 0
  /\ \A t \in tasks : t.pc \in Statements /\ t.kind \notin {"OPEN", "ALARM"}
  /\ alarm' = IF alarm = None THEN None ELSE alarm - 1
  /\ due' = IF due \in {None, 0} THEN due ELSE due - 1
  /\ Older
  /\ UNCHANGED <<session, phase, version, socketVars, tasks, left, faulted, op, handled, leases, notice>>
=============================================================================
