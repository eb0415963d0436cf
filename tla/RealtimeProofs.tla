---------------------------- MODULE RealtimeProofs ----------------------------
(***************************************************************************)
(* What holds of a player's sockets and sessions on either transport, for  *)
(* any number of sockets and events and any times that the assumptions     *)
(* allow.                                                                  *)
(*                                                                         *)
(* SocketInv says what services keep in memory, in all circumstances.      *)
(* SessionsInOrder says, while nothing has failed, what every handler that *)
(* waits at an await may still rely on (HubHandler, NodeHandler), which of *)
(* them will close or renew a session (HubSession, NodeSession), and that  *)
(* renewals come in time (InTime, BeatenInTime) and the alarm too          *)
(* (AlarmInOrder).  The lemmas that end in Follow(s) or Grow(s) say what a *)
(* step must leave alone for a part of this to stay true of bystanders.    *)
(***************************************************************************)
EXTENDS Realtime, FiniteSetTheorems, WellFoundedInduction, TLAPS

-----------------------------------------------------------------------------
(* Constants and tasks.                                                    *)

LEMMA Stores ==
  /\ Socks \subseteq Nat /\ IsFiniteSet(Socks) /\ Socks # {}
  /\ Limit \in Nat /\ Limit > 0 /\ MaxVersion \in Nat /\ SocketCap \in Nat /\ SocketCap > 0
  /\ StaleAfter \in Nat /\ StaleAfter > 0 /\ Grace \in Nat /\ Grace >= StaleAfter
  /\ RenewAfter \in Nat /\ RenewAfter > 0 /\ RenewAfter < StaleAfter /\ DueIn \in Nat
  /\ None \notin Int
BY StoreAssumption, HubAssumption

Pcs == Statements \cup Results

(* The task t goes on as another.                                          *)
Becomes(t, pc, from, at) ==
  \E u \in Task :
    /\ u.kind = t.kind /\ u.sock = t.sock /\ u.op = t.op
    /\ u.pc = pc /\ u.from = from /\ u.at = at
    /\ tasks' = (tasks \ {t}) \cup {u}

LEMMA RecordBecomes ==
  ASSUME NEW t \in Task, NEW s \in Socks, NEW pc \in Pcs, NEW from \in Nat, NEW at \in Int \cup {None},
         NEW u, u = [kind |-> t.kind, sock |-> s, op |-> t.op, pc |-> pc, from |-> from, at |-> at]
  PROVE  /\ u \in Task /\ u.kind = t.kind /\ u.sock = s /\ u.op = t.op
         /\ u.pc = pc /\ u.from = from /\ u.at = at
BY DEF Task, Pcs

LEMMA GoBecomes ==
  ASSUME NEW t \in Task, NEW pc \in Pcs, Go(t, pc)
  PROVE  Becomes(t, pc, t.from, t.at)
<1>1. PICK u : u = [t EXCEPT !.pc = pc]
  OBVIOUS
<1>2. u = [kind |-> t.kind, sock |-> t.sock, op |-> t.op, pc |-> pc, from |-> t.from, at |-> t.at]
  BY <1>1 DEF Task
<1>3. t.sock \in Socks /\ t.from \in Nat /\ t.at \in Int \cup {None}
  BY DEF Task
<1>4. tasks' = (tasks \ {t}) \cup {u}
  BY <1>1 DEF Go
<1> QED
  BY <1>2, <1>3, <1>4, RecordBecomes DEF Becomes

LEMMA GoWithBecomes ==
  ASSUME NEW t \in Task, NEW pc \in Pcs, NEW at \in Int \cup {None}, GoWith(t, pc, at)
  PROVE  Becomes(t, pc, t.from, at)
<1>1. PICK u : u = [t EXCEPT !.pc = pc, !.at = at]
  OBVIOUS
<1>2. u = [kind |-> t.kind, sock |-> t.sock, op |-> t.op, pc |-> pc, from |-> t.from, at |-> at]
  BY <1>1 DEF Task
<1>3. t.sock \in Socks /\ t.from \in Nat
  BY DEF Task
<1>4. tasks' = (tasks \ {t}) \cup {u}
  BY <1>1 DEF GoWith
<1> QED
  BY <1>2, <1>3, <1>4, RecordBecomes DEF Becomes

LEMMA FromBecomes ==
  ASSUME NEW t \in Task, NEW pc \in Pcs, NEW from \in Nat,
         tasks' = (tasks \ {t}) \cup {[t EXCEPT !.pc = pc, !.from = from]}
  PROVE  Becomes(t, pc, from, t.at)
<1>1. PICK u : u = [t EXCEPT !.pc = pc, !.from = from]
  OBVIOUS
<1>2. u = [kind |-> t.kind, sock |-> t.sock, op |-> t.op, pc |-> pc, from |-> from, at |-> t.at]
  BY <1>1 DEF Task
<1>3. t.sock \in Socks /\ t.at \in Int \cup {None}
  BY DEF Task
<1>4. tasks' = (tasks \ {t}) \cup {u}
  BY <1>1
<1> QED
  BY <1>2, <1>3, <1>4, RecordBecomes DEF Becomes

(* The alarm's task turns to socket s.                                     *)
TurnsTo(t, s, pc) ==
  \E u \in Task :
    /\ u.kind = t.kind /\ u.sock = s /\ u.op = t.op
    /\ u.pc = pc /\ u.from = t.from /\ u.at = t.at
    /\ tasks' = (tasks \ {t}) \cup {u}

LEMMA SockTurns ==
  ASSUME NEW t \in Task, NEW pc \in Pcs, NEW s \in Socks,
         tasks' = (tasks \ {t}) \cup {[t EXCEPT !.sock = s, !.pc = pc]}
  PROVE  TurnsTo(t, s, pc)
<1>1. PICK u : u = [t EXCEPT !.sock = s, !.pc = pc]
  OBVIOUS
<1>2. u = [kind |-> t.kind, sock |-> s, op |-> t.op, pc |-> pc, from |-> t.from, at |-> t.at]
  BY <1>1 DEF Task
<1>3. t.from \in Nat /\ t.at \in Int \cup {None}
  BY DEF Task
<1>4. tasks' = (tasks \ {t}) \cup {u}
  BY <1>1
<1> QED
  BY <1>2, <1>3, <1>4, RecordBecomes DEF TurnsTo

LEMMA TaskIsNew ==
  ASSUME NEW kind \in Kinds, NEW s \in Socks, NEW n \in Nat, NEW pc \in Pcs
  PROVE  LET u == NewTask(kind, s, n, pc)
         IN u \in Task /\ u.kind = kind /\ u.sock = s /\ u.op = n /\ u.pc = pc /\ u.from = 0 /\ u.at = 0
BY DEF Task, NewTask, Pcs

LEMMA PollIsNew ==
  ASSUME NEW s \in Socks, NEW c \in Nat
  PROVE  LET u == PollTask(s, c)
         IN u \in Task /\ u.kind = "POLL" /\ u.sock = s /\ u.op = 0 /\ u.pc = "EVENTS" /\ u.from = c /\ u.at = 0
BY DEF Task, PollTask, NewTask, Kinds, Statements

LEMMA LeastOfNaturals ==
  ASSUME NEW S \in SUBSET Nat, S # {}
  PROVE  Least(S) \in S /\ \A x \in S : Least(S) <= x
<1>1. PICK m \in S : \A k \in S : ~(<<k, m>> \in OpToRel(<, Nat))
  BY NatLessThanWellFounded, WFMin
<1>2. \A k \in S : ~(k < m)
  BY <1>1 DEF OpToRel
<1>3. m \in Nat /\ \A k \in S : k \in Nat
  OBVIOUS
<1>4. \A k \in S : m <= k
  BY <1>2, <1>3
<1> QED
  BY <1>4 DEF Least

-----------------------------------------------------------------------------
(* Tasks are well formed.                                                  *)

Versioned == {"CONNECTED", "EVENTS_READ", "LOADED"}
Plain == Pcs \ (Versioned \cup {"WOKEN", "QUEUED"})

SoundIn(t, v) ==
  /\ t.pc \in Versioned => t.at \in 0 .. v
  /\ t.pc = "WOKEN" => t.at \in Nat \cup {None}
  /\ t.pc = "QUEUED" => t.kind \in CommandKinds

TasksSound ==
  /\ tasks \subseteq Task /\ IsFiniteSet(tasks)
  /\ version \in 0 .. MaxVersion
  /\ \A t \in tasks : SoundIn(t, version)

LEMMA PlainIsPc == Plain \subseteq Pcs
BY DEF Plain

LEMMA JoinSound ==
  ASSUME TasksSound, version' \in 0 .. MaxVersion, version <= version',
         NEW N \in SUBSET Task, IsFiniteSet(N), \A u \in N : SoundIn(u, version'),
         tasks' \subseteq tasks \cup N
  PROVE  TasksSound'
<1>1. IsFiniteSet(tasks')
  BY FS_Union, FS_Subset DEF TasksSound
<1>2. \A t \in tasks : SoundIn(t, version')
  BY Stores DEF TasksSound, SoundIn
<1> QED
  BY <1>1, <1>2 DEF TasksSound

LEMMA OneMoreSound ==
  ASSUME TasksSound, version' \in 0 .. MaxVersion, version <= version',
         NEW u \in Task, SoundIn(u, version'), tasks' \subseteq tasks \cup {u}
  PROVE  TasksSound'
<1>1. IsFiniteSet({u})
  BY FS_Singleton
<1> QED
  BY <1>1, JoinSound

LEMMA SameSound ==
  ASSUME TasksSound, UNCHANGED version, tasks' \subseteq tasks
  PROVE  TasksSound'
<1>1. IsFiniteSet({}) /\ version <= version' /\ version' \in 0 .. MaxVersion
  BY FS_EmptySet DEF TasksSound
<1> QED
  BY <1>1, JoinSound

LEMMA BecomesSound ==
  ASSUME TasksSound, UNCHANGED version, NEW t \in tasks, NEW pc, NEW from, NEW at,
         \/ pc \in Plain
         \/ pc \in Versioned /\ at \in 0 .. version
         \/ pc = "WOKEN" /\ at \in Nat \cup {None},
         Becomes(t, pc, from, at)
  PROVE  TasksSound'
<1>1. PICK u \in Task : u.pc = pc /\ u.at = at /\ tasks' = (tasks \ {t}) \cup {u}
  BY DEF Becomes
<1>2. SoundIn(u, version')
  BY <1>1 DEF SoundIn, Plain, Versioned
<1>3. version <= version' /\ version' \in 0 .. MaxVersion
  BY DEF TasksSound
<1> QED
  BY <1>1, <1>2, <1>3, OneMoreSound

LEMMA GoSound ==
  ASSUME TasksSound, UNCHANGED version, NEW t \in tasks, NEW pc \in Plain, Go(t, pc)
  PROVE  TasksSound'
<1>1. Becomes(t, pc, t.from, t.at)
  BY GoBecomes, PlainIsPc DEF TasksSound
<1> QED
  BY <1>1, BecomesSound

LEMMA GoWithSound ==
  ASSUME TasksSound, UNCHANGED version, NEW t \in tasks, NEW pc, NEW at,
         \/ pc \in Versioned /\ at \in 0 .. version
         \/ pc = "WOKEN" /\ at \in Nat \cup {None},
         GoWith(t, pc, at)
  PROVE  TasksSound'
<1>1. pc \in Pcs /\ at \in Int \cup {None}
  BY DEF Versioned, Pcs, Results
<1>2. Becomes(t, pc, t.from, at)
  BY <1>1, GoWithBecomes DEF TasksSound
<1> QED
  BY <1>2, BecomesSound

LEMMA FromSound ==
  ASSUME TasksSound, UNCHANGED version, NEW t \in tasks, NEW pc \in Plain, NEW from \in Nat,
         tasks' = (tasks \ {t}) \cup {[t EXCEPT !.pc = pc, !.from = from]}
  PROVE  TasksSound'
<1>1. Becomes(t, pc, from, t.at)
  BY FromBecomes, PlainIsPc DEF TasksSound
<1> QED
  BY <1>1, BecomesSound

LEMMA NewSound ==
  ASSUME TasksSound, UNCHANGED version, NEW kind \in Kinds, NEW s \in Socks, NEW n \in Nat,
         NEW pc \in Plain, Start(NewTask(kind, s, n, pc))
  PROVE  TasksSound'
<1> DEFINE u == NewTask(kind, s, n, pc)
<1>1. u \in Task /\ u.pc = pc
  BY TaskIsNew, PlainIsPc
<1>2. tasks' = tasks \cup {u}
  BY DEF Start
<1> HIDE DEF u
<1>3. SoundIn(u, version')
  BY <1>1 DEF SoundIn, Plain
<1>4. version <= version' /\ version' \in 0 .. MaxVersion
  BY DEF TasksSound
<1> QED
  BY <1>1, <1>2, <1>3, <1>4, OneMoreSound

(* Values that a statement gives its task.                                 *)
LEMMA WakesAreNatural ==
  ASSUME StoreTypeOK, HubTypeOK
  PROVE  NextWake \in Nat \cup {None}
<1>1. CASE Deadlines = {}
  BY <1>1 DEF NextWake
<1>2. CASE Deadlines # {}
  <2> DEFINE S == {IF d <= 0 THEN 1 ELSE d : d \in Deadlines}
  <2>1. Deadlines \subseteq Int
    <3>1. \A s \in Open : seen[s] \in Int /\ RenewAfter \in Int
      BY Stores DEF StoreTypeOK, Open
    <3> QED
      BY <3>1, Stores DEF Deadlines, StoreTypeOK, HubTypeOK
  <2>2. S \subseteq Nat /\ S # {}
    <3>1. \A d \in Int : (IF d <= 0 THEN 1 ELSE d) \in Nat
      OBVIOUS
    <3>2. PICK d \in Deadlines : TRUE
      BY <1>2
    <3>3. (IF d <= 0 THEN 1 ELSE d) \in S
      BY <3>2
    <3>4. S \subseteq Nat
      BY <2>1, <3>1
    <3> QED
      BY <3>3, <3>4
  <2>3. NextWake = Least(S)
    BY <1>2 DEF NextWake
  <2> HIDE DEF S
  <2>4. Least(S) \in S
    BY <2>2, LeastOfNaturals
  <2> QED
    BY <2>2, <2>3, <2>4
<1> QED
  BY <1>1, <1>2

LEMMA PcsArePlain ==
  Statements \cup {"TOUCHED", "ACTED", "DISCONNECTED", "WAIT", "NEXT", "FAILED", "THROWN"} \subseteq Plain
BY DEF Plain, Pcs, Statements, Results, Versioned

LEMMA StatementsKeepSound ==
  ASSUME TasksSound, NEW t \in tasks,
         \/ Touch(t) \/ Connect(t) \/ ReadEvents(t) \/ Load(t) \/ Disconnect(t) \/ StatementFails(t)
  PROVE  TasksSound'
<1>1. version \in 0 .. MaxVersion /\ UNCHANGED version
  BY DEF TasksSound, Touch, Connect, ReadEvents, Load, Disconnect, StatementFails, StatementUnchanged
<1>2. version \in 0 .. version
  BY <1>1, Stores
<1>3. CASE Touch(t)
  BY <1>1, <1>3, GoSound, PcsArePlain DEF Touch, Statements
<1>4. CASE Connect(t)
  BY <1>1, <1>2, <1>4, GoSound, GoWithSound, PcsArePlain DEF Connect, Versioned
<1>5. CASE ReadEvents(t)
  <2> DEFINE at == IF version < t.from + Limit THEN version ELSE t.from + Limit
  <2>1. at \in 0 .. version
    <3>1. t.from \in Nat /\ Limit \in Nat
      BY Stores DEF TasksSound, Task
    <3> QED
      BY <1>1, <3>1, Stores
  <2>2. GoWith(t, "EVENTS_READ", at)
    BY <1>5 DEF ReadEvents
  <2> HIDE DEF at
  <2> QED
    BY <1>1, <2>1, <2>2, GoWithSound DEF Versioned
<1>6. CASE Load(t)
  BY <1>1, <1>2, <1>6, GoWithSound DEF Load, Versioned
<1>7. CASE Disconnect(t)
  BY <1>1, <1>7, GoSound, PcsArePlain DEF Disconnect
<1>8. CASE StatementFails(t)
  BY <1>1, <1>8, GoSound, PcsArePlain DEF StatementFails
<1> QED
  BY <1>3, <1>4, <1>5, <1>6, <1>7, <1>8

LEMMA HubStepsKeepSound ==
  ASSUME StoreTypeOK, HubTypeOK, TasksSound, NEW t \in tasks, HubStatement(t) \/ HubResumes(t)
  PROVE  TasksSound'
<1>0. t \in Task /\ t.sock \in Socks
  BY DEF TasksSound, Task
<1>1. CASE Touch(t) \/ Connect(t) \/ ReadEvents(t) \/ Disconnect(t) \/ StatementFails(t)
  BY <1>1, StatementsKeepSound
<1>2. CASE ReadWake(t)
  <2>1. UNCHANGED version
    BY <1>2 DEF ReadWake, HubKeeps, storeVars
  <2> QED
    BY <1>2, <2>1, WakesAreNatural, GoWithSound DEF ReadWake
<1>3. CASE AlarmSweeps(t)
  BY <1>3, GoSound, PcsArePlain DEF AlarmSweeps, Statements
<1>4. CASE HubResumes(t)
  <2>1. UNCHANGED version
    BY <1>4 DEF HubResumes, Arm, GiveUp, NextLease, LeaseRenewed, LeaseDone, Accept, UpgradeEnds,
                Superseded, Touched, Reconnected, EventsRead, CommandEnds, SocketClosed, HubKeeps, storeVars
  <2>2. CASE End(t)
    BY <2>1, <2>2, SameSound DEF End
  <2>3. CASE \E pc \in {"SWEEP", "DISCONNECT", "NEXT", "WAKE"} : Go(t, pc)
    BY <2>1, <2>3, GoSound, PcsArePlain DEF Statements
  <2>4. CASE tasks' = tasks
    BY <2>1, <2>4, SameSound
  <2>5. CASE \E s \in Socks : tasks' = (tasks \ {t}) \cup {[t EXCEPT !.sock = s, !.pc = "TOUCH"]}
    <3>1. PICK s \in Socks : tasks' = (tasks \ {t}) \cup {[t EXCEPT !.sock = s, !.pc = "TOUCH"]}
      BY <2>5
    <3>2. "TOUCH" \in Plain /\ "TOUCH" \in Pcs
      BY PcsArePlain, PlainIsPc DEF Statements
    <3>3. TurnsTo(t, s, "TOUCH")
      BY <1>0, <3>1, <3>2, SockTurns
    <3>4. PICK u \in Task : u.pc = "TOUCH" /\ tasks' = (tasks \ {t}) \cup {u}
      BY <3>3 DEF TurnsTo
    <3>5. SoundIn(u, version')
      BY <3>4 DEF SoundIn, Versioned
    <3>6. version <= version' /\ version' \in 0 .. MaxVersion
      BY <2>1 DEF TasksSound
    <3> QED
      BY <3>4, <3>5, <3>6, OneMoreSound
  <2>6. CASE \E c \in Nat : tasks' = (tasks \ {t}) \cup {[t EXCEPT !.pc = "EVENTS", !.from = c]}
    BY <2>1, <2>6, FromSound, PcsArePlain DEF Statements
  <2>7. CASE NextLease(t)
    <3>1. CASE leases = {}
      BY <2>3, <2>7, <3>1 DEF NextLease
    <3>2. CASE leases # {}
      <4>1. Least(leases) \in Socks
        BY <3>2, Stores, LeastOfNaturals DEF HubTypeOK
      <4> QED
        BY <2>4, <2>5, <2>7, <3>2, <4>1 DEF NextLease
    <3> QED
      BY <3>1, <3>2
  <2>8. CASE Touched(t)
    <3>1. cursor[t.sock] \in Nat
      <4>1. cursor \in [Socks -> 0 .. MaxVersion]
        BY DEF StoreTypeOK
      <4>2. cursor[t.sock] \in 0 .. MaxVersion
        BY <1>0, <4>1
      <4> QED
        BY <4>2, Stores
    <3> QED
      BY <2>6, <2>8, <3>1 DEF Touched
  <2> QED
    BY <1>4, <2>2, <2>3, <2>7, <2>8
       DEF HubResumes, Arm, GiveUp, LeaseRenewed, LeaseDone, Accept, UpgradeEnds, Superseded, RequireCurrent,
           Reconnected, EventsRead, CommandEnds, SocketClosed
<1> QED
  BY <1>1, <1>2, <1>3, <1>4 DEF HubStatement

LEMMA HubEventsKeepSound ==
  ASSUME StoreTypeOK, HubTypeOK, TasksSound, HubEvent \/ HubTick
  PROVE  TasksSound'
<1>1. UNCHANGED version
  BY DEF HubEvent, AlarmFires, SetDeadline, Notify, NoticeLost, Upgrade, SocketCloses, Message, HubTick,
         HubKeeps, storeVars
<1>2. {"CONNECT", "TOUCH", "DISCONNECT", "NEXT"} \subseteq Plain /\ {"OPEN", "CLOSE", "ALARM", "PING", "SNAPSHOT"} \subseteq Kinds
  BY PcsArePlain DEF Statements, Kinds
<1>3. CASE AlarmFires
  <2>1. Least(Socks) \in Socks
    BY Stores, LeastOfNaturals
  <2> QED
    BY <1>1, <1>2, <1>3, <2>1, NewSound DEF AlarmFires
<1>4. CASE tasks' = tasks
  BY <1>1, <1>4, SameSound
<1>5. ASSUME NEW s \in Socks, Upgrade(s) \/ SocketCloses(s)
      PROVE  TasksSound'
  BY <1>1, <1>2, <1>5, NewSound DEF Upgrade, SocketCloses
<1>6. ASSUME NEW s \in Socks, NEW k \in {"PING", "SNAPSHOT"}, Message(s, k)
      PROVE  TasksSound'
  <2>1. op[s] + 1 \in Nat
    BY DEF HubTypeOK
  <2> QED
    BY <1>1, <1>2, <1>6, <2>1, NewSound DEF Message
<1> QED
  BY <1>3, <1>4, <1>5, <1>6 DEF HubEvent, SetDeadline, Notify, NoticeLost, HubTick

PlainTasks(N) == N \in SUBSET Task /\ IsFiniteSet(N) /\ \A u \in N : u.pc \in Plain

LEMMA PlainTasksSound ==
  ASSUME TasksSound, UNCHANGED version, NEW t \in tasks, NEW N, PlainTasks(N), tasks' \subseteq tasks \cup N
  PROVE  TasksSound'
<1>1. version <= version' /\ version' \in 0 .. MaxVersion
  BY DEF TasksSound
<1>2. \A u \in N : SoundIn(u, version')
  BY DEF SoundIn, PlainTasks, Plain, Versioned
<1> QED
  BY <1>1, <1>2, JoinSound DEF PlainTasks

LEMMA BeatsArePlain ==
  ASSUME NEW s \in Socks
  PROVE  PlainTasks(Heartbeats(s))
<1> DEFINE u == NewTask("BEAT", s, 0, "TOUCH")
<1>1. "BEAT" \in Kinds /\ "TOUCH" \in Plain /\ "TOUCH" \in Pcs
  BY PcsArePlain, PlainIsPc DEF Statements, Kinds
<1>2. u \in Task /\ u.pc = "TOUCH"
  BY <1>1, TaskIsNew
<1>3. Heartbeats(s) = {u} \/ Heartbeats(s) = {}
  BY DEF Heartbeats
<1> HIDE DEF u
<1> QED
  BY <1>1, <1>2, <1>3, FS_EmptySet, FS_Singleton DEF PlainTasks

LEMMA PollIsPlain ==
  ASSUME NEW s \in Socks, NEW c \in Nat
  PROVE  PlainTasks({PollTask(s, c)}) /\ PlainTasks({})
<1> DEFINE u == PollTask(s, c)
<1>1. "EVENTS" \in Plain
  BY PcsArePlain DEF Statements
<1>2. u \in Task /\ u.pc = "EVENTS"
  BY PollIsNew
<1> HIDE DEF u
<1>3. IsFiniteSet({u}) /\ IsFiniteSet({})
  BY FS_EmptySet, FS_Singleton
<1>4. PlainTasks({u}) /\ PlainTasks({})
  BY <1>1, <1>2, <1>3 DEF PlainTasks
<1> QED
  BY <1>4 DEF u

LEMMA PollsArePlain ==
  ASSUME StoreTypeOK, NEW s \in Socks
  PROVE  PlainTasks(Polls(s))
<1>1. cursor[s] \in 0 .. MaxVersion
  BY DEF StoreTypeOK
<1>2. cursor[s] \in Nat
  BY <1>1, Stores
<1>3. Polls(s) = {PollTask(s, cursor[s])} \/ Polls(s) = {}
  BY DEF Polls
<1> QED
  BY <1>2, <1>3, PollIsPlain

LEMMA PlainJoin ==
  ASSUME NEW M, NEW N, PlainTasks(M), PlainTasks(N)
  PROVE  PlainTasks(M \cup N)
BY FS_Union DEF PlainTasks

(* A task goes on, and others start.                                       *)
LEMMA GoAndStartSound ==
  ASSUME TasksSound, UNCHANGED version, NEW t \in tasks, NEW pc \in Plain, NEW N, PlainTasks(N),
         tasks' = (tasks \ {t}) \cup {[t EXCEPT !.pc = pc]} \cup N
  PROVE  TasksSound'
<1>1. PICK u : u = [t EXCEPT !.pc = pc]
  OBVIOUS
<1>2. t \in Task /\ pc \in Pcs
  BY PlainIsPc DEF TasksSound
<1>3. u = [kind |-> t.kind, sock |-> t.sock, op |-> t.op, pc |-> pc, from |-> t.from, at |-> t.at]
  BY <1>1, <1>2 DEF Task
<1>4. t.sock \in Socks /\ t.from \in Nat /\ t.at \in Int \cup {None}
  BY <1>2 DEF Task
<1>5. u \in Task /\ u.pc = pc
  BY <1>2, <1>3, <1>4, RecordBecomes
<1>6. PlainTasks({u})
  BY <1>5, FS_Singleton DEF PlainTasks
<1>7. PlainTasks({u} \cup N)
  BY <1>6, PlainJoin
<1>8. tasks' \subseteq tasks \cup ({u} \cup N)
  BY <1>1
<1> QED
  BY <1>7, <1>8, PlainTasksSound

LEMMA NodeStepsKeepSound ==
  ASSUME StoreTypeOK, cursor' \in [Socks -> 0 .. MaxVersion], TasksSound, NEW t \in tasks, NodeStatement(t) \/ NodeResumes(t)
  PROVE  TasksSound'
<1>0. t \in Task /\ t.sock \in Socks
  BY DEF TasksSound, Task
<1>1. CASE Touch(t) \/ Connect(t) \/ ReadEvents(t) \/ Load(t) \/ Disconnect(t) \/ StatementFails(t)
  BY <1>1, StatementsKeepSound
<1>2. CASE StatementCut(t)
  <2>1. UNCHANGED version
    BY <1>2 DEF StatementCut, storeVars
  <2> QED
    BY <1>2, <2>1, GoSound, PcsArePlain DEF StatementCut
<1>3. CASE Act(t)
  <2>1. version' \in 0 .. MaxVersion /\ version <= version'
    BY <1>3, Stores DEF Act, TasksSound
  <2>2. "ACTED" \in Pcs /\ Go(t, "ACTED")
    BY <1>3 DEF Act, Pcs, Results
  <2>3. PICK u \in Task : u.pc = "ACTED" /\ tasks' = (tasks \ {t}) \cup {u}
    BY <1>0, <2>2, GoBecomes DEF Becomes
  <2>4. SoundIn(u, version')
    BY <2>3 DEF SoundIn, Versioned
  <2> QED
    BY <2>1, <2>3, <2>4, OneMoreSound
<1>4. CASE NodeResumes(t)
  <2>1. UNCHANGED version
    BY <1>4 DEF NodeResumes, Activate, SetupEnds, Beaten, Compensated, Polled, PollFails, StartCommand, Acted,
                SnapshotLoaded, CommandDone, ClientClosed, NodeKeeps, storeVars
  <2>2. CASE End(t)
    BY <2>1, <2>2, SameSound DEF End
  <2>3. CASE \E pc \in {"DISCONNECT", "LOAD", "ACT"} : Go(t, pc)
    BY <2>1, <2>3, GoSound, PcsArePlain DEF Statements
  <2>4. CASE Compensate(t)
    BY <2>1, <2>4, FromSound, PcsArePlain DEF Compensate, Statements
  <2>5. CASE Polled(t)
    <3>1. cursor'[t.sock] \in 0 .. MaxVersion
      BY <1>0
    <3>2. cursor'[t.sock] \in Nat
      BY <3>1, Stores
    <3>3. PlainTasks({PollTask(t.sock, cursor'[t.sock])}) /\ PlainTasks({})
      BY <1>0, <3>2, PollIsPlain
    <3>4. \/ tasks' \subseteq tasks \cup {PollTask(t.sock, cursor'[t.sock])}
          \/ tasks' \subseteq tasks \cup {}
      BY <2>5 DEF Polled
    <3> QED
      BY <2>1, <3>3, <3>4, PlainTasksSound
  <2>6. CASE StartCommand(t)
    <3>1. CASE tasks' = (tasks \ {t}) \cup {[t EXCEPT !.pc = "WAIT"]} \cup Heartbeats(t.sock)
      BY <1>0, <2>1, <3>1, BeatsArePlain, GoAndStartSound, PcsArePlain
    <3>2. t.kind \in CommandKinds
      BY <2>6 DEF TasksSound, SoundIn, StartCommand
    <3> QED
      BY <2>3, <2>6, <3>1, <3>2 DEF StartCommand, CommandKinds
  <2>7. CASE Acted(t)
    BY <1>0, <2>1, <2>7, PollsArePlain, GoAndStartSound, PcsArePlain DEF Acted
  <2> QED
    BY <1>4, <2>2, <2>3, <2>4, <2>5, <2>6, <2>7
       DEF NodeResumes, Activate, SetupEnds, Beaten, Compensated, PollFails, SnapshotLoaded, CommandDone, ClientClosed
<1> QED
  BY <1>1, <1>2, <1>3, <1>4 DEF NodeStatement

-----------------------------------------------------------------------------
(* Types: the store, its sockets and budgets.                              *)

StoreValuesOK ==
  /\ session \in [Socks -> {"NONE", "OPEN", "SHUT"}]
  /\ seen \in [Socks -> 0 .. StaleAfter]
  /\ away \in 0 .. Grace \cup {None}
  /\ phase \in {"ACTIVE", "FINISHED", "LEFT"}
  /\ version \in 0 .. MaxVersion
  /\ left \in [Events -> Nat]
  /\ faulted \in BOOLEAN

SocketValuesOK ==
  /\ ws \in [Socks -> {"NONE", "OPEN", "CLOSING", "CLOSED"}]
  /\ cursor \in [Socks -> 0 .. MaxVersion]
  /\ known \in [Socks -> 0 .. MaxVersion]
  /\ repeated \subseteq Socks

LEMMA StoreTypeSplits ==
  ASSUME StoreTypeOK
  PROVE  StoreValuesOK /\ SocketValuesOK
BY DEF StoreTypeOK, StoreValuesOK, SocketValuesOK

LEMMA SpendKeepsBudget ==
  ASSUME StoreValuesOK, NEW e \in Events, Spend(e)
  PROVE  left' \in [Events -> Nat]
<1>1. left[e] - 1 \in Nat
  BY DEF StoreValuesOK, Spend
<1> QED
  BY <1>1 DEF StoreValuesOK, Spend

LEMMA ShutKeepsValues ==
  ASSUME StoreValuesOK, NEW S, NEW ago \in 0 .. StaleAfter, Shut(S, ago)
  PROVE  session' \in [Socks -> {"NONE", "OPEN", "SHUT"}] /\ away' \in 0 .. Grace \cup {None}
<1>1. session' \in [Socks -> {"NONE", "OPEN", "SHUT"}]
  BY DEF Shut, StoreValuesOK
<1>2. Grace - ago \in 0 .. Grace
  BY Stores
<1>3. away' = away \/ away' = Grace - ago \/ away' = None
  BY DEF Shut
<1> QED
  BY <1>1, <1>2, <1>3 DEF StoreValuesOK

LEMMA ConnectedKeepsValues ==
  ASSUME StoreValuesOK, NEW t, t.sock \in Socks, Connected(t)
  PROVE  /\ session' \in [Socks -> {"NONE", "OPEN", "SHUT"}] /\ seen' \in [Socks -> 0 .. StaleAfter]
         /\ away' = None /\ phase' \in {"ACTIVE", "FINISHED", "LEFT"}
<1>1. 0 \in 0 .. StaleAfter
  BY Stores
<1> QED
  BY <1>1 DEF Connected, StoreValuesOK

LEMMA SweepKeepsValues ==
  ASSUME StoreValuesOK, SweepSessions, UNCHANGED <<version, left, faulted>>
  PROVE  StoreValuesOK'
<1>1. StaleAfter \in 0 .. StaleAfter
  BY Stores
<1>2. session' \in [Socks -> {"NONE", "OPEN", "SHUT"}] /\ away' \in 0 .. Grace \cup {None}
  BY <1>1, ShutKeepsValues DEF SweepSessions
<1>3. phase' \in {"ACTIVE", "FINISHED", "LEFT"} /\ seen' = seen
  BY DEF SweepSessions, StoreValuesOK
<1> QED
  BY <1>2, <1>3 DEF StoreValuesOK

LEMMA OlderKeepsValues ==
  ASSUME StoreValuesOK, Older, UNCHANGED <<session, phase, version, left, faulted>>
  PROVE  StoreValuesOK'
<1>1. \A n \in 0 .. StaleAfter : n < StaleAfter => n + 1 \in 0 .. StaleAfter
  BY Stores
<1>2. seen' \in [Socks -> 0 .. StaleAfter]
  BY <1>1 DEF Older, StoreValuesOK
<1>3. away' \in 0 .. Grace \cup {None}
  BY Stores DEF Older, StoreValuesOK
<1> QED
  BY <1>2, <1>3 DEF StoreValuesOK

LEMMA StatementsKeepValues ==
  ASSUME StoreValuesOK, NEW t, t.sock \in Socks,
         \/ Touch(t) \/ Connect(t) \/ ReadEvents(t) \/ Load(t) \/ Disconnect(t) \/ StatementFails(t)
  PROVE  StoreValuesOK' /\ UNCHANGED socketVars
<1>1. UNCHANGED <<version, socketVars>>
  BY DEF Touch, Connect, ReadEvents, Load, Disconnect, StatementFails, StatementUnchanged
<1>2. CASE Touch(t)
  <2>1. 0 \in 0 .. StaleAfter
    BY Stores
  <2> QED
    BY <1>1, <1>2, <2>1 DEF Touch, StoreValuesOK, StatementUnchanged
<1>3. CASE Connect(t)
  BY <1>1, <1>3, ConnectedKeepsValues DEF Connect, StoreValuesOK, StatementUnchanged
<1>4. CASE ReadEvents(t) \/ Load(t)
  BY <1>1, <1>4 DEF ReadEvents, Load, StoreValuesOK, StatementUnchanged
<1>5. CASE Disconnect(t)
  <2>1. 0 \in 0 .. StaleAfter
    BY Stores
  <2> QED
    BY <1>1, <1>5, <2>1, ShutKeepsValues DEF Disconnect, StoreValuesOK, StatementUnchanged
<1>6. CASE StatementFails(t)
  BY <1>1, <1>6, ConnectedKeepsValues, SpendKeepsBudget DEF StatementFails, StoreValuesOK, Events
<1> QED
  BY <1>1, <1>2, <1>3, <1>4, <1>5, <1>6

(* What a client is told is a version the match has had.                   *)
LEMMA AnswersAreVersions ==
  ASSUME TasksSound, NEW t \in tasks
  PROVE  /\ t.sock \in Socks /\ t.from \in Nat
         /\ t.pc \in Versioned => t.at \in 0 .. MaxVersion
<1>1. t \in Task /\ SoundIn(t, version) /\ version \in 0 .. MaxVersion
  BY DEF TasksSound
<1>2. t.sock \in Socks /\ t.from \in Nat
  BY <1>1 DEF Task
<1>3. t.pc \in Versioned => t.at \in 0 .. MaxVersion
  BY <1>1, Stores DEF SoundIn
<1> QED
  BY <1>2, <1>3

LEMMA SnapshotKeepsValues ==
  ASSUME SocketValuesOK, NEW s \in Socks, NEW v \in 0 .. MaxVersion, SendSnapshot(s, v)
  PROVE  /\ known' \in [Socks -> 0 .. MaxVersion] /\ repeated' \subseteq Socks
         /\ v <= known'[s]
         /\ \A r \in Socks : known[r] <= known'[r]
<1>1. known \in [Socks -> 0 .. MaxVersion] /\ \A r \in Socks : known[r] \in 0 .. MaxVersion
  BY DEF SocketValuesOK
<1>2. known' = [known EXCEPT ![s] = IF v > known[s] THEN v ELSE known[s]]
  BY DEF SendSnapshot
<1>3. known' \in [Socks -> 0 .. MaxVersion]
  BY <1>1, <1>2
<1>4. known'[s] = IF v > known[s] THEN v ELSE known[s]
  BY <1>1, <1>2
<1>5. \A r \in Socks \ {s} : known'[r] = known[r]
  BY <1>1, <1>2
<1>6. v <= known'[s] /\ known[s] <= known'[s]
  BY <1>1, <1>4, Stores
<1>7. \A r \in Socks : known[r] <= known'[r]
  BY <1>1, <1>5, <1>6, Stores
<1> QED
  BY <1>3, <1>6, <1>7 DEF SendSnapshot, SocketValuesOK

(* Events after the cursor: the client is told all up to the last of them, *)
(* provided that it knew those before.                                     *)
LEMMA EventsKeepValues ==
  ASSUME SocketValuesOK, TasksSound, NEW t \in tasks, t.pc = "EVENTS_READ",
         NEW c \in 0 .. MaxVersion, SendEvents(t, c)
  PROVE  /\ known' \in [Socks -> 0 .. MaxVersion] /\ repeated' \subseteq Socks
         /\ \A r \in Socks : known[r] <= known'[r]
         /\ t.from <= known[t.sock] /\ c <= known[t.sock] => t.at <= known'[t.sock]
<1> DEFINE s == t.sock
           first == FirstSent(t, c)
<1>1. s \in Socks /\ t.from \in Nat /\ t.at \in 0 .. MaxVersion
  BY AnswersAreVersions DEF Versioned
<1>2. known \in [Socks -> 0 .. MaxVersion] /\ \A r \in Socks : known[r] \in 0 .. MaxVersion
  BY DEF SocketValuesOK
<1>3. first \in Nat /\ first > t.from /\ first > c /\ (first = t.from + 1 \/ first = c + 1)
  BY <1>1, Stores DEF FirstSent
<1>4. CASE first > t.at
  <2>1. known' = known /\ repeated' = repeated
    BY <1>4 DEF SendEvents
  <2>2. \A r \in Socks : known[r] <= known'[r]
    BY <1>2, <2>1, Stores
  <2>3. t.from <= known[s] /\ c <= known[s] => t.at <= known'[s]
    <3>1. t.at <= t.from \/ t.at <= c
      BY <1>1, <1>3, <1>4, Stores
    <3>2. known[s] \in Nat /\ c \in Nat /\ t.at \in Nat
      <4>1. known[s] \in 0 .. MaxVersion
        BY <1>1, <1>2
      <4> QED
        BY <1>1, <4>1, Stores
    <3> QED
      BY <1>1, <2>1, <3>1, <3>2
  <2> QED
    BY <2>1, <2>2, <2>3 DEF SocketValuesOK
<1>5. CASE ~(first > t.at)
  <2>1. known' = [known EXCEPT ![s] = IF first <= known[s] + 1 /\ t.at > known[s] THEN t.at ELSE known[s]]
    BY <1>5 DEF SendEvents
  <2>2. repeated' \subseteq Socks
    BY <1>1, <1>5 DEF SendEvents, SocketValuesOK
  <2> HIDE DEF first, s
  <2>3. known'[s] = (IF first <= known[s] + 1 /\ t.at > known[s] THEN t.at ELSE known[s])
        /\ \A r \in Socks \ {s} : known'[r] = known[r]
    BY <1>1, <1>2, <2>1
  <2>4. known[s] <= known'[s] /\ \A r \in Socks : known[r] <= known'[r]
    BY <1>1, <1>2, <2>3, Stores
  <2>5. t.from <= known[s] /\ c <= known[s] => t.at <= known'[s]
    BY <1>1, <1>2, <1>3, <1>5, <2>3, Stores
  <2>6. known' \in [Socks -> 0 .. MaxVersion]
    BY <1>1, <1>2, <2>1
  <2> QED
    BY <2>2, <2>4, <2>5, <2>6 DEF s
<1> QED
  BY <1>4, <1>5

LEMMA HubStepsKeepTypes ==
  ASSUME StoreTypeOK, HubTypeOK, TasksSound, NEW t \in tasks, HubStatement(t) \/ HubResumes(t)
  PROVE  StoreValuesOK' /\ SocketValuesOK' /\ HubTypeOK'
<1>0. StoreValuesOK /\ SocketValuesOK /\ t.sock \in Socks /\ t \in Task
  BY StoreTypeSplits, AnswersAreVersions DEF TasksSound
<1>1. CASE (Touch(t) \/ Connect(t) \/ ReadEvents(t) \/ Disconnect(t) \/ StatementFails(t)) /\ UNCHANGED hubVars
  BY <1>0, <1>1, StatementsKeepValues DEF SocketValuesOK, HubTypeOK, hubVars, socketVars
<1>2. CASE AlarmSweeps(t)
  <2>1. StoreValuesOK'
    BY <1>0, <1>2, SweepKeepsValues DEF AlarmSweeps
  <2> QED
    BY <1>0, <1>2, <2>1 DEF AlarmSweeps, SocketValuesOK, HubTypeOK, socketVars
<1>3. CASE ReadWake(t) \/ GiveUp(t) \/ NextLease(t) \/ LeaseDone(t) \/ Superseded(t) \/ Touched(t) \/ CommandEnds(t) \/ SocketClosed(t)
  <2>1. StoreValuesOK' /\ SocketValuesOK'
    BY <1>0, <1>3 DEF ReadWake, GiveUp, NextLease, LeaseDone, Superseded, Touched, CommandEnds, SocketClosed,
       HubKeeps, StoreValuesOK, SocketValuesOK, storeVars, socketVars
  <2>2. HubTypeOK'
    BY <1>0, <1>3 DEF ReadWake, GiveUp, NextLease, LeaseDone, Superseded, Touched, CommandEnds, SocketClosed,
       HubKeeps, HubTypeOK
  <2> QED
    BY <2>1, <2>2
<1>4. CASE Arm(t)
  <2>1. t.at \in Nat \cup {None}
    BY <1>4 DEF Arm, TasksSound, SoundIn
  <2> QED
    BY <1>0, <1>4, <2>1 DEF Arm, Schedule, HubKeeps, StoreValuesOK, SocketValuesOK, HubTypeOK, storeVars, socketVars
<1>5. CASE LeaseRenewed(t) \/ Accept(t) \/ UpgradeEnds(t) \/ Reconnected(t) \/ EventsRead(t)
  <2>1. StoreValuesOK' /\ HubTypeOK'
    BY <1>0, <1>5 DEF LeaseRenewed, Accept, UpgradeEnds, Reconnected, EventsRead, HubKeeps, StoreValuesOK, HubTypeOK, storeVars
  <2>2. CASE UNCHANGED <<cursor, known, repeated>>
    <3>1. ws' = ws \/ ws' = [ws EXCEPT ![t.sock] = "OPEN"] \/ ws' = [ws EXCEPT ![t.sock] = "CLOSED"]
      BY <1>5 DEF LeaseRenewed, Accept, UpgradeEnds, Reconnected, EventsRead, socketVars
    <3>2. ws' \in [Socks -> {"NONE", "OPEN", "CLOSING", "CLOSED"}]
      BY <1>0, <3>1 DEF SocketValuesOK
    <3> QED
      BY <1>0, <2>1, <2>2, <3>2 DEF SocketValuesOK
  <2>3. CASE t.pc = "CONNECTED" /\ SendSnapshot(t.sock, t.at)
    <3>1. t.at \in 0 .. MaxVersion
      BY <2>3, AnswersAreVersions DEF Versioned
    <3>2. known' \in [Socks -> 0 .. MaxVersion] /\ repeated' \subseteq Socks
      BY <1>0, <2>3, <3>1, SnapshotKeepsValues
    <3>3. cursor' \in [Socks -> 0 .. MaxVersion] /\ ws' \in [Socks -> {"NONE", "OPEN", "CLOSING", "CLOSED"}]
      BY <1>0, <1>5, <2>3, <3>1
         DEF LeaseRenewed, Accept, UpgradeEnds, Reconnected, EventsRead, PersistedCursor, SocketValuesOK, socketVars
    <3> QED
      BY <2>1, <3>2, <3>3 DEF SocketValuesOK
  <2>4. CASE EventsRead(t)
    <3>1. t.at \in 0 .. MaxVersion /\ cursor[t.sock] \in 0 .. MaxVersion
      BY <1>0, <2>4, AnswersAreVersions DEF EventsRead, Versioned, SocketValuesOK
    <3>2. known' \in [Socks -> 0 .. MaxVersion] /\ repeated' \subseteq Socks
      BY <1>0, <2>4, <3>1, EventsKeepValues DEF EventsRead
    <3>3. cursor' \in [Socks -> 0 .. MaxVersion] /\ ws' = ws
      BY <1>0, <2>4, <3>1 DEF EventsRead, PersistedCursor, SocketValuesOK
    <3> QED
      BY <1>0, <2>1, <3>2, <3>3 DEF SocketValuesOK
  <2> QED
    BY <1>5, <2>1, <2>2, <2>3, <2>4 DEF LeaseRenewed, Accept, UpgradeEnds, Reconnected, socketVars
<1> QED
  BY <1>1, <1>2, <1>3, <1>4, <1>5 DEF HubStatement, HubResumes

LEMMA HubEventsKeepTypes ==
  ASSUME StoreTypeOK, HubTypeOK, HubEvent \/ HubTick
  PROVE  StoreValuesOK' /\ SocketValuesOK' /\ HubTypeOK'
<1>0. StoreValuesOK /\ SocketValuesOK
  BY StoreTypeSplits
<1>1. CASE AlarmFires
  BY <1>0, <1>1 DEF AlarmFires, HubKeeps, StoreValuesOK, SocketValuesOK, HubTypeOK, storeVars, socketVars
<1>2. CASE SetDeadline
  <2>1. left' \in [Events -> Nat]
    BY <1>0, <1>2, SpendKeepsBudget DEF SetDeadline, Events
  <2>2. DueIn \in 0 .. DueIn
    BY Stores
  <2> QED
    BY <1>0, <1>2, <2>1, <2>2 DEF SetDeadline, StoreValuesOK, SocketValuesOK, HubTypeOK, storeVars, socketVars
<1>3. CASE Notify
  <2>1. due # None => (IF due = 0 THEN 1 ELSE due) \in Nat
    BY Stores DEF HubTypeOK
  <2> QED
    BY <1>0, <1>3, <2>1 DEF Notify, Schedule, StoreValuesOK, SocketValuesOK, HubTypeOK, storeVars, socketVars
<1>4. CASE NoticeLost
  <2>1. left' \in [Events -> Nat]
    BY <1>0, <1>4, SpendKeepsBudget DEF NoticeLost, Events
  <2> QED
    BY <1>0, <1>4, <2>1 DEF NoticeLost, StoreValuesOK, SocketValuesOK, HubTypeOK, storeVars, socketVars
<1>5. ASSUME NEW s \in Socks, Upgrade(s)
      PROVE  StoreValuesOK' /\ SocketValuesOK' /\ HubTypeOK'
  <2>1. left' \in [Events -> Nat]
    BY <1>0, <1>5, SpendKeepsBudget DEF Upgrade, Events
  <2> QED
    BY <1>0, <1>5, <2>1 DEF Upgrade, StoreValuesOK, SocketValuesOK, HubTypeOK, storeVars, socketVars, hubVars
<1>6. ASSUME NEW s \in Socks, SocketCloses(s)
      PROVE  StoreValuesOK' /\ SocketValuesOK' /\ HubTypeOK'
  BY <1>0, <1>6 DEF SocketCloses, HubKeeps, StoreValuesOK, SocketValuesOK, HubTypeOK, storeVars
<1>7. ASSUME NEW s \in Socks, NEW k \in {"PING", "SNAPSHOT"}, Message(s, k)
      PROVE  StoreValuesOK' /\ SocketValuesOK' /\ HubTypeOK'
  <2>1. left' \in [Events -> Nat]
    BY <1>0, <1>7, SpendKeepsBudget DEF Message, Events
  <2> QED
    BY <1>0, <1>7, <2>1 DEF Message, StoreValuesOK, SocketValuesOK, HubTypeOK, storeVars, socketVars
<1>8. CASE HubTick
  <2>1. StoreValuesOK'
    BY <1>0, <1>8, OlderKeepsValues DEF HubTick
  <2>2. due' \in 0 .. DueIn \cup {None}
    BY <1>8, Stores DEF HubTick, HubTypeOK
  <2>3. alarm' \in Nat \cup {None}
    BY <1>8 DEF HubTick, HubTypeOK
  <2> QED
    BY <1>0, <1>8, <2>1, <2>2, <2>3 DEF HubTick, SocketValuesOK, HubTypeOK, socketVars
<1> QED
  BY <1>1, <1>2, <1>3, <1>4, <1>5, <1>6, <1>7, <1>8 DEF HubEvent

LEMMA ShutdownHasSixSteps ==
  /\ ShutdownSteps[1] = "UP" /\ ShutdownSteps[2] = "SETUPS" /\ ShutdownSteps[3] = "CHAINS"
  /\ ShutdownSteps[4] = "TASKS" /\ ShutdownSteps[5] = "DISCONNECTS" /\ ShutdownSteps[6] = "ENDED"
BY DEF ShutdownSteps

LEMMA NodeStepsKeepTypes ==
  ASSUME StoreTypeOK, NodeTypeOK, TasksSound, NEW t \in tasks, NodeStatement(t) \/ NodeResumes(t)
  PROVE  StoreValuesOK' /\ SocketValuesOK' /\ NodeTypeOK'
<1>0. StoreValuesOK /\ SocketValuesOK /\ t.sock \in Socks /\ t \in Task
  BY StoreTypeSplits, AnswersAreVersions DEF TasksSound
<1>1. CASE (Touch(t) \/ Connect(t) \/ ReadEvents(t) \/ Load(t) \/ Disconnect(t) \/ StatementFails(t)) /\ UNCHANGED nodeVars
  BY <1>0, <1>1, StatementsKeepValues DEF SocketValuesOK, NodeTypeOK, nodeVars, socketVars
<1>2. CASE Act(t) /\ UNCHANGED nodeVars
  <2>1. version' \in 0 .. MaxVersion
    BY <1>0, <1>2, Stores DEF Act, StoreValuesOK
  <2> QED
    BY <1>0, <1>2, <2>1 DEF Act, StoreValuesOK, SocketValuesOK, NodeTypeOK, nodeVars, socketVars
<1>3. CASE StatementCut(t)
  BY <1>0, <1>3 DEF StatementCut, StoreValuesOK, SocketValuesOK, NodeTypeOK, storeVars, socketVars, nodeVars
<1>4. CASE NodeResumes(t)
  <2>1. StoreValuesOK'
    BY <1>0, <1>4 DEF NodeResumes, Activate, SetupEnds, Beaten, Compensated, Polled, PollFails, StartCommand, Acted,
                SnapshotLoaded, CommandDone, ClientClosed, NodeKeeps, StoreValuesOK, storeVars
  <2>2. NodeTypeOK'
    <3>1. CASE UNCHANGED nodeVars
      BY <3>1 DEF NodeTypeOK, nodeVars
    <3>2. CASE Activate(t) \/ SetupEnds(t)
      BY <1>0, <3>2 DEF Activate, SetupEnds, NodeTypeOK
    <3>3. CASE Polled(t) \/ Acted(t)
      BY <1>0, <3>3 DEF Polled, Acted, AfterRequest, NodeTypeOK
    <3> QED
      BY <1>4, <3>1, <3>2, <3>3
         DEF NodeResumes, Beaten, Compensated, PollFails, StartCommand, SnapshotLoaded, CommandDone, ClientClosed
  <2>3. ws' \in [Socks -> {"NONE", "OPEN", "CLOSING", "CLOSED"}]
    <3>1. ws' = ws \/ ws' = [ws EXCEPT ![t.sock] = "CLOSING"]
      BY <1>4 DEF NodeResumes, Activate, SetupEnds, Beaten, Compensated, Polled, PollFails, StartCommand, Acted,
                SnapshotLoaded, CommandDone, ClientClosed, socketVars
    <3> QED
      BY <1>0, <3>1 DEF SocketValuesOK
  <2>4. CASE UNCHANGED <<cursor, known, repeated>>
    BY <1>0, <2>1, <2>2, <2>3, <2>4 DEF SocketValuesOK
  <2>5. CASE t.pc \in {"CONNECTED", "LOADED"} /\ cursor' = [cursor EXCEPT ![t.sock] = t.at]
             /\ (SendSnapshot(t.sock, t.at) \/ UNCHANGED <<known, repeated>>)
    <3>1. t.at \in 0 .. MaxVersion
      BY <2>5, AnswersAreVersions DEF Versioned
    <3>2. known' \in [Socks -> 0 .. MaxVersion] /\ repeated' \subseteq Socks
      BY <1>0, <2>5, <3>1, SnapshotKeepsValues DEF SocketValuesOK
    <3>3. cursor' \in [Socks -> 0 .. MaxVersion]
      BY <1>0, <2>5, <3>1 DEF SocketValuesOK
    <3> QED
      BY <2>1, <2>2, <2>3, <3>2, <3>3 DEF SocketValuesOK
  <2>6. CASE Polled(t) /\ IsCurrentClient(t.sock)
    <3>1. t.at \in 0 .. MaxVersion /\ cursor[t.sock] \in 0 .. MaxVersion
      BY <1>0, <2>6, AnswersAreVersions DEF Polled, Versioned, SocketValuesOK
    <3>2. SendEvents(t, cursor[t.sock]) /\ t.pc = "EVENTS_READ"
          /\ cursor' = [cursor EXCEPT ![t.sock] = CursorAfter(t)]
      BY <2>6 DEF Polled
    <3>3. known' \in [Socks -> 0 .. MaxVersion] /\ repeated' \subseteq Socks
      BY <1>0, <3>1, <3>2, EventsKeepValues
    <3>4. CursorAfter(t) \in 0 .. MaxVersion
      BY <3>1 DEF CursorAfter
    <3>5. cursor' \in [Socks -> 0 .. MaxVersion]
      BY <1>0, <3>2, <3>4 DEF SocketValuesOK
    <3> QED
      BY <2>1, <2>2, <2>3, <3>3, <3>5 DEF SocketValuesOK
  <2>7. CASE Activate(t) \/ Beaten(t) \/ SnapshotLoaded(t)
    BY <2>4, <2>5, <2>7, <2>1, <2>2, <2>3 DEF Activate, Beaten, SnapshotLoaded, SnapshotVersion, socketVars
  <2>8. CASE Polled(t)
    BY <2>4, <2>6, <2>8 DEF Polled
  <2> QED
    BY <1>4, <2>4, <2>7, <2>8
       DEF NodeResumes, SetupEnds, Compensated, PollFails, StartCommand, Acted, CommandDone, ClientClosed, socketVars
<1> QED
  BY <1>1, <1>2, <1>3, <1>4 DEF NodeStatement

LEMMA NodeEventsKeepTypes ==
  ASSUME StoreTypeOK, NodeTypeOK, NodeEvent \/ NodeTick
  PROVE  StoreValuesOK' /\ SocketValuesOK' /\ NodeTypeOK'
<1>0. StoreValuesOK /\ SocketValuesOK
  BY StoreTypeSplits
<1>1. CASE Ping
  BY <1>0, <1>1 DEF Ping, NodeKeeps, StoreValuesOK, SocketValuesOK, NodeTypeOK, storeVars
<1>2. CASE Sigterm
  <2>1. left' \in [Events -> Nat]
    BY <1>0, <1>2, SpendKeepsBudget DEF Sigterm, Events
  <2>2. server' \in {ShutdownSteps[i] : i \in 1 .. 6} /\ active' \subseteq Socks
    BY <1>2, ShutdownHasSixSteps DEF Sigterm, Clients
  <2> QED
    BY <1>0, <1>2, <2>1, <2>2 DEF Sigterm, StoreValuesOK, SocketValuesOK, NodeTypeOK, storeVars
<1>3. CASE ShutdownStep
  <2>1. server' \in {ShutdownSteps[i] : i \in 1 .. 6}
    <3>1. PICK i \in 2 .. 5 : server' = ShutdownSteps[i + 1]
      BY <1>3 DEF ShutdownStep
    <3>2. i + 1 \in 1 .. 6
      OBVIOUS
    <3> QED
      BY <3>1, <3>2
  <2>2. NodeKeeps /\ UNCHANGED <<socketVars, closed, known_id, alive, requested, active, beat>>
    BY <1>3 DEF ShutdownStep
  <2> QED
    BY <1>0, <2>1, <2>2 DEF NodeKeeps, StoreValuesOK, SocketValuesOK, NodeTypeOK, storeVars, socketVars
<1>4. CASE Crash
  <2>1. left' \in [Events -> Nat]
    BY <1>0, <1>4, SpendKeepsBudget DEF Crash, Events
  <2>2. server' \in {ShutdownSteps[i] : i \in 1 .. 6}
    BY <1>4, ShutdownHasSixSteps DEF Crash
  <2>3. ws' \in [Socks -> {"NONE", "OPEN", "CLOSING", "CLOSED"}]
    BY <1>0, <1>4 DEF Crash, SocketValuesOK
  <2> QED
    BY <1>0, <1>4, <2>1, <2>2, <2>3 DEF Crash, StoreValuesOK, SocketValuesOK, NodeTypeOK, storeVars
<1>5. ASSUME NEW s \in Socks, AcceptConnection(s)
      PROVE  StoreValuesOK' /\ SocketValuesOK' /\ NodeTypeOK'
  <2>1. left' \in [Events -> Nat]
    BY <1>0, <1>5, SpendKeepsBudget DEF AcceptConnection, Events
  <2> QED
    BY <1>0, <1>5, <2>1 DEF AcceptConnection, StoreValuesOK, SocketValuesOK, NodeTypeOK, storeVars
<1>6. ASSUME NEW s \in Socks, ClientCloses(s) \/ Pong(s) \/ PollTimer(s)
      PROVE  StoreValuesOK' /\ SocketValuesOK' /\ NodeTypeOK'
  BY <1>0, <1>6 DEF ClientCloses, Pong, PollTimer, AfterRequest, NodeKeeps, StoreValuesOK, SocketValuesOK, NodeTypeOK,
     storeVars, socketVars
<1>7. ASSUME NEW s \in Socks, NEW k \in CommandKinds, Enqueue(s, k)
      PROVE  StoreValuesOK' /\ SocketValuesOK' /\ NodeTypeOK'
  <2>1. left' \in [Events -> Nat]
    BY <1>0, <1>7, SpendKeepsBudget DEF Enqueue, Events
  <2> QED
    BY <1>0, <1>7, <2>1 DEF Enqueue, StoreValuesOK, SocketValuesOK, NodeTypeOK, storeVars, socketVars, nodeVars
<1>8. CASE NodeTick
  <2>1. StoreValuesOK'
    BY <1>0, <1>8, OlderKeepsValues DEF NodeTick
  <2> QED
    BY <1>0, <1>8, <2>1 DEF NodeTick, SocketValuesOK, NodeTypeOK, socketVars
<1> QED
  BY <1>1, <1>2, <1>3, <1>4, <1>5, <1>6, <1>7, <1>8 DEF NodeEvent

LEMMA NodeEventsKeepSound ==
  ASSUME StoreTypeOK, NodeTypeOK, TasksSound, NodeEvent \/ NodeTick
  PROVE  TasksSound'
<1>1. UNCHANGED version
  BY DEF NodeEvent, Ping, Sigterm, ShutdownStep, Crash, AcceptConnection, ClientCloses, Pong, PollTimer, Enqueue,
         NodeTick, NodeKeeps, storeVars
<1>2. {"CONNECT", "DISCONNECT"} \subseteq Plain /\ {"OPEN", "CLOSE"} \subseteq Kinds
  BY PcsArePlain DEF Statements, Kinds
<1>3. version <= version' /\ version' \in 0 .. MaxVersion
  BY <1>1 DEF TasksSound
<1>4. CASE tasks' \subseteq tasks
  BY <1>1, <1>4, SameSound
<1>5. ASSUME NEW N, PlainTasks(N), tasks' \subseteq tasks \cup N
      PROVE  TasksSound'
  <2>1. \A u \in N : SoundIn(u, version')
    BY <1>5 DEF SoundIn, PlainTasks, Plain, Versioned
  <2> QED
    BY <1>3, <1>5, <2>1, JoinSound DEF PlainTasks
<1>6. ASSUME NEW s \in Socks, AcceptConnection(s) \/ ClientCloses(s)
      PROVE  TasksSound'
  BY <1>1, <1>2, <1>4, <1>6, NewSound DEF AcceptConnection, ClientCloses
<1>7. ASSUME NEW s \in Socks, Pong(s) \/ PollTimer(s)
      PROVE  TasksSound'
  BY <1>5, <1>7, BeatsArePlain, PollsArePlain DEF Pong, PollTimer
<1>8. ASSUME NEW s \in Socks, NEW k \in CommandKinds, Enqueue(s, k)
      PROVE  TasksSound'
  <2> DEFINE n == Cardinality(Chain(s))
             u == NewTask(k, s, n, "QUEUED")
  <2>1. n \in Nat
    <3>1. IsFiniteSet(Chain(s))
      BY FS_Subset DEF Chain, TasksSound
    <3> QED
      BY <3>1, FS_CardinalityType
  <2>2. k \in Kinds /\ "QUEUED" \in Pcs
    BY DEF CommandKinds, Kinds, Pcs, Results
  <2>3. tasks' = tasks \cup {u}
    BY <1>8 DEF Enqueue, Start
  <2> HIDE DEF n
  <2>4. u \in Task /\ u.kind = k /\ u.pc = "QUEUED"
    BY <2>1, <2>2, TaskIsNew
  <2> HIDE DEF u
  <2>5. SoundIn(u, version')
    BY <2>4 DEF SoundIn, Versioned
  <2> QED
    BY <1>3, <2>3, <2>4, <2>5, OneMoreSound
<1>9. CASE ShutdownStep
  <2> DEFINE S == active \cap known_id
             N == {NewTask("CLOSE", s, 0, "DISCONNECT") : s \in S}
  <2>1. IsFiniteSet(S) /\ S \subseteq Socks
    BY Stores, FS_Subset DEF NodeTypeOK
  <2>2. IsFiniteSet(N)
    <3> DEFINE f == [s \in S |-> NewTask("CLOSE", s, 0, "DISCONNECT")]
    <3>1. f \in Surjection(S, N)
      BY DEF Surjection
    <3> HIDE DEF f, N
    <3> QED
      BY <2>1, <3>1, FS_Surjection
  <2>3. \A u \in N : u \in Task /\ u.pc = "DISCONNECT"
    <3>1. \A s \in Socks : NewTask("CLOSE", s, 0, "DISCONNECT") \in Task
                           /\ NewTask("CLOSE", s, 0, "DISCONNECT").pc = "DISCONNECT"
      BY <1>2, PlainIsPc, TaskIsNew
    <3> QED
      BY <2>1, <3>1
  <2>4. PlainTasks(N)
    BY <1>2, <2>2, <2>3 DEF PlainTasks
  <2>5. tasks' \subseteq tasks \cup N
    BY <1>9 DEF ShutdownStep
  <2> HIDE DEF N
  <2> QED
    BY <1>5, <2>4, <2>5
<1> QED
  BY <1>4, <1>6, <1>7, <1>8, <1>9 DEF NodeEvent, Ping, Sigterm, Crash, NodeTick

LEMMA SurroundingsKeepTypes ==
  ASSUME StoreTypeOK, HubTypeOK, NodeTypeOK, TasksSound, Surroundings
  PROVE  StoreValuesOK' /\ SocketValuesOK' /\ HubTypeOK' /\ NodeTypeOK' /\ TasksSound'
<1>0. StoreValuesOK /\ SocketValuesOK
  BY StoreTypeSplits
<1>1. HubTypeOK' /\ NodeTypeOK'
  BY DEF Surroundings, HubTypeOK, NodeTypeOK, hubVars, nodeVars
<1>2. CASE Append
  <2>1. left' \in [Events -> Nat]
    BY <1>0, <1>2, SpendKeepsBudget DEF Append, Events
  <2>2. version' \in 0 .. MaxVersion /\ version <= version'
    BY <1>0, <1>2, Stores DEF Append, StoreValuesOK
  <2>3. TasksSound'
    <3>1. IsFiniteSet({}) /\ tasks' \subseteq tasks \cup {}
      BY <1>2, FS_EmptySet DEF Append
    <3> QED
      BY <2>2, <3>1, JoinSound
  <2> QED
    BY <1>0, <1>1, <1>2, <2>1, <2>2, <2>3 DEF Append, StoreValuesOK, SocketValuesOK, socketVars
<1>3. CASE MatchEnds
  <2>1. left' \in [Events -> Nat]
    BY <1>0, <1>3, SpendKeepsBudget DEF MatchEnds, Events
  <2>2. TasksSound'
    BY <1>3, SameSound DEF MatchEnds
  <2> QED
    BY <1>0, <1>1, <1>3, <2>1, <2>2 DEF MatchEnds, StoreValuesOK, SocketValuesOK, socketVars
<1>4. CASE GlobalSweep
  <2>1. StoreValuesOK'
    BY <1>0, <1>4, SweepKeepsValues DEF GlobalSweep
  <2>2. TasksSound'
    BY <1>4, SameSound DEF GlobalSweep
  <2> QED
    BY <1>0, <1>1, <1>4, <2>1, <2>2 DEF GlobalSweep, SocketValuesOK, socketVars
<1>5. ASSUME NEW s \in Socks, PeerCloses(s)
      PROVE  StoreValuesOK' /\ SocketValuesOK' /\ TasksSound'
  <2>1. left' \in [Events -> Nat]
    BY <1>0, <1>5, SpendKeepsBudget DEF PeerCloses, Events
  <2>2. TasksSound'
    BY <1>5, SameSound DEF PeerCloses, storeVars
  <2> QED
    BY <1>0, <1>5, <2>1, <2>2 DEF PeerCloses, StoreValuesOK, SocketValuesOK, storeVars
<1> QED
  BY <1>1, <1>2, <1>3, <1>4, <1>5 DEF Surroundings

-----------------------------------------------------------------------------
(* What both transports keep in memory is well formed.                     *)

WellFormed == TypeOK /\ TasksSound

LEMMA InitWellFormed ==
  ASSUME Init
  PROVE  WellFormed
<1>1. StoreTypeOK
  <2>1. 0 \in 0 .. MaxVersion /\ 0 \in 0 .. StaleAfter
    BY Stores
  <2>2. left \in [Events -> Nat]
    BY RealtimeAssumption DEF Init
  <2>3. StoreInit
    BY DEF Init
  <2> QED
    BY <2>1, <2>2, <2>3 DEF StoreInit, StoreTypeOK
<1>2. HubTypeOK /\ NodeTypeOK
  <2>1. "UP" \in {ShutdownSteps[i] : i \in 1 .. 6}
    BY ShutdownHasSixSteps
  <2>2. HubInit /\ NodeInit
    BY DEF Init
  <2>3. HubTypeOK
    BY <2>2 DEF HubInit, HubTypeOK
  <2>4. NodeTypeOK
    BY <2>1, <2>2 DEF NodeInit, NodeTypeOK
  <2> QED
    BY <2>3, <2>4
<1>3. IsFiniteSet(tasks) /\ tasks = {} /\ version \in 0 .. MaxVersion
  BY Stores, FS_EmptySet DEF Init, StoreInit
<1> QED
  BY <1>1, <1>2, <1>3 DEF Init, WellFormed, TypeOK, TasksSound

LEMMA StepWellFormed ==
  ASSUME WellFormed, Next
  PROVE  WellFormed'
<1>0. StoreTypeOK /\ HubTypeOK /\ NodeTypeOK /\ TasksSound /\ transport \in Transports
  BY DEF WellFormed, TypeOK
<1>1. ASSUME StoreValuesOK', SocketValuesOK', HubTypeOK', NodeTypeOK', TasksSound', UNCHANGED transport
      PROVE  WellFormed'
  BY <1>0, <1>1 DEF WellFormed, TypeOK, TasksSound, StoreTypeOK, StoreValuesOK, SocketValuesOK
<1>2. ASSUME NEW t \in tasks, Hub(HubStatement(t) \/ HubResumes(t))
      PROVE  WellFormed'
  <2>1. (HubStatement(t) \/ HubResumes(t)) /\ UNCHANGED <<nodeVars, transport>>
    BY <1>2 DEF Hub
  <2>2. NodeTypeOK'
    BY <1>0, <2>1 DEF NodeTypeOK, nodeVars
  <2> QED
    BY <1>0, <1>1, <2>1, <2>2, HubStepsKeepTypes, HubStepsKeepSound
<1>3. ASSUME NEW t \in tasks, Node(NodeStatement(t) \/ NodeResumes(t))
      PROVE  WellFormed'
  <2>1. (NodeStatement(t) \/ NodeResumes(t)) /\ UNCHANGED <<hubVars, transport>>
    BY <1>3 DEF Node
  <2>2. HubTypeOK'
    BY <1>0, <2>1 DEF HubTypeOK, hubVars
  <2> QED
    BY <1>0, <1>1, <2>1, <2>2, NodeStepsKeepTypes, NodeStepsKeepSound DEF SocketValuesOK
<1>4. CASE Hub(HubEvent) \/ Hub(HubTick)
  <2>1. (HubEvent \/ HubTick) /\ UNCHANGED <<nodeVars, transport>>
    BY <1>4 DEF Hub
  <2>2. NodeTypeOK'
    BY <1>0, <2>1 DEF NodeTypeOK, nodeVars
  <2> QED
    BY <1>0, <1>1, <2>1, <2>2, HubEventsKeepTypes, HubEventsKeepSound
<1>5. CASE Node(NodeEvent) \/ Node(NodeTick)
  <2>1. (NodeEvent \/ NodeTick) /\ UNCHANGED <<hubVars, transport>>
    BY <1>5 DEF Node
  <2>2. HubTypeOK'
    BY <1>0, <2>1 DEF HubTypeOK, hubVars
  <2> QED
    BY <1>0, <1>1, <2>1, <2>2, NodeEventsKeepTypes, NodeEventsKeepSound
<1>6. CASE Surroundings
  BY <1>0, <1>1, <1>6, SurroundingsKeepTypes DEF Surroundings
<1> QED
  BY <1>2, <1>3, <1>4, <1>5, <1>6 DEF Next, Handler, Tick

-----------------------------------------------------------------------------
(* Nothing is missed, and the cap holds.                                   *)

(* On Node a handler belongs to a client that was accepted once; a client  *)
(* whose close listener has run has no open socket; and a poll starts where*)
(* its client knows everything.                                            *)
NodeSockets ==
  /\ \A s \in closed : ws[s] \in {"CLOSING", "CLOSED"}
  /\ \A s \in known_id : ws[s] # "NONE"
  /\ \A s \in Socks : ws[s] = "NONE" => cursor[s] = 0
  /\ \A t \in tasks : ws[t.sock] # "NONE" /\ (t.kind = "POLL" => t.from <= known[t.sock])

SocketsInOrder ==
  /\ NothingMissed /\ CapHolds
  /\ transport = "NODE" => NodeSockets

LEMMA MissesNothing ==
  ASSUME SocketValuesOK, SocketValuesOK', NothingMissed,
         \A s \in Socks : known[s] <= known'[s],
         \A s \in Socks : ws'[s] = "OPEN" => \/ ws[s] = "OPEN" /\ cursor'[s] = cursor[s]
                                             \/ cursor'[s] <= known'[s]
  PROVE  NothingMissed'
<1>1. \A s \in Socks : known[s] \in 0 .. MaxVersion /\ known'[s] \in 0 .. MaxVersion /\ cursor[s] \in 0 .. MaxVersion
  BY DEF SocketValuesOK
<1> QED
  BY <1>1, Stores DEF NothingMissed

LEMMA KnownStays ==
  ASSUME SocketValuesOK, UNCHANGED known
  PROVE  \A s \in Socks : known[s] <= known'[s]
<1>1. \A s \in Socks : known[s] \in 0 .. MaxVersion
  BY DEF SocketValuesOK
<1> QED
  BY <1>1, Stores

LEMMA OpenIsFinite == IsFiniteSet(OpenSockets) /\ Cardinality(OpenSockets) \in Nat
<1>1. IsFiniteSet(OpenSockets)
  BY Stores, FS_Subset DEF OpenSockets
<1> QED
  BY <1>1, FS_CardinalityType

LEMMA FewerSockets ==
  ASSUME CapHolds, OpenSockets' \subseteq OpenSockets
  PROVE  CapHolds'
<1>1. IsFiniteSet(OpenSockets') /\ Cardinality(OpenSockets') <= Cardinality(OpenSockets)
  BY OpenIsFinite, FS_Subset
<1>2. Cardinality(OpenSockets') \in Nat
  BY <1>1, FS_CardinalityType
<1> QED
  BY <1>1, <1>2, OpenIsFinite, Stores DEF CapHolds

LEMMA OneMoreSocket ==
  ASSUME RoomForSocket, NEW s, OpenSockets' \subseteq OpenSockets \cup {s}
  PROVE  CapHolds'
<1> DEFINE S == OpenSockets \cup {s}
<1>1. IsFiniteSet(S) /\ Cardinality(S) <= Cardinality(OpenSockets) + 1
  <2>1. IsFiniteSet(S) /\ Cardinality(S) = (IF s \in OpenSockets THEN Cardinality(OpenSockets)
                                                                ELSE Cardinality(OpenSockets) + 1)
    BY OpenIsFinite, FS_AddElement
  <2> QED
    BY <2>1, OpenIsFinite
<1>2. IsFiniteSet(OpenSockets') /\ Cardinality(OpenSockets') <= Cardinality(S)
  BY <1>1, FS_Subset
<1>3. Cardinality(OpenSockets') \in Nat /\ Cardinality(S) \in Nat
  BY <1>1, <1>2, FS_CardinalityType
<1> QED
  BY <1>1, <1>2, <1>3, OpenIsFinite, Stores DEF CapHolds, RoomForSocket

(* Nothing was told, and no socket opened.                                 *)
LEMMA QuietSockets ==
  ASSUME SocketValuesOK, SocketValuesOK', NothingMissed, CapHolds, UNCHANGED <<cursor, known>>,
         \A s \in Socks : ws'[s] = "OPEN" => ws[s] = "OPEN"
  PROVE  NothingMissed' /\ CapHolds'
<1>1. NothingMissed'
  BY KnownStays, MissesNothing
<1>2. OpenSockets' \subseteq OpenSockets
  BY DEF OpenSockets
<1> QED
  BY <1>1, <1>2, FewerSockets

(* A socket got a snapshot, and its cursor went no further.                *)
LEMMA SnapshotCovers ==
  ASSUME SocketValuesOK, SocketValuesOK', NothingMissed, NEW s \in Socks, NEW v \in 0 .. MaxVersion,
         SendSnapshot(s, v), NEW c \in 0 .. MaxVersion, cursor' = [cursor EXCEPT ![s] = c],
         c = v \/ (ws[s] = "OPEN" /\ c = cursor[s]),
         \A r \in Socks \ {s} : ws'[r] = "OPEN" => ws[r] = "OPEN"
  PROVE  NothingMissed'
<1>1. v <= known'[s] /\ \A r \in Socks : known[r] <= known'[r]
  BY SnapshotKeepsValues
<1>2. cursor'[s] = c /\ \A r \in Socks \ {s} : cursor'[r] = cursor[r]
  BY DEF SocketValuesOK
<1>3. \A r \in Socks : ws'[r] = "OPEN" => \/ ws[r] = "OPEN" /\ cursor'[r] = cursor[r]
                                          \/ cursor'[r] <= known'[r]
  BY <1>1, <1>2
<1> QED
  BY <1>1, <1>3, MissesNothing

LEMMA HubStepsKeepOrder ==
  ASSUME StoreTypeOK, HubTypeOK, TasksSound, SocketValuesOK', NothingMissed, CapHolds,
         NEW t \in tasks, HubStatement(t) \/ HubResumes(t)
  PROVE  NothingMissed' /\ CapHolds'
<1>0. StoreValuesOK /\ SocketValuesOK /\ t.sock \in Socks /\ t \in Task
  BY StoreTypeSplits, AnswersAreVersions DEF TasksSound
<1>1. CASE UNCHANGED socketVars
  BY <1>0, <1>1, QuietSockets DEF socketVars
<1>2. CASE HubStatement(t)
  <2>1. UNCHANGED socketVars
    BY <1>0, <1>2, StatementsKeepValues DEF HubStatement, ReadWake, AlarmSweeps
  <2> QED
    BY <1>1, <2>1
<1>3. CASE UpgradeEnds(t) \/ (Accept(t) /\ ~RoomForSocket)
  <2>1. UNCHANGED <<cursor, known>> /\ ws' = [ws EXCEPT ![t.sock] = "CLOSED"]
    BY <1>3 DEF UpgradeEnds, Accept
  <2>2. \A s \in Socks : ws'[s] = "OPEN" => ws[s] = "OPEN"
    BY <1>0, <2>1 DEF SocketValuesOK
  <2> QED
    BY <1>0, <2>1, <2>2, QuietSockets
<1>4. CASE t.pc = "CONNECTED" /\ SendSnapshot(t.sock, t.at)
  <2>1. t.at \in 0 .. MaxVersion
    BY <1>4, AnswersAreVersions DEF Versioned
  <2>2. CASE Accept(t) /\ RoomForSocket
    <3>1. ws' = [ws EXCEPT ![t.sock] = "OPEN"] /\ cursor' = [cursor EXCEPT ![t.sock] = t.at]
      BY <2>2 DEF Accept
    <3>2. \A r \in Socks \ {t.sock} : ws'[r] = "OPEN" => ws[r] = "OPEN"
      BY <1>0, <3>1 DEF SocketValuesOK
    <3>3. NothingMissed'
      BY <1>0, <1>4, <2>1, <3>1, <3>2, SnapshotCovers
    <3>4. OpenSockets' \subseteq OpenSockets \cup {t.sock}
      BY <3>2 DEF OpenSockets
    <3> QED
      BY <2>2, <3>3, <3>4, OneMoreSocket
  <2>3. CASE (LeaseRenewed(t) \/ Reconnected(t)) /\ Current(t.sock)
    <3>1. PICK c : cursor' = [cursor EXCEPT ![t.sock] = c] /\ (c = t.at \/ c = cursor[t.sock]) /\ ws' = ws
      BY <1>4, <2>3 DEF LeaseRenewed, Reconnected, PersistedCursor
    <3>2. c \in 0 .. MaxVersion
      BY <1>0, <2>1, <3>1 DEF SocketValuesOK
    <3>3. ws[t.sock] = "OPEN"
      BY <2>3 DEF Current
    <3>4. NothingMissed'
      BY <1>0, <1>4, <2>1, <3>1, <3>2, <3>3, SnapshotCovers
    <3>5. OpenSockets' \subseteq OpenSockets
      BY <3>1 DEF OpenSockets
    <3> QED
      BY <3>4, <3>5, FewerSockets
  <2> QED
    BY <1>1, <1>2, <1>3, <1>4, <2>2, <2>3
       DEF HubResumes, Arm, GiveUp, NextLease, LeaseRenewed, LeaseDone, Accept, UpgradeEnds, Superseded, Touched,
           Reconnected, IsCurrent, EventsRead, CommandEnds, SocketClosed
<1>5. CASE EventsRead(t)
  <2>1. cursor[t.sock] \in 0 .. MaxVersion
    BY <1>0 DEF SocketValuesOK
  <2>2. \A r \in Socks : known[r] <= known'[r]
    BY <1>0, <1>5, <2>1, EventsKeepValues DEF EventsRead
  <2>3. cursor' = cursor /\ ws' = ws
    BY <1>0, <1>5 DEF EventsRead, PersistedCursor, SocketValuesOK
  <2>4. NothingMissed'
    BY <1>0, <2>2, <2>3, MissesNothing
  <2>5. OpenSockets' \subseteq OpenSockets
    BY <2>3 DEF OpenSockets
  <2> QED
    BY <2>4, <2>5, FewerSockets
<1> QED
  BY <1>1, <1>2, <1>3, <1>4, <1>5
     DEF HubResumes, Arm, GiveUp, NextLease, LeaseRenewed, LeaseDone, Accept, Superseded, Touched,
         Reconnected, CommandEnds, SocketClosed

LEMMA HubEventsKeepOrder ==
  ASSUME StoreTypeOK, SocketValuesOK', NothingMissed, CapHolds, HubEvent \/ HubTick \/ Surroundings
  PROVE  NothingMissed' /\ CapHolds'
<1>0. SocketValuesOK
  BY StoreTypeSplits
<1>1. UNCHANGED <<cursor, known>>
  BY DEF HubEvent, AlarmFires, SetDeadline, Notify, NoticeLost, Upgrade, SocketCloses, Message, HubTick,
         Surroundings, Append, MatchEnds, GlobalSweep, PeerCloses, HubKeeps, socketVars
<1>2. ws' = ws \/ \E s \in Socks : ws' = [ws EXCEPT ![s] = "CLOSED"] \/ ws' = [ws EXCEPT ![s] = "CLOSING"]
  BY DEF HubEvent, AlarmFires, SetDeadline, Notify, NoticeLost, Upgrade, SocketCloses, Message, HubTick,
         Surroundings, Append, MatchEnds, GlobalSweep, PeerCloses, HubKeeps, socketVars
<1>3. \A s \in Socks : ws'[s] = "OPEN" => ws[s] = "OPEN"
  BY <1>0, <1>2 DEF SocketValuesOK
<1> QED
  BY <1>0, <1>1, <1>3, QuietSockets

(* A handler that goes on.                                                 *)
Continues(u) ==
  \E t \in tasks : u.kind = t.kind /\ u.sock = t.sock /\ (u.kind = "POLL" => u.from = t.from)

LEMMA BecomesContinues ==
  ASSUME NEW t \in tasks, NEW pc, NEW from, NEW at, Becomes(t, pc, from, at),
         t.kind = "POLL" => from = t.from
  PROVE  \A u \in tasks' : Continues(u)
BY DEF Becomes, Continues

LEMMA GoContinues ==
  ASSUME NEW t \in tasks, t \in Task, NEW pc \in Pcs, Go(t, pc)
  PROVE  \A u \in tasks' : Continues(u)
<1>1. Becomes(t, pc, t.from, t.at)
  BY GoBecomes
<1> QED
  BY <1>1, BecomesContinues

LEMMA GoWithContinues ==
  ASSUME NEW t \in tasks, t \in Task, NEW pc \in Pcs, NEW at \in Int \cup {None}, GoWith(t, pc, at)
  PROVE  \A u \in tasks' : Continues(u)
<1>1. Becomes(t, pc, t.from, at)
  BY GoWithBecomes
<1> QED
  BY <1>1, BecomesContinues

LEMMA FewerContinue ==
  ASSUME tasks' \subseteq tasks
  PROVE  \A u \in tasks' : Continues(u)
BY DEF Continues

LEMMA BeatsAreOfReady ==
  ASSUME NEW s \in Socks, NEW u \in Heartbeats(s)
  PROVE  /\ u \in Task /\ u.kind = "BEAT" /\ u.sock = s /\ u.pc = "TOUCH" /\ u.from = 0
         /\ Ready(s) /\ ~Busy("BEAT", s)
<1>1. u = NewTask("BEAT", s, 0, "TOUCH") /\ Ready(s) /\ ~Busy("BEAT", s)
  BY DEF Heartbeats
<1>2. "BEAT" \in Kinds /\ "TOUCH" \in Pcs
  BY DEF Kinds, Pcs, Statements
<1> QED
  BY <1>1, <1>2, TaskIsNew

LEMMA PollsAreOfReady ==
  ASSUME SocketValuesOK, NEW s \in Socks, NEW u \in Polls(s)
  PROVE  /\ u \in Task /\ u.kind = "POLL" /\ u.sock = s /\ u.pc = "EVENTS" /\ u.from = cursor[s]
         /\ Ready(s) /\ ~Busy("POLL", s)
<1>1. u = PollTask(s, cursor[s]) /\ Ready(s) /\ ~Busy("POLL", s)
  BY DEF Polls
<1>2. cursor[s] \in 0 .. MaxVersion
  BY DEF SocketValuesOK
<1>3. cursor[s] \in Nat
  BY <1>2, Stores
<1> QED
  BY <1>1, <1>3, PollIsNew

(* Handlers and clients after a step.                                      *)
LEMMA NodeSocketsFollow ==
  ASSUME NodeSockets, SocketValuesOK, SocketValuesOK', TasksSound,
         \A s \in Socks : known[s] <= known'[s],
         \A s \in Socks : ws'[s] = "NONE" => ws[s] = "NONE" /\ cursor'[s] = cursor[s],
         \A s \in closed' : s \in Socks /\ (ws'[s] \in {"CLOSING", "CLOSED"} \/ (s \in closed /\ ws'[s] = ws[s])),
         \A s \in known_id' : s \in Socks /\ (s \in known_id \/ ws[s] # "NONE"),
         \A u \in tasks' : \/ Continues(u)
                           \/ /\ u.sock \in Socks /\ ws'[u.sock] # "NONE"
                              /\ u.kind = "POLL" => u.from <= known'[u.sock] /\ u.from \in Nat
  PROVE  NodeSockets'
<1>1. \A s \in closed' : ws'[s] \in {"CLOSING", "CLOSED"}
  BY DEF NodeSockets
<1>2. \A s \in known_id' : ws'[s] # "NONE"
  BY DEF NodeSockets
<1>3. ASSUME NEW u \in tasks'
      PROVE  ws'[u.sock] # "NONE" /\ (u.kind = "POLL" => u.from <= known'[u.sock])
  <2>1. CASE Continues(u)
    <3>1. PICK t \in tasks : u.kind = t.kind /\ u.sock = t.sock /\ (u.kind = "POLL" => u.from = t.from)
      BY <2>1 DEF Continues
    <3>2. t.sock \in Socks /\ t.from \in Nat
      BY AnswersAreVersions
    <3>3. ws[t.sock] # "NONE" /\ (t.kind = "POLL" => t.from <= known[t.sock])
      BY DEF NodeSockets
    <3>4. known[t.sock] \in 0 .. MaxVersion /\ known'[t.sock] \in 0 .. MaxVersion
      BY <3>2 DEF SocketValuesOK
    <3>5. known[t.sock] <= known'[t.sock]
      BY <3>2
    <3>6. t.kind = "POLL" => t.from <= known'[t.sock]
      BY <3>2, <3>3, <3>4, <3>5, Stores
    <3> QED
      BY <3>1, <3>2, <3>3, <3>6
  <2>2. CASE ~Continues(u)
    BY <2>2
  <2> QED
    BY <2>1, <2>2
<1>4. \A s \in Socks : ws'[s] = "NONE" => cursor'[s] = 0
  BY DEF NodeSockets
<1> QED
  BY <1>1, <1>2, <1>3, <1>4 DEF NodeSockets

LEMMA NodeStepsKeepOrder ==
  ASSUME StoreTypeOK, NodeTypeOK, TasksSound, SocketValuesOK', NothingMissed, CapHolds, NodeSockets,
         NEW t \in tasks, NodeStatement(t) \/ NodeResumes(t)
  PROVE  NothingMissed' /\ CapHolds' /\ NodeSockets'
<1>0. StoreValuesOK /\ SocketValuesOK /\ t.sock \in Socks /\ t \in Task
  BY StoreTypeSplits, AnswersAreVersions DEF TasksSound
<1>1. ws[t.sock] # "NONE"
  BY DEF NodeSockets
<1>2. closed \subseteq Socks /\ known_id \subseteq Socks
  BY DEF NodeTypeOK
(* Nothing but handlers changes.                                           *)
<1>3. ASSUME UNCHANGED socketVars, UNCHANGED <<closed, known_id>>,
             \A u \in tasks' : \/ Continues(u)
                               \/ /\ u.sock \in Socks /\ ws'[u.sock] # "NONE"
                                  /\ u.kind = "POLL" => u.from <= known'[u.sock] /\ u.from \in Nat
      PROVE  NothingMissed' /\ CapHolds' /\ NodeSockets'
  <2>1. NothingMissed' /\ CapHolds'
    BY <1>0, <1>3, QuietSockets DEF socketVars
  <2>2. \A s \in Socks : known[s] <= known'[s]
    BY <1>0, <1>3, KnownStays DEF socketVars
  <2>3. NodeSockets'
    BY <1>0, <1>2, <1>3, <2>2, NodeSocketsFollow DEF socketVars
  <2> QED
    BY <2>1, <2>3
<1>4. CASE NodeStatement(t)
  <2>1. UNCHANGED socketVars /\ UNCHANGED <<closed, known_id>>
    BY <1>0, <1>4, StatementsKeepValues DEF NodeStatement, StatementCut, Act, nodeVars
  <2>2. \/ \E pc \in Pcs : Go(t, pc)
        \/ \E pc \in Pcs : \E at \in Int \cup {None} : GoWith(t, pc, at)
    <3>1. version \in Int /\ t.from \in Int /\ Limit \in Int
      BY <1>0, Stores, AnswersAreVersions DEF StoreValuesOK
    <3> DEFINE at == IF version < t.from + Limit THEN version ELSE t.from + Limit
    <3>2. at \in Int
      BY <3>1
    <3>3. CASE ReadEvents(t)
      <4>1. GoWith(t, "EVENTS_READ", at)
        BY <3>3 DEF ReadEvents
      <4> HIDE DEF at
      <4> QED
        BY <3>2, <4>1 DEF Pcs, Results
    <3>4. CASE Load(t) \/ (Connect(t) /\ phase # "LEFT")
      BY <3>1, <3>4 DEF Load, Connect, Pcs, Results
    <3> QED
      BY <1>4, <3>3, <3>4 DEF NodeStatement, Touch, Connect, Disconnect, StatementFails, StatementCut, Act, Pcs, Results, Statements
  <2>3. \A u \in tasks' : Continues(u)
    BY <1>0, <2>2, GoContinues, GoWithContinues
  <2> QED
    BY <1>3, <2>1, <2>3
<1>5. CASE Compensated(t) \/ PollFails(t) \/ CommandDone(t) \/ ClientClosed(t)
  <2>1. \A u \in tasks' : Continues(u)
    BY <1>5, FewerContinue DEF Compensated, PollFails, CommandDone, ClientClosed, End
  <2> QED
    BY <1>3, <1>5, <2>1 DEF Compensated, PollFails, CommandDone, ClientClosed, nodeVars
(* A client is told something.                                             *)
<1>6. ASSUME t.pc \in {"CONNECTED", "LOADED"}, SendSnapshot(t.sock, t.at),
             cursor' = [cursor EXCEPT ![t.sock] = t.at], ws' = ws, closed' = closed,
             known_id' \subseteq known_id \cup {t.sock}, \A u \in tasks' : Continues(u)
      PROVE  NothingMissed' /\ CapHolds' /\ NodeSockets'
  <2>1. t.at \in 0 .. MaxVersion
    BY <1>6, AnswersAreVersions DEF Versioned
  <2>2. NothingMissed'
    BY <1>0, <1>6, <2>1, SnapshotCovers
  <2>3. CapHolds'
    BY <1>6, FewerSockets DEF OpenSockets
  <2>4. \A s \in Socks : known[s] <= known'[s]
    BY <1>0, <1>6, <2>1, SnapshotKeepsValues
  <2>5. NodeSockets'
    BY <1>0, <1>1, <1>2, <1>6, <2>4, NodeSocketsFollow
  <2> QED
    BY <2>2, <2>3, <2>5
(* A client that is not current is told nothing.                           *)
<1>7. ASSUME UNCHANGED <<known, repeated>>, ws' = ws, ws[t.sock] # "OPEN",
             \A r \in Socks \ {t.sock} : cursor'[r] = cursor[r], closed' = closed,
             known_id' \subseteq known_id \cup {t.sock}, \A u \in tasks' : Continues(u)
      PROVE  NothingMissed' /\ CapHolds' /\ NodeSockets'
  <2>1. \A s \in Socks : known[s] <= known'[s]
    BY <1>0, <1>7, KnownStays
  <2>2. \A s \in Socks : ws'[s] = "OPEN" => ws[s] = "OPEN" /\ cursor'[s] = cursor[s]
    BY <1>7
  <2>3. NothingMissed'
    BY <1>0, <2>1, <2>2, MissesNothing
  <2>4. CapHolds'
    BY <1>7, FewerSockets DEF OpenSockets
  <2>5. NodeSockets'
    BY <1>0, <1>1, <1>2, <1>7, <2>1, NodeSocketsFollow
  <2> QED
    BY <2>3, <2>4, <2>5
<1>8. ~IsCurrentClient(t.sock) => ws[t.sock] # "OPEN"
  BY DEF NodeSockets, IsCurrentClient
<1>9. CASE Activate(t)
  <2>1. \A u \in tasks' : Continues(u)
    BY <1>0, <1>9, FewerContinue, GoContinues DEF Activate, End, Pcs, Statements
  <2> QED
    BY <1>6, <1>7, <1>8, <1>9, <2>1 DEF Activate
<1>10. CASE SetupEnds(t)
  <2>1. \A u \in tasks' : Continues(u)
    BY <1>10, FewerContinue DEF SetupEnds, End
  <2>2. /\ \A s \in Socks \ {t.sock} : ws'[s] = ws[s]
        /\ ws'[t.sock] \in {"CLOSING", "CLOSED"}
    BY <1>0, <1>1, <1>10 DEF SetupEnds, SocketValuesOK
  <2>3. UNCHANGED <<cursor, known, known_id>> /\ closed' \subseteq closed \cup {t.sock}
    BY <1>10 DEF SetupEnds
  <2>4. \A s \in Socks : ws'[s] = "OPEN" => ws[s] = "OPEN"
    BY <2>2
  <2>5. NothingMissed' /\ CapHolds'
    BY <1>0, <2>3, <2>4, QuietSockets
  <2>6. \A s \in Socks : known[s] <= known'[s]
    BY <1>0, <2>3, KnownStays
  <2>7. NodeSockets'
    <3>1. \A s \in Socks : ws'[s] = "NONE" => ws[s] = "NONE" /\ cursor'[s] = cursor[s]
      BY <2>2, <2>3
    <3>2. \A s \in closed' : s \in Socks /\ (ws'[s] \in {"CLOSING", "CLOSED"} \/ (s \in closed /\ ws'[s] = ws[s]))
      BY <1>0, <1>2, <2>2, <2>3
    <3> QED
      BY <1>0, <1>2, <2>1, <2>3, <2>6, <3>1, <3>2, NodeSocketsFollow
  <2> QED
    BY <2>5, <2>7
<1>11. CASE Beaten(t)
  <2>1. \A u \in tasks' : Continues(u)
    <3>1. CASE End(t)
      BY <3>1, FewerContinue DEF End
    <3>2. CASE Compensate(t)
      <4>1. Becomes(t, "DISCONNECT", 1, t.at)
        BY <1>0, <3>2, FromBecomes DEF Compensate, Pcs, Statements
      <4> QED
        BY <1>11, <4>1, BecomesContinues DEF Beaten
    <3> QED
      BY <1>11, <3>1, <3>2 DEF Beaten
  <2>2. UNCHANGED <<closed, known_id>>
    BY <1>11 DEF Beaten, nodeVars
  <2> QED
    BY <1>3, <1>6, <1>11, <2>1, <2>2 DEF Beaten
<1>12. CASE SnapshotLoaded(t)
  <2>1. \A u \in tasks' : Continues(u)
    BY <1>12, FewerContinue DEF SnapshotLoaded, End
  <2>2. UNCHANGED <<ws, closed, known_id>> /\ cursor' = [cursor EXCEPT ![t.sock] = t.at] /\ t.pc = "LOADED"
    BY <1>12 DEF SnapshotLoaded, SnapshotVersion, nodeVars
  <2>3. \A r \in Socks \ {t.sock} : cursor'[r] = cursor[r]
    BY <1>0, <2>2 DEF SocketValuesOK
  <2> QED
    BY <1>6, <1>7, <1>8, <1>12, <2>1, <2>2, <2>3 DEF SnapshotLoaded
<1>13. CASE StartCommand(t)
  <2>1. UNCHANGED socketVars /\ UNCHANGED <<closed, known_id>>
    BY <1>13 DEF StartCommand, nodeVars
  <2>2. ASSUME NEW u \in tasks'
        PROVE  \/ Continues(u)
               \/ u.sock \in Socks /\ ws'[u.sock] # "NONE" /\ u.kind # "POLL"
    <3>1. t.kind \in CommandKinds
      BY <1>13 DEF TasksSound, SoundIn, StartCommand
    <3>2. CASE \E pc \in {"LOAD", "ACT"} : Go(t, pc)
      BY <1>0, <3>2, GoContinues DEF Pcs, Statements
    <3>3. CASE tasks' = (tasks \ {t}) \cup {[t EXCEPT !.pc = "WAIT"]} \cup Heartbeats(t.sock)
      <4>1. CASE u \in tasks
        BY <4>1 DEF Continues
      <4>2. CASE u = [t EXCEPT !.pc = "WAIT"]
        <5>1. u.kind = t.kind /\ u.sock = t.sock /\ u.from = t.from
          BY <1>0, <4>2 DEF Task
        <5> QED
          BY <5>1 DEF Continues
      <4>3. CASE u \in Heartbeats(t.sock)
        BY <1>0, <1>1, <2>1, <4>3, BeatsAreOfReady DEF socketVars
      <4> QED
        BY <3>3, <4>1, <4>2, <4>3
    <3> QED
      BY <1>13, <3>1, <3>2, <3>3 DEF StartCommand, CommandKinds
  <2> QED
    BY <1>3, <2>1, <2>2
<1>14. CASE Acted(t)
  <2>1. UNCHANGED socketVars /\ UNCHANGED <<closed, known_id>>
    BY <1>14 DEF Acted
  <2>2. ASSUME NEW u \in tasks'
        PROVE  \/ Continues(u)
               \/ /\ u.sock \in Socks /\ ws'[u.sock] # "NONE"
                  /\ u.kind = "POLL" => u.from <= known'[u.sock] /\ u.from \in Nat
    <3>1. tasks' = (tasks \ {t}) \cup {[t EXCEPT !.pc = "WAIT"]} \cup Polls(t.sock)
      BY <1>14 DEF Acted
    <3>2. CASE u \in tasks
      BY <3>2 DEF Continues
    <3>3. CASE u = [t EXCEPT !.pc = "WAIT"]
      <4>1. u.kind = t.kind /\ u.sock = t.sock /\ u.from = t.from
        BY <1>0, <3>3 DEF Task
      <4> QED
        BY <4>1 DEF Continues
    <3>4. CASE u \in Polls(t.sock)
      <4>1. u.sock = t.sock /\ u.from = cursor[t.sock] /\ ws[t.sock] = "OPEN" /\ u \in Task
        BY <1>0, <3>4, PollsAreOfReady DEF Ready, IsCurrentClient
      <4>2. cursor[t.sock] <= known[t.sock] /\ u.from \in Nat
        BY <1>0, <4>1 DEF NothingMissed, Task
      <4> QED
        BY <1>0, <1>1, <2>1, <4>1, <4>2 DEF socketVars
    <3> QED
      BY <3>1, <3>2, <3>3, <3>4
  <2> QED
    BY <1>3, <2>1, <2>2
<1>15. CASE Polled(t)
  <2> DEFINE s == t.sock
  <2>1. UNCHANGED <<ws, closed, known_id>> /\ t.kind = "POLL" /\ t.pc = "EVENTS_READ"
    BY <1>15 DEF Polled
  <2>2. cursor[s] \in 0 .. MaxVersion /\ t.at \in 0 .. MaxVersion /\ t.from <= known[s]
    BY <1>0, <2>1, AnswersAreVersions DEF SocketValuesOK, NodeSockets, Versioned
  <2>3. /\ \A r \in Socks : known[r] <= known'[r]
        /\ \A r \in Socks : ws'[r] = "OPEN" => \/ ws[r] = "OPEN" /\ cursor'[r] = cursor[r]
                                               \/ cursor'[r] <= known'[r]
    <3>1. CASE ~IsCurrentClient(s)
      BY <1>0, <1>15, <2>1, <3>1, KnownStays DEF Polled
    <3>2. CASE IsCurrentClient(s)
      <4>1. SendEvents(t, cursor[s]) /\ cursor' = [cursor EXCEPT ![s] = CursorAfter(t)]
        BY <1>15, <3>2 DEF Polled
      <4>2. cursor[s] <= known[s]
        BY <1>0, <3>2 DEF NothingMissed, IsCurrentClient
      <4>3. /\ \A r \in Socks : known[r] <= known'[r]
            /\ t.at <= known'[s]
        BY <1>0, <2>1, <2>2, <4>1, <4>2, EventsKeepValues
      <4>4. known[s] \in 0 .. MaxVersion /\ known'[s] \in 0 .. MaxVersion /\ known[s] <= known'[s]
        BY <1>0, <4>3 DEF SocketValuesOK
      <4>5. CursorAfter(t) <= known'[s]
        BY <2>2, <4>2, <4>3, <4>4, Stores DEF CursorAfter
      <4>6. cursor'[s] = CursorAfter(t) /\ \A r \in Socks \ {s} : cursor'[r] = cursor[r]
        BY <1>0, <4>1 DEF SocketValuesOK
      <4> QED
        BY <2>1, <4>3, <4>5, <4>6
    <3> QED
      BY <3>1, <3>2
  <2>4. NothingMissed'
    BY <1>0, <2>3, MissesNothing
  <2>5. CapHolds'
    BY <2>1, FewerSockets DEF OpenSockets
  <2>6. ASSUME NEW u \in tasks'
        PROVE  \/ Continues(u)
               \/ /\ u.sock \in Socks /\ ws'[u.sock] # "NONE"
                  /\ u.kind = "POLL" => u.from <= known'[u.sock] /\ u.from \in Nat
    <3>1. CASE u \in tasks
      BY <3>1 DEF Continues
    <3>2. CASE u = PollTask(s, cursor'[s]) /\ IsCurrentClient(s)
      <4>1. cursor'[s] \in 0 .. MaxVersion
        BY <1>0 DEF SocketValuesOK
      <4>2. cursor'[s] \in Nat
        BY <4>1, Stores
      <4>3. u.sock = s /\ u.from = cursor'[s]
        BY <1>0, <3>2, <4>2, PollIsNew
      <4>4. cursor'[s] <= known'[s]
        BY <1>0, <2>1, <2>4, <3>2 DEF NothingMissed, IsCurrentClient
      <4> QED
        BY <1>0, <1>1, <2>1, <4>2, <4>3, <4>4
    <3> QED
      BY <1>15, <3>1, <3>2 DEF Polled
  <2>7. NodeSockets'
    <3>1. \A r \in Socks \ {s} : cursor'[r] = cursor[r]
      BY <1>0, <1>15 DEF Polled, SocketValuesOK
    <3> QED
      BY <1>0, <1>1, <1>2, <2>1, <2>3, <2>6, <3>1, NodeSocketsFollow
  <2> QED
    BY <2>4, <2>5, <2>7
<1> QED
  BY <1>4, <1>5, <1>9, <1>10, <1>11, <1>12, <1>13, <1>14, <1>15 DEF NodeResumes

LEMMA NodeEventsKeepOrder ==
  ASSUME StoreTypeOK, NodeTypeOK, TasksSound, SocketValuesOK', NothingMissed, CapHolds, NodeSockets,
         NodeEvent \/ NodeTick
  PROVE  NothingMissed' /\ CapHolds' /\ NodeSockets'
<1>0. StoreValuesOK /\ SocketValuesOK /\ closed \subseteq Socks /\ known_id \subseteq Socks
  BY StoreTypeSplits DEF NodeTypeOK
<1>1. UNCHANGED <<cursor, known, known_id>>
  BY DEF NodeEvent, Ping, Sigterm, ShutdownStep, Crash, AcceptConnection, ClientCloses, Pong, PollTimer, Enqueue,
         NodeTick, NodeKeeps, socketVars, nodeVars
<1>2. \A s \in Socks : known[s] <= known'[s]
  BY <1>0, <1>1, KnownStays
<1>3. \A s \in Socks : ws'[s] = "NONE" => ws[s] = "NONE" /\ cursor'[s] = cursor[s]
  BY <1>0, <1>1 DEF NodeEvent, Ping, Sigterm, ShutdownStep, Crash, AcceptConnection, ClientCloses, Pong, PollTimer, Enqueue,
         NodeTick, NodeKeeps, socketVars, SocketValuesOK
<1>4. \A s \in closed' : s \in Socks /\ (ws'[s] \in {"CLOSING", "CLOSED"} \/ (s \in closed /\ ws'[s] = ws[s]))
  <2>1. \A s \in closed : s \in Socks /\ ws[s] \in {"CLOSING", "CLOSED"}
    BY <1>0 DEF NodeSockets
  <2>2. CASE UNCHANGED <<ws, closed>>
    BY <2>1, <2>2
  <2>3. CASE Ping \/ Sigterm \/ Crash
    BY <1>0, <2>1, <2>3 DEF Ping, Sigterm, Crash, SocketValuesOK
  <2>4. ASSUME NEW s \in Socks, AcceptConnection(s) \/ ClientCloses(s)
        PROVE  \A r \in closed' : r \in Socks /\ (ws'[r] \in {"CLOSING", "CLOSED"} \/ (r \in closed /\ ws'[r] = ws[r]))
    BY <1>0, <2>1, <2>4 DEF AcceptConnection, ClientCloses, SocketValuesOK
  <2> QED
    BY <2>2, <2>3, <2>4 DEF NodeEvent, ShutdownStep, Pong, PollTimer, Enqueue, NodeTick, socketVars, nodeVars
<1>5. \A s \in Socks : ws[s] = "OPEN" => cursor[s] <= known[s]
  BY DEF NothingMissed
<1>6. ASSUME NEW u \in tasks'
      PROVE  \/ Continues(u)
             \/ /\ u.sock \in Socks /\ ws'[u.sock] # "NONE"
                /\ u.kind = "POLL" => u.from <= known'[u.sock] /\ u.from \in Nat
  <2>1. CASE u \in tasks
    BY <2>1 DEF Continues
  <2>2. {"OPEN", "CLOSE"} \subseteq Kinds /\ {"CONNECT", "DISCONNECT", "QUEUED"} \subseteq Pcs
    BY DEF Kinds, Pcs, Statements, Results
  <2>3. ASSUME NEW s \in Socks, u \in Polls(s), ws' = ws
        PROVE  /\ u.sock \in Socks /\ ws'[u.sock] # "NONE"
               /\ u.kind = "POLL" => u.from <= known'[u.sock] /\ u.from \in Nat
    <3>1. u.sock = s /\ u.from = cursor[s] /\ ws[s] = "OPEN" /\ u \in Task
      BY <1>0, <2>3, PollsAreOfReady DEF Ready, IsCurrentClient
    <3>2. cursor[s] <= known[s] /\ u.from \in Nat
      BY <1>5, <3>1 DEF Task
    <3> QED
      BY <1>1, <2>3, <3>1, <3>2
  <2>4. ASSUME NEW s \in Socks, u \in Heartbeats(s), ws' = ws
        PROVE  u.sock \in Socks /\ ws'[u.sock] # "NONE" /\ u.kind # "POLL"
    BY <2>4, BeatsAreOfReady DEF Ready, IsCurrentClient
  <2>5. ASSUME NEW s \in Socks, Pong(s) \/ PollTimer(s)
        PROVE  u \in tasks \/ (u \in Polls(s) /\ ws' = ws) \/ (u \in Heartbeats(s) /\ ws' = ws)
    BY <2>5 DEF Pong, PollTimer, socketVars
  <2>6. ASSUME NEW s \in Socks, AcceptConnection(s)
        PROVE  u \in tasks \/ (u.sock \in Socks /\ ws'[u.sock] # "NONE" /\ u.kind # "POLL")
    <3>1. u \in tasks \/ u = NewTask("OPEN", s, 0, "CONNECT")
      BY <2>6 DEF AcceptConnection, Start
    <3>2. ws'[s] = "OPEN"
      BY <1>0, <2>6 DEF AcceptConnection, SocketValuesOK
    <3> QED
      BY <2>2, <3>1, <3>2, TaskIsNew
  <2>7. ASSUME NEW s \in Socks, ClientCloses(s)
        PROVE  u \in tasks \/ (u.sock \in Socks /\ ws'[u.sock] # "NONE" /\ u.kind # "POLL")
    <3>1. u \in tasks \/ u = NewTask("CLOSE", s, 0, "DISCONNECT")
      BY <2>7 DEF ClientCloses, Start
    <3>2. ws'[s] = "CLOSED"
      BY <1>0, <2>7 DEF ClientCloses, SocketValuesOK
    <3> QED
      BY <2>2, <3>1, <3>2, TaskIsNew
  <2>8. ASSUME NEW s \in Socks, NEW k \in CommandKinds, Enqueue(s, k)
        PROVE  u \in tasks \/ (u.sock \in Socks /\ ws'[u.sock] # "NONE" /\ u.kind # "POLL")
    <3> DEFINE n == Cardinality(Chain(s))
    <3>1. u \in tasks \/ u = NewTask(k, s, n, "QUEUED")
      BY <2>8 DEF Enqueue, Start
    <3>2. ws'[s] = "OPEN"
      BY <2>8 DEF Enqueue, socketVars, Ready, IsCurrentClient
    <3>3. n \in Nat
      <4>1. IsFiniteSet(Chain(s))
        BY FS_Subset DEF Chain, TasksSound
      <4> QED
        BY <4>1, FS_CardinalityType
    <3>4. k \in Kinds /\ k # "POLL"
      BY DEF CommandKinds, Kinds
    <3> HIDE DEF n
    <3> QED
      BY <2>2, <3>1, <3>2, <3>3, <3>4, TaskIsNew
  <2>9. CASE ShutdownStep
    <3>1. u \in tasks \/ \E s \in active \cap known_id : u = NewTask("CLOSE", s, 0, "DISCONNECT")
      BY <2>9 DEF ShutdownStep
    <3>2. UNCHANGED ws
      BY <2>9 DEF ShutdownStep, socketVars
    <3>3. ASSUME NEW s \in active \cap known_id, u = NewTask("CLOSE", s, 0, "DISCONNECT")
          PROVE  u.sock \in Socks /\ ws'[u.sock] # "NONE" /\ u.kind # "POLL"
      <4>1. s \in Socks /\ ws[s] # "NONE"
        BY <1>0 DEF NodeSockets
      <4> QED
        BY <2>2, <3>2, <3>3, <4>1, TaskIsNew
    <3> QED
      BY <2>1, <3>1, <3>3
  <2> QED
    BY <2>1, <2>3, <2>4, <2>5, <2>6, <2>7, <2>8, <2>9 DEF NodeEvent, Ping, Sigterm, Crash, NodeTick
<1>7. NodeSockets'
  BY <1>0, <1>1, <1>2, <1>3, <1>4, <1>6, NodeSocketsFollow
<1>8. CASE \E s \in Socks : AcceptConnection(s)
  <2>1. PICK s \in Socks : AcceptConnection(s)
    BY <1>8
  <2>2. ws' = [ws EXCEPT ![s] = "OPEN"] /\ MayAccept
    BY <2>1 DEF AcceptConnection
  <2>3. OpenSockets' \subseteq OpenSockets \cup {s}
    BY <1>0, <2>2 DEF OpenSockets, SocketValuesOK
  <2>4. Accepted = OpenSockets
    BY DEF Accepted, OpenSockets, NodeSockets
  <2>5. CapHolds'
    BY <2>2, <2>3, <2>4, OneMoreSocket DEF MayAccept, RoomForSocket
  <2>6. NothingMissed'
    <3>1. cursor[s] = 0 /\ known'[s] \in 0 .. MaxVersion
      BY <1>0, <1>1, <2>1 DEF NodeSockets, AcceptConnection, SocketValuesOK
    <3>2. cursor'[s] <= known'[s]
      BY <1>1, <3>1, Stores
    <3>3. \A r \in Socks \ {s} : ws'[r] = ws[r] /\ cursor'[r] = cursor[r]
      BY <1>0, <1>1, <2>2 DEF SocketValuesOK
    <3> QED
      BY <1>0, <1>2, <3>2, <3>3, MissesNothing
  <2> QED
    BY <1>7, <2>5, <2>6
<1>9. CASE ~\E s \in Socks : AcceptConnection(s)
  <2>1. \A s \in Socks : ws'[s] = "OPEN" => ws[s] = "OPEN"
    BY <1>0, <1>9 DEF NodeEvent, Ping, Sigterm, ShutdownStep, Crash, ClientCloses, Pong, PollTimer, Enqueue,
       NodeTick, socketVars, SocketValuesOK
  <2> QED
    BY <1>0, <1>1, <1>7, <2>1, QuietSockets
<1> QED
  BY <1>8, <1>9

LEMMA InitInOrder ==
  ASSUME Init
  PROVE  SocketsInOrder
<1>1. /\ \A s \in Socks : ws[s] = "NONE" /\ cursor[s] = 0 /\ known[s] = 0
      /\ tasks = {} /\ closed = {} /\ known_id = {}
  BY DEF Init, StoreInit, NodeInit
<1>2. OpenSockets = {}
  BY <1>1 DEF OpenSockets
<1>3. CapHolds
  BY <1>2, FS_EmptySet, Stores DEF CapHolds
<1>4. NothingMissed /\ NodeSockets
  BY <1>1 DEF NothingMissed, NodeSockets
<1> QED
  BY <1>3, <1>4 DEF SocketsInOrder

LEMMA StepInOrder ==
  ASSUME WellFormed, WellFormed', SocketsInOrder, Next
  PROVE  SocketsInOrder'
<1>0. /\ StoreTypeOK /\ HubTypeOK /\ NodeTypeOK /\ TasksSound /\ NothingMissed /\ CapHolds
      /\ SocketValuesOK /\ SocketValuesOK' /\ (transport = "NODE" => NodeSockets)
  BY DEF WellFormed, TypeOK, SocketsInOrder, StoreTypeOK, SocketValuesOK
<1>1. ASSUME NEW t \in tasks, Hub(HubStatement(t) \/ HubResumes(t))
      PROVE  SocketsInOrder'
  <2>1. transport' = "HUB" /\ (HubStatement(t) \/ HubResumes(t))
    BY <1>1 DEF Hub
  <2> QED
    BY <1>0, <2>1, HubStepsKeepOrder DEF SocketsInOrder
<1>2. ASSUME NEW t \in tasks, Node(NodeStatement(t) \/ NodeResumes(t))
      PROVE  SocketsInOrder'
  <2>1. transport = "NODE" /\ (NodeStatement(t) \/ NodeResumes(t))
    BY <1>2 DEF Node
  <2> QED
    BY <1>0, <2>1, NodeStepsKeepOrder DEF SocketsInOrder
<1>3. CASE Hub(HubEvent) \/ Hub(HubTick)
  <2>1. transport' = "HUB" /\ (HubEvent \/ HubTick)
    BY <1>3 DEF Hub
  <2> QED
    BY <1>0, <2>1, HubEventsKeepOrder DEF SocketsInOrder
<1>4. CASE Node(NodeEvent) \/ Node(NodeTick)
  <2>1. transport = "NODE" /\ (NodeEvent \/ NodeTick)
    BY <1>4 DEF Node
  <2> QED
    BY <1>0, <2>1, NodeEventsKeepOrder DEF SocketsInOrder
<1>5. CASE Surroundings
  <2>1. NothingMissed' /\ CapHolds'
    BY <1>0, <1>5, HubEventsKeepOrder
  <2>2. UNCHANGED <<transport, tasks, cursor, known, closed, known_id>>
    BY <1>5 DEF Surroundings, Append, MatchEnds, GlobalSweep, PeerCloses, socketVars, nodeVars
  <2>3. ws' = ws \/ \E s \in Socks : ws[s] = "OPEN" /\ ws' = [ws EXCEPT ![s] = "CLOSING"]
    BY <1>5 DEF Surroundings, Append, MatchEnds, GlobalSweep, PeerCloses, socketVars
  <2>4. ASSUME transport = "NODE"
        PROVE  NodeSockets'
    <3>1. NodeSockets /\ closed \subseteq Socks /\ known_id \subseteq Socks
      BY <1>0, <2>4 DEF NodeTypeOK
    <3>2. \A s \in Socks : ws'[s] = "NONE" => ws[s] = "NONE" /\ cursor'[s] = cursor[s]
      BY <1>0, <2>2, <2>3 DEF SocketValuesOK
    <3>3. \A s \in closed' : s \in Socks /\ (ws'[s] \in {"CLOSING", "CLOSED"} \/ (s \in closed /\ ws'[s] = ws[s]))
      BY <1>0, <2>2, <2>3, <3>1 DEF SocketValuesOK
    <3>4. \A u \in tasks' : Continues(u)
      BY <2>2, FewerContinue
    <3>5. \A s \in Socks : known[s] <= known'[s]
      BY <1>0, <2>2, KnownStays
    <3> QED
      BY <1>0, <2>2, <3>1, <3>2, <3>3, <3>4, <3>5, NodeSocketsFollow
  <2> QED
    BY <2>1, <2>2, <2>4 DEF SocketsInOrder
<1> QED
  BY <1>1, <1>2, <1>3, <1>4, <1>5 DEF Next, Handler, Tick

SocketInv == WellFormed /\ SocketsInOrder

LEMMA SocketStutter ==
  ASSUME SocketInv, UNCHANGED allVars
  PROVE  SocketInv'
BY DEF SocketInv, WellFormed, TypeOK, StoreTypeOK, HubTypeOK, NodeTypeOK, TasksSound, SoundIn, SocketsInOrder,
       NothingMissed, CapHolds, OpenSockets, NodeSockets, allVars, realtimeVars, storeVars, socketVars, hubVars, nodeVars

(* In every reachable state: types, the cap on open sockets, no missed     *)
(* event, and, on Node, what closed and known clients have been.           *)
THEOREM SocketsStayInOrder == Spec => []SocketInv
<1>1. Init => SocketInv
  BY InitWellFormed, InitInOrder DEF SocketInv
<1>2. SocketInv /\ [Next]_allVars => SocketInv'
  BY StepWellFormed, StepInOrder, SocketStutter DEF SocketInv
<1> QED
  BY <1>1, <1>2, PTL DEF Spec

(* No client misses an event: all events up to the cursor of its socket    *)
(* were sent to it or are covered by a snapshot.                           *)
THEOREM NoEventIsMissed == Spec => []NothingMissed
<1>1. SocketInv => NothingMissed
  BY DEF SocketInv, SocketsInOrder
<1> QED
  BY <1>1, SocketsStayInOrder, PTL

-----------------------------------------------------------------------------
(* Absence: a match that is on and has had a session has one, or a deadline*)
(* (refreshSessionPresence).                                               *)
AbsenceIsTimed ==
  phase = "ACTIVE" /\ (\E s \in Socks : session[s] # "NONE") => Open # {} \/ away # None

LEMMA ShutEnds ==
  ASSUME StoreValuesOK, NEW S \in SUBSET Open, NEW ago \in 0 .. StaleAfter, Shut(S, ago)
  PROVE  /\ \A s \in Socks : session'[s] = IF s \in S THEN "SHUT" ELSE session[s]
         /\ Open' = Open \ S
         /\ \/ away' = away /\ (S = {} \/ Open' # {})
            \/ S # {} /\ Open \subseteq S /\ phase = "ACTIVE" /\ away' = Grace - ago /\ away' \in Nat
            \/ S # {} /\ Open \subseteq S /\ phase # "ACTIVE" /\ away' = None
<1>1. \A s \in Socks : session'[s] = IF s \in S THEN "SHUT" ELSE session[s]
  BY DEF Shut
<1>2. Open' = Open \ S
  BY <1>1 DEF Open
<1>3. Grace - ago \in Nat
  BY Stores
<1> QED
  BY <1>1, <1>2, <1>3 DEF Shut

LEMMA ShutKeepsTiming ==
  ASSUME StoreValuesOK, AbsenceIsTimed, NEW S \in SUBSET Open, NEW ago \in 0 .. StaleAfter, Shut(S, ago),
         phase' = "ACTIVE" => phase = "ACTIVE"
  PROVE  AbsenceIsTimed'
<1>1. \A s \in Socks : session'[s] # "NONE" => session[s] # "NONE"
  BY ShutEnds DEF Open
<1>2. away' \in Nat => away' # None
  BY Stores
<1> QED
  BY <1>1, <1>2, ShutEnds DEF AbsenceIsTimed

LEMMA ConnectedKeepsTiming ==
  ASSUME StoreValuesOK, NEW t, t.sock \in Socks, Connected(t)
  PROVE  AbsenceIsTimed'
<1>1. t.sock \in Open'
  BY DEF Open, Connected, StoreValuesOK
<1> QED
  BY <1>1 DEF AbsenceIsTimed

LEMMA SameKeepsTiming ==
  ASSUME AbsenceIsTimed, UNCHANGED session, away' = None => away = None, phase' = "ACTIVE" => phase = "ACTIVE"
  PROVE  AbsenceIsTimed'
BY DEF AbsenceIsTimed, Open

LEMMA SweepKeepsTiming ==
  ASSUME StoreValuesOK, AbsenceIsTimed, SweepSessions
  PROVE  AbsenceIsTimed'
<1>1. Expired \in SUBSET Open /\ StaleAfter \in 0 .. StaleAfter
  BY Stores DEF Expired
<1> QED
  BY <1>1, ShutKeepsTiming DEF SweepSessions

LEMMA StepKeepsTiming ==
  ASSUME StoreValuesOK, TasksSound, AbsenceIsTimed, Next
  PROVE  AbsenceIsTimed'
<1>1. CASE UNCHANGED <<session, away, phase>>
  BY <1>1, SameKeepsTiming
<1>2. ASSUME NEW t \in tasks,
             Touch(t) \/ Connect(t) \/ ReadEvents(t) \/ Load(t) \/ Disconnect(t) \/ StatementFails(t)
      PROVE  AbsenceIsTimed'
  <2>1. t.sock \in Socks
    BY AnswersAreVersions
  <2>2. CASE Connected(t)
    BY <2>1, <2>2, ConnectedKeepsTiming
  <2>3. CASE Disconnect(t)
    <3>1. {t.sock} \cap Open \in SUBSET Open /\ 0 \in 0 .. StaleAfter
      BY Stores
    <3> QED
      BY <2>3, <3>1, ShutKeepsTiming DEF Disconnect
  <2> QED
    BY <1>1, <1>2, <2>2, <2>3 DEF Touch, Connect, ReadEvents, Load, StatementFails
<1>3. CASE SweepSessions
  BY <1>3, SweepKeepsTiming
<1>4. CASE Older /\ UNCHANGED <<session, phase>>
  <2>1. away' = None => away = None
    BY <1>4, Stores DEF Older, StoreValuesOK
  <2> QED
    BY <1>4, <2>1, SameKeepsTiming
<1>5. ASSUME NEW t \in tasks, HubResumes(t)
      PROVE  UNCHANGED <<session, away, phase>>
  BY <1>5 DEF HubResumes, Arm, GiveUp, NextLease, LeaseRenewed, LeaseDone, Accept, UpgradeEnds, Superseded, Touched,
     Reconnected, EventsRead, CommandEnds, SocketClosed, HubKeeps, storeVars
<1>6. ASSUME NEW t \in tasks, NodeResumes(t)
      PROVE  UNCHANGED <<session, away, phase>>
  BY <1>6 DEF NodeResumes, Activate, SetupEnds, Beaten, Compensated, Polled, PollFails, StartCommand, Acted,
     SnapshotLoaded, CommandDone, ClientClosed, NodeKeeps, storeVars
<1>7. ASSUME NEW t \in tasks, Hub(HubStatement(t) \/ HubResumes(t))
      PROVE  AbsenceIsTimed'
  BY <1>1, <1>2, <1>3, <1>5, <1>7 DEF Hub, HubStatement, ReadWake, AlarmSweeps, HubKeeps, storeVars
<1>8. ASSUME NEW t \in tasks, Node(NodeStatement(t) \/ NodeResumes(t))
      PROVE  AbsenceIsTimed'
  BY <1>1, <1>2, <1>6, <1>8 DEF Node, NodeStatement, StatementCut, Act, storeVars
<1>9. CASE HubEvent \/ NodeEvent
  <2>1. UNCHANGED <<session, away, phase>>
    BY <1>9 DEF HubEvent, AlarmFires, SetDeadline, Notify, NoticeLost, Upgrade, SocketCloses, Message, HubKeeps, storeVars,
       NodeEvent, Ping, Sigterm, ShutdownStep, Crash, AcceptConnection, ClientCloses, Pong, PollTimer, Enqueue, NodeKeeps
  <2> QED
    BY <1>1, <2>1
<1>10. CASE Surroundings
  <2>1. CASE MatchEnds
    BY <2>1, SameKeepsTiming DEF MatchEnds
  <2> QED
    BY <1>1, <1>3, <1>10, <2>1 DEF Surroundings, Append, GlobalSweep, PeerCloses, storeVars
<1>11. CASE Tick
  BY <1>4, <1>11 DEF Tick, Hub, Node, HubTick, NodeTick
<1> QED
  BY <1>7, <1>8, <1>9, <1>10, <1>11 DEF Next, Handler, Hub, Node

-----------------------------------------------------------------------------
(* The Durable Object: handlers, sessions, and the alarm in time to renew  *)
(* a session.  All of it holds while no statement has failed.              *)

LeasePcs == {"TOUCH", "TOUCHED", "CONNECT", "CONNECTED", "DISCONNECT", "DISCONNECTED"}

HubHandler(t) ==
  \/ /\ t.kind = "OPEN"
     /\ t.pc \in {"CONNECT", "CONNECTED", "FAILED", "DISCONNECT", "DISCONNECTED", "WAKE", "WOKEN"}
     /\ t.pc \in {"CONNECT", "CONNECTED", "FAILED"} => ws[t.sock] = "NONE"
     /\ t.pc = "CONNECTED" => session[t.sock] = "OPEN" /\ seen[t.sock] = 0
     /\ t.pc \in {"CONNECT", "FAILED"} => session[t.sock] = "NONE"
     /\ t.pc = "FAILED" => phase = "LEFT"
     /\ t.pc \in {"DISCONNECT", "DISCONNECTED"} => ws[t.sock] = "CLOSED"
  \/ /\ t.kind = "CLOSE"
     /\ t.pc \in {"DISCONNECT", "DISCONNECTED", "WAKE", "WOKEN"}
     /\ ws[t.sock] = "CLOSED"
  \/ /\ t.kind \in {"PING", "SNAPSHOT"}
     /\ t.pc \in LeasePcs \cup {"EVENTS", "EVENTS_READ", "FAILED", "WAKE", "WOKEN"}
     /\ session[t.sock] # "NONE" /\ ws[t.sock] # "NONE"
     /\ t.pc = "DISCONNECT" => ws[t.sock] # "OPEN"
  \/ /\ t.kind = "ALARM"
     /\ t.pc \in LeasePcs \cup {"NEXT", "FAILED", "SWEEP", "WAKE", "WOKEN"}
     /\ t.pc \in LeasePcs => session[t.sock] # "NONE" /\ ws[t.sock] # "NONE"
     /\ t.pc = "DISCONNECT" => ws[t.sock] # "OPEN"

OneOpen == \A t, u \in tasks : t.kind = "OPEN" /\ u.kind = "OPEN" /\ t.sock = u.sock => t = u

(* A session without a socket is one that an upgrade has just connected;   *)
(* one whose socket is gone is about to be closed.                         *)
HubSession(s) ==
  /\ ws[s] = "NONE" /\ session[s] # "NONE" => \E t \in tasks : t.kind = "OPEN" /\ t.sock = s /\ t.pc = "CONNECTED"
  /\ ws[s] \in {"OPEN", "CLOSING"} => session[s] # "NONE"
  /\ ws[s] = "CLOSED" /\ session[s] = "OPEN" => \E t \in tasks : t.sock = s /\ t.pc \in {"CONNECTED", "DISCONNECT"}

(* A handler that renews session s or sets the alarm in time.              *)
Timer(t, s) ==
  \/ t.kind = "OPEN" /\ t.sock = s /\ t.pc = "WAKE" /\ seen[s] = 0
  \/ t.pc = "WOKEN" /\ t.at # None /\ t.at + seen[s] <= RenewAfter
  \/ /\ t.kind = "ALARM" /\ t.pc # "WOKEN"
     /\ (s \in leases /\ t.pc \notin {"SWEEP", "WAKE"}) \/ (t.sock = s /\ t.pc = "TOUCH") \/ seen[s] = 0

InTime(s) ==
  /\ session[s] = "OPEN" /\ seen[s] <= RenewAfter
  /\ \/ alarm # None /\ alarm + seen[s] <= RenewAfter
     \/ \E t \in tasks : Timer(t, s)

HubInOrder ==
  /\ handled \subseteq {s \in Socks : ws[s] = "CLOSED"}
  /\ \A t \in tasks : HubHandler(t)
  /\ OneOpen
  /\ \A s \in Socks : HubSession(s)
  /\ phase # "LEFT" => \A s \in Socks : ws[s] = "OPEN" => InTime(s)

(* What a step may do to the surroundings of a handler.                    *)
Grows ==
  /\ phase = "LEFT" => phase' = "LEFT"
  /\ \A s \in Socks : session[s] # "NONE" => session'[s] # "NONE"
  /\ \A s \in Socks : \/ ws'[s] = ws[s]
                      \/ ws[s] = "NONE" /\ ws'[s] \in {"OPEN", "CLOSED"}
                      \/ ws[s] = "OPEN" /\ ws'[s] = "CLOSING"
                      \/ ws[s] = "CLOSING" /\ ws'[s] = "CLOSED"

Newborn(t) == t.kind = "OPEN" /\ t.pc \in {"CONNECT", "CONNECTED", "FAILED"}
SameSock(s) == ws'[s] = ws[s] /\ session'[s] = session[s] /\ seen'[s] = seen[s]

LEMMA SameGrows ==
  ASSUME UNCHANGED <<phase, session, ws>>
  PROVE  Grows
BY DEF Grows

LEMMA HubHandlersFollow ==
  ASSUME TasksSound, \A t \in tasks : HubHandler(t), Grows,
         \A u \in tasks' : \/ u \in tasks /\ (Newborn(u) => SameSock(u.sock))
                           \/ HubHandler(u)'
  PROVE  \A u \in tasks' : HubHandler(u)'
<1> SUFFICES ASSUME NEW u \in tasks, Newborn(u) => SameSock(u.sock)
             PROVE  HubHandler(u)'
  OBVIOUS
<1>1. u.sock \in Socks /\ HubHandler(u)
  BY AnswersAreVersions
<1>2. /\ phase = "LEFT" => phase' = "LEFT"
      /\ session[u.sock] # "NONE" => session'[u.sock] # "NONE"
      /\ ws[u.sock] # "NONE" => ws'[u.sock] # "NONE"
      /\ ws[u.sock] # "NONE" /\ ws[u.sock] # "OPEN" => ws'[u.sock] # "OPEN"
      /\ ws[u.sock] = "CLOSED" => ws'[u.sock] = "CLOSED"
  BY <1>1 DEF Grows
<1>3. CASE u.kind = "OPEN"
  BY <1>1, <1>2, <1>3 DEF HubHandler, Newborn, SameSock
<1>4. CASE u.kind = "CLOSE"
  BY <1>1, <1>2, <1>4 DEF HubHandler
<1>5. CASE u.kind \in {"PING", "SNAPSHOT"}
  BY <1>1, <1>2, <1>5 DEF HubHandler
<1>6. CASE u.kind = "ALARM"
  BY <1>1, <1>2, <1>6 DEF HubHandler
<1> QED
  BY <1>1, <1>3, <1>4, <1>5, <1>6 DEF HubHandler

LEMMA OneOpenFollows ==
  ASSUME OneOpen, NEW t, NEW u, tasks' \subseteq (tasks \ {t}) \cup {u},
         u.kind = "OPEN" => t \in tasks /\ t.kind = "OPEN" /\ t.sock = u.sock
  PROVE  OneOpen'
BY DEF OneOpen

LEMMA HubSessionFollows ==
  ASSUME NEW s \in Socks, HubSession(s), ws'[s] = ws[s], session'[s] = session[s],
         \A t \in tasks :
           /\ t.sock = s /\ t.kind = "OPEN" /\ t.pc = "CONNECTED" /\ ws[s] = "NONE"
                => \E u \in tasks' : u.kind = "OPEN" /\ u.sock = s /\ u.pc = "CONNECTED"
           /\ t.sock = s /\ t.pc \in {"CONNECTED", "DISCONNECT"} /\ ws[s] = "CLOSED" /\ session[s] = "OPEN"
                => \E u \in tasks' : u.sock = s /\ u.pc \in {"CONNECTED", "DISCONNECT"}
  PROVE  HubSession(s)'
BY DEF HubSession

LEMMA InTimeFollows ==
  ASSUME HubTypeOK, HubTypeOK', StoreValuesOK, NEW s \in Socks, InTime(s), session'[s] = "OPEN",
         seen'[s] = seen[s] \/ seen'[s] = 0,
         alarm # None => alarm' # None /\ alarm' <= alarm,
         \A t \in tasks : Timer(t, s) => \/ \E u \in tasks' : Timer(u, s)'
                                         \/ alarm' # None /\ alarm' + seen'[s] <= RenewAfter
  PROVE  InTime(s)'
<1>1. seen[s] \in 0 .. StaleAfter
  BY DEF StoreValuesOK
<1>2. seen[s] \in Nat /\ seen'[s] \in Nat /\ seen'[s] <= seen[s]
  BY <1>1, Stores
<1>3. seen'[s] <= RenewAfter
  BY <1>2, Stores DEF InTime
<1>4. CASE alarm # None /\ alarm + seen[s] <= RenewAfter
  <2>1. alarm \in Nat /\ alarm' \in Nat
    BY <1>4 DEF HubTypeOK
  <2>2. alarm' # None /\ alarm' + seen'[s] <= RenewAfter
    BY <1>2, <1>4, <2>1, Stores
  <2> QED
    BY <1>3, <2>2 DEF InTime
<1> QED
  BY <1>3, <1>4 DEF InTime

(* A handler that stays is as good as before.                              *)
LEMMA TimerStays ==
  ASSUME TasksSound, StoreValuesOK, NEW s \in Socks, NEW t \in tasks, t \in tasks', Timer(t, s),
         seen'[s] = seen[s] \/ seen'[s] = 0, s \in leases => s \in leases'
  PROVE  \E u \in tasks' : Timer(u, s)'
<1>1. seen[s] \in 0 .. StaleAfter
  BY DEF StoreValuesOK
<1>2. seen[s] \in Nat /\ seen'[s] <= seen[s] /\ seen'[s] \in Nat
  BY <1>1, Stores
<1>3. t.pc = "WOKEN" /\ t.at # None => t.at \in Nat
  BY DEF TasksSound, SoundIn
<1>4. t.pc = "WOKEN" /\ t.at # None /\ t.at + seen[s] <= RenewAfter => t.at + seen'[s] <= RenewAfter
  BY <1>2, <1>3, Stores
<1>5. seen[s] = 0 => seen'[s] = 0
  OBVIOUS
<1>6. Timer(t, s)'
  BY <1>4, <1>5 DEF Timer
<1> QED
  BY <1>6

LEMMA TimerIsRight ==
  ASSUME TasksSound, StoreValuesOK, NEW s \in Socks, NEW t \in tasks, t \in tasks', Timer(t, s),
         UNCHANGED seen, ~(s \in leases /\ s \notin leases')
  PROVE  \E u \in tasks' : Timer(u, s)'
BY TimerStays

(* A handler goes on as another, or ends; no session or socket changes.    *)
LEMMA HubGoesOn ==
  ASSUME HubTypeOK, HubTypeOK', StoreValuesOK, TasksSound, HubInOrder,
         UNCHANGED <<session, seen, ws, phase, handled>>,
         NEW t \in tasks, NEW u, tasks \ {t} \subseteq tasks', tasks' \subseteq (tasks \ {t}) \cup {u},
         u \in tasks' => HubHandler(u)' /\ u.kind = t.kind /\ (t.kind = "OPEN" => u.sock = t.sock),
         ~(t.kind = "OPEN" /\ t.pc = "CONNECTED"),
         t.pc \in {"CONNECTED", "DISCONNECT"} /\ ws[t.sock] = "CLOSED"
           => u \in tasks' /\ u.sock = t.sock /\ u.pc \in {"CONNECTED", "DISCONNECT"},
         alarm # None => alarm' # None /\ alarm' <= alarm,
         \A s \in Socks : ws[s] = "OPEN" /\ session[s] = "OPEN" /\ (Timer(t, s) \/ (s \in leases /\ s \notin leases'))
           => (u \in tasks' /\ Timer(u, s)') \/ (alarm' # None /\ alarm' + seen[s] <= RenewAfter)
  PROVE  HubInOrder'
<1>1. \A r \in tasks' : HubHandler(r)'
  <2>1. \A r \in tasks' : (r \in tasks /\ (Newborn(r) => SameSock(r.sock))) \/ HubHandler(r)'
    BY DEF SameSock
  <2> QED
    BY <2>1, SameGrows, HubHandlersFollow DEF HubInOrder
<1>2. OneOpen'
  <2>1. CASE u \in tasks'
    BY <2>1, OneOpenFollows DEF HubInOrder
  <2>2. CASE u \notin tasks'
    BY <2>2 DEF HubInOrder, OneOpen
  <2> QED
    BY <2>1, <2>2
<1>3. ASSUME NEW s \in Socks
      PROVE  HubSession(s)'
  <2>1. HubSession(s)
    BY DEF HubInOrder
  <2>2. \A r \in tasks :
           /\ r.sock = s /\ r.kind = "OPEN" /\ r.pc = "CONNECTED" /\ ws[s] = "NONE"
                => \E v \in tasks' : v.kind = "OPEN" /\ v.sock = s /\ v.pc = "CONNECTED"
           /\ r.sock = s /\ r.pc \in {"CONNECTED", "DISCONNECT"} /\ ws[s] = "CLOSED" /\ session[s] = "OPEN"
                => \E v \in tasks' : v.sock = s /\ v.pc \in {"CONNECTED", "DISCONNECT"}
    OBVIOUS
  <2> QED
    BY <2>1, <2>2, HubSessionFollows
<1>4. ASSUME NEW s \in Socks, phase' # "LEFT", ws'[s] = "OPEN"
      PROVE  InTime(s)'
  <2>1. InTime(s) /\ session[s] = "OPEN" /\ ws[s] = "OPEN"
    BY <1>4 DEF HubInOrder, InTime
  <2>2. \A r \in tasks : Timer(r, s) => \/ \E v \in tasks' : Timer(v, s)'
                                        \/ alarm' # None /\ alarm' + seen'[s] <= RenewAfter
    <3> SUFFICES ASSUME NEW r \in tasks, Timer(r, s)
                 PROVE  \/ \E v \in tasks' : Timer(v, s)'
                        \/ alarm' # None /\ alarm' + seen'[s] <= RenewAfter
      OBVIOUS
    <3>1. CASE r = t \/ (s \in leases /\ s \notin leases')
      BY <2>1, <3>1
    <3>2. CASE r # t /\ ~(s \in leases /\ s \notin leases')
      BY <3>2, TimerIsRight
    <3> QED
      BY <3>1, <3>2
  <2>3. session'[s] = "OPEN" /\ seen'[s] = seen[s]
    BY <2>1
  <2> QED
    BY <2>1, <2>2, <2>3, InTimeFollows
<1>5. handled' \subseteq {s \in Socks : ws'[s] = "CLOSED"}
  BY DEF HubInOrder
<1> QED
  BY <1>1, <1>2, <1>3, <1>4, <1>5 DEF HubInOrder

(* The same for a handler that is no timer before.                         *)
LEMMA HubPasses ==
  ASSUME HubTypeOK, HubTypeOK', StoreValuesOK, TasksSound, HubInOrder,
         UNCHANGED <<session, seen, ws, phase, handled, alarm, leases>>,
         NEW t \in tasks, NEW pc, NEW from, NEW at, Becomes(t, pc, from, at),
         ~(t.kind = "OPEN" /\ t.pc = "CONNECTED"),
         t.pc \in {"CONNECTED", "DISCONNECT"} /\ ws[t.sock] = "CLOSED" => pc \in {"CONNECTED", "DISCONNECT"},
         t.kind = "ALARM" => t.pc # "TOUCH" /\ pc \notin {"WOKEN", "SWEEP", "WAKE"},
         t.pc \notin {"WAKE", "WOKEN"},
         \A u \in Task : u.kind = t.kind /\ u.sock = t.sock /\ u.pc = pc => HubHandler(u)
  PROVE  HubInOrder'
<1>1. PICK u \in Task : /\ u.kind = t.kind /\ u.sock = t.sock /\ u.pc = pc
                        /\ tasks' = (tasks \ {t}) \cup {u}
  BY DEF Becomes
<1>2. HubHandler(u)
  BY <1>1
<1>3. HubHandler(u)'
  BY <1>2 DEF HubHandler
<1>4. alarm # None => alarm' <= alarm
  BY Stores DEF HubTypeOK
<1>5. \A s \in Socks : Timer(t, s) => Timer(u, s)'
  BY <1>1 DEF Timer
<1> QED
  BY <1>1, <1>3, <1>4, <1>5, HubGoesOn

LEMMA HubEnds ==
  ASSUME HubTypeOK, HubTypeOK', StoreValuesOK, TasksSound, HubInOrder,
         UNCHANGED <<session, seen, ws, phase, handled, alarm, leases>>,
         NEW t \in tasks, End(t), t.kind # "ALARM",
         ~(t.kind = "OPEN" /\ t.pc = "CONNECTED"),
         t.pc \in {"CONNECTED", "DISCONNECT"} => ws[t.sock] # "CLOSED",
         t.pc \notin {"WAKE", "WOKEN"}
  PROVE  HubInOrder'
<1>1. tasks' = tasks \ {t} /\ tasks' \subseteq (tasks \ {t}) \cup {t} /\ t \notin tasks'
  BY DEF End
<1>2. alarm # None => alarm' <= alarm
  BY Stores DEF HubTypeOK
<1>3. \A s \in Socks : ~Timer(t, s)
  BY DEF Timer
<1> QED
  BY <1>1, <1>2, <1>3, HubGoesOn

LEMMA SoonestWake ==
  ASSUME StoreTypeOK, HubTypeOK, NEW d \in Deadlines
  PROVE  NextWake # None /\ NextWake \in Nat /\ NextWake <= (IF d <= 0 THEN 1 ELSE d)
<1> DEFINE S == {IF e <= 0 THEN 1 ELSE e : e \in Deadlines}
<1>1. Deadlines \subseteq Int
  <2>1. \A s \in Open : seen[s] \in Int /\ RenewAfter \in Int
    BY Stores DEF StoreTypeOK, Open
  <2> QED
    BY <2>1, Stores DEF Deadlines, StoreTypeOK, HubTypeOK
<1>2. \A e \in Int : (IF e <= 0 THEN 1 ELSE e) \in Nat
  OBVIOUS
<1>3. S \subseteq Nat
  BY <1>1, <1>2
<1>4. (IF d <= 0 THEN 1 ELSE d) \in S
  OBVIOUS
<1>5. NextWake = Least(S)
  BY DEF NextWake
<1> HIDE DEF S
<1>6. Least(S) \in S /\ \A x \in S : Least(S) <= x
  BY <1>3, <1>4, LeastOfNaturals
<1>7. NextWake <= (IF d <= 0 THEN 1 ELSE d)
  BY <1>4, <1>5, <1>6
<1>8. NextWake \in Nat
  BY <1>3, <1>5, <1>6
<1> QED
  BY <1>7, <1>8, Stores

LEMMA LeaseIsPossible ==
  ASSUME HubInOrder, NEW s \in Socks, ws[s] = "OPEN"
  PROVE  Current(s) /\ session[s] # "NONE"
BY DEF HubInOrder, HubSession, Current

LEMMA ReadWakeInOrder ==
  ASSUME StoreTypeOK, HubTypeOK, HubTypeOK', TasksSound, HubInOrder, NEW t \in tasks, ReadWake(t)
  PROVE  HubInOrder'
<1>0. StoreValuesOK /\ t \in Task /\ HubHandler(t) /\ t.pc = "WAKE"
  BY StoreTypeSplits DEF TasksSound, HubInOrder, ReadWake
<1>1. "WOKEN" \in Pcs /\ NextWake \in Int \cup {None}
  BY WakesAreNatural DEF Pcs, Results
<1>2. Becomes(t, "WOKEN", t.from, NextWake)
  BY <1>0, <1>1, GoWithBecomes DEF ReadWake
<1>3. PICK u \in Task : /\ u.kind = t.kind /\ u.sock = t.sock /\ u.pc = "WOKEN" /\ u.at = NextWake
                        /\ tasks' = (tasks \ {t}) \cup {u}
  BY <1>2 DEF Becomes
<1>4. UNCHANGED <<session, seen, ws, phase, handled, alarm, leases>>
  BY DEF ReadWake, HubKeeps, storeVars, socketVars
<1>5. HubHandler(u)'
  BY <1>0, <1>3, <1>4 DEF HubHandler, LeasePcs
<1>6. ASSUME NEW s \in Socks, session[s] = "OPEN", Timer(t, s)
      PROVE  Timer(u, s)'
  <2>1. seen[s] = 0
    BY <1>0, <1>6 DEF Timer
  <2>2. RenewAfter - seen[s] \in Deadlines
    BY <1>6 DEF Deadlines, Open
  <2>3. NextWake # None /\ NextWake \in Nat /\ NextWake <= RenewAfter
    BY <2>1, <2>2, SoonestWake, Stores
  <2>4. u.at + seen[s] <= RenewAfter /\ u.at # None
    BY <1>3, <2>1, <2>3, Stores
  <2> QED
    BY <1>3, <1>4, <2>4 DEF Timer
<1>7. alarm # None => alarm' <= alarm
  BY <1>4, Stores DEF HubTypeOK
<1> QED
  BY <1>0, <1>3, <1>4, <1>5, <1>6, <1>7, HubGoesOn

LEMMA ScheduleAdvances ==
  ASSUME HubTypeOK, NEW at \in Nat \cup {None}, Schedule(at)
  PROVE  /\ alarm # None => alarm' # None /\ alarm' <= alarm
         /\ at # None => alarm' # None /\ alarm' <= at
         /\ alarm' \in Nat \cup {None}
BY Stores DEF Schedule, HubTypeOK

LEMMA ArmInOrder ==
  ASSUME StoreTypeOK, HubTypeOK, HubTypeOK', TasksSound, HubInOrder, NEW t \in tasks, Arm(t)
  PROVE  HubInOrder'
<1>0. StoreValuesOK /\ t \in Task /\ HubHandler(t) /\ t.pc = "WOKEN" /\ t.at \in Nat \cup {None}
  BY StoreTypeSplits DEF TasksSound, SoundIn, HubInOrder, Arm
<1>1. UNCHANGED <<session, seen, ws, phase, handled, leases>>
  BY DEF Arm, HubKeeps, storeVars, socketVars
<1>2. tasks' = tasks \ {t}
  BY DEF Arm, End
<1>3. /\ alarm # None => alarm' # None /\ alarm' <= alarm
      /\ t.at # None => alarm' # None /\ alarm' <= t.at
      /\ alarm' \in Nat \cup {None}
  BY <1>0, ScheduleAdvances DEF Arm
<1>4. ASSUME NEW s \in Socks, Timer(t, s)
      PROVE  alarm' # None /\ alarm' + seen[s] <= RenewAfter
  <2>1. t.at # None /\ t.at + seen[s] <= RenewAfter
    BY <1>0, <1>4 DEF Timer
  <2>2. seen[s] \in 0 .. StaleAfter
    BY <1>0 DEF StoreValuesOK
  <2> QED
    BY <1>0, <1>3, <2>1, <2>2, Stores
<1>5. t \notin tasks' /\ tasks' \subseteq (tasks \ {t}) \cup {t} /\ tasks \ {t} \subseteq tasks'
  BY <1>2
<1> QED
  BY <1>0, <1>1, <1>3, <1>4, <1>5, HubGoesOn

LEMMA NextLeaseInOrder ==
  ASSUME StoreTypeOK, HubTypeOK, HubTypeOK', TasksSound, HubInOrder, NEW t \in tasks, NextLease(t)
  PROVE  HubInOrder'
<1>0. StoreValuesOK /\ t \in Task /\ HubHandler(t) /\ t.kind = "ALARM" /\ t.pc = "NEXT"
  BY StoreTypeSplits DEF TasksSound, HubInOrder, NextLease
<1>1. UNCHANGED <<session, seen, ws, phase, handled, alarm>>
  BY DEF NextLease, HubKeeps, storeVars, socketVars
<1>2. alarm # None => alarm' # None /\ alarm' <= alarm
  BY <1>1, Stores DEF HubTypeOK
<1>3. CASE leases = {}
  <2>1. leases' = {} /\ Go(t, "SWEEP") /\ "SWEEP" \in Pcs
    BY <1>3 DEF NextLease, Pcs, Statements
  <2>2. PICK u \in Task : u.kind = t.kind /\ u.sock = t.sock /\ u.pc = "SWEEP" /\ tasks' = (tasks \ {t}) \cup {u}
    BY <1>0, <2>1, GoBecomes DEF Becomes
  <2>3. HubHandler(u)'
    BY <1>0, <2>2 DEF HubHandler, LeasePcs
  <2>4. \A s \in Socks : Timer(t, s) => Timer(u, s)'
    BY <1>0, <1>1, <1>3, <2>2 DEF Timer
  <2> QED
    BY <1>0, <1>1, <1>2, <1>3, <2>2, <2>3, <2>4, HubGoesOn
<1>4. CASE leases # {}
  <2> DEFINE s == Least(leases)
  <2>1. s \in Socks /\ leases' = leases \ {s}
    BY <1>4, Stores, LeastOfNaturals DEF NextLease, HubTypeOK
  <2>2. CASE Current(s)
    <3>1. tasks' = (tasks \ {t}) \cup {[t EXCEPT !.sock = s, !.pc = "TOUCH"]} /\ "TOUCH" \in Pcs
      BY <1>4, <2>2 DEF NextLease, Pcs, Statements
    <3>2. PICK u \in Task : u.kind = t.kind /\ u.sock = s /\ u.pc = "TOUCH" /\ tasks' = (tasks \ {t}) \cup {u}
      <4> HIDE DEF s
      <4>1. TurnsTo(t, s, "TOUCH")
        BY <1>0, <2>1, <3>1, SockTurns
      <4> QED
        BY <4>1 DEF TurnsTo
    <3>3. session[s] # "NONE" /\ ws[s] = "OPEN"
      BY <2>1, <2>2, LeaseIsPossible DEF Current
    <3> HIDE DEF s
    <3>4. HubHandler(u)'
      BY <1>0, <1>1, <3>2, <3>3 DEF HubHandler, LeasePcs
    <3>5. \A r \in Socks : Timer(t, r) \/ (r \in leases /\ r \notin leases') => Timer(u, r)'
      BY <1>0, <1>1, <2>1, <3>2 DEF Timer
    <3> QED
      BY <1>0, <1>1, <1>2, <3>2, <3>4, <3>5, HubGoesOn
  <2>3. CASE ~Current(s)
    <3>1. tasks' = tasks
      BY <1>4, <2>3 DEF NextLease
    <3>2. ws[s] # "OPEN"
      BY <2>1, <2>3, LeaseIsPossible
    <3>3. HubHandler(t)'
      BY <1>0, <1>1 DEF HubHandler
    <3> HIDE DEF s
    <3>4. \A r \in Socks : ws[r] = "OPEN" /\ (Timer(t, r) \/ (r \in leases /\ r \notin leases')) => Timer(t, r)'
      BY <1>0, <1>1, <2>1, <3>2 DEF Timer
    <3>5. tasks \ {t} \subseteq tasks' /\ tasks' \subseteq (tasks \ {t}) \cup {t} /\ t \in tasks'
      BY <3>1
    <3> QED
      BY <1>0, <1>1, <1>2, <3>3, <3>4, <3>5, HubGoesOn
  <2> QED
    BY <2>2, <2>3
<1> QED
  BY <1>3, <1>4

LEMMA HubResumesInOrder ==
  ASSUME StoreTypeOK, HubTypeOK, HubTypeOK', TasksSound, HubInOrder, NEW t \in tasks,
         \/ GiveUp(t) \/ LeaseRenewed(t) \/ LeaseDone(t) \/ Superseded(t) \/ Touched(t)
         \/ Reconnected(t) \/ EventsRead(t) \/ CommandEnds(t) \/ SocketClosed(t)
         \/ (ReadEvents(t) /\ UNCHANGED hubVars)
  PROVE  HubInOrder'
<1>0. StoreValuesOK /\ SocketValuesOK /\ t \in Task /\ HubHandler(t) /\ t.sock \in Socks
  BY StoreTypeSplits, AnswersAreVersions DEF TasksSound, HubInOrder
<1>1. UNCHANGED <<session, seen, ws, phase, leases>>
  BY DEF GiveUp, LeaseRenewed, LeaseDone, Superseded, Touched, Reconnected, EventsRead, CommandEnds, SocketClosed,
     ReadEvents, StatementUnchanged, HubKeeps, storeVars, socketVars, hubVars
<1>2. ~GiveUp(t) /\ t.pc # "THROWN"
  BY <1>0 DEF GiveUp, HubHandler, LeasePcs
<1>3. UNCHANGED <<alarm, handled>>
  BY <1>0, <1>2 DEF LeaseRenewed, LeaseDone, Superseded, Touched, Reconnected, EventsRead, CommandEnds, SocketClosed,
     ReadEvents, hubVars, HubHandler
<1>4. {"NEXT", "DISCONNECT", "EVENTS", "WAKE", "EVENTS_READ"} \subseteq Pcs
  BY DEF Pcs, Statements, Results
<1>5. ws[t.sock] = "OPEN" => Current(t.sock) /\ session[t.sock] # "NONE"
  BY <1>0, LeaseIsPossible
<1>6. CASE LeaseRenewed(t)
  <2>1. CASE Current(t.sock)
    <3>1. Becomes(t, "NEXT", t.from, t.at)
      BY <1>0, <1>4, <1>6, <2>1, GoBecomes DEF LeaseRenewed
    <3>2. \A u \in Task : u.kind = t.kind /\ u.sock = t.sock /\ u.pc = "NEXT" => HubHandler(u)
      BY <1>6 DEF LeaseRenewed, HubHandler, LeasePcs
    <3> QED
      BY <1>0, <1>1, <1>3, <1>6, <2>1, <3>1, <3>2, HubPasses DEF LeaseRenewed, Current
  <2>2. CASE ~Current(t.sock)
    <3>1. Becomes(t, "DISCONNECT", t.from, t.at)
      BY <1>0, <1>4, <1>6, <2>2, GoBecomes DEF LeaseRenewed
    <3>2. ws[t.sock] # "OPEN"
      BY <1>5, <2>2
    <3>3. \A u \in Task : u.kind = t.kind /\ u.sock = t.sock /\ u.pc = "DISCONNECT" => HubHandler(u)
      BY <1>0, <1>6, <3>2 DEF LeaseRenewed, HubHandler, LeasePcs
    <3> QED
      BY <1>0, <1>1, <1>3, <1>6, <3>1, <3>3, HubPasses DEF LeaseRenewed
  <2> QED
    BY <2>1, <2>2
<1>7. CASE LeaseDone(t)
  <2>1. Becomes(t, "NEXT", t.from, t.at)
    BY <1>0, <1>4, <1>7, GoBecomes DEF LeaseDone
  <2>2. \A u \in Task : u.kind = t.kind /\ u.sock = t.sock /\ u.pc = "NEXT" => HubHandler(u)
    BY <1>7 DEF LeaseDone, HubHandler, LeasePcs
  <2> QED
    BY <1>0, <1>1, <1>3, <1>7, <2>1, <2>2, HubPasses DEF LeaseDone
<1>8. CASE Superseded(t)
  <2>1. CASE Current(t.sock)
    <3>1. End(t) /\ ws[t.sock] = "OPEN"
      BY <1>8, <2>1 DEF Superseded, RequireCurrent, Current
    <3> QED
      BY <1>0, <1>1, <1>3, <1>8, <3>1, HubEnds DEF Superseded, Command
  <2>2. CASE ~Current(t.sock)
    <3>1. Becomes(t, "DISCONNECT", t.from, t.at)
      BY <1>0, <1>4, <1>8, <2>2, GoBecomes DEF Superseded, RequireCurrent
    <3>2. ws[t.sock] # "OPEN"
      BY <1>5, <2>2
    <3>3. \A u \in Task : u.kind = t.kind /\ u.sock = t.sock /\ u.pc = "DISCONNECT" => HubHandler(u)
      BY <1>0, <1>8, <3>2 DEF Superseded, Command, HubHandler, LeasePcs
    <3> QED
      BY <1>0, <1>1, <1>3, <1>8, <3>1, <3>3, HubPasses DEF Superseded, Command
  <2> QED
    BY <2>1, <2>2
<1>9. CASE Touched(t)
  <2>1. cursor[t.sock] \in 0 .. MaxVersion
    BY <1>0 DEF SocketValuesOK
  <2>2. cursor[t.sock] \in Nat
    BY <2>1, Stores
  <2>3. Becomes(t, "EVENTS", cursor[t.sock], t.at)
    BY <1>0, <1>4, <1>9, <2>2, FromBecomes DEF Touched
  <2>4. \A u \in Task : u.kind = t.kind /\ u.sock = t.sock /\ u.pc = "EVENTS" => HubHandler(u)
    BY <1>0, <1>9 DEF Touched, HubHandler
  <2> QED
    BY <1>0, <1>1, <1>3, <1>9, <2>3, <2>4, HubPasses DEF Touched
<1>10. CASE Reconnected(t) \/ EventsRead(t)
  <2>1. Becomes(t, "WAKE", t.from, t.at)
    BY <1>0, <1>4, <1>10, GoBecomes DEF Reconnected, EventsRead
  <2>2. \A u \in Task : u.kind = t.kind /\ u.sock = t.sock /\ u.pc = "WAKE" => HubHandler(u)
    BY <1>0, <1>10 DEF Reconnected, EventsRead, Command, HubHandler
  <2>3. ws[t.sock] # "CLOSED"
    BY <1>10 DEF Reconnected, EventsRead, IsCurrent, Current
  <2> QED
    BY <1>0, <1>1, <1>3, <1>10, <2>1, <2>2, <2>3, HubPasses DEF Reconnected, EventsRead, Command
<1>11. CASE CommandEnds(t)
  BY <1>0, <1>1, <1>3, <1>11, HubEnds DEF CommandEnds, Command
<1>12. CASE SocketClosed(t)
  <2>1. t.pc = "DISCONNECTED"
    BY <1>0, <1>12 DEF SocketClosed, HubHandler
  <2>2. Becomes(t, "WAKE", t.from, t.at)
    BY <1>0, <1>4, <1>12, <2>1, GoBecomes DEF SocketClosed
  <2>3. \A u \in Task : u.kind = t.kind /\ u.sock = t.sock /\ u.pc = "WAKE" => HubHandler(u)
    BY <1>0, <1>12 DEF SocketClosed, HubHandler
  <2> QED
    BY <1>0, <1>1, <1>3, <1>12, <2>1, <2>2, <2>3, HubPasses DEF SocketClosed
<1>13. CASE ReadEvents(t)
  <2> DEFINE at == IF version < t.from + Limit THEN version ELSE t.from + Limit
  <2>1. at \in Int
    <3>1. version \in Int /\ t.from \in Int /\ Limit \in Int
      BY <1>0, Stores, AnswersAreVersions DEF StoreValuesOK
    <3> QED
      BY <3>1
  <2>2. GoWith(t, "EVENTS_READ", at) /\ t.pc = "EVENTS"
    BY <1>13 DEF ReadEvents
  <2> HIDE DEF at
  <2>3. Becomes(t, "EVENTS_READ", t.from, at)
    BY <1>0, <1>4, <2>1, <2>2, GoWithBecomes
  <2>4. \A u \in Task : u.kind = t.kind /\ u.sock = t.sock /\ u.pc = "EVENTS_READ" => HubHandler(u)
    BY <1>0, <2>2 DEF HubHandler, LeasePcs
  <2>5. t.kind # "OPEN" /\ t.kind # "ALARM"
    BY <1>0, <2>2 DEF HubHandler, LeasePcs
  <2> QED
    BY <1>0, <1>1, <1>3, <2>2, <2>3, <2>4, <2>5, HubPasses
<1> QED
  BY <1>2, <1>6, <1>7, <1>8, <1>9, <1>10, <1>11, <1>12, <1>13

(* A statement of handler t, which concerns its own session only.          *)
LEMMA HubStores ==
  ASSUME HubTypeOK, HubTypeOK', StoreValuesOK, TasksSound, HubInOrder,
         UNCHANGED <<ws, handled, alarm, leases>>, Grows,
         NEW t \in tasks, NEW u, u.kind = t.kind, u.sock = t.sock, tasks' = (tasks \ {t}) \cup {u},
         HubHandler(u)',
         \A s \in Socks \ {t.sock} : session'[s] = session[s] /\ seen'[s] = seen[s],
         \A s \in Socks : seen'[s] = seen[s] \/ seen'[s] = 0,
         ws[t.sock] # "NONE" \/ t.kind = "OPEN",
         HubSession(t.sock)',
         ws[t.sock] = "OPEN" /\ phase' # "LEFT" => session'[t.sock] = "OPEN",
         \A s \in Socks : ws[s] = "OPEN" /\ phase' # "LEFT" /\ Timer(t, s) => Timer(u, s)'
  PROVE  HubInOrder'
<1>0. t.sock \in Socks /\ \A r \in tasks : HubHandler(r) /\ r.sock \in Socks
  BY AnswersAreVersions DEF HubInOrder
<1>1. \A r \in tasks' : HubHandler(r)'
  <2>1. ASSUME NEW r \in tasks, r # t, Newborn(r)
        PROVE  SameSock(r.sock)
    <3>1. ws[r.sock] = "NONE" /\ r.kind = "OPEN"
      BY <1>0, <2>1 DEF HubHandler, Newborn
    <3>2. r.sock # t.sock
      BY <2>1, <3>1 DEF HubInOrder, OneOpen
    <3> QED
      BY <1>0, <3>2 DEF SameSock
  <2> QED
    BY <2>1, HubHandlersFollow DEF HubInOrder
<1>2. OneOpen'
  BY OneOpenFollows DEF HubInOrder
<1>3. ASSUME NEW s \in Socks
      PROVE  HubSession(s)'
  <2>1. CASE s # t.sock
    BY <2>1, HubSessionFollows DEF HubInOrder
  <2> QED
    BY <2>1
<1>4. ASSUME NEW s \in Socks, phase' # "LEFT", ws'[s] = "OPEN"
      PROVE  InTime(s)'
  <2>1. InTime(s) /\ ws[s] = "OPEN"
    BY <1>4 DEF HubInOrder, Grows
  <2>2. session'[s] = "OPEN"
    BY <1>4, <2>1 DEF InTime
  <2>3. \A r \in tasks : Timer(r, s) => \E v \in tasks' : Timer(v, s)'
    <3> SUFFICES ASSUME NEW r \in tasks, Timer(r, s)
                 PROVE  \E v \in tasks' : Timer(v, s)'
      OBVIOUS
    <3>1. CASE r = t
      BY <1>4, <2>1, <3>1
    <3>2. CASE r # t
      BY <3>2, TimerStays
    <3> QED
      BY <3>1, <3>2
  <2>4. alarm # None => alarm' # None /\ alarm' <= alarm
    BY Stores DEF HubTypeOK
  <2> QED
    BY <2>1, <2>2, <2>3, <2>4, InTimeFollows
<1>5. handled' \subseteq {s \in Socks : ws'[s] = "CLOSED"}
  BY DEF HubInOrder
<1> QED
  BY <1>1, <1>2, <1>3, <1>4, <1>5 DEF HubInOrder

LEMMA TouchInOrder ==
  ASSUME StoreTypeOK, HubTypeOK, HubTypeOK', TasksSound, HubInOrder, NEW t \in tasks, Touch(t), UNCHANGED hubVars
  PROVE  HubInOrder'
<1>0. StoreValuesOK /\ t \in Task /\ HubHandler(t) /\ t.sock \in Socks /\ t.pc = "TOUCH"
  BY StoreTypeSplits, AnswersAreVersions DEF TasksSound, HubInOrder, Touch
<1>1. UNCHANGED <<ws, session, phase, handled, alarm, leases>> /\ Grows
  BY SameGrows DEF Touch, StatementUnchanged, socketVars, hubVars
<1>2. PICK pc \in {"TOUCHED", "CONNECT"} : Go(t, pc)
  BY DEF Touch
<1>3. pc \in Pcs
  BY DEF Pcs, Results, Statements
<1>4. PICK u \in Task : u.kind = t.kind /\ u.sock = t.sock /\ u.pc = pc /\ tasks' = (tasks \ {t}) \cup {u}
  BY <1>0, <1>2, <1>3, GoBecomes DEF Becomes
<1>5. t.kind \in {"PING", "SNAPSHOT", "ALARM"} /\ session[t.sock] # "NONE" /\ ws[t.sock] # "NONE"
  BY <1>0 DEF HubHandler, LeasePcs
<1>6. HubHandler(u)'
  BY <1>1, <1>4, <1>5 DEF HubHandler, LeasePcs
<1>7. /\ \A s \in Socks \ {t.sock} : seen'[s] = seen[s]
      /\ session[t.sock] = "OPEN" /\ phase # "LEFT" => seen'[t.sock] = 0
      /\ \A s \in Socks : seen'[s] = seen[s] \/ seen'[s] = 0
  BY <1>0 DEF Touch, StoreValuesOK
<1>8. HubSession(t.sock)'
  <2>1. \A r \in tasks :
           /\ r.sock = t.sock /\ r.kind = "OPEN" /\ r.pc = "CONNECTED" /\ ws[t.sock] = "NONE"
                => \E v \in tasks' : v.kind = "OPEN" /\ v.sock = t.sock /\ v.pc = "CONNECTED"
           /\ r.sock = t.sock /\ r.pc \in {"CONNECTED", "DISCONNECT"} /\ ws[t.sock] = "CLOSED" /\ session[t.sock] = "OPEN"
                => \E v \in tasks' : v.sock = t.sock /\ v.pc \in {"CONNECTED", "DISCONNECT"}
    BY <1>0, <1>4, <1>5
  <2> QED
    BY <1>0, <1>1, <2>1, HubSessionFollows DEF HubInOrder
<1>9. ASSUME NEW s \in Socks, ws[s] = "OPEN", phase' # "LEFT", Timer(t, s)
      PROVE  Timer(u, s)'
  <2>1. session[s] = "OPEN" /\ phase # "LEFT"
    BY <1>1, <1>9 DEF HubInOrder, InTime
  <2> QED
    BY <1>0, <1>1, <1>4, <1>5, <1>7, <1>9, <2>1 DEF Timer
<1>10. ws[t.sock] = "OPEN" /\ phase' # "LEFT" => session'[t.sock] = "OPEN"
  BY <1>0, <1>1 DEF HubInOrder, InTime
<1> QED
  BY <1>0, <1>1, <1>4, <1>5, <1>6, <1>7, <1>8, <1>9, <1>10, HubStores

LEMMA ConnectInOrder ==
  ASSUME StoreTypeOK, HubTypeOK, HubTypeOK', TasksSound, HubInOrder, NEW t \in tasks, Connect(t), UNCHANGED hubVars
  PROVE  HubInOrder'
<1>0. StoreValuesOK /\ t \in Task /\ HubHandler(t) /\ t.sock \in Socks /\ t.pc = "CONNECT"
  BY StoreTypeSplits, AnswersAreVersions DEF TasksSound, HubInOrder, Connect
<1>1. UNCHANGED <<ws, handled, alarm, leases>>
  BY DEF Connect, StatementUnchanged, socketVars, hubVars
<1>2. CASE phase = "LEFT"
  <2>1. Go(t, "FAILED") /\ UNCHANGED <<session, seen, away, phase>> /\ "FAILED" \in Pcs
    BY <1>2 DEF Connect, Pcs, Results
  <2>2. Becomes(t, "FAILED", t.from, t.at)
    BY <1>0, <2>1, GoBecomes
  <2>3. \A u \in Task : u.kind = t.kind /\ u.sock = t.sock /\ u.pc = "FAILED" => HubHandler(u)
    BY <1>0, <1>2 DEF HubHandler, LeasePcs
  <2> QED
    BY <1>0, <1>1, <2>1, <2>2, <2>3, HubPasses
<1>3. CASE phase # "LEFT"
  <2>1. Connected(t) /\ GoWith(t, "CONNECTED", version) /\ "CONNECTED" \in Pcs /\ version \in Int
    BY <1>0, <1>3 DEF Connect, Pcs, Results, StoreValuesOK
  <2>2. PICK u \in Task : u.kind = t.kind /\ u.sock = t.sock /\ u.pc = "CONNECTED" /\ tasks' = (tasks \ {t}) \cup {u}
    BY <1>0, <2>1, GoWithBecomes DEF Becomes
  <2>3. /\ session'[t.sock] = "OPEN" /\ seen'[t.sock] = 0
        /\ \A s \in Socks \ {t.sock} : session'[s] = session[s] /\ seen'[s] = seen[s]
    BY <1>0, <2>1 DEF Connected, StoreValuesOK
  <2>4. Grows
    BY <1>1, <1>3, <2>3 DEF Grows
  <2>5. HubHandler(u)'
    BY <1>0, <1>1, <2>2, <2>3 DEF HubHandler, LeasePcs
  <2>6. ws[t.sock] = "NONE" => t.kind = "OPEN"
    BY <1>0 DEF HubHandler, LeasePcs
  <2>7. HubSession(t.sock)'
    BY <1>1, <2>2, <2>3, <2>6 DEF HubSession
  <2>8. \A s \in Socks : seen'[s] = seen[s] \/ seen'[s] = 0
    BY <2>3
  <2>9. \A s \in Socks : Timer(t, s) => Timer(u, s)'
    BY <1>0, <1>1, <2>2, <2>3, <2>8 DEF Timer
  <2> QED
    BY <1>0, <1>1, <2>2, <2>3, <2>4, <2>5, <2>6, <2>7, <2>8, <2>9, HubStores
<1> QED
  BY <1>2, <1>3

LEMMA DisconnectInOrder ==
  ASSUME StoreTypeOK, HubTypeOK, HubTypeOK', TasksSound, HubInOrder, NEW t \in tasks, Disconnect(t), UNCHANGED hubVars
  PROVE  HubInOrder'
<1>0. StoreValuesOK /\ t \in Task /\ HubHandler(t) /\ t.sock \in Socks /\ t.pc = "DISCONNECT"
  BY StoreTypeSplits, AnswersAreVersions DEF TasksSound, HubInOrder, Disconnect
<1>1. UNCHANGED <<ws, seen, phase, handled, alarm, leases>>
  BY DEF Disconnect, StatementUnchanged, socketVars, hubVars
<1>2. Go(t, "DISCONNECTED") /\ "DISCONNECTED" \in Pcs
  BY DEF Disconnect, Pcs, Results
<1>3. PICK u \in Task : u.kind = t.kind /\ u.sock = t.sock /\ u.pc = "DISCONNECTED" /\ tasks' = (tasks \ {t}) \cup {u}
  BY <1>0, <1>2, GoBecomes DEF Becomes
<1>4. \A s \in Socks : session'[s] = IF s \in {t.sock} \cap Open THEN "SHUT" ELSE session[s]
  <2>1. {t.sock} \cap Open \in SUBSET Open /\ 0 \in 0 .. StaleAfter
    BY Stores
  <2> QED
    BY <1>0, <2>1, ShutEnds DEF Disconnect
<1>5. /\ \A s \in Socks \ {t.sock} : session'[s] = session[s]
      /\ session'[t.sock] # "OPEN" /\ (session[t.sock] # "NONE" => session'[t.sock] # "NONE")
  BY <1>0, <1>4 DEF Open
<1>6. ws[t.sock] # "OPEN" /\ ws[t.sock] # "NONE"
  BY <1>0 DEF HubHandler, LeasePcs
<1>7. Grows
  BY <1>1, <1>5 DEF Grows
<1>8. HubHandler(u)'
  BY <1>0, <1>1, <1>3, <1>5 DEF HubHandler, LeasePcs
<1>9. HubSession(t.sock)'
  <2>1. HubSession(t.sock)
    BY <1>0 DEF HubInOrder
  <2> QED
    BY <1>1, <1>5, <1>6, <2>1 DEF HubSession
<1>10. \A s \in Socks : Timer(t, s) => Timer(u, s)'
  BY <1>0, <1>1, <1>3 DEF Timer
<1> QED
  BY <1>0, <1>1, <1>3, <1>5, <1>6, <1>7, <1>8, <1>9, <1>10, HubStores

(* The sweep declares nobody absent whose socket is open, and leaves what  *)
(* an upgrade has just connected.                                          *)
LEMMA SweepSpares ==
  ASSUME HubTypeOK, HubTypeOK', StoreValuesOK, TasksSound, HubInOrder, SweepSessions,
         UNCHANGED <<ws, handled, alarm, leases>>,
         \A r \in tasks : Newborn(r) => r \in tasks'
  PROVE  /\ Grows
         /\ \A r \in tasks : Newborn(r) => SameSock(r.sock)
         /\ \A s \in Socks : ws[s] = "OPEN" /\ phase' # "LEFT" => session'[s] = "OPEN"
         /\ \A s \in Socks :
              (\A r \in tasks : r.pc \in {"CONNECTED", "DISCONNECT"} => r \in tasks') => HubSession(s)'
<1>1. Expired \in SUBSET Open /\ StaleAfter \in 0 .. StaleAfter
  BY Stores DEF Expired
<1>2. \A s \in Socks : session'[s] = IF s \in Expired THEN "SHUT" ELSE session[s]
  BY <1>1, ShutEnds DEF SweepSessions
<1>3. seen' = seen /\ (phase = "LEFT" => phase' = "LEFT") /\ (phase' # "LEFT" => phase # "LEFT")
  BY DEF SweepSessions
<1>4. Grows
  BY <1>2, <1>3 DEF Grows
<1>5. \A r \in tasks : r.sock \in Socks /\ HubHandler(r)
  BY AnswersAreVersions DEF HubInOrder
<1>6. ASSUME NEW r \in tasks, Newborn(r)
      PROVE  SameSock(r.sock)
  <2>1. r.sock \in Socks /\ (session[r.sock] = "NONE" \/ seen[r.sock] = 0)
    BY <1>5, <1>6 DEF HubHandler, Newborn
  <2>2. r.sock \notin Expired
    BY <2>1, Stores DEF Expired, Open
  <2> QED
    BY <1>2, <1>3, <2>1, <2>2 DEF SameSock
<1>7. ASSUME NEW s \in Socks, ws[s] = "OPEN", phase' # "LEFT"
      PROVE  session'[s] = "OPEN"
  <2>1. InTime(s)
    BY <1>3, <1>7 DEF HubInOrder
  <2>2. s \notin Expired
    BY <2>1, Stores DEF InTime, Expired
  <2> QED
    BY <1>2, <2>1, <2>2 DEF InTime
<1>8. ASSUME NEW s \in Socks, \A r \in tasks : r.pc \in {"CONNECTED", "DISCONNECT"} => r \in tasks'
      PROVE  HubSession(s)'
  <2>0. HubSession(s)
    BY DEF HubInOrder
  <2>1. session[s] = "NONE" <=> session'[s] = "NONE"
    BY <1>2 DEF Expired, Open
  <2>2. session'[s] = "OPEN" => session[s] = "OPEN"
    BY <1>2
  <2> QED
    BY <1>8, <2>0, <2>1, <2>2 DEF HubSession
<1> QED
  BY <1>4, <1>6, <1>7, <1>8

LEMMA SweepInTime ==
  ASSUME HubTypeOK, HubTypeOK', StoreValuesOK, TasksSound, HubInOrder, SweepSessions,
         UNCHANGED <<ws, handled, alarm, leases>>, NEW s \in Socks, ws[s] = "OPEN", phase' # "LEFT",
         session'[s] = "OPEN",
         \A r \in tasks : Timer(r, s) => \E v \in tasks' : Timer(v, s)'
  PROVE  InTime(s)'
<1>1. InTime(s) /\ seen' = seen
  BY DEF HubInOrder, SweepSessions
<1>2. alarm # None => alarm' # None /\ alarm' <= alarm
  BY Stores DEF HubTypeOK
<1> QED
  BY <1>1, <1>2, InTimeFollows

LEMMA GlobalSweepInOrder ==
  ASSUME StoreTypeOK, HubTypeOK, HubTypeOK', TasksSound, HubInOrder, GlobalSweep, UNCHANGED hubVars
  PROVE  HubInOrder'
<1>0. StoreValuesOK /\ SweepSessions /\ UNCHANGED <<ws, tasks, handled, alarm, leases>>
  BY StoreTypeSplits DEF GlobalSweep, socketVars, hubVars
<1>1. /\ Grows
      /\ \A r \in tasks : Newborn(r) => SameSock(r.sock)
      /\ \A s \in Socks : ws[s] = "OPEN" /\ phase' # "LEFT" => session'[s] = "OPEN"
      /\ \A s \in Socks : HubSession(s)'
  BY <1>0, SweepSpares
<1>2. \A u \in tasks' : HubHandler(u)'
  BY <1>0, <1>1, HubHandlersFollow DEF HubInOrder
<1>3. OneOpen'
  BY <1>0 DEF HubInOrder, OneOpen
<1>4. ASSUME NEW s \in Socks, ws'[s] = "OPEN", phase' # "LEFT"
      PROVE  InTime(s)'
  <2>1. seen' = seen
    BY <1>0 DEF SweepSessions
  <2>2. \A r \in tasks : Timer(r, s) => \E v \in tasks' : Timer(v, s)'
    BY <1>0, <2>1, TimerStays
  <2>3. ws[s] = "OPEN" /\ session'[s] = "OPEN"
    BY <1>0, <1>1, <1>4
  <2> QED
    BY <1>0, <1>4, <2>2, <2>3, SweepInTime
<1>5. handled' \subseteq {s \in Socks : ws'[s] = "CLOSED"}
  BY <1>0 DEF HubInOrder
<1> QED
  BY <1>1, <1>2, <1>3, <1>4, <1>5 DEF HubInOrder

LEMMA AlarmSweepsInOrder ==
  ASSUME StoreTypeOK, HubTypeOK, HubTypeOK', TasksSound, HubInOrder, NEW t \in tasks, AlarmSweeps(t)
  PROVE  HubInOrder'
<1>0. StoreValuesOK /\ SweepSessions /\ UNCHANGED <<ws, handled, alarm, leases>>
  BY StoreTypeSplits DEF AlarmSweeps, socketVars
<1>1. t \in Task /\ HubHandler(t) /\ t.kind = "ALARM" /\ t.pc = "SWEEP" /\ Go(t, "WAKE") /\ "WAKE" \in Pcs
  BY DEF TasksSound, HubInOrder, AlarmSweeps, Pcs, Statements
<1>2. PICK u \in Task : u.kind = t.kind /\ u.sock = t.sock /\ u.pc = "WAKE" /\ tasks' = (tasks \ {t}) \cup {u}
  BY <1>1, GoBecomes DEF Becomes
<1>3. \A r \in tasks : Newborn(r) \/ r.pc \in {"CONNECTED", "DISCONNECT"} => r \in tasks'
  BY <1>1, <1>2 DEF Newborn
<1>4. /\ Grows
      /\ \A r \in tasks : Newborn(r) => SameSock(r.sock)
      /\ \A s \in Socks : ws[s] = "OPEN" /\ phase' # "LEFT" => session'[s] = "OPEN"
      /\ \A s \in Socks : HubSession(s)'
  BY <1>0, <1>3, SweepSpares
<1>5. HubHandler(u)'
  BY <1>1, <1>2 DEF HubHandler, LeasePcs
<1>6. \A r \in tasks' : HubHandler(r)'
  BY <1>2, <1>4, <1>5, HubHandlersFollow DEF HubInOrder
<1>7. OneOpen'
  BY <1>1, <1>2, OneOpenFollows DEF HubInOrder
<1>8. ASSUME NEW s \in Socks, ws'[s] = "OPEN", phase' # "LEFT"
      PROVE  InTime(s)'
  <2>1. seen' = seen
    BY <1>0 DEF SweepSessions
  <2>2. \A r \in tasks : Timer(r, s) => \E v \in tasks' : Timer(v, s)'
    <3> SUFFICES ASSUME NEW r \in tasks, Timer(r, s)
                 PROVE  \E v \in tasks' : Timer(v, s)'
      OBVIOUS
    <3>1. CASE r = t
      <4>1. Timer(u, s)'
        BY <1>1, <1>2, <2>1, <3>1 DEF Timer
      <4> QED
        BY <1>2, <4>1
    <3>2. CASE r # t
      BY <1>0, <1>2, <2>1, <3>2, TimerStays
    <3> QED
      BY <3>1, <3>2
  <2>3. ws[s] = "OPEN" /\ session'[s] = "OPEN"
    BY <1>0, <1>4, <1>8
  <2> QED
    BY <1>0, <1>8, <2>2, <2>3, SweepInTime
<1>9. handled' \subseteq {s \in Socks : ws'[s] = "CLOSED"}
  BY <1>0 DEF HubInOrder
<1> QED
  BY <1>4, <1>6, <1>7, <1>8, <1>9 DEF HubInOrder

(* An upgrade gets its socket, is refused, or ends.                        *)
LEMMA UpgradesInOrder ==
  ASSUME StoreTypeOK, HubTypeOK, HubTypeOK', TasksSound, HubInOrder, NEW t \in tasks, Accept(t) \/ UpgradeEnds(t)
  PROVE  HubInOrder'
<1>0. StoreValuesOK /\ SocketValuesOK /\ t \in Task /\ HubHandler(t) /\ t.sock \in Socks /\ t.kind = "OPEN"
  BY StoreTypeSplits, AnswersAreVersions DEF TasksSound, HubInOrder, Accept, UpgradeEnds
<1>1. UNCHANGED <<session, seen, phase, handled, alarm, leases>>
  BY DEF Accept, UpgradeEnds, HubKeeps, storeVars
<1>2. /\ \A s \in Socks \ {t.sock} : ws'[s] = ws[s]
      /\ \/ Accept(t) /\ RoomForSocket /\ ws'[t.sock] = "OPEN" /\ Go(t, "WAKE")
         \/ Accept(t) /\ ~RoomForSocket /\ ws'[t.sock] = "CLOSED" /\ Go(t, "DISCONNECT")
         \/ UpgradeEnds(t) /\ ws'[t.sock] = "CLOSED" /\ End(t)
  BY <1>0 DEF Accept, UpgradeEnds, SocketValuesOK
<1>3. Grows
  BY <1>0, <1>1, <1>2 DEF Grows, HubHandler, Accept, UpgradeEnds
<1>4. ASSUME NEW r \in tasks, r # t, Newborn(r)
      PROVE  SameSock(r.sock)
  <2>1. r.sock \in Socks /\ r.sock # t.sock
    BY <1>0, <1>4, AnswersAreVersions DEF HubInOrder, OneOpen, Newborn
  <2> QED
    BY <1>1, <1>2, <2>1 DEF SameSock
<1>5. handled' \subseteq {s \in Socks : ws'[s] = "CLOSED"}
  BY <1>1, <1>3 DEF HubInOrder, Grows
<1>6. ASSUME NEW s \in Socks \ {t.sock}
      PROVE  HubSession(s)'
  <2>1. HubSession(s) /\ ws'[s] = ws[s] /\ session'[s] = session[s]
    BY <1>1, <1>2 DEF HubInOrder
  <2>2. \A r \in tasks : r.sock = s => r \in tasks'
    BY <1>2 DEF Go, End
  <2> QED
    BY <2>1, <2>2, HubSessionFollows
<1>7. \A s \in Socks : ~Timer(t, s)
  BY <1>0, <1>2 DEF Timer, Accept, UpgradeEnds
<1>8. ASSUME NEW s \in Socks, ws[s] = "OPEN", ws'[s] = "OPEN", phase' # "LEFT"
      PROVE  InTime(s)'
  <2>1. InTime(s) /\ session'[s] = "OPEN" /\ seen'[s] = seen[s]
    BY <1>1, <1>8 DEF HubInOrder, InTime
  <2>2. \A r \in tasks : Timer(r, s) => \E v \in tasks' : Timer(v, s)'
    <3>1. \A r \in tasks : Timer(r, s) => r \in tasks'
      BY <1>2, <1>7 DEF Go, End
    <3> QED
      BY <1>0, <1>1, <3>1, TimerStays
  <2>3. alarm # None => alarm' # None /\ alarm' <= alarm
    BY <1>1, Stores DEF HubTypeOK
  <2> QED
    BY <1>0, <2>1, <2>2, <2>3, InTimeFollows
<1>9. CASE Accept(t)
  <2>1. t.pc = "CONNECTED" /\ session[t.sock] = "OPEN" /\ seen[t.sock] = 0 /\ ws[t.sock] = "NONE"
    BY <1>0, <1>9 DEF HubHandler, Accept
  <2>2. PICK pc \in {"WAKE", "DISCONNECT"} :
          Go(t, pc) /\ (pc = "WAKE" => ws'[t.sock] = "OPEN") /\ (pc = "DISCONNECT" => ws'[t.sock] = "CLOSED")
    <3>1. ~UpgradeEnds(t)
      BY <1>9 DEF Accept, UpgradeEnds
    <3> QED
      BY <1>2, <3>1
  <2>3. pc \in Pcs
    BY DEF Pcs, Statements
  <2>4. PICK u \in Task : u.kind = t.kind /\ u.sock = t.sock /\ u.pc = pc /\ tasks' = (tasks \ {t}) \cup {u}
    BY <1>0, <2>2, <2>3, GoBecomes DEF Becomes
  <2>5. HubHandler(u)'
    BY <1>0, <2>2, <2>4 DEF HubHandler
  <2>6. \A r \in tasks' : HubHandler(r)'
    BY <1>3, <1>4, <2>4, <2>5, HubHandlersFollow DEF HubInOrder
  <2>7. OneOpen'
    BY <1>0, <2>4, OneOpenFollows DEF HubInOrder
  <2>8. HubSession(t.sock)'
    BY <1>1, <2>1, <2>2, <2>4 DEF HubSession
  <2>9. ASSUME NEW s \in Socks, ws'[s] = "OPEN", phase' # "LEFT"
        PROVE  InTime(s)'
    <3>1. CASE s # t.sock
      BY <1>2, <1>8, <2>9, <3>1
    <3>2. CASE s = t.sock
      <4>1. pc = "WAKE"
        BY <2>2, <2>9, <3>2
      <4>2. Timer(u, s)'
        BY <1>0, <1>1, <2>1, <2>4, <3>2, <4>1 DEF Timer
      <4>3. session'[s] = "OPEN" /\ seen'[s] = 0 /\ 0 <= RenewAfter
        BY <1>1, <2>1, <3>2, Stores
      <4> QED
        BY <2>4, <4>2, <4>3 DEF InTime
    <3> QED
      BY <3>1, <3>2
  <2> QED
    BY <1>5, <1>6, <2>6, <2>7, <2>8, <2>9 DEF HubInOrder
<1>10. CASE UpgradeEnds(t)
  <2>1. tasks' = tasks \ {t} /\ ws'[t.sock] = "CLOSED"
    <3>1. ~Accept(t)
      BY <1>10 DEF Accept, UpgradeEnds
    <3> QED
      BY <1>2, <3>1 DEF End
  <2>2. \A r \in tasks' : HubHandler(r)'
    BY <1>3, <1>4, <2>1, HubHandlersFollow DEF HubInOrder
  <2>3. OneOpen'
    BY <2>1 DEF HubInOrder, OneOpen
  <2>4. HubSession(t.sock)'
    <3>1. CASE t.pc = "DISCONNECTED"
      <4>1. ws[t.sock] = "CLOSED" /\ HubSession(t.sock)
        BY <1>0, <3>1 DEF HubHandler, HubInOrder
      <4> QED
        BY <1>1, <2>1, <3>1, <4>1 DEF HubSession
    <3>2. CASE t.pc = "FAILED"
      BY <1>0, <1>1, <2>1, <3>2 DEF HubHandler, HubSession
    <3> QED
      BY <1>10, <3>1, <3>2 DEF UpgradeEnds
  <2>5. ASSUME NEW s \in Socks, ws'[s] = "OPEN", phase' # "LEFT"
        PROVE  InTime(s)'
    BY <1>2, <1>8, <2>1, <2>5
  <2> QED
    BY <1>5, <1>6, <2>2, <2>3, <2>4, <2>5 DEF HubInOrder
<1> QED
  BY <1>9, <1>10

(* What happens to the object adds handlers, and closes sockets.           *)
LEMMA HubGrows ==
  ASSUME HubTypeOK, HubTypeOK', StoreValuesOK, TasksSound, HubInOrder, Grows,
         UNCHANGED <<session, seen, leases>>,
         \A s \in Socks : ws'[s] # ws[s] => ws[s] # "NONE" /\ ws'[s] # "OPEN" /\ HubSession(s)',
         tasks \subseteq tasks', \A u \in tasks' \ tasks : HubHandler(u)', OneOpen',
         handled' \subseteq {s \in Socks : ws'[s] = "CLOSED"},
         alarm # None => alarm' # None /\ alarm' <= alarm
  PROVE  HubInOrder'
<1>1. ASSUME NEW r \in tasks, Newborn(r)
      PROVE  SameSock(r.sock)
  <2>1. r.sock \in Socks /\ ws[r.sock] = "NONE"
    BY <1>1, AnswersAreVersions DEF Newborn, HubInOrder, HubHandler
  <2> QED
    BY <2>1 DEF SameSock
<1>2. \A r \in tasks' : HubHandler(r)'
  BY <1>1, HubHandlersFollow DEF HubInOrder
<1>3. ASSUME NEW s \in Socks
      PROVE  HubSession(s)'
  <2>1. CASE ws'[s] = ws[s]
    BY <2>1, HubSessionFollows DEF HubInOrder
  <2> QED
    BY <2>1
<1>4. ASSUME NEW s \in Socks, phase' # "LEFT", ws'[s] = "OPEN"
      PROVE  InTime(s)'
  <2>1. InTime(s) /\ session'[s] = "OPEN"
    BY <1>4 DEF HubInOrder, InTime, Grows
  <2>2. \A r \in tasks : Timer(r, s) => \E v \in tasks' : Timer(v, s)'
    BY TimerIsRight
  <2> QED
    BY <2>1, <2>2, InTimeFollows
<1> QED
  BY <1>2, <1>3, <1>4 DEF HubInOrder

LEMMA AlarmFiresInOrder ==
  ASSUME StoreTypeOK, HubTypeOK, HubTypeOK', TasksSound, HubInOrder, AlarmFires
  PROVE  HubInOrder'
<1> DEFINE u == NewTask("ALARM", Least(Socks), 0, "NEXT")
<1>0. StoreValuesOK
  BY StoreTypeSplits
<1>1. UNCHANGED <<session, seen, ws, phase, handled>> /\ tasks' = tasks \cup {u} /\ leases' = {s \in Socks : Current(s)}
  BY DEF AlarmFires, HubKeeps, storeVars, socketVars, Start
<1>2. u.kind = "ALARM" /\ u.pc = "NEXT"
  BY DEF NewTask
<1> HIDE DEF u
<1>3. HubHandler(u)'
  BY <1>2 DEF HubHandler, LeasePcs
<1>4. \A r \in tasks' : HubHandler(r)'
  BY <1>1, <1>3, SameGrows, HubHandlersFollow DEF HubInOrder, SameSock
<1>5. OneOpen'
  BY <1>1, <1>2 DEF HubInOrder, OneOpen
<1>6. \A s \in Socks : HubSession(s)'
  BY <1>1, HubSessionFollows DEF HubInOrder
<1>7. ASSUME NEW s \in Socks, phase' # "LEFT", ws'[s] = "OPEN"
      PROVE  InTime(s)'
  <2>1. InTime(s) /\ s \in leases'
    BY <1>1, <1>7, LeaseIsPossible DEF HubInOrder
  <2>2. Timer(u, s)'
    BY <1>2, <2>1 DEF Timer
  <2>3. u \in tasks'
    BY <1>1
  <2> QED
    BY <1>1, <2>1, <2>2, <2>3 DEF InTime
<1>8. handled' \subseteq {s \in Socks : ws'[s] = "CLOSED"}
  BY <1>1 DEF HubInOrder
<1> QED
  BY <1>4, <1>5, <1>6, <1>7, <1>8 DEF HubInOrder

LEMMA AlarmIsKept ==
  ASSUME HubTypeOK, UNCHANGED alarm
  PROVE  alarm # None => alarm' # None /\ alarm' <= alarm
BY Stores DEF HubTypeOK

LEMMA UpgradeInOrder ==
  ASSUME StoreTypeOK, HubTypeOK, HubTypeOK', TasksSound, HubInOrder, NEW s \in Socks, Upgrade(s)
  PROVE  HubInOrder'
<1> DEFINE u == NewTask("OPEN", s, 0, "CONNECT")
<1>0. StoreValuesOK
  BY StoreTypeSplits
<1>1. UNCHANGED <<session, seen, ws, phase, handled, alarm, leases>> /\ tasks' = tasks \cup {u}
  BY DEF Upgrade, Start, storeVars, socketVars, hubVars
<1>2. u.kind = "OPEN" /\ u.pc = "CONNECT" /\ u.sock = s
  BY DEF NewTask
<1> HIDE DEF u
<1>3. ws[s] = "NONE" /\ \A r \in tasks : r.sock # s
  BY DEF Upgrade, SockTasks
<1>4. session[s] = "NONE"
  BY <1>3 DEF HubInOrder, HubSession
<1>5. HubHandler(u)'
  BY <1>1, <1>2, <1>3, <1>4 DEF HubHandler
<1>6. OneOpen'
  BY <1>1, <1>2, <1>3 DEF HubInOrder, OneOpen
<1> QED
  BY <1>0, <1>1, <1>5, <1>6, SameGrows, AlarmIsKept, HubGrows DEF HubInOrder

LEMMA MessageInOrder ==
  ASSUME StoreTypeOK, HubTypeOK, HubTypeOK', TasksSound, HubInOrder,
         NEW s \in Socks, NEW k \in {"PING", "SNAPSHOT"}, Message(s, k)
  PROVE  HubInOrder'
<1>0. StoreValuesOK
  BY StoreTypeSplits
<1>1. UNCHANGED <<session, seen, ws, phase, handled, alarm, leases>>
  BY DEF Message, storeVars, socketVars
<1>2. PICK u : /\ tasks' = tasks \cup {u}
               /\ u.kind \in {"PING", "SNAPSHOT"} /\ u.pc \in {"TOUCH", "CONNECT"} /\ u.sock = s
  <2> DEFINE new == NewTask(k, s, op[s] + 1, IF k = "PING" THEN "TOUCH" ELSE "CONNECT")
  <2>1. tasks' = tasks \cup {new}
    BY DEF Message, Start
  <2>2. new.kind = k /\ new.pc \in {"TOUCH", "CONNECT"} /\ new.sock = s
    BY DEF NewTask
  <2> QED
    BY <2>1, <2>2
<1>3. ws[s] = "OPEN" /\ session[s] # "NONE"
  BY LeaseIsPossible DEF Message, Current
<1>4. session'[u.sock] # "NONE" /\ ws'[u.sock] # "NONE" /\ u.pc \in LeasePcs /\ u.pc # "DISCONNECT"
  BY <1>1, <1>2, <1>3 DEF LeasePcs
<1>5. HubHandler(u)'
  BY <1>2, <1>4 DEF HubHandler, LeasePcs
<1>6. OneOpen'
  BY <1>2 DEF HubInOrder, OneOpen
<1>7. handled' \subseteq {r \in Socks : ws'[r] = "CLOSED"}
  BY <1>1 DEF HubInOrder
<1>8. \A v \in tasks' \ tasks : HubHandler(v)'
  BY <1>2, <1>5
<1> QED
  BY <1>0, <1>1, <1>2, <1>7, <1>8, <1>5, <1>6, SameGrows, AlarmIsKept, HubGrows

LEMMA SocketClosesInOrder ==
  ASSUME StoreTypeOK, HubTypeOK, HubTypeOK', TasksSound, HubInOrder, NEW s \in Socks, SocketCloses(s)
  PROVE  HubInOrder'
<1> DEFINE u == NewTask("CLOSE", s, 0, "DISCONNECT")
<1>0. StoreValuesOK /\ SocketValuesOK
  BY StoreTypeSplits
<1>1. /\ UNCHANGED <<session, seen, phase, alarm, leases>>
      /\ handled' = handled \cup {s} /\ tasks' = tasks \cup {u}
  BY DEF SocketCloses, Start, storeVars, HubKeeps
<1>2. u.kind = "CLOSE" /\ u.pc = "DISCONNECT" /\ u.sock = s
  BY DEF NewTask
<1>3. ws[s] = "CLOSING" /\ ws'[s] = "CLOSED" /\ \A r \in Socks \ {s} : ws'[r] = ws[r]
  BY <1>0 DEF SocketCloses, SocketValuesOK
<1> HIDE DEF u
<1>4. Grows
  BY <1>1, <1>3 DEF Grows
<1>5. HubHandler(u)'
  BY <1>2, <1>3 DEF HubHandler
<1>6. OneOpen'
  BY <1>1, <1>2 DEF HubInOrder, OneOpen
<1>7. HubSession(s)'
  BY <1>1, <1>2, <1>3 DEF HubSession
<1>8. handled' \subseteq {r \in Socks : ws'[r] = "CLOSED"}
  BY <1>1, <1>3 DEF HubInOrder
<1>9. \A r \in Socks : ws'[r] # ws[r] => ws[r] # "NONE" /\ ws'[r] # "OPEN" /\ HubSession(r)'
  BY <1>3, <1>7
<1>10. \A v \in tasks' \ tasks : HubHandler(v)'
  BY <1>1, <1>5
<1> QED
  BY <1>0, <1>1, <1>4, <1>6, <1>8, <1>9, <1>10, AlarmIsKept, HubGrows

LEMMA SurroundingsInOrder ==
  ASSUME StoreTypeOK, HubTypeOK, HubTypeOK', TasksSound, HubInOrder, UNCHANGED hubVars,
         Append \/ MatchEnds \/ \E s \in Socks : PeerCloses(s)
  PROVE  HubInOrder'
<1>0. StoreValuesOK /\ SocketValuesOK
  BY StoreTypeSplits
<1>1. UNCHANGED <<session, seen, tasks, handled, alarm, leases>>
  BY DEF Append, MatchEnds, PeerCloses, storeVars, hubVars
<1>2. \A s \in Socks : ws'[s] = ws[s] \/ (ws[s] = "OPEN" /\ ws'[s] = "CLOSING")
  BY <1>0 DEF Append, MatchEnds, PeerCloses, socketVars, SocketValuesOK
<1>3. phase = "LEFT" => phase' = "LEFT"
  BY DEF Append, MatchEnds, PeerCloses, storeVars
<1>4. Grows
  BY <1>1, <1>2, <1>3 DEF Grows
<1>5. \A s \in Socks : ws'[s] # ws[s] => ws[s] # "NONE" /\ ws'[s] # "OPEN" /\ HubSession(s)'
  BY <1>1, <1>2 DEF HubSession, HubInOrder
<1>6. handled' \subseteq {s \in Socks : ws'[s] = "CLOSED"}
  BY <1>1, <1>2 DEF HubInOrder
<1>7. OneOpen'
  BY <1>1 DEF HubInOrder, OneOpen
<1> QED
  BY <1>0, <1>1, <1>4, <1>5, <1>6, <1>7, AlarmIsKept, HubGrows

(* A deadline set, or a notification.                                      *)
LEMMA NoticesInOrder ==
  ASSUME StoreTypeOK, HubTypeOK, HubTypeOK', TasksSound, HubInOrder, SetDeadline \/ Notify
  PROVE  HubInOrder'
<1>0. StoreValuesOK
  BY StoreTypeSplits
<1>1. UNCHANGED <<session, seen, ws, phase, tasks, handled, leases>>
  BY DEF SetDeadline, Notify, storeVars, socketVars
<1>2. alarm # None => alarm' # None /\ alarm' <= alarm
  <2>1. CASE Notify /\ due # None
    <3>1. due \in 0 .. DueIn /\ DueIn \in Nat
      BY <2>1, HubAssumption DEF HubTypeOK
    <3>2. (IF due = 0 THEN 1 ELSE due) \in Nat \cup {None}
      BY <3>1
    <3>3. Schedule(IF due = 0 THEN 1 ELSE due)
      BY <2>1 DEF Notify
    <3> QED
      BY <3>2, <3>3, ScheduleAdvances
  <2>2. CASE UNCHANGED alarm
    BY <2>2, AlarmIsKept
  <2> QED
    BY <2>1, <2>2 DEF SetDeadline, Notify
<1>3. OneOpen'
  BY <1>1 DEF HubInOrder, OneOpen
<1> QED
  BY <1>0, <1>1, <1>2, <1>3, SameGrows, HubGrows DEF HubInOrder

LEMMA HubTickInOrder ==
  ASSUME StoreTypeOK, HubTypeOK, HubTypeOK', TasksSound, HubInOrder, HubTick
  PROVE  HubInOrder'
<1>0. StoreValuesOK
  BY StoreTypeSplits
<1>1. UNCHANGED <<session, ws, phase, tasks, handled, leases>> /\ Older /\ alarm # 0
      /\ alarm' = (IF alarm = None THEN None ELSE alarm - 1)
  BY DEF HubTick, socketVars
<1>2. \A r \in tasks : r.kind \notin {"OPEN", "ALARM"} /\ r.pc # "WOKEN"
  BY DEF HubTick, Statements
<1>3. \A r \in tasks' : HubHandler(r)'
  BY <1>1, <1>2, SameGrows, HubHandlersFollow DEF HubInOrder, Newborn
<1>4. OneOpen'
  BY <1>1 DEF HubInOrder, OneOpen
<1>5. \A s \in Socks : HubSession(s)'
  BY <1>1 DEF HubInOrder, HubSession
<1>6. ASSUME NEW s \in Socks, phase' # "LEFT", ws'[s] = "OPEN"
      PROVE  InTime(s)'
  <2>1. InTime(s)
    BY <1>1, <1>6 DEF HubInOrder
  <2>2. \A r \in tasks : ~Timer(r, s)
    BY <1>2 DEF Timer
  <2>3. alarm # None /\ alarm + seen[s] <= RenewAfter /\ session[s] = "OPEN"
    BY <2>1, <2>2 DEF InTime
  <2>4. seen[s] \in 0 .. StaleAfter
    BY <1>0 DEF StoreValuesOK
  <2>5. alarm \in Nat /\ seen[s] \in Nat /\ alarm >= 1
    BY <1>1, <2>3, <2>4, Stores DEF HubTypeOK
  <2>6. seen'[s] = (IF seen[s] < StaleAfter THEN seen[s] + 1 ELSE seen[s])
    BY <1>1, <2>3 DEF Older
  <2>7. seen'[s] \in Nat /\ seen'[s] <= seen[s] + 1
    BY <2>5, <2>6
  <2>8. alarm' = alarm - 1 /\ alarm' # None
    BY <1>1, <2>3, <2>5, Stores
  <2>9. alarm' + seen'[s] <= RenewAfter /\ seen'[s] <= RenewAfter
    BY <2>3, <2>5, <2>7, <2>8, Stores
  <2> QED
    BY <1>1, <2>3, <2>8, <2>9 DEF InTime
<1>7. handled' \subseteq {s \in Socks : ws'[s] = "CLOSED"}
  BY <1>1 DEF HubInOrder
<1> QED
  BY <1>3, <1>4, <1>5, <1>6, <1>7 DEF HubInOrder

LEMMA HubStepInOrder ==
  ASSUME StoreTypeOK, HubTypeOK, HubTypeOK', TasksSound, HubInOrder, ~faulted',
         \/ \E t \in tasks : HubStatement(t) \/ HubResumes(t)
         \/ HubEvent
         \/ (Append \/ MatchEnds \/ GlobalSweep \/ \E s \in Socks : PeerCloses(s)) /\ UNCHANGED hubVars
         \/ HubTick
  PROVE  HubInOrder'
<1>1. ASSUME NEW t \in tasks, HubStatement(t)
      PROVE  HubInOrder'
  <2>1. \A u \in tasks : ~StatementFails(u)
    BY DEF StatementFails
  <2> QED
    BY <1>1, <2>1, TouchInOrder, ConnectInOrder, DisconnectInOrder, HubResumesInOrder, ReadWakeInOrder, AlarmSweepsInOrder
       DEF HubStatement
<1>2. ASSUME NEW t \in tasks, HubResumes(t)
      PROVE  HubInOrder'
  <2>1. CASE Accept(t) \/ UpgradeEnds(t)
    BY <2>1, UpgradesInOrder
  <2>2. CASE Arm(t) \/ NextLease(t)
    BY <2>2, ArmInOrder, NextLeaseInOrder
  <2>3. CASE \/ GiveUp(t) \/ LeaseRenewed(t) \/ LeaseDone(t) \/ Superseded(t) \/ Touched(t)
             \/ Reconnected(t) \/ EventsRead(t) \/ CommandEnds(t) \/ SocketClosed(t)
    BY <2>3, HubResumesInOrder
  <2> QED
    BY <1>2, <2>1, <2>2, <2>3 DEF HubResumes
<1>3. ASSUME HubEvent
      PROVE  HubInOrder'
  <2>1. ~NoticeLost
    BY DEF NoticeLost
  <2>2. CASE AlarmFires
    BY <2>2, AlarmFiresInOrder
  <2>3. CASE SetDeadline \/ Notify
    BY <2>3, NoticesInOrder
  <2>4. ASSUME NEW s \in Socks, Upgrade(s)
        PROVE  HubInOrder'
    BY <2>4, UpgradeInOrder
  <2>5. ASSUME NEW s \in Socks, SocketCloses(s)
        PROVE  HubInOrder'
    BY <2>5, SocketClosesInOrder
  <2>6. ASSUME NEW s \in Socks, NEW k \in {"PING", "SNAPSHOT"}, Message(s, k)
        PROVE  HubInOrder'
    BY <2>6, MessageInOrder
  <2> QED
    BY <1>3, <2>1, <2>2, <2>3, <2>4, <2>5, <2>6 DEF HubEvent
<1> QED
  BY <1>1, <1>2, <1>3, SurroundingsInOrder, GlobalSweepInOrder, HubTickInOrder

(* What a fault has done is remembered.                                    *)
LEMMA FaultsStay ==
  ASSUME StoreTypeOK, Next, ~faulted'
  PROVE  ~faulted
<1>0. faulted \in BOOLEAN
  BY DEF StoreTypeOK
<1>1. \A t \in tasks : HubResumes(t) => faulted' = faulted
  BY DEF HubResumes, Arm, GiveUp, NextLease, LeaseRenewed, LeaseDone, Accept, UpgradeEnds, Superseded, Touched,
     Reconnected, EventsRead, CommandEnds, SocketClosed, HubKeeps
<1>2. \A t \in tasks : NodeResumes(t) => faulted' = faulted
  BY DEF NodeResumes, Activate, SetupEnds, Beaten, Compensated, Polled, PollFails, StartCommand, Acted,
     SnapshotLoaded, CommandDone, ClientClosed, NodeKeeps
<1>3. \A t \in tasks : HubStatement(t) \/ NodeStatement(t) => faulted' = faulted
  BY DEF HubStatement, NodeStatement, Touch, Connect, ReadEvents, Load, Disconnect, StatementFails, StatementUnchanged,
     ReadWake, AlarmSweeps, StatementCut, Act, HubKeeps
<1>4. HubEvent => faulted' = faulted
  BY DEF HubEvent, AlarmFires, SetDeadline, Notify, NoticeLost, Upgrade, SocketCloses, Message, HubKeeps
<1>5. NodeEvent => faulted' = faulted
  BY DEF NodeEvent, Ping, Sigterm, ShutdownStep, Crash, AcceptConnection, ClientCloses, Pong, PollTimer, Enqueue, NodeKeeps
<1>6. Surroundings \/ Tick => faulted' = faulted
  BY DEF Surroundings, Append, MatchEnds, GlobalSweep, PeerCloses, Tick, Hub, Node, HubTick, NodeTick
<1> QED
  BY <1>0, <1>1, <1>2, <1>3, <1>4, <1>5, <1>6 DEF Next, Handler, Hub, Node

(* On the Durable Object the invariant gives both halves of                *)
(* SessionsFollowSockets that are about it.                                *)
LEMMA HubGivesSessions ==
  ASSUME HubInOrder
  PROVE  /\ \A s \in Socks : ws[s] = "CLOSED" /\ SockTasks(s) = {} => session[s] # "OPEN"
         /\ \A s \in Socks : Current(s) /\ phase # "LEFT" => session[s] = "OPEN"
<1>1. ASSUME NEW s \in Socks, ws[s] = "CLOSED", SockTasks(s) = {}
      PROVE  session[s] # "OPEN"
  BY <1>1 DEF HubInOrder, HubSession, SockTasks
<1>2. ASSUME NEW s \in Socks, Current(s), phase # "LEFT"
      PROVE  session[s] = "OPEN"
  BY <1>2 DEF HubInOrder, InTime, Current
<1> QED
  BY <1>1, <1>2

-----------------------------------------------------------------------------
(* The Durable Object: the alarm, or a handler that will set it, comes no  *)
(* later than anything that will be due.                                   *)

(* A handler that will read when the next wake must be.                    *)
Wakes(t) ==
  \/ t.pc = "WAKE"
  \/ t.kind = "CLOSE" /\ t.pc \in {"DISCONNECT", "DISCONNECTED"}
  \/ t.kind = "ALARM" /\ t.pc # "WOKEN"
WakeComes == (\E t \in tasks : Wakes(t)) \/ \E s \in Socks : ws[s] = "CLOSING"

Soon(d) == IF d <= 0 THEN 1 ELSE d
Covered(n) ==
  \/ WakeComes
  \/ \E t \in tasks : t.pc = "WOKEN" /\ t.at # None /\ t.at <= n
  \/ alarm # None /\ alarm <= n

Away(s) == ws[s] = "CLOSED" /\ phase = "ACTIVE"
Watched == phase = "ACTIVE" /\ \E s \in Socks : session[s] # "NONE" /\ ws[s] # "NONE"

AlarmInOrder ==
  /\ due # None /\ ~notice => Covered(Soon(due))
  /\ away # None => Covered(Soon(away))
  /\ \A s \in Open : ws[s] = "OPEN" => Covered(Soon(RenewAfter - seen[s]))
  /\ \A s \in Open : Away(s) => Covered(Soon(Grace - seen[s]))
  /\ Watched => Covered(Grace)

LEMMA SoonIsNatural ==
  ASSUME NEW d \in Int, NEW e \in Int, d <= e
  PROVE  Soon(d) \in Nat /\ Soon(e) \in Nat /\ Soon(d) <= Soon(e)
BY DEF Soon

LEMMA LaterIsCovered ==
  ASSUME TasksSound, HubTypeOK, NEW m \in Int, NEW n \in Int, m <= n, Covered(m)
  PROVE  Covered(n)
<1>1. \A t \in tasks : t.pc = "WOKEN" /\ t.at # None => t.at \in Nat
  BY DEF TasksSound, SoundIn
<1>2. \A t \in tasks : t.pc = "WOKEN" /\ t.at # None /\ t.at <= m => t.at <= n
  BY <1>1
<1>3. alarm # None /\ alarm <= m => alarm <= n
  BY DEF HubTypeOK
<1> QED
  BY <1>2, <1>3 DEF Covered

LEMMA AllIsCovered ==
  ASSUME WakeComes'
  PROVE  AlarmInOrder'
BY DEF AlarmInOrder, Covered

(* What a step may do to cover and deadlines.                              *)
LEMMA AlarmFollows ==
  ASSUME AlarmInOrder, \A n \in Int : Covered(n) => Covered(n)',
         due' # None /\ ~notice' => (due' \in Int /\ due' = due /\ ~notice) \/ Covered(Soon(due))',
         away' # None => (away' \in Int /\ away' = away) \/ Covered(Soon(away))',
         \A s \in Open' : \/ s \in Open /\ seen'[s] = seen[s] /\ seen[s] \in Int /\ ws'[s] = ws[s] /\ (Away(s)' => Away(s))
                          \/ /\ ws'[s] = "OPEN" => Covered(Soon(RenewAfter - seen[s]))'
                             /\ Away(s)' => Covered(Soon(Grace - seen[s]))',
         Watched' => Watched \/ Covered(Grace)'
  PROVE  AlarmInOrder'
<1>0. RenewAfter \in Int /\ Grace \in Int
  BY Stores
<1>1. \A d \in Int : Soon(d) \in Int
  BY DEF Soon
<1>2. due' # None /\ ~notice' => Covered(Soon(due))'
  BY <1>1 DEF AlarmInOrder
<1>3. away' # None => Covered(Soon(away))'
  BY <1>1 DEF AlarmInOrder
<1>4. ASSUME NEW s \in Open'
      PROVE  /\ ws'[s] = "OPEN" => Covered(Soon(RenewAfter - seen[s]))'
             /\ Away(s)' => Covered(Soon(Grace - seen[s]))'
  <2>1. CASE s \in Open /\ seen'[s] = seen[s] /\ seen[s] \in Int /\ ws'[s] = ws[s] /\ (Away(s)' => Away(s))
    <3>1. Soon(RenewAfter - seen[s]) \in Int /\ Soon(Grace - seen[s]) \in Int
      BY <1>0, <1>1, <2>1
    <3>2. /\ ws[s] = "OPEN" => Covered(Soon(RenewAfter - seen[s]))
          /\ Away(s) => Covered(Soon(Grace - seen[s]))
      BY <2>1 DEF AlarmInOrder
    <3>3. /\ ws'[s] = "OPEN" => Covered(Soon(RenewAfter - seen[s]))'
      BY <2>1, <3>1, <3>2
    <3>4. Away(s)' => Covered(Soon(Grace - seen[s]))'
      BY <2>1, <3>1, <3>2
    <3> QED
      BY <3>3, <3>4
  <2> QED
    BY <1>4, <2>1
<1>5. Watched' => Covered(Grace)'
  BY <1>0 DEF AlarmInOrder
<1> QED
  BY <1>2, <1>3, <1>4, <1>5 DEF AlarmInOrder

(* Handlers come, or one goes on.                                          *)
LEMMA CoverGrows ==
  ASSUME HubTypeOK, tasks \subseteq tasks', \A s \in Socks : ws[s] = "CLOSING" => ws'[s] = "CLOSING" \/ WakeComes',
         alarm # None => alarm' # None /\ alarm' <= alarm, alarm' \in Nat \cup {None}
  PROVE  \A n \in Int : Covered(n) => Covered(n)'
<1> SUFFICES ASSUME NEW n \in Int, Covered(n)
             PROVE  Covered(n)'
  OBVIOUS
<1>1. CASE WakeComes
  BY <1>1 DEF Covered, WakeComes, Wakes
<1>2. CASE alarm # None /\ alarm <= n
  BY <1>2 DEF Covered, HubTypeOK
<1> QED
  BY <1>1, <1>2 DEF Covered

LEMMA CoverGoesOn ==
  ASSUME HubTypeOK, NEW t \in tasks, tasks \ {t} \subseteq tasks', t.pc # "WOKEN", UNCHANGED alarm,
         Wakes(t) => \E u \in tasks' : Wakes(u),
         \A s \in Socks : ws[s] = "CLOSING" => ws'[s] = "CLOSING"
  PROVE  \A n \in Int : Covered(n) => Covered(n)'
<1> SUFFICES ASSUME NEW n \in Int, Covered(n)
             PROVE  Covered(n)'
  OBVIOUS
<1>1. CASE WakeComes
  BY <1>1 DEF Covered, WakeComes, Wakes
<1>2. CASE alarm # None /\ alarm <= n
  BY <1>2 DEF Covered, HubTypeOK
<1> QED
  BY <1>1, <1>2 DEF Covered

LEMMA ReadWakeCovers ==
  ASSUME StoreTypeOK, HubTypeOK, TasksSound, AbsenceIsTimed, NEW t \in tasks, ReadWake(t)
  PROVE  AlarmInOrder'
<1>0. StoreValuesOK /\ t \in Task /\ UNCHANGED <<session, seen, ws, phase, away, due, notice>>
  BY StoreTypeSplits DEF TasksSound, ReadWake, HubKeeps, storeVars, socketVars
<1>1. "WOKEN" \in Pcs /\ NextWake \in Int \cup {None}
  BY WakesAreNatural DEF Pcs, Results
<1>2. Becomes(t, "WOKEN", t.from, NextWake)
  BY <1>0, <1>1, GoWithBecomes DEF ReadWake
<1>3. PICK u \in Task : u.pc = "WOKEN" /\ u.at = NextWake /\ u \in tasks'
  BY <1>2 DEF Becomes
<1>4. ASSUME NEW d \in Deadlines, NEW n \in Int, Soon(d) <= n
      PROVE  Covered(n)'
  <2>1. NextWake # None /\ NextWake \in Nat /\ NextWake <= Soon(d)
    BY <1>4, SoonestWake DEF Soon
  <2>2. d \in Int
    BY <1>0, Stores DEF Deadlines, StoreValuesOK, HubTypeOK, Open
  <2>3. Soon(d) \in Int
    BY <2>2 DEF Soon
  <2>4. NextWake <= n
    BY <1>4, <2>1, <2>3
  <2> QED
    BY <1>3, <2>1, <2>4 DEF Covered
<1>5. \A s \in Open : RenewAfter - seen[s] \in Deadlines /\ seen[s] \in Nat /\ seen[s] <= StaleAfter
  <2>1. \A s \in Open : seen[s] \in 0 .. StaleAfter
    BY <1>0 DEF StoreValuesOK, Open
  <2> QED
    BY <2>1, Stores DEF Deadlines
<1>6. ASSUME due' # None
      PROVE  Covered(Soon(due))'
  <2>1. due \in Deadlines /\ due \in Int /\ due' = due
    BY <1>0, <1>6, HubAssumption DEF Deadlines, HubTypeOK
  <2>2. Soon(due) \in Int /\ Soon(due) <= Soon(due) /\ Soon(due)' = Soon(due)
    BY <2>1 DEF Soon
  <2> QED
    BY <1>4, <2>1, <2>2
<1>7. ASSUME away' # None
      PROVE  Covered(Soon(away))'
  <2>1. away \in Deadlines /\ away \in Int /\ away' = away
    BY <1>0, <1>7, Stores DEF Deadlines, StoreValuesOK
  <2>2. Soon(away) \in Int /\ Soon(away) <= Soon(away)
    BY <2>1 DEF Soon
  <2> QED
    BY <1>4, <2>1, <2>2
<1>8. ASSUME NEW s \in Open'
      PROVE  Covered(Soon(RenewAfter - seen[s]))' /\ Covered(Soon(Grace - seen[s]))'
  <2>1. s \in Open /\ seen'[s] = seen[s]
    BY <1>0 DEF Open
  <2>2. /\ Soon(RenewAfter - seen[s]) \in Int /\ Soon(Grace - seen[s]) \in Int
        /\ Soon(RenewAfter - seen[s]) <= Soon(RenewAfter - seen[s])
        /\ Soon(RenewAfter - seen[s]) <= Soon(Grace - seen[s])
    BY <1>5, <2>1, Stores, SoonIsNatural
  <2> QED
    BY <1>4, <1>5, <2>1, <2>2
<1>9. ASSUME Watched'
      PROVE  Covered(Grace)'
  <2>1. Open # {} \/ away # None
    BY <1>0, <1>9 DEF Watched, AbsenceIsTimed
  <2>2. ASSUME NEW s \in Open
        PROVE  Covered(Grace)'
    <3>1. RenewAfter - seen[s] \in Deadlines /\ Soon(RenewAfter - seen[s]) <= Grace
      BY <1>5, Stores DEF Soon
    <3> QED
      BY <1>4, <3>1, Stores
  <2>3. ASSUME away # None
        PROVE  Covered(Grace)'
    <3>1. away \in Deadlines /\ away \in 0 .. Grace
      BY <1>0, <2>3 DEF Deadlines, StoreValuesOK
    <3>2. Soon(away) <= Grace
      BY <3>1, Stores DEF Soon
    <3> QED
      BY <1>4, <3>1, <3>2, Stores
  <2> QED
    BY <2>1, <2>2, <2>3
<1> QED
  BY <1>6, <1>7, <1>8, <1>9 DEF AlarmInOrder

LEMMA SameIsCovered ==
  ASSUME StoreValuesOK, HubTypeOK, AlarmInOrder, \A n \in Int : Covered(n) => Covered(n)',
         UNCHANGED <<session, seen, ws, phase, away, due>>, notice => notice'
  PROVE  AlarmInOrder'
<1>1. (due' # None => due' \in Int) /\ (away' # None => away' \in Int)
  BY HubAssumption, Stores DEF HubTypeOK, StoreValuesOK
<1>2. \A s \in Open' : s \in Open /\ seen'[s] = seen[s] /\ seen[s] \in Int /\ ws'[s] = ws[s] /\ (Away(s)' => Away(s))
  <2>1. \A s \in Open : seen[s] \in 0 .. StaleAfter
    BY DEF StoreValuesOK, Open
  <2> QED
    BY <2>1, Stores DEF Open, Away
<1>3. Watched' => Watched
  BY DEF Watched
<1> QED
  BY <1>1, <1>2, <1>3, AlarmFollows

LEMMA ArmCovers ==
  ASSUME StoreTypeOK, HubTypeOK, TasksSound, AlarmInOrder, NEW t \in tasks, Arm(t)
  PROVE  AlarmInOrder'
<1>0. StoreValuesOK /\ t.pc = "WOKEN" /\ t.at \in Nat \cup {None}
  BY StoreTypeSplits DEF TasksSound, SoundIn, Arm
<1>1. UNCHANGED <<session, seen, ws, phase, away, due, notice>> /\ tasks' = tasks \ {t}
  BY DEF Arm, End, HubKeeps, storeVars, socketVars
<1>2. /\ alarm # None => alarm' # None /\ alarm' <= alarm
      /\ t.at # None => alarm' # None /\ alarm' <= t.at
      /\ alarm' \in Nat \cup {None}
  BY <1>0, ScheduleAdvances DEF Arm
<1>3. ASSUME NEW n \in Int, Covered(n)
      PROVE  Covered(n)'
  <2>1. CASE WakeComes
    BY <1>0, <1>1, <2>1 DEF Covered, WakeComes, Wakes
  <2>2. CASE alarm # None /\ alarm <= n
    BY <1>2, <2>2 DEF Covered, HubTypeOK
  <2>3. CASE t.at # None /\ t.at <= n
    BY <1>0, <1>2, <2>3 DEF Covered
  <2>4. ASSUME NEW u \in tasks, u # t, u.pc = "WOKEN" /\ u.at # None /\ u.at <= n
        PROVE  Covered(n)'
    BY <1>1, <2>4 DEF Covered
  <2> QED
    BY <1>3, <2>1, <2>2, <2>3, <2>4 DEF Covered
<1> QED
  BY <1>0, <1>1, <1>3, SameIsCovered

LEMMA HubResumesCover ==
  ASSUME StoreTypeOK, HubTypeOK, TasksSound, HubInOrder, AlarmInOrder, NEW t \in tasks,
         \/ GiveUp(t) \/ NextLease(t) \/ LeaseRenewed(t) \/ LeaseDone(t) \/ Superseded(t) \/ Touched(t)
         \/ Reconnected(t) \/ EventsRead(t) \/ CommandEnds(t) \/ SocketClosed(t)
         \/ (ReadEvents(t) /\ UNCHANGED hubVars)
  PROVE  AlarmInOrder'
<1>0. StoreValuesOK /\ t \in Task /\ HubHandler(t)
  BY StoreTypeSplits DEF TasksSound, HubInOrder
<1>1. UNCHANGED <<session, seen, ws, phase, away, due, notice>>
  BY DEF GiveUp, NextLease, LeaseRenewed, LeaseDone, Superseded, Touched, Reconnected, EventsRead, CommandEnds, SocketClosed,
     ReadEvents, StatementUnchanged, HubKeeps, storeVars, socketVars, hubVars
<1>2. ~GiveUp(t)
  BY <1>0 DEF GiveUp, HubHandler, LeasePcs
<1>3. UNCHANGED alarm /\ t.pc # "WOKEN"
  BY <1>2 DEF NextLease, LeaseRenewed, LeaseDone, Superseded, Touched, Reconnected, EventsRead, CommandEnds, SocketClosed,
     ReadEvents, hubVars, Command
<1>4. tasks \ {t} \subseteq tasks'
  BY <1>2 DEF NextLease, LeaseRenewed, LeaseDone, Superseded, RequireCurrent, Touched, Reconnected, EventsRead,
     CommandEnds, SocketClosed, ReadEvents, Go, GoWith, End
<1>5. {"NEXT", "DISCONNECT", "WAKE", "SWEEP", "TOUCH"} \subseteq Pcs
  BY DEF Pcs, Statements, Results
<1>6. ASSUME Wakes(t)
      PROVE  \E u \in tasks' : Wakes(u)
  <2>1. ASSUME NEW pc \in Pcs, Go(t, pc), (t.kind = "ALARM" /\ pc # "WOKEN") \/ pc = "WAKE"
        PROVE  \E u \in tasks' : Wakes(u)
    BY <1>0, <2>1, GoBecomes DEF Becomes, Wakes
  <2>2. CASE NextLease(t)
    <3>1. CASE leases # {} /\ Current(Least(leases))
      <4>1. tasks' = (tasks \ {t}) \cup {[t EXCEPT !.sock = Least(leases), !.pc = "TOUCH"]}
        BY <2>2, <3>1 DEF NextLease
      <4>2. Least(leases) \in Socks
        BY <3>1, Stores, LeastOfNaturals DEF HubTypeOK
      <4>3. TurnsTo(t, Least(leases), "TOUCH")
        BY <1>0, <1>5, <4>1, <4>2, SockTurns
      <4> QED
        BY <2>2, <4>3 DEF TurnsTo, Wakes, NextLease
    <3>2. CASE leases # {} /\ ~Current(Least(leases))
      BY <1>6, <2>2, <3>2 DEF NextLease
    <3>3. CASE leases = {}
      BY <1>5, <2>1, <2>2, <3>3 DEF NextLease
    <3> QED
      BY <3>1, <3>2, <3>3
  <2>3. CASE LeaseRenewed(t) \/ LeaseDone(t)
    BY <1>5, <2>1, <2>3 DEF LeaseRenewed, LeaseDone
  <2>4. CASE SocketClosed(t)
    <3>1. t.pc = "DISCONNECTED"
      BY <1>0, <2>4 DEF SocketClosed, HubHandler
    <3> QED
      BY <1>5, <2>1, <2>4, <3>1 DEF SocketClosed
  <2>5. CASE Superseded(t) \/ Touched(t) \/ Reconnected(t) \/ EventsRead(t) \/ CommandEnds(t)
    BY <1>6, <2>5 DEF Superseded, Touched, Reconnected, EventsRead, CommandEnds, Command, Wakes
  <2>6. CASE ReadEvents(t)
    BY <1>0, <1>6, <2>6 DEF ReadEvents, Wakes, HubHandler, LeasePcs
  <2> QED
    BY <1>2, <2>2, <2>3, <2>4, <2>5, <2>6
<1>7. \A n \in Int : Covered(n) => Covered(n)'
  BY <1>1, <1>3, <1>4, <1>6, CoverGoesOn
<1> QED
  BY <1>0, <1>1, <1>7, SameIsCovered

(* A socket that is refused: other sockets of the player are open.         *)
LEMMA UpgradesCover ==
  ASSUME StoreTypeOK, HubTypeOK, TasksSound, HubInOrder, AlarmInOrder, NEW t \in tasks, Accept(t) \/ UpgradeEnds(t)
  PROVE  AlarmInOrder'
<1>0. StoreValuesOK /\ SocketValuesOK /\ t \in Task /\ HubHandler(t) /\ t.sock \in Socks /\ t.kind = "OPEN"
  BY StoreTypeSplits, AnswersAreVersions DEF TasksSound, HubInOrder, Accept, UpgradeEnds
<1>1. UNCHANGED <<session, seen, phase, away, due, notice, alarm>>
  BY DEF Accept, UpgradeEnds, HubKeeps, storeVars
<1>2. \A s \in Socks \ {t.sock} : ws'[s] = ws[s]
  BY <1>0 DEF Accept, UpgradeEnds, SocketValuesOK
<1>3. CASE Accept(t) /\ RoomForSocket
  <2>1. Go(t, "WAKE") /\ "WAKE" \in Pcs
    BY <1>3 DEF Accept, UpgradeEnds, Pcs, Statements
  <2>2. WakeComes'
    BY <1>0, <2>1, GoBecomes DEF Becomes, WakeComes, Wakes
  <2> QED
    BY <2>2, AllIsCovered
<1>4. CASE ~(Accept(t) /\ RoomForSocket)
  <2>1. ws'[t.sock] = "CLOSED" /\ ws[t.sock] # "CLOSING"
    BY <1>0, <1>4 DEF Accept, UpgradeEnds, SocketValuesOK, HubHandler
  <2>2. tasks \ {t} \subseteq tasks' /\ t.pc # "WOKEN" /\ ~Wakes(t)
    BY <1>0, <1>4 DEF Accept, UpgradeEnds, Go, End, Wakes
  <2>3. \A n \in Int : Covered(n) => Covered(n)'
    BY <1>1, <1>2, <2>1, <2>2, CoverGoesOn
  <2>4. ASSUME session[t.sock] = "OPEN", phase = "ACTIVE"
        PROVE  (Watched /\ Covered(Grace)) /\ (ws[t.sock] = "CLOSED" \/ seen[t.sock] = 0)
    <3>1. CASE t.pc = "CONNECTED"
      <4>1. Cardinality(OpenSockets) >= SocketCap
        <5>1. Accept(t) /\ ~RoomForSocket
          BY <1>4, <3>1 DEF UpgradeEnds
        <5> QED
          BY <5>1, OpenIsFinite, Stores DEF RoomForSocket
      <4>2. OpenSockets # {}
        BY <4>1, FS_EmptySet, Stores
      <4>3. PICK s \in Socks : ws[s] = "OPEN"
        BY <4>2 DEF OpenSockets
      <4>4. session[s] # "NONE"
        BY <4>3, LeaseIsPossible
      <4> QED
        BY <1>0, <2>4, <3>1, <4>3, <4>4 DEF Watched, AlarmInOrder, HubHandler
    <3>2. CASE t.pc = "DISCONNECTED"
      <4>1. ws[t.sock] = "CLOSED"
        BY <1>0, <3>2 DEF HubHandler
      <4> QED
        BY <1>0, <2>4, <4>1 DEF Watched, AlarmInOrder
    <3>3. CASE t.pc = "FAILED"
      BY <1>0, <2>4, <3>3 DEF HubHandler
    <3> QED
      BY <3>1, <3>2, <3>3 DEF Accept, UpgradeEnds
  <2>5. ASSUME NEW s \in Open'
        PROVE  \/ s \in Open /\ seen'[s] = seen[s] /\ seen[s] \in Int /\ ws'[s] = ws[s] /\ (Away(s)' => Away(s))
               \/ /\ ws'[s] = "OPEN" => Covered(Soon(RenewAfter - seen[s]))'
                  /\ Away(s)' => Covered(Soon(Grace - seen[s]))'
    <3>1. s \in Open /\ seen'[s] = seen[s] /\ seen[s] \in 0 .. StaleAfter
      BY <1>0, <1>1 DEF Open, StoreValuesOK
    <3>2. CASE ws'[s] = ws[s]
      BY <1>1, <3>1, <3>2, Stores DEF Away
    <3>3. CASE ws'[s] # ws[s]
      <4>1. s = t.sock /\ ws'[s] = "CLOSED"
        BY <1>2, <2>1, <3>1, <3>3 DEF Open
      <4>2. ASSUME Away(s)'
            PROVE  Covered(Soon(Grace - seen[s]))'
        <5>1. Covered(Grace) /\ seen[s] = 0
          BY <1>1, <2>1, <2>4, <3>1, <3>3, <4>1, <4>2 DEF Away, Open
        <5>2. Soon(Grace - seen'[s]) = Grace /\ Grace \in Int
          BY <3>1, <5>1, Stores DEF Soon
        <5> QED
          BY <2>3, <5>1, <5>2
      <4> QED
        BY <4>1, <4>2
    <3> QED
      BY <3>2, <3>3
  <2>6. Watched' => Watched \/ Covered(Grace)'
    <3>1. ASSUME NEW s \in Socks, session[s] # "NONE", ws'[s] # "NONE", phase = "ACTIVE"
          PROVE  Watched
      <4>1. CASE ws[s] # "NONE"
        BY <3>1, <4>1 DEF Watched
      <4>2. CASE ws[s] = "NONE"
        <5>1. s = t.sock /\ session[s] = "OPEN"
          BY <1>0, <1>2, <3>1, <4>2 DEF Accept, UpgradeEnds, HubHandler
        <5> QED
          BY <2>4, <3>1, <5>1
      <4> QED
        BY <4>1, <4>2
    <3> QED
      BY <1>1, <3>1 DEF Watched
  <2>7. (due' # None => due' \in Int) /\ (away' # None => away' \in Int)
    BY <1>0, <1>1, HubAssumption, Stores DEF HubTypeOK, StoreValuesOK
  <2> QED
    BY <1>1, <2>3, <2>5, <2>6, <2>7, AlarmFollows
<1> QED
  BY <1>3, <1>4

(* A session is renewed by its own handler.                                *)
LEMMA TouchCovers ==
  ASSUME StoreTypeOK, HubTypeOK, TasksSound, HubInOrder, AlarmInOrder, NEW t \in tasks, Touch(t), UNCHANGED hubVars
  PROVE  AlarmInOrder'
<1>0. StoreValuesOK /\ t \in Task /\ HubHandler(t) /\ t.sock \in Socks /\ t.pc = "TOUCH"
  BY StoreTypeSplits, AnswersAreVersions DEF TasksSound, HubInOrder, Touch
<1>1. UNCHANGED <<session, ws, phase, away, due, notice, alarm>>
  BY DEF Touch, StatementUnchanged, socketVars, hubVars
<1>2. \A s \in Socks : seen'[s] = seen[s] \/ (session[t.sock] = "OPEN" /\ s = t.sock /\ seen'[s] = 0)
  BY <1>0 DEF Touch, StoreValuesOK
<1>3. PICK pc \in {"TOUCHED", "CONNECT"} : Go(t, pc)
  BY DEF Touch
<1>4. tasks \ {t} \subseteq tasks' /\ (Wakes(t) => \E u \in tasks' : Wakes(u))
  <2>1. pc \in Pcs
    BY DEF Pcs, Statements, Results
  <2>2. PICK u \in Task : u.kind = t.kind /\ u.pc = pc /\ tasks' = (tasks \ {t}) \cup {u}
    BY <1>0, <1>3, <2>1, GoBecomes DEF Becomes
  <2> QED
    BY <1>0, <2>2 DEF Wakes
<1>5. \A n \in Int : Covered(n) => Covered(n)'
  BY <1>0, <1>1, <1>4, CoverGoesOn
<1>6. (due' # None => due' \in Int) /\ (away' # None => away' \in Int)
  BY <1>0, <1>1, HubAssumption, Stores DEF HubTypeOK, StoreValuesOK
<1>7. ASSUME NEW s \in Open'
      PROVE  \/ s \in Open /\ seen'[s] = seen[s] /\ seen[s] \in Int /\ ws'[s] = ws[s] /\ (Away(s)' => Away(s))
             \/ /\ ws'[s] = "OPEN" => Covered(Soon(RenewAfter - seen[s]))'
                /\ Away(s)' => Covered(Soon(Grace - seen[s]))'
  <2>1. s \in Open /\ seen[s] \in 0 .. StaleAfter /\ ws'[s] = ws[s] /\ (Away(s)' => Away(s))
    BY <1>0, <1>1 DEF Open, StoreValuesOK, Away
  <2>2. CASE seen'[s] = seen[s]
    BY <2>1, <2>2, Stores
  <2>3. CASE seen'[s] = 0
    <3>1. seen[s] \in Nat
      BY <2>1, Stores
    <3>2. /\ Soon(RenewAfter - seen[s]) \in Int /\ Soon(RenewAfter - 0) \in Int
          /\ Soon(RenewAfter - seen[s]) <= Soon(RenewAfter - 0)
          /\ Soon(Grace - seen[s]) \in Int /\ Soon(Grace - 0) \in Int
          /\ Soon(Grace - seen[s]) <= Soon(Grace - 0)
      BY <3>1, Stores, SoonIsNatural
    <3>3. /\ ws[s] = "OPEN" => Covered(Soon(RenewAfter - seen[s]))
          /\ Away(s) => Covered(Soon(Grace - seen[s]))
      BY <2>1 DEF AlarmInOrder
    <3>4. /\ ws[s] = "OPEN" => Covered(Soon(RenewAfter - 0))
          /\ Away(s) => Covered(Soon(Grace - 0))
      BY <3>2, <3>3, LaterIsCovered
    <3>5. ws'[s] = "OPEN" => Covered(Soon(RenewAfter - seen[s]))'
      BY <1>5, <2>1, <2>3, <3>2, <3>4
    <3>6. Away(s)' => Covered(Soon(Grace - seen[s]))'
      BY <1>5, <2>1, <2>3, <3>2, <3>4
    <3> QED
      BY <3>5, <3>6
  <2> QED
    BY <1>2, <2>1, <2>2, <2>3 DEF Open
<1>8. Watched' => Watched
  BY <1>1 DEF Watched
<1> QED
  BY <1>1, <1>5, <1>6, <1>7, <1>8, AlarmFollows

LEMMA ConnectCovers ==
  ASSUME StoreTypeOK, HubTypeOK, TasksSound, HubInOrder, AlarmInOrder, NEW t \in tasks, Connect(t), UNCHANGED hubVars
  PROVE  AlarmInOrder'
<1>0. StoreValuesOK /\ t \in Task /\ HubHandler(t) /\ t.sock \in Socks /\ t.pc = "CONNECT"
  BY StoreTypeSplits, AnswersAreVersions DEF TasksSound, HubInOrder, Connect
<1>1. UNCHANGED <<ws, due, notice, alarm>>
  BY DEF Connect, StatementUnchanged, socketVars, hubVars
<1>4. tasks \ {t} \subseteq tasks' /\ (Wakes(t) => \E u \in tasks' : Wakes(u))
  <2>1. "FAILED" \in Pcs /\ "CONNECTED" \in Pcs /\ version \in Int
    BY <1>0, Stores DEF Pcs, Results, StoreValuesOK
  <2>2. PICK u \in Task : u.kind = t.kind /\ u.pc \in {"FAILED", "CONNECTED"} /\ tasks' = (tasks \ {t}) \cup {u}
    BY <1>0, <2>1, GoBecomes, GoWithBecomes DEF Becomes, Connect
  <2> QED
    BY <1>0, <2>2 DEF Wakes
<1>5. \A n \in Int : Covered(n) => Covered(n)'
  BY <1>0, <1>1, <1>4, CoverGoesOn
<1>6. (due' # None => due' \in Int)
  BY <1>1, HubAssumption DEF HubTypeOK
<1>7. CASE phase = "LEFT"
  <2>1. UNCHANGED <<session, seen, away, phase>>
    BY <1>7 DEF Connect
  <2> QED
    BY <1>0, <1>1, <1>5, <2>1, SameIsCovered
<1>8. CASE phase # "LEFT"
  <2>1. /\ \A s \in Socks \ {t.sock} : session'[s] = session[s] /\ seen'[s] = seen[s]
        /\ session'[t.sock] = "OPEN" /\ seen'[t.sock] = 0
        /\ away' = None /\ (phase' = "ACTIVE" => phase = "ACTIVE")
    BY <1>0, <1>8 DEF Connect, Connected, StoreValuesOK
  <2>2. session[t.sock] # "NONE" <=> ws[t.sock] # "NONE"
    BY <1>0 DEF HubHandler
  <2>3. Watched' => Watched
    BY <1>0, <1>1, <2>1, <2>2 DEF Watched
  <2>4. ASSUME NEW s \in Open'
        PROVE  \/ s \in Open /\ seen'[s] = seen[s] /\ seen[s] \in Int /\ ws'[s] = ws[s] /\ (Away(s)' => Away(s))
               \/ /\ ws'[s] = "OPEN" => Covered(Soon(RenewAfter - seen[s]))'
                  /\ Away(s)' => Covered(Soon(Grace - seen[s]))'
    <3>1. CASE s # t.sock
      <4>1. s \in Open /\ seen[s] \in 0 .. StaleAfter
        BY <1>0, <2>1, <3>1 DEF Open, StoreValuesOK
      <4> QED
        BY <1>1, <2>1, <3>1, <4>1, Stores DEF Away, Open
    <3>2. CASE s = t.sock
      <4>1. Soon(Grace - 0) = Grace /\ Grace \in Int /\ Soon(RenewAfter - 0) \in Int
        BY Stores DEF Soon
      <4>2. ASSUME ws[s] = "OPEN"
            PROVE  Covered(Soon(RenewAfter - seen[s]))'
        <5>1. InTime(s) /\ s \in Open /\ seen[s] \in 0 .. StaleAfter
          BY <1>0, <1>8, <3>2, <4>2 DEF HubInOrder, InTime, Open, StoreValuesOK
        <5>2. seen[s] \in Nat
          BY <5>1, Stores
        <5>3. Covered(Soon(RenewAfter - seen[s]))
          BY <4>2, <5>1 DEF AlarmInOrder
        <5>4. Soon(RenewAfter - seen[s]) \in Int /\ Soon(RenewAfter - seen[s]) <= Soon(RenewAfter - 0)
          BY <5>2, Stores, SoonIsNatural
        <5>5. Covered(Soon(RenewAfter - 0))
          BY <4>1, <5>3, <5>4, LaterIsCovered
        <5> QED
          BY <1>5, <2>1, <3>2, <4>1, <5>5
      <4>3. ASSUME Away(s)'
            PROVE  Covered(Soon(Grace - seen[s]))'
        <5>1. Watched
          BY <1>0, <1>1, <2>1, <2>2, <3>2, <4>3 DEF Watched, Away
        <5>2. Covered(Grace)'
          BY <1>5, <4>1, <5>1 DEF AlarmInOrder
        <5> QED
          BY <2>1, <3>2, <4>1, <5>2
      <4> QED
        BY <1>1, <4>2, <4>3
    <3> QED
      BY <3>1, <3>2
  <2> QED
    BY <1>1, <1>5, <1>6, <2>1, <2>3, <2>4, AlarmFollows
<1> QED
  BY <1>7, <1>8

(* Sessions end: the absence that begins is watched already.               *)
LEMMA ShutCovers ==
  ASSUME StoreValuesOK, HubTypeOK, AlarmInOrder, NEW S \in SUBSET Open, NEW ago \in 0 .. StaleAfter, Shut(S, ago),
         UNCHANGED <<seen, ws, due, notice>>, phase' = "ACTIVE" => phase = "ACTIVE",
         \A n \in Int : Covered(n) => Covered(n)',
         S # {} /\ phase = "ACTIVE" => Covered(Soon(Grace - ago))
  PROVE  AlarmInOrder'
<1>1. /\ \A s \in Socks : session'[s] = IF s \in S THEN "SHUT" ELSE session[s]
      /\ away' = away \/ away' = None \/ (S # {} /\ phase = "ACTIVE" /\ away' = Grace - ago)
  BY DEF Shut
<1>2. (due' # None => due' \in Int) /\ (away # None => away \in Int)
  BY HubAssumption, Stores DEF HubTypeOK, StoreValuesOK
<1>3. away' # None => (away' \in Int /\ away' = away) \/ Covered(Soon(away))'
  <2>1. CASE S # {} /\ phase = "ACTIVE" /\ away' = Grace - ago
    <3>1. Soon(Grace - ago) \in Int
      BY Stores DEF Soon
    <3> QED
      BY <2>1, <3>1
  <2> QED
    BY <1>1, <1>2, <2>1
<1>4. \A s \in Open' : s \in Open /\ seen'[s] = seen[s] /\ seen[s] \in Int /\ ws'[s] = ws[s] /\ (Away(s)' => Away(s))
  <2>1. \A s \in Open' : s \in Open /\ seen[s] \in 0 .. StaleAfter
    BY <1>1 DEF StoreValuesOK, Open
  <2> QED
    BY <2>1, Stores DEF Open, Away
<1>5. Watched' => Watched
  BY <1>1 DEF Watched, Open
<1> QED
  BY <1>2, <1>3, <1>4, <1>5, AlarmFollows

LEMMA DisconnectCovers ==
  ASSUME StoreTypeOK, HubTypeOK, TasksSound, HubInOrder, AlarmInOrder, NEW t \in tasks, Disconnect(t), UNCHANGED hubVars
  PROVE  AlarmInOrder'
<1>0. StoreValuesOK /\ t \in Task /\ HubHandler(t) /\ t.sock \in Socks /\ t.pc = "DISCONNECT"
  BY StoreTypeSplits, AnswersAreVersions DEF TasksSound, HubInOrder, Disconnect
<1>1. UNCHANGED <<seen, phase, ws, due, notice, alarm>> /\ Shut({t.sock} \cap Open, 0) /\ Go(t, "DISCONNECTED")
  BY DEF Disconnect, StatementUnchanged, socketVars, hubVars
<1>2. tasks \ {t} \subseteq tasks' /\ (Wakes(t) => \E u \in tasks' : Wakes(u))
  <2>1. "DISCONNECTED" \in Pcs
    BY DEF Pcs, Results
  <2>2. PICK u \in Task : u.kind = t.kind /\ u.pc = "DISCONNECTED" /\ tasks' = (tasks \ {t}) \cup {u}
    BY <1>0, <1>1, <2>1, GoBecomes DEF Becomes
  <2> QED
    BY <1>0, <2>2 DEF Wakes
<1>3. \A n \in Int : Covered(n) => Covered(n)'
  BY <1>0, <1>1, <1>2, CoverGoesOn
<1>4. ASSUME t.sock \in Open, phase = "ACTIVE"
      PROVE  Covered(Soon(Grace - 0))
  <2>1. ws[t.sock] # "NONE"
    BY <1>0 DEF HubHandler, LeasePcs
  <2>2. Watched
    BY <1>0, <1>4, <2>1 DEF Watched, Open
  <2>3. Soon(Grace - 0) = Grace
    BY Stores DEF Soon
  <2> QED
    BY <2>2, <2>3 DEF AlarmInOrder
<1>5. {t.sock} \cap Open \in SUBSET Open /\ 0 \in 0 .. StaleAfter
  BY Stores
<1>6. {t.sock} \cap Open # {} => t.sock \in Open
  OBVIOUS
<1> QED
  BY <1>0, <1>1, <1>3, <1>4, <1>5, <1>6, ShutCovers

LEMMA SweepCovers ==
  ASSUME StoreTypeOK, HubTypeOK, TasksSound, HubInOrder, AlarmInOrder, GlobalSweep, UNCHANGED hubVars
  PROVE  AlarmInOrder'
<1>0. StoreValuesOK /\ UNCHANGED <<seen, ws, tasks, due, notice, alarm>> /\ Shut(Expired, StaleAfter)
  BY StoreTypeSplits DEF GlobalSweep, SweepSessions, socketVars, hubVars
<1>1. phase' = "ACTIVE" => phase = "ACTIVE"
  BY DEF GlobalSweep, SweepSessions
<1>2. \A n \in Int : Covered(n) => Covered(n)'
  BY <1>0, Stores, CoverGrows DEF HubTypeOK
<1>3. Expired \in SUBSET Open /\ StaleAfter \in 0 .. StaleAfter
  BY Stores DEF Expired
<1>4. ASSUME NEW s \in Expired, phase = "ACTIVE"
      PROVE  Covered(Soon(Grace - StaleAfter))
  <2>1. s \in Socks /\ s \in Open /\ seen[s] = StaleAfter /\ session[s] = "OPEN"
    BY <1>4 DEF Expired, Open
  <2>2. ws[s] # "OPEN"
    BY <1>4, <2>1, Stores DEF HubInOrder, InTime
  <2>3. ws[s] # "NONE"
    <3>1. ASSUME NEW t \in tasks, t.kind = "OPEN", t.sock = s, t.pc = "CONNECTED"
          PROVE  FALSE
      BY <2>1, <3>1, Stores DEF HubInOrder, HubHandler
    <3> QED
      BY <2>1, <3>1 DEF HubInOrder, HubSession
  <2>4. CASE ws[s] = "CLOSING"
    BY <2>1, <2>4 DEF Covered, WakeComes
  <2>5. CASE ws[s] = "CLOSED"
    BY <1>4, <2>1, <2>5 DEF AlarmInOrder, Away
  <2>6. ws[s] \in {"NONE", "OPEN", "CLOSING", "CLOSED"}
    BY <2>1 DEF StoreTypeOK
  <2> QED
    BY <2>2, <2>3, <2>4, <2>5, <2>6
<1> QED
  BY <1>0, <1>1, <1>2, <1>3, <1>4, ShutCovers

LEMMA AlarmSweepsCovers ==
  ASSUME TasksSound, NEW t \in tasks, AlarmSweeps(t)
  PROVE  AlarmInOrder'
<1>1. t \in Task /\ Go(t, "WAKE") /\ "WAKE" \in Pcs
  BY DEF TasksSound, AlarmSweeps, Pcs, Statements
<1>2. WakeComes'
  BY <1>1, GoBecomes DEF Becomes, WakeComes, Wakes
<1> QED
  BY <1>2, AllIsCovered

LEMMA HubEventsCover ==
  ASSUME StoreTypeOK, HubTypeOK, HubTypeOK', TasksSound, HubInOrder, AlarmInOrder, HubEvent, ~faulted'
  PROVE  AlarmInOrder'
<1>0. StoreValuesOK /\ SocketValuesOK /\ HubAssumption
  BY StoreTypeSplits, HubAssumption
<1>1. CASE AlarmFires
  <2> DEFINE u == NewTask("ALARM", Least(Socks), 0, "NEXT")
  <2>1. u \in tasks'
    BY <1>1 DEF AlarmFires, Start
  <2>2. u.kind = "ALARM" /\ u.pc = "NEXT"
    BY DEF NewTask
  <2> HIDE DEF u
  <2>3. WakeComes'
    BY <2>1, <2>2 DEF WakeComes, Wakes
  <2> QED
    BY <2>3, AllIsCovered
<1>2. ASSUME NEW s \in Socks, SocketCloses(s)
      PROVE  AlarmInOrder'
  <2> DEFINE u == NewTask("CLOSE", s, 0, "DISCONNECT")
  <2>1. u \in tasks'
    BY <1>2 DEF SocketCloses, Start
  <2>2. u.kind = "CLOSE" /\ u.pc = "DISCONNECT"
    BY DEF NewTask
  <2> HIDE DEF u
  <2>3. WakeComes'
    BY <2>1, <2>2 DEF WakeComes, Wakes
  <2> QED
    BY <2>3, AllIsCovered
<1>3. ASSUME UNCHANGED <<storeVars, ws, alarm, due>>, tasks \subseteq tasks', notice => notice'
      PROVE  AlarmInOrder'
  <2>1. alarm # None => alarm' <= alarm
    BY <1>3, AlarmIsKept
  <2>2. \A n \in Int : Covered(n) => Covered(n)'
    BY <1>3, <2>1, CoverGrows DEF HubTypeOK
  <2> QED
    BY <1>0, <1>3, <2>2, SameIsCovered DEF storeVars
<1>4. ASSUME NEW s \in Socks, Upgrade(s) \/ \E k \in {"PING", "SNAPSHOT"} : Message(s, k)
      PROVE  AlarmInOrder'
  BY <1>3, <1>4 DEF Upgrade, Message, Start, socketVars, hubVars
<1>5. CASE SetDeadline
  <2>1. alarm # None => alarm' <= alarm
    BY <1>5, AlarmIsKept DEF SetDeadline
  <2>2. \A n \in Int : Covered(n) => Covered(n)'
    BY <1>5, <2>1, CoverGrows DEF HubTypeOK, SetDeadline, socketVars
  <2>3. (due' # None /\ ~notice' => FALSE) /\ (away' # None => away' \in Int)
    BY <1>0, <1>5, Stores DEF SetDeadline, storeVars, StoreValuesOK
  <2>4. \A s \in Open' : s \in Open /\ seen'[s] = seen[s] /\ seen[s] \in Int /\ ws'[s] = ws[s] /\ (Away(s)' => Away(s))
    <3>1. \A s \in Open : seen[s] \in 0 .. StaleAfter
      BY <1>0 DEF StoreValuesOK, Open
    <3> QED
      BY <1>5, <3>1, Stores DEF SetDeadline, storeVars, socketVars, Open, Away
  <2>5. (Watched' => Watched) /\ away' = away
    BY <1>5 DEF SetDeadline, storeVars, socketVars, Watched
  <2> QED
    BY <2>2, <2>3, <2>4, <2>5, AlarmFollows
<1>6. CASE Notify
  <2> DEFINE d == IF due = 0 THEN 1 ELSE due
  <2>0. UNCHANGED <<storeVars, ws, tasks, due>>
    BY <1>6 DEF Notify, socketVars
  <2>1. due # None => d \in Nat /\ d = Soon(due) /\ Soon(due) \in Int /\ Schedule(d)
    BY <1>0, <1>6 DEF Notify, HubTypeOK, Soon, HubAssumption
  <2>2. /\ alarm # None => alarm' # None /\ alarm' <= alarm
        /\ due # None => alarm' # None /\ alarm' <= Soon(due)
    <3>1. CASE due = None
      BY <1>6, <3>1, AlarmIsKept DEF Notify
    <3>2. CASE due # None
      <4> HIDE DEF d
      <4> QED
        BY <2>1, <3>2, Stores, ScheduleAdvances
    <3> QED
      BY <3>1, <3>2
  <2>3. \A n \in Int : Covered(n) => Covered(n)'
    BY <2>0, <2>2, CoverGrows DEF HubTypeOK
  <2>4. due' # None => Covered(Soon(due))'
    BY <2>0, <2>2 DEF Covered
  <2>5. away' # None => away' \in Int /\ away' = away
    BY <1>0, <2>0, Stores DEF storeVars, StoreValuesOK
  <2>6. \A s \in Open' : s \in Open /\ seen'[s] = seen[s] /\ seen[s] \in Int /\ ws'[s] = ws[s] /\ (Away(s)' => Away(s))
    <3>1. \A s \in Open : seen[s] \in 0 .. StaleAfter
      BY <1>0 DEF StoreValuesOK, Open
    <3> QED
      BY <2>0, <3>1, Stores DEF storeVars, Open, Away
  <2>7. Watched' => Watched
    BY <2>0 DEF storeVars, Watched
  <2> QED
    BY <2>3, <2>4, <2>5, <2>6, <2>7, AlarmFollows
<1>7. ~NoticeLost
  BY DEF NoticeLost
<1> QED
  BY <1>1, <1>2, <1>4, <1>5, <1>6, <1>7 DEF HubEvent

LEMMA SurroundingsCover ==
  ASSUME StoreTypeOK, HubTypeOK, TasksSound, AlarmInOrder, UNCHANGED hubVars,
         Append \/ MatchEnds \/ \E s \in Socks : PeerCloses(s)
  PROVE  AlarmInOrder'
<1>0. StoreValuesOK /\ SocketValuesOK
  BY StoreTypeSplits
<1>1. UNCHANGED <<session, seen, away, due, notice, alarm, tasks>>
  BY DEF Append, MatchEnds, PeerCloses, storeVars, hubVars
<1>2. CASE \E s \in Socks : PeerCloses(s)
  <2>1. WakeComes'
    BY <1>0, <1>2 DEF PeerCloses, WakeComes, SocketValuesOK
  <2> QED
    BY <2>1, AllIsCovered
<1>3. CASE Append \/ MatchEnds
  <2>1. ws' = ws /\ (phase' = "ACTIVE" => phase = "ACTIVE")
    BY <1>3 DEF Append, MatchEnds, socketVars
  <2>2. alarm # None => alarm' <= alarm
    BY <1>1, AlarmIsKept
  <2>3. \A n \in Int : Covered(n) => Covered(n)'
    BY <1>1, <2>1, <2>2, CoverGrows DEF HubTypeOK
  <2>4. (due' # None => due' \in Int) /\ (away' # None => away' \in Int)
    BY <1>0, <1>1, HubAssumption, Stores DEF HubTypeOK, StoreValuesOK
  <2>5. \A s \in Open' : s \in Open /\ seen'[s] = seen[s] /\ seen[s] \in Int /\ ws'[s] = ws[s] /\ (Away(s)' => Away(s))
    <3>1. \A s \in Open : seen[s] \in 0 .. StaleAfter
      BY <1>0 DEF StoreValuesOK, Open
    <3> QED
      BY <1>1, <2>1, <3>1, Stores DEF Open, Away
  <2>6. Watched' => Watched
    BY <1>1, <2>1 DEF Watched
  <2> QED
    BY <1>1, <2>3, <2>4, <2>5, <2>6, AlarmFollows
<1> QED
  BY <1>2, <1>3

(* Time passes for the alarm and for what will be due alike.               *)
LEMMA HubTickCovers ==
  ASSUME StoreTypeOK, HubTypeOK, TasksSound, AlarmInOrder, HubTick
  PROVE  AlarmInOrder'
<1>0. StoreValuesOK /\ HubAssumption
  BY StoreTypeSplits, HubAssumption
<1>1. UNCHANGED <<session, ws, phase, tasks, notice>> /\ Older /\ alarm # 0
      /\ alarm' = (IF alarm = None THEN None ELSE alarm - 1)
      /\ due' = (IF due \in {None, 0} THEN due ELSE due - 1)
  BY DEF HubTick, socketVars
<1>2. \A r \in tasks : r.pc # "WOKEN"
  BY DEF HubTick, Statements
<1>3. WakeComes' <=> WakeComes
  BY <1>1 DEF WakeComes, Wakes
<1>4. ASSUME NEW m \in Int, NEW n \in Int, n >= m - 1, n >= 1, Covered(m)
      PROVE  Covered(n)'
  <2>1. CASE alarm # None /\ alarm <= m
    <3>1. alarm \in Nat /\ alarm' = alarm - 1
      BY <1>1, <2>1 DEF HubTypeOK
    <3>2. alarm' \in Int /\ alarm' # None /\ alarm' <= n
      BY <1>4, <2>1, <3>1, Stores
    <3> QED
      BY <3>2 DEF Covered
  <2> QED
    BY <1>2, <1>3, <1>4, <2>1 DEF Covered
<1>5. ASSUME NEW d \in Int, NEW e \in Int, e >= d - 1
      PROVE  Soon(d) \in Int /\ Soon(e) \in Int /\ Soon(e) >= Soon(d) - 1 /\ Soon(e) >= 1
  BY <1>5 DEF Soon
<1>6. ASSUME due' # None, ~notice'
      PROVE  Covered(Soon(due))'
  <2>1. due # None /\ due \in Int /\ due' \in Int /\ due' >= due - 1
    BY <1>0, <1>1, <1>6 DEF HubTypeOK, HubAssumption
  <2>2. Covered(Soon(due))
    BY <1>1, <1>6, <2>1 DEF AlarmInOrder
  <2> QED
    BY <1>4, <1>5, <2>1, <2>2
<1>7. ASSUME away' # None
      PROVE  Covered(Soon(away))'
  <2>1. away' = IF away \in {None, 0} THEN away ELSE away - 1
    BY <1>1 DEF Older
  <2>2. away # None /\ away \in 0 .. Grace
    BY <1>0, <1>7, <2>1 DEF StoreValuesOK
  <2>3. away \in Int /\ away' \in Int /\ away' >= away - 1
    BY <2>1, <2>2, Stores
  <2>4. Covered(Soon(away))
    BY <2>2 DEF AlarmInOrder
  <2> QED
    BY <1>4, <1>5, <2>3, <2>4
<1>8. ASSUME NEW s \in Open'
      PROVE  /\ ws'[s] = "OPEN" => Covered(Soon(RenewAfter - seen[s]))'
             /\ Away(s)' => Covered(Soon(Grace - seen[s]))'
  <2>1. s \in Open /\ ws'[s] = ws[s] /\ (Away(s)' => Away(s))
    BY <1>1 DEF Open, Away
  <2>2. seen[s] \in 0 .. StaleAfter /\ session[s] = "OPEN" /\ s \in Socks
    BY <1>0, <2>1 DEF Open, StoreValuesOK
  <2>3. seen[s] \in Nat /\ seen'[s] \in Nat /\ seen'[s] <= seen[s] + 1
    BY <1>1, <2>2, Stores DEF Older
  <2>4. /\ RenewAfter - seen[s] \in Int /\ RenewAfter - seen'[s] \in Int
        /\ RenewAfter - seen'[s] >= (RenewAfter - seen[s]) - 1
        /\ Grace - seen[s] \in Int /\ Grace - seen'[s] \in Int /\ Grace - seen'[s] >= (Grace - seen[s]) - 1
    BY <2>3, Stores
  <2>5. ASSUME ws'[s] = "OPEN"
        PROVE  Covered(Soon(RenewAfter - seen[s]))'
    <3>1. Covered(Soon(RenewAfter - seen[s]))
      BY <2>1, <2>5 DEF AlarmInOrder
    <3> QED
      BY <1>4, <1>5, <2>4, <3>1
  <2>6. ASSUME Away(s)'
        PROVE  Covered(Soon(Grace - seen[s]))'
    <3>1. Covered(Soon(Grace - seen[s]))
      BY <2>1, <2>6 DEF AlarmInOrder
    <3> QED
      BY <1>4, <1>5, <2>4, <3>1
  <2> QED
    BY <2>5, <2>6
<1>9. ASSUME Watched'
      PROVE  Covered(Grace)'
  <2>1. Covered(Grace)
    BY <1>1, <1>9 DEF AlarmInOrder, Watched
  <2>2. Grace \in Int /\ Grace >= Grace - 1 /\ Grace >= 1
    BY Stores
  <2> QED
    BY <1>4, <2>1, <2>2
<1> QED
  BY <1>6, <1>7, <1>8, <1>9 DEF AlarmInOrder

LEMMA HubStepCovers ==
  ASSUME StoreTypeOK, HubTypeOK, HubTypeOK', TasksSound, HubInOrder, AbsenceIsTimed, AlarmInOrder, ~faulted',
         \/ \E t \in tasks : HubStatement(t) \/ HubResumes(t)
         \/ HubEvent
         \/ (Append \/ MatchEnds \/ GlobalSweep \/ \E s \in Socks : PeerCloses(s)) /\ UNCHANGED hubVars
         \/ HubTick
  PROVE  AlarmInOrder'
<1>1. ASSUME NEW t \in tasks, HubStatement(t)
      PROVE  AlarmInOrder'
  <2>1. \A u \in tasks : ~StatementFails(u)
    BY DEF StatementFails
  <2> QED
    BY <1>1, <2>1, TouchCovers, ConnectCovers, DisconnectCovers, HubResumesCover, ReadWakeCovers, AlarmSweepsCovers
       DEF HubStatement
<1>2. ASSUME NEW t \in tasks, HubResumes(t)
      PROVE  AlarmInOrder'
  <2>1. CASE Accept(t) \/ UpgradeEnds(t)
    BY <2>1, UpgradesCover
  <2>2. CASE Arm(t)
    BY <2>2, ArmCovers
  <2>3. CASE \/ GiveUp(t) \/ NextLease(t) \/ LeaseRenewed(t) \/ LeaseDone(t) \/ Superseded(t) \/ Touched(t)
             \/ Reconnected(t) \/ EventsRead(t) \/ CommandEnds(t) \/ SocketClosed(t)
    BY <2>3, HubResumesCover
  <2> QED
    BY <1>2, <2>1, <2>2, <2>3 DEF HubResumes
<1> QED
  BY <1>1, <1>2, HubEventsCover, SurroundingsCover, SweepCovers, HubTickCovers

(* When nothing is in progress the alarm is set, and in time.              *)
LEMMA AlarmIsInTime ==
  ASSUME StoreTypeOK, HubTypeOK, HubInOrder, AlarmInOrder, tasks = {}, ~notice, Deadlines # {},
         \A s \in Socks : ws[s] # "CLOSING"
  PROVE  alarm # None /\ alarm <= NextWake
<1>0. StoreValuesOK /\ SocketValuesOK
  BY StoreTypeSplits
<1>1. ASSUME NEW n, Covered(n)
      PROVE  alarm # None /\ alarm <= n
  BY <1>1 DEF Covered, WakeComes
<1>2. ASSUME NEW d \in Deadlines
      PROVE  Covered(Soon(d))
  <2>1. CASE d = away /\ away # None
    BY <2>1 DEF AlarmInOrder
  <2>2. CASE d = due /\ due # None
    BY <2>2 DEF AlarmInOrder
  <2>3. ASSUME NEW s \in Open, d = RenewAfter - seen[s]
        PROVE  Covered(Soon(d))
    <3>1. ws[s] = "OPEN"
      BY <1>0, <2>3 DEF Open, HubInOrder, HubSession, SocketValuesOK
    <3> QED
      BY <2>3, <3>1 DEF AlarmInOrder
  <2> QED
    BY <2>1, <2>2, <2>3 DEF Deadlines
<1> DEFINE S == {IF e <= 0 THEN 1 ELSE e : e \in Deadlines}
<1>3. Deadlines \subseteq Int
  <2>1. \A s \in Open : seen[s] \in Int /\ RenewAfter \in Int
    BY Stores DEF StoreTypeOK, Open
  <2> QED
    BY <2>1, HubAssumption, Stores DEF Deadlines, StoreTypeOK, HubTypeOK
<1>4. S \subseteq Nat /\ S # {}
  <2>1. \A e \in Int : (IF e <= 0 THEN 1 ELSE e) \in Nat
    OBVIOUS
  <2> QED
    BY <1>3, <2>1
<1>5. NextWake = Least(S)
  BY DEF NextWake
<1>6. Least(S) \in S
  <2> HIDE DEF S
  <2> QED
    BY <1>4, LeastOfNaturals
<1>7. PICK d \in Deadlines : NextWake = Soon(d)
  BY <1>5, <1>6 DEF Soon
<1> QED
  BY <1>1, <1>2, <1>7

-----------------------------------------------------------------------------
(* The Node service: handlers, sessions, and heartbeats in time.  All of it*)
(* holds while no statement has failed and the process has not died.       *)

NodeHandler(t) ==
  \/ /\ t.kind = "OPEN"
     /\ t.pc \in {"CONNECT", "CONNECTED", "FAILED", "DISCONNECT", "DISCONNECTED"}
     /\ server \in {"UP", "SETUPS"}
     /\ \A u \in tasks : u.sock = t.sock => u = t
     /\ t.pc \in {"CONNECT", "CONNECTED", "FAILED"} => t.sock \notin known_id
     /\ t.pc = "CONNECTED" => session[t.sock] = "OPEN" /\ seen[t.sock] = 0
     /\ t.pc \in {"CONNECT", "FAILED", "DISCONNECTED"} => session[t.sock] # "OPEN"
     /\ t.pc \in {"DISCONNECT", "DISCONNECTED"} => t.sock \in known_id /\ ws[t.sock] # "OPEN"
  \/ /\ t.kind = "CLOSE" /\ t.sock \in known_id /\ ws[t.sock] # "OPEN"
     /\ t.pc \in {"DISCONNECT", "DISCONNECTED"} \/ (server = "ENDED" /\ t.pc = "FAILED")
  \/ /\ t.kind = "BEAT" /\ t.sock \in known_id /\ t.from = 0
     /\ t.pc \in {"TOUCH", "TOUCHED", "CONNECT", "CONNECTED", "FAILED"}
     /\ server \in {"DISCONNECTS", "ENDED"} => t.sock \notin active
     /\ t.pc = "FAILED" => phase = "LEFT" \/ server = "ENDED"
     /\ t.pc \in {"TOUCHED", "CONNECTED"} => seen[t.sock] = 0
  \/ /\ t.kind = "BEAT" /\ t.sock \in known_id /\ t.from = 1
     /\ t.pc \in {"DISCONNECT", "DISCONNECTED"} \/ (server = "ENDED" /\ t.pc = "FAILED")
     /\ ws[t.sock] # "OPEN"
     /\ server \in {"DISCONNECTS", "ENDED"} => t.sock \notin active
  \/ /\ t.kind \in {"POLL"} \cup CommandKinds /\ t.sock \in known_id
     /\ t.pc \notin {"TOUCH", "CONNECT", "DISCONNECT", "CONNECTED"}

(* A handler that ends the session of its socket, or goes on to one that   *)
(* does when it finds the client closed.                                   *)
Undoes(t) == t.pc = "DISCONNECT" \/ (t.kind = "OPEN" /\ t.pc = "CONNECTED") \/ (t.kind = "BEAT" /\ t.from = 0)
Closes(t) == t.kind = "CLOSE" /\ t.pc = "DISCONNECT"

NodeSession(s) ==
  /\ s \notin known_id /\ session[s] = "OPEN" => Busy("OPEN", s)
  /\ server # "ENDED" /\ session[s] = "OPEN" /\ (ws[s] = "CLOSED" \/ s \in closed)
       => \E t \in tasks : t.sock = s /\ Undoes(t)
  /\ s \in active /\ session[s] = "OPEN" /\ server \in {"DISCONNECTS", "ENDED"}
       => server = "DISCONNECTS" /\ \E t \in tasks : t.sock = s /\ Closes(t)

(* A heartbeat renews the session, or the ping that begins one comes soon. *)
Beats(t) == t.kind = "BEAT" /\ t.from = 0 /\ t.pc \in {"TOUCH", "CONNECT"}
Beating(s) == \E t \in tasks : t.sock = s /\ Beats(t)
BeatenInTime(s) ==
  /\ session[s] = "OPEN" /\ seen[s] <= 2
  /\ Beating(s) \/ seen[s] <= (IF s \in alive THEN 0 ELSE 1) + (1 - beat)

NodeInOrder ==
  /\ server # "UP" => OpenSockets = {}
  /\ \A t \in tasks : NodeHandler(t)
  /\ \A s \in Socks : NodeSession(s)
  /\ phase # "LEFT" => \A s \in Socks : Ready(s) => BeatenInTime(s)

(* An upgrade in progress is the only handler of its socket.               *)
Alone(t) ==
  /\ session'[t.sock] = session[t.sock] /\ seen'[t.sock] = seen[t.sock] /\ (t.sock \in known_id' => t.sock \in known_id)
  /\ \A u \in tasks' : u.sock = t.sock => u = t

LEMMA NodeHandlersFollow ==
  ASSUME TasksSound, NodeSockets, \A t \in tasks : NodeHandler(t),
         phase = "LEFT" => phase' = "LEFT", known_id \subseteq known_id',
         server' = server \/ (server = "UP" /\ server' = "SETUPS"),
         server' \in {"DISCONNECTS", "ENDED"} => active' = active,
         \A s \in Socks : ws[s] \notin {"OPEN", "NONE"} => ws'[s] # "OPEN",
         \A u \in tasks' : \/ NodeHandler(u)'
                           \/ u \in tasks /\ (u.kind = "OPEN" => Alone(u))
                                          /\ (u.kind = "BEAT" => seen'[u.sock] = seen[u.sock] \/ seen'[u.sock] = 0)
  PROVE  \A u \in tasks' : NodeHandler(u)'
<1> SUFFICES ASSUME NEW u \in tasks, u.kind = "OPEN" => Alone(u),
                    u.kind = "BEAT" => seen'[u.sock] = seen[u.sock] \/ seen'[u.sock] = 0
             PROVE  NodeHandler(u)'
  OBVIOUS
<1>1. u.sock \in Socks /\ NodeHandler(u) /\ ws[u.sock] # "NONE"
  BY AnswersAreVersions DEF NodeSockets
<1>2. ws[u.sock] # "OPEN" => ws'[u.sock] # "OPEN"
  BY <1>1
<1>3. CASE u.kind = "OPEN"
  BY <1>1, <1>2, <1>3 DEF NodeHandler, Alone
<1>4. CASE u.kind = "CLOSE"
  BY <1>1, <1>2, <1>4 DEF NodeHandler
<1>5. CASE u.kind = "BEAT"
  BY <1>1, <1>2, <1>5 DEF NodeHandler
<1>6. CASE u.kind \in {"POLL"} \cup CommandKinds
  BY <1>1, <1>6 DEF NodeHandler, CommandKinds
<1> QED
  BY <1>1, <1>3, <1>4, <1>5, <1>6 DEF NodeHandler

LEMMA NodeSessionFollows ==
  ASSUME NEW s \in Socks, NodeSession(s), session'[s] = "OPEN" => session[s] = "OPEN",
         s \in known_id' <=> s \in known_id, UNCHANGED <<server, active>>,
         Busy("OPEN", s) => Busy("OPEN", s)' \/ session'[s] # "OPEN",
         ws'[s] = "CLOSED" \/ s \in closed' => ws[s] = "CLOSED" \/ s \in closed \/ session'[s] # "OPEN",
         \A t \in tasks : t.sock = s /\ Undoes(t)
           => \/ session'[s] # "OPEN" \/ server = "ENDED" \/ ~(ws'[s] = "CLOSED" \/ s \in closed')
              \/ \E u \in tasks' : u.sock = s /\ Undoes(u),
         \A t \in tasks : t.sock = s /\ Closes(t)
           => session'[s] # "OPEN" \/ server = "ENDED" \/ \E u \in tasks' : u.sock = s /\ Closes(u)
  PROVE  NodeSession(s)'
<1>1. s \notin known_id' /\ session'[s] = "OPEN" => Busy("OPEN", s)'
  BY DEF NodeSession
<1>2. server' # "ENDED" /\ session'[s] = "OPEN" /\ (ws'[s] = "CLOSED" \/ s \in closed')
       => \E t \in tasks' : t.sock = s /\ Undoes(t)
  BY DEF NodeSession
<1>3. s \in active' /\ session'[s] = "OPEN" /\ server' \in {"DISCONNECTS", "ENDED"}
       => server' = "DISCONNECTS" /\ \E t \in tasks' : t.sock = s /\ Closes(t)
  BY DEF NodeSession
<1> QED
  BY <1>1, <1>2, <1>3 DEF NodeSession, Undoes, Closes

LEMMA BeatenFollows ==
  ASSUME NodeTypeOK, StoreValuesOK, NEW s \in Socks, BeatenInTime(s), session'[s] = "OPEN",
         seen'[s] = seen[s] \/ seen'[s] = 0, UNCHANGED beat,
         (s \in alive' <=> s \in alive) \/ Beating(s)' \/ seen'[s] = 0,
         \A t \in tasks : t.sock = s /\ Beats(t) => Beating(s)' \/ seen'[s] = 0
  PROVE  BeatenInTime(s)'
<1>1. seen[s] \in 0 .. StaleAfter /\ beat \in 0 .. 1
  BY DEF StoreValuesOK, NodeTypeOK
<1>2. seen[s] \in Nat /\ seen'[s] <= seen[s] /\ seen'[s] \in Nat /\ 1 - beat \in Nat /\ 1 - beat' \in Nat
  BY <1>1, Stores
<1>3. seen'[s] <= 2
  BY <1>2 DEF BeatenInTime
<1>4. CASE Beating(s)' \/ seen'[s] = 0
  BY <1>2, <1>3, <1>4 DEF BeatenInTime
<1>5. CASE ~Beating(s)' /\ seen'[s] # 0
  <2>1. ~Beating(s) /\ (s \in alive' <=> s \in alive)
    BY <1>5 DEF Beating
  <2>2. seen[s] <= (IF s \in alive THEN 0 ELSE 1) + (1 - beat)
    BY <2>1 DEF BeatenInTime
  <2>3. seen'[s] <= (IF s \in alive' THEN 0 ELSE 1) + (1 - beat')
    BY <1>2, <2>1, <2>2
  <2> QED
    BY <1>3, <2>3 DEF BeatenInTime
<1> QED
  BY <1>4, <1>5

(* A handler goes on as others, or ends; no session or client changes.     *)
LEMMA NodeGoesOn ==
  ASSUME NodeTypeOK, StoreValuesOK, TasksSound, NodeSockets, NodeInOrder,
         UNCHANGED <<session, seen, phase, ws, closed, known_id, alive, server, active, beat>>,
         NEW t \in tasks, t.kind # "OPEN", tasks \ {t} \subseteq tasks',
         \A u \in tasks' \ tasks : u.sock = t.sock /\ NodeHandler(u)',
         Undoes(t) /\ server # "ENDED" => IsCurrentClient(t.sock) \/ \E u \in tasks' : u.sock = t.sock /\ Undoes(u),
         Closes(t) \/ Beats(t) => server = "ENDED"
  PROVE  NodeInOrder'
<1>1. \A u \in tasks' : NodeHandler(u)'
  <2>1. ASSUME NEW u \in tasks, u \in tasks', u.kind = "OPEN"
        PROVE  Alone(u)
    <3>1. \A v \in tasks : v.sock = u.sock => v = u
      BY <2>1 DEF NodeInOrder, NodeHandler, CommandKinds
    <3>2. \A v \in tasks' : v.sock = u.sock => v = u
      BY <2>1, <3>1
    <3> QED
      BY <3>2 DEF Alone
  <2> QED
    BY <2>1, NodeHandlersFollow DEF NodeInOrder
<1>2. ASSUME NEW s \in Socks
      PROVE  NodeSession(s)'
  <2>1. NodeSession(s)
    BY DEF NodeInOrder
  <2>2. Busy("OPEN", s) => Busy("OPEN", s)'
    BY DEF Busy
  <2>3. \A r \in tasks : r.sock = s /\ Undoes(r)
          => \/ session'[s] # "OPEN" \/ server = "ENDED" \/ ~(ws'[s] = "CLOSED" \/ s \in closed')
             \/ \E u \in tasks' : u.sock = s /\ Undoes(u)
    BY DEF IsCurrentClient
  <2>4. \A r \in tasks : r.sock = s /\ Closes(r)
          => session'[s] # "OPEN" \/ server = "ENDED" \/ \E u \in tasks' : u.sock = s /\ Closes(u)
    OBVIOUS
  <2> QED
    BY <2>1, <2>2, <2>3, <2>4, NodeSessionFollows
<1>3. ASSUME NEW s \in Socks, phase' # "LEFT", Ready(s)'
      PROVE  BeatenInTime(s)'
  <2>1. BeatenInTime(s) /\ ws[s] = "OPEN"
    BY <1>3 DEF NodeInOrder, Ready, IsCurrentClient
  <2>2. server = "UP"
    BY <2>1 DEF NodeInOrder, OpenSockets
  <2>3. \A r \in tasks : r.sock = s /\ Beats(r) => Beating(s)'
    BY <2>2 DEF Beating, Beats
  <2> QED
    BY <2>1, <2>3, BeatenFollows DEF BeatenInTime
<1>4. server' # "UP" => OpenSockets' = {}
  BY DEF NodeInOrder, OpenSockets
<1> QED
  BY <1>1, <1>2, <1>3, <1>4 DEF NodeInOrder

LEMMA ChangedPc ==
  ASSUME NEW t \in Task, NEW pc \in Pcs
  PROVE  LET u == [t EXCEPT !.pc = pc]
         IN u.kind = t.kind /\ u.sock = t.sock /\ u.from = t.from /\ u.pc = pc
BY DEF Task

LEMMA NodeResumesInOrder ==
  ASSUME StoreTypeOK, NodeTypeOK, TasksSound, NodeSockets, NodeInOrder, NEW t \in tasks,
         \/ Beaten(t) \/ Compensated(t) \/ Polled(t) \/ PollFails(t) \/ StartCommand(t) \/ Acted(t)
         \/ SnapshotLoaded(t) \/ CommandDone(t) \/ ClientClosed(t)
         \/ ((ReadEvents(t) \/ Load(t) \/ Act(t)) /\ UNCHANGED nodeVars) \/ StatementCut(t)
  PROVE  NodeInOrder'
<1>0. StoreValuesOK /\ SocketValuesOK /\ t \in Task /\ t.sock \in Socks /\ NodeHandler(t)
  BY StoreTypeSplits, AnswersAreVersions DEF TasksSound, NodeInOrder
<1>1. UNCHANGED <<session, seen, phase, ws, closed, known_id, alive, server, active, beat>>
  BY DEF Beaten, Compensated, Polled, PollFails, StartCommand, Acted, SnapshotLoaded, CommandDone, ClientClosed,
     ReadEvents, Load, Act, StatementCut, StatementUnchanged, NodeKeeps, storeVars, socketVars, nodeVars
<1>2. {"DISCONNECT", "WAIT", "LOAD", "ACT", "LOADED", "ACTED", "EVENTS_READ", "FAILED"} \subseteq Pcs
  BY DEF Pcs, Statements, Results
<1>3. Ready(t.sock) => server = "UP"
  BY <1>0 DEF Ready, IsCurrentClient, NodeInOrder, OpenSockets
<1>4. ASSUME End(t), t.kind # "OPEN", ~Closes(t), ~Beats(t), Undoes(t) /\ server # "ENDED" => IsCurrentClient(t.sock)
      PROVE  NodeInOrder'
  BY <1>0, <1>1, <1>4, NodeGoesOn DEF End
<1>5. ASSUME t.kind \in {"POLL"} \cup CommandKinds, t.pc # "DISCONNECT", tasks \ {t} \subseteq tasks',
             \A u \in tasks' \ tasks : u.sock = t.sock /\ NodeHandler(u)'
      PROVE  NodeInOrder'
  BY <1>0, <1>1, <1>5, NodeGoesOn DEF Undoes, Closes, Beats, CommandKinds
<1>6. ASSUME t.kind \in {"POLL"} \cup CommandKinds, NEW u, u.kind = t.kind, u.sock = t.sock,
             u.pc \notin {"TOUCH", "CONNECT", "DISCONNECT", "CONNECTED"}
      PROVE  NodeHandler(u)'
  <2>1. t.sock \in known_id
    BY <1>0, <1>6 DEF NodeHandler, CommandKinds
  <2> QED
    BY <1>1, <1>6, <2>1 DEF NodeHandler
<1>7. ASSUME NEW pc \in Pcs, NEW from, NEW at, Becomes(t, pc, from, at), t.kind \in {"POLL"} \cup CommandKinds,
             pc \notin {"TOUCH", "CONNECT", "DISCONNECT", "CONNECTED"}
      PROVE  NodeInOrder'
  <2>1. PICK u \in Task : u.kind = t.kind /\ u.sock = t.sock /\ u.pc = pc /\ tasks' = (tasks \ {t}) \cup {u}
    BY <1>7 DEF Becomes
  <2>2. NodeHandler(u)' /\ t.pc # "DISCONNECT"
    BY <1>0, <1>6, <1>7, <2>1 DEF NodeHandler, CommandKinds
  <2> QED
    BY <1>5, <1>7, <2>1, <2>2
<1>8. CASE Beaten(t)
  <2>0. t.kind = "BEAT" /\ t.from = 0 /\ t.pc \in {"TOUCHED", "CONNECTED", "FAILED"}
    BY <1>8 DEF Beaten
  <2>1. CASE IsCurrentClient(t.sock)
    BY <1>4, <1>8, <2>0, <2>1 DEF Beaten, Closes, Beats
  <2>2. CASE ~IsCurrentClient(t.sock)
    <3>1. tasks' = (tasks \ {t}) \cup {[t EXCEPT !.pc = "DISCONNECT", !.from = 1]}
      BY <1>8, <2>2 DEF Beaten, Compensate
    <3>2. Becomes(t, "DISCONNECT", 1, t.at)
      BY <1>0, <1>2, <3>1, FromBecomes
    <3>3. PICK u \in Task : /\ u.kind = t.kind /\ u.sock = t.sock /\ u.pc = "DISCONNECT" /\ u.from = 1
                            /\ tasks' = (tasks \ {t}) \cup {u}
      BY <3>2 DEF Becomes
    <3>4. ws[t.sock] # "OPEN"
      BY <2>2 DEF IsCurrentClient, NodeSockets
    <3>5. t.sock \in known_id /\ (server \in {"DISCONNECTS", "ENDED"} => t.sock \notin active)
      BY <1>0, <2>0 DEF NodeHandler, CommandKinds
    <3>6. NodeHandler(u)'
      <4>1. /\ u.kind = "BEAT" /\ u.sock \in known_id' /\ u.from = 1 /\ u.pc = "DISCONNECT" /\ ws'[u.sock] # "OPEN"
            /\ server' \in {"DISCONNECTS", "ENDED"} => u.sock \notin active'
        BY <1>1, <2>0, <3>3, <3>4, <3>5
      <4> QED
        BY <4>1 DEF NodeHandler
    <3> QED
      BY <1>0, <1>1, <2>0, <3>3, <3>6, NodeGoesOn DEF Undoes, Closes, Beats
  <2> QED
    BY <2>1, <2>2
<1>9. CASE Compensated(t)
  BY <1>4, <1>9 DEF Compensated, Closes, Beats, Undoes
<1>10. CASE Polled(t)
  <2>1. t.kind = "POLL" /\ t.pc = "EVENTS_READ" /\ tasks \ {t} \subseteq tasks'
    BY <1>10 DEF Polled
  <2>2. cursor'[t.sock] \in Nat
    <3>1. cursor[t.sock] \in 0 .. MaxVersion /\ cursor \in [Socks -> 0 .. MaxVersion]
      BY <1>0 DEF SocketValuesOK
    <3>2. t.at \in Nat
      <4>1. t.at \in 0 .. MaxVersion
        BY <2>1, AnswersAreVersions DEF Versioned
      <4> QED
        BY <4>1, Stores
    <3>3. cursor[t.sock] \in Nat
      BY <3>1, Stores
    <3>4. cursor'[t.sock] = cursor[t.sock] \/ cursor'[t.sock] = CursorAfter(t)
      BY <1>0, <1>10, <3>1 DEF Polled
    <3> QED
      BY <3>2, <3>3, <3>4 DEF CursorAfter
  <2>3. ASSUME NEW u \in tasks' \ tasks
        PROVE  u.sock = t.sock /\ NodeHandler(u)'
    <3>1. u = PollTask(t.sock, cursor'[t.sock])
      BY <1>10, <2>3 DEF Polled
    <3>2. u.kind = "POLL" /\ u.sock = t.sock /\ u.pc = "EVENTS"
      BY <1>0, <2>2, <3>1, PollIsNew
    <3> QED
      BY <1>6, <2>1, <3>2
  <2> QED
    BY <1>5, <2>1, <2>3
<1>11. CASE PollFails(t) \/ SnapshotLoaded(t) \/ CommandDone(t)
  <2>1. t.kind # "OPEN" /\ t.kind # "BEAT" /\ t.kind # "CLOSE" /\ End(t)
    BY <1>0, <1>11 DEF PollFails, SnapshotLoaded, CommandDone, CommandKinds, NodeHandler
  <2>2. t.pc # "DISCONNECT"
    BY <1>11 DEF PollFails, SnapshotLoaded, CommandDone
  <2> QED
    BY <1>4, <2>1, <2>2 DEF Undoes, Closes, Beats
<1>12. CASE ClientClosed(t)
  BY <1>4, <1>12 DEF ClientClosed, Undoes, Closes, Beats
<1>13. CASE StartCommand(t)
  <2>1. t.kind \in CommandKinds /\ t.pc = "QUEUED"
    BY <1>13 DEF TasksSound, SoundIn, StartCommand
  <2>2. CASE t.kind = "PING"
    <3>1. tasks' = (tasks \ {t}) \cup {[t EXCEPT !.pc = "WAIT"]} \cup Heartbeats(t.sock)
      BY <1>13, <2>2 DEF StartCommand
    <3>2. ASSUME NEW u \in tasks' \ tasks
          PROVE  u.sock = t.sock /\ NodeHandler(u)'
      <4>1. CASE u = [t EXCEPT !.pc = "WAIT"]
        <5>1. u.kind = t.kind /\ u.sock = t.sock /\ u.pc = "WAIT"
          BY <1>0, <1>2, <4>1, ChangedPc
        <5> QED
          BY <1>6, <2>1, <5>1
      <4>2. CASE u \in Heartbeats(t.sock)
        <5>1. u.kind = "BEAT" /\ u.sock = t.sock /\ u.pc = "TOUCH" /\ u.from = 0 /\ Ready(t.sock)
          BY <1>0, <4>2, BeatsAreOfReady
        <5> QED
          BY <1>1, <1>3, <5>1 DEF NodeHandler, Ready
      <4> QED
        BY <3>1, <3>2, <4>1, <4>2
    <3> QED
      BY <1>5, <2>1, <3>1, <3>2
  <2>3. CASE t.kind = "SNAPSHOT"
    BY <1>0, <1>2, <1>7, <1>13, <2>1, <2>3, GoBecomes DEF StartCommand
  <2>4. CASE t.kind = "ACT"
    BY <1>0, <1>2, <1>7, <1>13, <2>1, <2>4, GoBecomes DEF StartCommand
  <2> QED
    BY <2>1, <2>2, <2>3, <2>4 DEF CommandKinds
<1>14. CASE Acted(t)
  <2>1. t.kind \in {"POLL"} \cup CommandKinds /\ t.pc = "ACTED"
    BY <1>0, <1>14 DEF NodeHandler, Acted
  <2>2. tasks' = (tasks \ {t}) \cup {[t EXCEPT !.pc = "WAIT"]} \cup Polls(t.sock)
    BY <1>14 DEF Acted
  <2>3. ASSUME NEW u \in tasks' \ tasks
        PROVE  u.sock = t.sock /\ NodeHandler(u)'
    <3>1. CASE u = [t EXCEPT !.pc = "WAIT"]
      <4>1. u.kind = t.kind /\ u.sock = t.sock /\ u.pc = "WAIT"
        BY <1>0, <1>2, <3>1, ChangedPc
      <4> QED
        BY <1>6, <2>1, <4>1
    <3>2. CASE u \in Polls(t.sock)
      <4>1. u.kind = "POLL" /\ u.sock = t.sock /\ u.pc = "EVENTS" /\ Ready(t.sock)
        BY <1>0, <3>2, PollsAreOfReady
      <4> QED
        BY <1>1, <4>1 DEF NodeHandler, Ready
    <3> QED
      BY <2>2, <2>3, <3>1, <3>2
  <2> QED
    BY <1>5, <2>1, <2>2, <2>3
<1>15. CASE ReadEvents(t) \/ Load(t) \/ Act(t)
  <2>1. t.kind \in {"POLL"} \cup CommandKinds
    BY <1>0, <1>15 DEF NodeHandler, ReadEvents, Load, Act
  <2>2. CASE ReadEvents(t)
    <3> DEFINE at == IF version < t.from + Limit THEN version ELSE t.from + Limit
    <3>1. at \in Int
      <4>1. version \in Int /\ t.from \in Int /\ Limit \in Int
        BY <1>0, Stores, AnswersAreVersions DEF StoreValuesOK
      <4> QED
        BY <4>1
    <3>2. GoWith(t, "EVENTS_READ", at)
      BY <2>2 DEF ReadEvents
    <3> HIDE DEF at
    <3> QED
      BY <1>0, <1>2, <1>7, <2>1, <3>1, <3>2, GoWithBecomes
  <2>3. CASE Load(t)
    <3>1. GoWith(t, "LOADED", version) /\ version \in Int
      BY <1>0, <2>3, Stores DEF Load, StoreValuesOK
    <3> QED
      BY <1>0, <1>2, <1>7, <2>1, <3>1, GoWithBecomes
  <2>4. CASE Act(t)
    BY <1>0, <1>2, <1>7, <2>1, <2>4, GoBecomes DEF Act
  <2> QED
    BY <1>15, <2>2, <2>3, <2>4
<1>16. CASE StatementCut(t)
  <2>1. server = "ENDED" /\ Go(t, "FAILED") /\ t.pc \in Statements
    BY <1>16 DEF StatementCut
  <2>2. PICK u \in Task : /\ u.kind = t.kind /\ u.sock = t.sock /\ u.from = t.from /\ u.pc = "FAILED"
                          /\ tasks' = (tasks \ {t}) \cup {u}
    BY <1>0, <1>2, <2>1, GoBecomes DEF Becomes
  <2>3. t.kind # "OPEN"
    BY <1>0, <2>1 DEF NodeHandler, CommandKinds
  <2>4. NodeHandler(u)'
    BY <1>0, <1>1, <2>1, <2>2, <2>3 DEF NodeHandler
  <2> QED
    BY <1>0, <1>1, <2>1, <2>2, <2>3, <2>4, NodeGoesOn
<1> QED
  BY <1>8, <1>9, <1>10, <1>11, <1>12, <1>13, <1>14, <1>15, <1>16

(* A statement of handler t, which concerns its own session only.          *)
LEMMA NodeStores ==
  ASSUME NodeTypeOK, StoreValuesOK, TasksSound, NodeSockets, NodeInOrder,
         UNCHANGED <<ws, nodeVars>>, phase = "LEFT" => phase' = "LEFT",
         NEW t \in tasks, NEW u, u.kind = t.kind, u.sock = t.sock, tasks' = (tasks \ {t}) \cup {u},
         NodeHandler(u)',
         \A s \in Socks \ {t.sock} : session'[s] = session[s] /\ seen'[s] = seen[s],
         seen'[t.sock] = seen[t.sock] \/ seen'[t.sock] = 0,
         NodeSession(t.sock)',
         Ready(t.sock) /\ phase' # "LEFT" => session'[t.sock] = "OPEN" /\ (Beats(t) => Beats(u) \/ seen'[t.sock] = 0)
  PROVE  NodeInOrder'
<1>0. t.sock \in Socks /\ UNCHANGED <<closed, known_id, alive, server, active, beat>>
  BY AnswersAreVersions DEF nodeVars
<1>1. \A r \in tasks' : NodeHandler(r)'
  <2>1. ASSUME NEW r \in tasks, r # t, r.kind = "OPEN"
        PROVE  Alone(r)
    <3>1. \A v \in tasks : v.sock = r.sock => v = r
      BY <2>1 DEF NodeInOrder, NodeHandler, CommandKinds
    <3>2. r.sock # t.sock /\ r.sock \in Socks
      BY <2>1, <3>1, AnswersAreVersions
    <3> QED
      BY <1>0, <3>1, <3>2 DEF Alone
  <2>2. ASSUME NEW r \in tasks
        PROVE  seen'[r.sock] = seen[r.sock] \/ seen'[r.sock] = 0
    BY AnswersAreVersions
  <2> QED
    BY <1>0, <2>1, <2>2, NodeHandlersFollow DEF NodeInOrder
<1>2. ASSUME NEW s \in Socks
      PROVE  NodeSession(s)'
  <2>1. CASE s # t.sock
    <3>1. NodeSession(s) /\ session'[s] = session[s]
      BY <2>1 DEF NodeInOrder
    <3>2. \A r \in tasks : r.sock = s => r \in tasks'
      BY <2>1
    <3>3. Busy("OPEN", s) => Busy("OPEN", s)'
      BY <3>2 DEF Busy
    <3> QED
      BY <1>0, <3>1, <3>2, <3>3, NodeSessionFollows
  <2> QED
    BY <2>1
<1>3. ASSUME NEW s \in Socks, phase' # "LEFT", Ready(s)'
      PROVE  BeatenInTime(s)'
  <2>1. BeatenInTime(s) /\ Ready(s)
    BY <1>0, <1>3 DEF NodeInOrder, Ready, IsCurrentClient
  <2>2. session'[s] = "OPEN"
    BY <1>3, <2>1 DEF BeatenInTime
  <2>3. \A r \in tasks : r.sock = s /\ Beats(r) => Beating(s)' \/ seen'[s] = 0
    BY <1>3, <2>1 DEF Beating, Beats
  <2> QED
    BY <1>0, <2>1, <2>2, <2>3, BeatenFollows
<1>4. server' # "UP" => OpenSockets' = {}
  BY <1>0 DEF NodeInOrder, OpenSockets
<1> QED
  BY <1>1, <1>2, <1>3, <1>4 DEF NodeInOrder

LEMMA NodeTouchInOrder ==
  ASSUME StoreTypeOK, NodeTypeOK, TasksSound, NodeSockets, NodeInOrder, NEW t \in tasks, Touch(t), UNCHANGED nodeVars
  PROVE  NodeInOrder'
<1>0. StoreValuesOK /\ t \in Task /\ t.sock \in Socks /\ NodeHandler(t) /\ t.pc = "TOUCH"
  BY StoreTypeSplits, AnswersAreVersions DEF TasksSound, NodeInOrder, Touch
<1>1. t.kind = "BEAT" /\ t.from = 0 /\ t.sock \in known_id
  BY <1>0 DEF NodeHandler, CommandKinds
<1>2. UNCHANGED <<session, phase, ws, closed, known_id, alive, server, active, beat>>
  BY DEF Touch, StatementUnchanged, socketVars, nodeVars
<1>3. /\ \A s \in Socks \ {t.sock} : seen'[s] = seen[s]
      /\ \/ seen'[t.sock] = 0 /\ Go(t, "TOUCHED")
         \/ seen' = seen /\ Go(t, "CONNECT")
  BY <1>0 DEF Touch, StoreValuesOK
<1>4. PICK pc \in {"TOUCHED", "CONNECT"} : Go(t, pc) /\ (pc = "TOUCHED" => seen'[t.sock] = 0)
  BY <1>3
<1>5. pc \in Pcs
  BY DEF Pcs, Statements, Results
<1>6. PICK u \in Task : /\ u.kind = t.kind /\ u.sock = t.sock /\ u.from = t.from /\ u.pc = pc
                        /\ tasks' = (tasks \ {t}) \cup {u}
  BY <1>0, <1>4, <1>5, GoBecomes DEF Becomes
<1>7. NodeHandler(u)'
  <2>1. server \in {"DISCONNECTS", "ENDED"} => t.sock \notin active
    BY <1>0, <1>1 DEF NodeHandler
  <2>2. /\ u.kind = "BEAT" /\ u.sock \in known_id' /\ u.from = 0 /\ u.pc \in {"TOUCHED", "CONNECT"}
        /\ server' \in {"DISCONNECTS", "ENDED"} => u.sock \notin active'
        /\ u.pc = "TOUCHED" => seen'[u.sock] = 0
    BY <1>1, <1>2, <1>4, <1>6, <2>1
  <2> QED
    BY <2>2 DEF NodeHandler
<1>8. NodeSession(t.sock)'
  <2>1. \A r \in tasks : r.sock = t.sock /\ Undoes(r) => \E v \in tasks' : v.sock = t.sock /\ Undoes(v)
    BY <1>1, <1>6 DEF Undoes
  <2>2. \A r \in tasks : r.sock = t.sock /\ Closes(r) => \E v \in tasks' : v.sock = t.sock /\ Closes(v)
    BY <1>1, <1>6 DEF Closes
  <2>3. Busy("OPEN", t.sock) => Busy("OPEN", t.sock)'
    BY <1>1, <1>6 DEF Busy
  <2>4. NodeSession(t.sock)
    BY <1>0 DEF NodeInOrder
  <2> QED
    BY <1>0, <1>2, <2>1, <2>2, <2>3, <2>4, NodeSessionFollows
<1>9. Ready(t.sock) /\ phase' # "LEFT" => session'[t.sock] = "OPEN" /\ (Beats(t) => Beats(u) \/ seen'[t.sock] = 0)
  BY <1>0, <1>1, <1>2, <1>4, <1>6 DEF NodeInOrder, BeatenInTime, Beats
<1> QED
  BY <1>0, <1>2, <1>3, <1>6, <1>7, <1>8, <1>9, NodeStores

LEMMA NodeConnectInOrder ==
  ASSUME StoreTypeOK, NodeTypeOK, TasksSound, NodeSockets, NodeInOrder, NEW t \in tasks, Connect(t), UNCHANGED nodeVars
  PROVE  NodeInOrder'
<1>0. StoreValuesOK /\ t \in Task /\ t.sock \in Socks /\ NodeHandler(t) /\ t.pc = "CONNECT"
  BY StoreTypeSplits, AnswersAreVersions DEF TasksSound, NodeInOrder, Connect
<1>1. \/ t.kind = "OPEN" /\ t.sock \notin known_id /\ session[t.sock] # "OPEN" /\ \A r \in tasks : r.sock = t.sock => r = t
      \/ t.kind = "BEAT" /\ t.from = 0 /\ t.sock \in known_id /\ (server \in {"DISCONNECTS", "ENDED"} => t.sock \notin active)
  BY <1>0 DEF NodeHandler, CommandKinds
<1>2. UNCHANGED <<ws, closed, known_id, alive, server, active, beat>>
  BY DEF Connect, StatementUnchanged, socketVars, nodeVars
<1>3. \A s \in Socks \ {t.sock} : session'[s] = session[s] /\ seen'[s] = seen[s]
  BY <1>0 DEF Connect, Connected, StoreValuesOK
<1>4. \/ phase = "LEFT" /\ Go(t, "FAILED") /\ UNCHANGED <<session, seen, phase>>
      \/ phase # "LEFT" /\ GoWith(t, "CONNECTED", version) /\ session'[t.sock] = "OPEN" /\ seen'[t.sock] = 0
  BY <1>0 DEF Connect, Connected, StoreValuesOK
<1>5. PICK pc \in {"FAILED", "CONNECTED"} :
        /\ pc = "FAILED" => phase = "LEFT" /\ Go(t, "FAILED") /\ UNCHANGED <<session, seen, phase>>
        /\ pc = "CONNECTED" => GoWith(t, "CONNECTED", version) /\ session'[t.sock] = "OPEN" /\ seen'[t.sock] = 0
  BY <1>4
<1>6. PICK u \in Task : /\ u.kind = t.kind /\ u.sock = t.sock /\ u.from = t.from /\ u.pc = pc
                        /\ tasks' = (tasks \ {t}) \cup {u}
  <2>1. "FAILED" \in Pcs /\ "CONNECTED" \in Pcs /\ version \in Int
    BY <1>0, Stores DEF Pcs, Results, StoreValuesOK
  <2> QED
    BY <1>0, <1>5, <2>1, GoBecomes, GoWithBecomes DEF Becomes
<1>7. NodeHandler(u)'
  <2>1. CASE t.kind = "OPEN"
    <3>1. server \in {"UP", "SETUPS"}
      BY <1>0, <2>1 DEF NodeHandler, CommandKinds
    <3>2. /\ u.kind = "OPEN" /\ u.pc \in {"CONNECTED", "FAILED"} /\ server' \in {"UP", "SETUPS"}
          /\ \A r \in tasks' : r.sock = u.sock => r = u
          /\ u.sock \notin known_id'
          /\ u.pc = "CONNECTED" => session'[u.sock] = "OPEN" /\ seen'[u.sock] = 0
          /\ u.pc = "FAILED" => session'[u.sock] # "OPEN"
      BY <1>1, <1>2, <1>5, <1>6, <2>1, <3>1
    <3> QED
      BY <3>2 DEF NodeHandler
  <2>2. CASE t.kind = "BEAT"
    <3>1. /\ u.kind = "BEAT" /\ u.sock \in known_id' /\ u.from = 0 /\ u.pc \in {"CONNECTED", "FAILED"}
          /\ server' \in {"DISCONNECTS", "ENDED"} => u.sock \notin active'
          /\ u.pc = "FAILED" => phase' = "LEFT"
          /\ u.pc = "CONNECTED" => seen'[u.sock] = 0
      BY <1>1, <1>2, <1>5, <1>6, <2>2
    <3> QED
      BY <3>1 DEF NodeHandler
  <2> QED
    BY <1>1, <2>1, <2>2
<1>8. NodeSession(t.sock)'
  <2>1. u \in tasks' /\ u.sock = t.sock
    BY <1>6
  <2>2. CASE pc = "FAILED"
    <3>1. \A r \in tasks : r.sock = t.sock /\ Undoes(r) => session[t.sock] # "OPEN" \/ \E v \in tasks' : v.sock = t.sock /\ Undoes(v)
      BY <1>1, <1>6 DEF Undoes
    <3>2. \A r \in tasks : r.sock = t.sock /\ Closes(r) => \E v \in tasks' : v.sock = t.sock /\ Closes(v)
      BY <1>1, <1>6 DEF Closes
    <3>3. Busy("OPEN", t.sock) => Busy("OPEN", t.sock)'
      BY <1>6 DEF Busy
    <3>4. NodeSession(t.sock)
      BY <1>0 DEF NodeInOrder
    <3> QED
      BY <1>0, <1>2, <1>5, <2>2, <3>1, <3>2, <3>3, <3>4, NodeSessionFollows
  <2>3. CASE pc = "CONNECTED" /\ t.kind = "OPEN"
    <3>1. Undoes(u) /\ Busy("OPEN", t.sock)'
      BY <1>6, <2>1, <2>3 DEF Undoes, Busy
    <3>2. server' \notin {"DISCONNECTS", "ENDED"}
      BY <1>0, <1>2, <2>3 DEF NodeHandler, CommandKinds
    <3>3. Undoes(u)'
      BY <3>1 DEF Undoes
    <3> QED
      BY <2>1, <3>1, <3>2, <3>3 DEF NodeSession
  <2>4. CASE pc = "CONNECTED" /\ t.kind = "BEAT"
    <3>1. Undoes(u) /\ t.sock \in known_id' /\ ~(t.sock \in active' /\ server' \in {"DISCONNECTS", "ENDED"})
      BY <1>1, <1>2, <1>6, <2>4 DEF Undoes
    <3>2. Undoes(u)'
      BY <3>1 DEF Undoes
    <3> QED
      BY <2>1, <3>1, <3>2 DEF NodeSession
  <2> QED
    BY <1>1, <2>2, <2>3, <2>4
<1>9. Ready(t.sock) /\ phase' # "LEFT" => session'[t.sock] = "OPEN" /\ (Beats(t) => Beats(u) \/ seen'[t.sock] = 0)
  BY <1>5
<1>10. (phase = "LEFT" => phase' = "LEFT") /\ (seen'[t.sock] = seen[t.sock] \/ seen'[t.sock] = 0)
  BY <1>4, <1>5
<1> QED
  BY <1>0, <1>2, <1>3, <1>6, <1>7, <1>8, <1>9, <1>10, NodeStores

LEMMA NodeDisconnectInOrder ==
  ASSUME StoreTypeOK, NodeTypeOK, TasksSound, NodeSockets, NodeInOrder, NEW t \in tasks, Disconnect(t), UNCHANGED nodeVars
  PROVE  NodeInOrder'
<1>0. StoreValuesOK /\ t \in Task /\ t.sock \in Socks /\ NodeHandler(t) /\ t.pc = "DISCONNECT"
  BY StoreTypeSplits, AnswersAreVersions DEF TasksSound, NodeInOrder, Disconnect
<1>1. /\ t.kind \in {"OPEN", "CLOSE", "BEAT"} /\ t.sock \in known_id /\ ws[t.sock] # "OPEN"
      /\ t.kind = "BEAT" => t.from = 1
  BY <1>0 DEF NodeHandler, CommandKinds
<1>2. UNCHANGED <<seen, phase, ws, closed, known_id, alive, server, active, beat>> /\ Go(t, "DISCONNECTED")
  BY DEF Disconnect, StatementUnchanged, socketVars, nodeVars
<1>3. /\ \A s \in Socks \ {t.sock} : session'[s] = session[s]
      /\ session'[t.sock] # "OPEN"
  BY <1>0 DEF Disconnect, Shut, Open
<1>4. PICK u \in Task : /\ u.kind = t.kind /\ u.sock = t.sock /\ u.from = t.from /\ u.pc = "DISCONNECTED"
                        /\ tasks' = (tasks \ {t}) \cup {u}
  <2>1. "DISCONNECTED" \in Pcs
    BY DEF Pcs, Results
  <2> QED
    BY <1>0, <1>2, <2>1, GoBecomes DEF Becomes
<1>5. NodeHandler(u)'
  <2>1. CASE t.kind = "OPEN"
    <3>1. server \in {"UP", "SETUPS"} /\ \A r \in tasks : r.sock = t.sock => r = t
      BY <1>0, <2>1 DEF NodeHandler, CommandKinds
    <3>2. /\ u.kind = "OPEN" /\ u.pc = "DISCONNECTED" /\ server' \in {"UP", "SETUPS"}
          /\ \A r \in tasks' : r.sock = u.sock => r = u
          /\ u.sock \in known_id' /\ ws'[u.sock] # "OPEN" /\ session'[u.sock] # "OPEN"
      BY <1>1, <1>2, <1>3, <1>4, <2>1, <3>1
    <3> QED
      BY <3>2 DEF NodeHandler
  <2>2. CASE t.kind = "CLOSE"
    <3>1. u.kind = "CLOSE" /\ u.pc = "DISCONNECTED" /\ u.sock \in known_id' /\ ws'[u.sock] # "OPEN"
      BY <1>1, <1>2, <1>4, <2>2
    <3> QED
      BY <3>1 DEF NodeHandler
  <2>3. CASE t.kind = "BEAT"
    <3>1. server \in {"DISCONNECTS", "ENDED"} => t.sock \notin active
      BY <1>0, <2>3 DEF NodeHandler, CommandKinds
    <3>2. /\ u.kind = "BEAT" /\ u.pc = "DISCONNECTED" /\ u.sock \in known_id' /\ ws'[u.sock] # "OPEN" /\ u.from = 1
          /\ server' \in {"DISCONNECTS", "ENDED"} => u.sock \notin active'
      BY <1>1, <1>2, <1>4, <2>3, <3>1
    <3> QED
      BY <3>2 DEF NodeHandler
  <2> QED
    BY <1>1, <2>1, <2>2, <2>3
<1>6. NodeSession(t.sock)'
  BY <1>3 DEF NodeSession
<1>7. ~Ready(t.sock)
  BY <1>1 DEF Ready, IsCurrentClient
<1> QED
  BY <1>0, <1>2, <1>3, <1>4, <1>5, <1>6, <1>7, NodeStores

(* A step that concerns one client.                                        *)
LEMMA NodeLocal ==
  ASSUME NodeTypeOK, StoreValuesOK, TasksSound, NodeSockets, NodeInOrder, NEW s \in Socks,
         UNCHANGED <<session, seen, phase, server, active, beat>>, known_id \subseteq known_id',
         \A r \in Socks \ {s} : /\ ws'[r] = ws[r] /\ (r \in closed' <=> r \in closed)
                                /\ (r \in known_id' <=> r \in known_id) /\ (r \in alive' <=> r \in alive),
         ws[s] \notin {"OPEN", "NONE"} => ws'[s] # "OPEN",
         \A u \in tasks : u.sock # s => u \in tasks',
         \A u \in tasks' : u.sock # s => u \in tasks,
         \A u \in tasks' : u.sock = s => NodeHandler(u)' \/ (u \in tasks /\ (u.kind = "OPEN" => Alone(u))),
         NodeSession(s)',
         ws'[s] = "OPEN" => server = "UP",
         phase # "LEFT" /\ Ready(s)' => BeatenInTime(s)'
  PROVE  NodeInOrder'
<1>1. \A u \in tasks' : NodeHandler(u)'
  <2>1. ASSUME NEW u \in tasks, u \in tasks', u.sock # s, u.kind = "OPEN"
        PROVE  Alone(u)
    <3>1. u.sock \in Socks /\ \A v \in tasks : v.sock = u.sock => v = u
      BY <2>1, AnswersAreVersions DEF NodeInOrder, NodeHandler, CommandKinds
    <3> QED
      BY <2>1, <3>1 DEF Alone
  <2>2. \A u \in tasks' : \/ NodeHandler(u)'
                          \/ u \in tasks /\ (u.kind = "OPEN" => Alone(u))
                                         /\ (u.kind = "BEAT" => seen'[u.sock] = seen[u.sock] \/ seen'[u.sock] = 0)
    BY <2>1
  <2>3. \A r \in Socks : ws[r] \notin {"OPEN", "NONE"} => ws'[r] # "OPEN"
    OBVIOUS
  <2> QED
    BY <2>2, <2>3, NodeHandlersFollow DEF NodeInOrder
<1>2. ASSUME NEW r \in Socks, r # s
      PROVE  NodeSession(r)'
  <2>1. NodeSession(r) /\ (\A u \in tasks : u.sock = r => u \in tasks') /\ (Busy("OPEN", r) => Busy("OPEN", r)')
    BY <1>2 DEF NodeInOrder, Busy
  <2> QED
    BY <1>2, <2>1, NodeSessionFollows
<1>3. ASSUME NEW r \in Socks, r # s, phase' # "LEFT", Ready(r)'
      PROVE  BeatenInTime(r)'
  <2>1. BeatenInTime(r) /\ session'[r] = "OPEN"
    BY <1>3 DEF NodeInOrder, Ready, IsCurrentClient, BeatenInTime
  <2>2. \A u \in tasks : u.sock = r /\ Beats(u) => Beating(r)'
    BY <1>3 DEF Beating, Beats
  <2> QED
    BY <1>3, <2>1, <2>2, BeatenFollows
<1>4. server' # "UP" => OpenSockets' = {}
  BY DEF NodeInOrder, OpenSockets
<1> QED
  BY <1>1, <1>2, <1>3, <1>4 DEF NodeInOrder

(* A client that is ready has no setup in progress.                        *)
LEMMA ReadyIsSetUp ==
  ASSUME NodeInOrder, NEW s \in Socks, Ready(s)
  PROVE  server = "UP" /\ ws[s] = "OPEN" /\ s \in known_id /\ \A u \in tasks : u.sock = s => u.kind # "OPEN"
<1>1. ws[s] = "OPEN" /\ s \in known_id
  BY DEF Ready, IsCurrentClient
<1>2. server = "UP"
  BY <1>1 DEF NodeInOrder, OpenSockets
<1>3. \A u \in tasks : u.sock = s => u.kind # "OPEN"
  BY <1>1 DEF NodeInOrder, NodeHandler, CommandKinds
<1> QED
  BY <1>1, <1>2, <1>3

LEMMA BeatIsNear ==
  ASSUME NEW b \in 0 .. 1
  PROVE  1 - b \in 0 .. 1 /\ 0 <= 0 + (1 - b) /\ 0 <= 1 + (1 - b)
OBVIOUS

LEMMA SetupsInOrder ==
  ASSUME StoreTypeOK, NodeTypeOK, TasksSound, NodeSockets, NodeInOrder, NEW t \in tasks, Activate(t) \/ SetupEnds(t)
  PROVE  NodeInOrder'
<1> DEFINE s == t.sock
<1>0. /\ StoreValuesOK /\ SocketValuesOK /\ t \in Task /\ s \in Socks /\ NodeHandler(t) /\ t.kind = "OPEN"
      /\ known_id \subseteq Socks /\ closed \subseteq Socks
  BY StoreTypeSplits, AnswersAreVersions DEF TasksSound, NodeInOrder, Activate, SetupEnds, NodeTypeOK
<1>1. /\ server \in {"UP", "SETUPS"} /\ \A u \in tasks : u.sock = s => u = t
      /\ t.pc = "CONNECTED" => session[s] = "OPEN" /\ seen[s] = 0
      /\ t.pc \in {"DISCONNECTED", "FAILED"} => session[s] # "OPEN"
  BY <1>0 DEF NodeHandler, CommandKinds
<1>2. UNCHANGED <<session, seen, phase, server, active, beat, alive>>
  BY DEF Activate, SetupEnds, NodeKeeps, storeVars
<1>3. CASE Activate(t)
  <2>1. t.pc = "CONNECTED" /\ known_id' = known_id \cup {s} /\ UNCHANGED <<ws, closed>>
    BY <1>3 DEF Activate
  <2>2. CASE IsCurrentClient(s)
    <3>1. tasks' = tasks \ {t}
      BY <1>3, <2>2 DEF Activate, End
    <3>2. NodeSession(s)'
      BY <1>1, <1>2, <2>1, <2>2 DEF NodeSession, IsCurrentClient
    <3>3. BeatenInTime(s)'
      <4>1. beat' \in 0 .. 1
        BY <1>2 DEF NodeTypeOK
      <4>2. session'[s] = "OPEN" /\ seen'[s] = 0
        BY <1>1, <1>2, <2>1
      <4>3. 0 <= 0 + (1 - beat') /\ 0 <= 1 + (1 - beat')
        BY <4>1, BeatIsNear
      <4>4. CASE s \in alive'
        BY <4>2, <4>3, <4>4 DEF BeatenInTime
      <4>5. CASE s \notin alive'
        BY <4>2, <4>3, <4>5 DEF BeatenInTime
      <4> QED
        BY <4>4, <4>5
    <3>4. ws[s] = "OPEN" => server = "UP"
      BY <1>0 DEF NodeInOrder, OpenSockets
    <3>5. \A u \in tasks' : u.sock # s /\ u \in tasks
      BY <1>1, <3>1
    <3>6. \A u \in tasks : u.sock # s => u \in tasks'
      BY <3>1
    <3> HIDE DEF s
    <3> QED
      BY <1>0, <1>2, <2>1, <3>2, <3>3, <3>4, <3>5, <3>6, NodeLocal
  <2>3. CASE ~IsCurrentClient(s)
    <3>0. Go(t, "DISCONNECT") /\ "DISCONNECT" \in Pcs
      BY <1>3, <2>3 DEF Activate, Pcs, Statements
    <3>1. PICK u \in Task : u.kind = "OPEN" /\ u.sock = s /\ u.pc = "DISCONNECT" /\ tasks' = (tasks \ {t}) \cup {u}
      BY <1>0, <3>0, GoBecomes DEF Becomes
    <3>2. ws[s] # "OPEN"
      BY <2>3 DEF IsCurrentClient, NodeSockets
    <3>3. NodeHandler(u)'
      <4>1. /\ server' \in {"UP", "SETUPS"} /\ \A r \in tasks' : r.sock = u.sock => r = u
            /\ u.sock \in known_id' /\ ws'[u.sock] # "OPEN"
        BY <1>1, <1>2, <2>1, <3>1, <3>2
      <4> QED
        BY <3>1, <4>1 DEF NodeHandler
    <3>4. NodeSession(s)'
      BY <1>1, <1>2, <2>1, <3>1 DEF NodeSession, Undoes
    <3>5. \A r \in tasks' : r.sock = s => r = u
      BY <1>1, <3>1
    <3>6. (\A r \in tasks : r.sock # s => r \in tasks') /\ (\A r \in tasks' : r.sock # s => r \in tasks)
      BY <3>1
    <3>7. ~Ready(s)'
      BY <2>1, <3>2 DEF Ready, IsCurrentClient
    <3> HIDE DEF s
    <3> QED
      BY <1>0, <1>2, <2>1, <3>2, <3>3, <3>4, <3>5, <3>6, <3>7, NodeLocal
  <2> QED
    BY <2>2, <2>3
<1>4. CASE SetupEnds(t)
  <2>1. /\ tasks' = tasks \ {t} /\ UNCHANGED known_id
        /\ ws'[s] # "OPEN" /\ \A r \in Socks \ {s} : ws'[r] = ws[r]
        /\ closed \subseteq closed' /\ closed' \subseteq closed \cup {s}
    BY <1>0, <1>4 DEF SetupEnds, End, SocketValuesOK
  <2>2. session'[s] # "OPEN"
    BY <1>1, <1>2, <1>4 DEF SetupEnds
  <2>3. NodeSession(s)'
    BY <2>2 DEF NodeSession
  <2>4. ~Ready(s)'
    BY <2>1 DEF Ready, IsCurrentClient
  <2>5. \A u \in tasks' : u.sock # s /\ u \in tasks
    BY <1>1, <2>1
  <2>6. \A u \in tasks : u.sock # s => u \in tasks'
    BY <2>1
  <2> HIDE DEF s
  <2> QED
    BY <1>0, <1>2, <2>1, <2>3, <2>4, <2>5, <2>6, NodeLocal
<1> QED
  BY <1>3, <1>4

LEMMA AcceptConnectionInOrder ==
  ASSUME StoreTypeOK, NodeTypeOK, TasksSound, NodeSockets, NodeInOrder, NEW s \in Socks, AcceptConnection(s)
  PROVE  NodeInOrder'
<1> DEFINE u == NewTask("OPEN", s, 0, "CONNECT")
<1>0. StoreValuesOK /\ SocketValuesOK
  BY StoreTypeSplits
<1>1. /\ UNCHANGED <<session, seen, phase, server, active, beat, closed, known_id>> /\ server = "UP"
      /\ tasks' = tasks \cup {u} /\ alive' = alive \cup {s}
  BY DEF AcceptConnection, MayAccept, Start, storeVars
<1>2. u.kind = "OPEN" /\ u.pc = "CONNECT" /\ u.sock = s
  BY DEF NewTask
<1> HIDE DEF u
<1>3. ws[s] = "NONE" /\ ws'[s] = "OPEN" /\ \A r \in Socks \ {s} : ws'[r] = ws[r]
  BY <1>0 DEF AcceptConnection, SocketValuesOK
<1>4. s \notin known_id /\ \A r \in tasks : r.sock # s
  BY <1>3 DEF NodeSockets
<1>5. session[s] # "OPEN"
  BY <1>4 DEF NodeInOrder, NodeSession, Busy
<1>6. NodeHandler(u)'
  <2>1. /\ server' \in {"UP", "SETUPS"} /\ \A r \in tasks' : r.sock = u.sock => r = u
        /\ u.sock \notin known_id' /\ session'[u.sock] # "OPEN"
    BY <1>1, <1>2, <1>4, <1>5
  <2> QED
    BY <1>2, <2>1 DEF NodeHandler
<1>7. NodeSession(s)'
  BY <1>1, <1>5 DEF NodeSession
<1>8. ~Ready(s)'
  BY <1>1, <1>4 DEF Ready
<1>9. (\A r \in tasks' : r.sock = s => r = u) /\ (\A r \in tasks' : r.sock # s => r \in tasks)
  BY <1>1, <1>2, <1>4
<1> QED
  BY <1>0, <1>1, <1>3, <1>6, <1>7, <1>8, <1>9, NodeLocal

LEMMA ClientClosesInOrder ==
  ASSUME StoreTypeOK, NodeTypeOK, TasksSound, NodeSockets, NodeInOrder, NEW s \in Socks, ClientCloses(s)
  PROVE  NodeInOrder'
<1> DEFINE u == NewTask("CLOSE", s, 0, "DISCONNECT")
<1>0. StoreValuesOK /\ SocketValuesOK /\ \A r \in tasks : NodeHandler(r)
  BY StoreTypeSplits DEF NodeInOrder
<1>1. /\ UNCHANGED <<session, seen, phase, server, active, beat, known_id, alive>> /\ closed' = closed \cup {s}
      /\ IF s \in known_id /\ ~Busy("OPEN", s) /\ s \notin closed THEN tasks' = tasks \cup {u} ELSE tasks' = tasks
  BY DEF ClientCloses, Start, NodeKeeps, storeVars
<1>2. u.kind = "CLOSE" /\ u.pc = "DISCONNECT" /\ u.sock = s
  BY DEF NewTask
<1> HIDE DEF u
<1>3. ws[s] = "CLOSING" /\ ws'[s] = "CLOSED" /\ \A r \in Socks \ {s} : ws'[r] = ws[r]
  BY <1>0 DEF ClientCloses, SocketValuesOK
<1>4. NodeSession(s)
  BY DEF NodeInOrder
<1>5. ~Ready(s)'
  BY <1>3 DEF Ready, IsCurrentClient
<1>6. CASE s \in known_id /\ ~Busy("OPEN", s) /\ s \notin closed
  <2>1. tasks' = tasks \cup {u}
    BY <1>1, <1>6
  <2>2. NodeHandler(u)'
    BY <1>1, <1>2, <1>3, <1>6 DEF NodeHandler
  <2>3. NodeSession(s)'
    <3>1. Undoes(u)' /\ (\A r \in tasks : Closes(r) => Closes(r)')
      BY <1>2 DEF Undoes, Closes
    <3> QED
      BY <1>1, <1>2, <1>4, <1>6, <2>1, <3>1 DEF NodeSession
  <2>4. \A r \in tasks' : r.sock = s => NodeHandler(r)' \/ (r \in tasks /\ r.kind # "OPEN")
    BY <1>6, <2>1, <2>2 DEF Busy
  <2> QED
    BY <1>0, <1>1, <1>2, <1>3, <1>5, <2>1, <2>3, <2>4, NodeLocal
<1>7. CASE ~(s \in known_id /\ ~Busy("OPEN", s) /\ s \notin closed)
  <2>1. tasks' = tasks
    BY <1>1, <1>7
  <2>2. ASSUME server # "ENDED", session[s] = "OPEN"
        PROVE  \E r \in tasks : r.sock = s /\ Undoes(r)
    <3>1. CASE s \in closed
      BY <1>4, <2>2, <3>1 DEF NodeSession
    <3>2. CASE s \notin closed
      <4>1. PICK r \in tasks : r.kind = "OPEN" /\ r.sock = s
        BY <1>4, <1>7, <2>2, <3>2 DEF NodeSession, Busy
      <4>2. r.pc \in {"CONNECTED", "DISCONNECT"}
        BY <1>0, <2>2, <4>1 DEF NodeHandler, CommandKinds
      <4> QED
        BY <4>1, <4>2 DEF Undoes
    <3> QED
      BY <3>1, <3>2
  <2>3. NodeSession(s)'
    <3>1. server' # "ENDED" /\ session'[s] = "OPEN" => \E r \in tasks' : r.sock = s /\ Undoes(r)'
      BY <1>1, <2>1, <2>2 DEF Undoes
    <3>2. s \notin known_id' /\ session'[s] = "OPEN" => Busy("OPEN", s)'
      BY <1>1, <1>4, <2>1 DEF NodeSession, Busy
    <3>3. s \in active' /\ session'[s] = "OPEN" /\ server' \in {"DISCONNECTS", "ENDED"}
            => server' = "DISCONNECTS" /\ \E r \in tasks' : r.sock = s /\ Closes(r)'
      BY <1>1, <1>4, <2>1 DEF NodeSession, Closes
    <3> QED
      BY <3>1, <3>2, <3>3 DEF NodeSession
  <2>4. ASSUME NEW r \in tasks, r.kind = "OPEN"
        PROVE  Alone(r)
    <3>1. \A v \in tasks : v.sock = r.sock => v = r
      BY <1>0, <2>4 DEF NodeHandler, CommandKinds
    <3> QED
      BY <1>1, <2>1, <3>1 DEF Alone
  <2> QED
    BY <1>0, <1>1, <1>3, <1>5, <2>1, <2>3, <2>4, NodeLocal
<1> QED
  BY <1>6, <1>7

(* A client asks for something: a heartbeat, a poll, or a command.         *)
LEMMA ClientAsksInOrder ==
  ASSUME StoreTypeOK, NodeTypeOK, TasksSound, NodeSockets, NodeInOrder, NEW s \in Socks,
         Pong(s) \/ PollTimer(s) \/ \E k \in CommandKinds : Enqueue(s, k)
  PROVE  NodeInOrder'
<1>0. StoreValuesOK /\ SocketValuesOK /\ NodeSession(s) /\ \A r \in tasks : NodeHandler(r)
  BY StoreTypeSplits DEF NodeInOrder
<1>1. /\ UNCHANGED <<session, seen, phase, server, active, beat, ws, closed, known_id>> /\ tasks \subseteq tasks'
      /\ Ready(s) /\ \A r \in Socks \ {s} : r \in alive' <=> r \in alive
  BY DEF Pong, PollTimer, Enqueue, Start, NodeKeeps, storeVars, socketVars, nodeVars
<1>2. server = "UP" /\ ws[s] = "OPEN" /\ s \in known_id /\ \A u \in tasks : u.sock = s => u.kind # "OPEN"
  BY <1>1, ReadyIsSetUp
<1>3. ASSUME NEW u \in tasks' \ tasks
      PROVE  u.sock = s /\ NodeHandler(u)'
  <2>1. CASE u \in Heartbeats(s)
    <3>1. u.kind = "BEAT" /\ u.sock = s /\ u.pc = "TOUCH" /\ u.from = 0
      BY <2>1, BeatsAreOfReady
    <3> QED
      BY <1>1, <1>2, <3>1 DEF NodeHandler
  <2>2. CASE u \in Polls(s)
    <3>1. u.kind = "POLL" /\ u.sock = s /\ u.pc = "EVENTS"
      BY <1>0, <2>2, PollsAreOfReady
    <3> QED
      BY <1>1, <1>2, <3>1 DEF NodeHandler
  <2>3. ASSUME NEW k \in CommandKinds, Enqueue(s, k)
        PROVE  u.sock = s /\ NodeHandler(u)'
    <3>1. u = NewTask(k, s, Cardinality(Chain(s)), "QUEUED")
      BY <1>3, <2>3 DEF Enqueue, Start
    <3>2. u.kind \in CommandKinds /\ u.sock = s /\ u.pc = "QUEUED"
      BY <3>1 DEF NewTask
    <3> QED
      BY <1>1, <1>2, <3>2 DEF NodeHandler
  <2> QED
    BY <1>3, <2>1, <2>2, <2>3 DEF Pong, PollTimer
<1>4. NodeSession(s)'
  <2>1. Busy("OPEN", s) => Busy("OPEN", s)'
    BY <1>1 DEF Busy
  <2> QED
    BY <1>0, <1>1, <2>1, NodeSessionFollows
<1>5. ASSUME phase # "LEFT"
      PROVE  BeatenInTime(s)'
  <2>1. BeatenInTime(s) /\ session'[s] = "OPEN"
    BY <1>1, <1>5 DEF NodeInOrder, BeatenInTime
  <2>2. \A r \in tasks : r.sock = s /\ Beats(r) => Beating(s)'
    BY <1>1 DEF Beating, Beats
  <2>3. CASE UNCHANGED alive
    BY <1>0, <1>1, <2>1, <2>2, <2>3, BeatenFollows
  <2>4. CASE Pong(s)
    <3>1. tasks' = tasks \cup Heartbeats(s)
      BY <2>4 DEF Pong
    <3>2. CASE Busy("BEAT", s)
      <4>1. PICK r \in tasks : r.kind = "BEAT" /\ r.sock = s
        BY <3>2 DEF Busy
      <4>2. Beats(r) \/ seen[s] = 0
        BY <1>0, <1>2, <1>5, <4>1 DEF NodeHandler, CommandKinds, Beats
      <4>3. Beating(s)' \/ seen'[s] = 0
        BY <1>1, <2>2, <4>1, <4>2
      <4> QED
        BY <1>0, <1>1, <2>1, <2>2, <4>3, BeatenFollows
    <3>3. CASE ~Busy("BEAT", s)
      <4> DEFINE u == NewTask("BEAT", s, 0, "TOUCH")
      <4>1. u \in Heartbeats(s)
        BY <1>1, <3>3 DEF Heartbeats
      <4>2. u.kind = "BEAT" /\ u.sock = s /\ u.pc = "TOUCH" /\ u.from = 0
        BY <4>1, BeatsAreOfReady
      <4> HIDE DEF u
      <4>3. Beats(u)' /\ u \in tasks'
        BY <3>1, <4>1, <4>2 DEF Beats
      <4>4. Beating(s)'
        BY <4>2, <4>3 DEF Beating
      <4> QED
        BY <1>0, <1>1, <2>1, <2>2, <4>4, BeatenFollows
    <3> QED
      BY <3>2, <3>3
  <2> QED
    BY <2>3, <2>4 DEF PollTimer, Enqueue, nodeVars
<1>6. ASSUME NEW u \in tasks, u.sock = s
      PROVE  u.kind # "OPEN"
  BY <1>2, <1>6
<1> QED
  BY <1>0, <1>1, <1>2, <1>3, <1>4, <1>5, <1>6, NodeLocal

(* Nothing happens to handlers or clients: the sweep, other events of the  *)
(* match.                                                                  *)
LEMMA NodeSparedInOrder ==
  ASSUME StoreTypeOK, NodeTypeOK, TasksSound, NodeSockets, NodeInOrder,
         UNCHANGED <<seen, ws, tasks, nodeVars>>, phase = "LEFT" => phase' = "LEFT",
         \A r \in Socks : session'[r] = session[r] \/ (session[r] = "OPEN" /\ session'[r] # "OPEN" /\ seen[r] = StaleAfter)
  PROVE  NodeInOrder'
<1>0. StoreValuesOK /\ \A r \in tasks : NodeHandler(r)
  BY StoreTypeSplits DEF NodeInOrder
<1>1. UNCHANGED <<closed, known_id, alive, server, active, beat>>
  BY DEF nodeVars
<1>2. StaleAfter # 0 /\ StaleAfter \in Nat
  BY Stores
<1>3. ASSUME NEW u \in tasks
      PROVE  NodeHandler(u)' \/ (u.kind = "OPEN" => Alone(u))
  <2>1. CASE u.kind = "OPEN" /\ u.pc # "DISCONNECT"
    <3>1. (\A v \in tasks : v.sock = u.sock => v = u) /\ u.sock \in Socks
      BY <1>0, <2>1, AnswersAreVersions DEF NodeHandler, CommandKinds
    <3>2. session[u.sock] # "OPEN" \/ seen[u.sock] = 0
      BY <1>0, <2>1 DEF NodeHandler, CommandKinds
    <3>3. session'[u.sock] = session[u.sock]
      BY <1>2, <3>1, <3>2
    <3> QED
      BY <1>1, <3>1, <3>3 DEF Alone
  <2>2. CASE u.kind = "OPEN" /\ u.pc = "DISCONNECT"
    <3>1. /\ server' \in {"UP", "SETUPS"} /\ (\A v \in tasks' : v.sock = u.sock => v = u)
          /\ u.sock \in known_id' /\ ws'[u.sock] # "OPEN"
      BY <1>0, <1>1, <2>2 DEF NodeHandler, CommandKinds
    <3> QED
      BY <2>2, <3>1 DEF NodeHandler
  <2> QED
    BY <2>1, <2>2
<1>4. \A u \in tasks' : NodeHandler(u)'
  <2>1. \A r \in Socks : ws[r] \notin {"OPEN", "NONE"} => ws'[r] # "OPEN"
    OBVIOUS
  <2> QED
    BY <1>0, <1>1, <1>3, <2>1, NodeHandlersFollow
<1>5. ASSUME NEW s \in Socks
      PROVE  NodeSession(s)'
  <2>1. NodeSession(s) /\ (Busy("OPEN", s) => Busy("OPEN", s)')
    BY DEF NodeInOrder, Busy
  <2>2. session'[s] = "OPEN" => session[s] = "OPEN"
    OBVIOUS
  <2> QED
    BY <1>1, <2>1, <2>2, NodeSessionFollows
<1>6. ASSUME NEW s \in Socks, phase' # "LEFT", Ready(s)'
      PROVE  BeatenInTime(s)'
  <2>1. BeatenInTime(s)
    BY <1>1, <1>6 DEF NodeInOrder, Ready, IsCurrentClient
  <2>2. seen[s] # StaleAfter
    <3>1. seen[s] <= 2
      BY <2>1 DEF BeatenInTime
    <3> QED
      BY <1>2, <3>1, NodeAssumption
  <2>3. session'[s] = "OPEN"
    BY <2>1, <2>2 DEF BeatenInTime
  <2>4. \A r \in tasks : r.sock = s /\ Beats(r) => Beating(s)'
    BY DEF Beating, Beats
  <2> QED
    BY <1>0, <1>1, <2>1, <2>3, <2>4, BeatenFollows
<1>7. server' # "UP" => OpenSockets' = {}
  BY <1>1 DEF NodeInOrder, OpenSockets
<1> QED
  BY <1>4, <1>5, <1>6, <1>7 DEF NodeInOrder

LEMMA NodeSurroundings ==
  ASSUME StoreTypeOK, NodeTypeOK, TasksSound, NodeSockets, NodeInOrder, UNCHANGED nodeVars,
         Append \/ MatchEnds \/ GlobalSweep \/ \E s \in Socks : PeerCloses(s)
  PROVE  NodeInOrder'
<1>0. StoreValuesOK /\ SocketValuesOK /\ \A r \in tasks : NodeHandler(r)
  BY StoreTypeSplits DEF NodeInOrder
<1>1. CASE Append \/ MatchEnds
  <2>1. UNCHANGED <<session, seen, ws, tasks>> /\ (phase = "LEFT" => phase' = "LEFT")
    BY <1>1 DEF Append, MatchEnds, socketVars
  <2>2. \A r \in Socks : session'[r] = session[r]
    BY <2>1
  <2> QED
    BY <2>1, <2>2, NodeSparedInOrder
<1>2. CASE GlobalSweep
  <2>1. UNCHANGED <<seen, ws, tasks>> /\ (phase = "LEFT" => phase' = "LEFT")
        /\ session' = [s \in Socks |-> IF s \in Expired THEN "SHUT" ELSE session[s]]
    BY <1>2 DEF GlobalSweep, SweepSessions, Shut, socketVars
  <2>2. \A r \in Socks : \/ session'[r] = session[r]
                         \/ session[r] = "OPEN" /\ session'[r] # "OPEN" /\ seen[r] = StaleAfter
    BY <2>1 DEF Expired, Open
  <2> QED
    BY <2>1, <2>2, NodeSparedInOrder
<1>3. ASSUME NEW s \in Socks, PeerCloses(s)
      PROVE  NodeInOrder'
  <2>1. /\ UNCHANGED <<session, seen, phase, server, active, beat, closed, known_id, alive, tasks>>
        /\ ws[s] = "OPEN" /\ ws' = [ws EXCEPT ![s] = "CLOSING"]
    BY <1>3 DEF PeerCloses, storeVars, nodeVars
  <2>2. ws'[s] = "CLOSING" /\ \A r \in Socks \ {s} : ws'[r] = ws[r]
    BY <1>0, <2>1 DEF SocketValuesOK
  <2>3. NodeSession(s)'
    <3>1. NodeSession(s) /\ (Busy("OPEN", s) => Busy("OPEN", s)')
      BY <2>1 DEF NodeInOrder, Busy
    <3> QED
      BY <2>1, <2>2, <3>1, NodeSessionFollows
  <2>4. ASSUME NEW r \in tasks, r.kind = "OPEN"
        PROVE  Alone(r)
    <3>1. \A v \in tasks : v.sock = r.sock => v = r
      BY <1>0, <2>4 DEF NodeHandler, CommandKinds
    <3> QED
      BY <2>1, <3>1 DEF Alone
  <2>5. ~Ready(s)'
    BY <2>2 DEF Ready, IsCurrentClient
  <2> QED
    BY <1>0, <2>1, <2>2, <2>3, <2>4, <2>5, NodeLocal
<1> QED
  BY <1>1, <1>2, <1>3

(* The service sends pings, or begins to shut down: sockets close.         *)
LEMMA NodeDropsInOrder ==
  ASSUME StoreTypeOK, NodeTypeOK, TasksSound, NodeSockets, NodeInOrder, Ping \/ Sigterm
  PROVE  NodeInOrder'
<1>0. StoreValuesOK /\ SocketValuesOK /\ server = "UP" /\ \A r \in tasks : NodeHandler(r)
  BY StoreTypeSplits DEF NodeInOrder, Ping, Sigterm
<1>1. UNCHANGED <<session, seen, phase, closed, known_id, tasks>>
  BY DEF Ping, Sigterm, NodeKeeps, storeVars
<1>2. \A s \in Socks : ws'[s] = ws[s] \/ (ws[s] = "OPEN" /\ ws'[s] = "CLOSING")
  BY DEF Ping, Sigterm, IsCurrentClient
<1>3. \/ Ping /\ server' = "UP" /\ active' = active
      \/ Sigterm /\ server' = "SETUPS"
  BY <1>0 DEF Ping, Sigterm
<1>4. \A u \in tasks' : NodeHandler(u)'
  <2>1. ASSUME NEW r \in tasks, r.kind = "OPEN"
        PROVE  Alone(r)
    <3>1. \A v \in tasks : v.sock = r.sock => v = r
      BY <1>0, <2>1 DEF NodeHandler, CommandKinds
    <3> QED
      BY <1>1, <3>1 DEF Alone
  <2>2. \A r \in Socks : ws[r] \notin {"OPEN", "NONE"} => ws'[r] # "OPEN"
    BY <1>2
  <2> QED
    BY <1>0, <1>1, <1>3, <2>1, <2>2, NodeHandlersFollow
<1>5. ASSUME NEW s \in Socks
      PROVE  NodeSession(s)'
  <2>1. NodeSession(s)
    BY DEF NodeInOrder
  <2>2. s \notin known_id' /\ session'[s] = "OPEN" => Busy("OPEN", s)'
    BY <1>1, <2>1 DEF NodeSession, Busy
  <2>3. session'[s] = "OPEN" /\ (ws'[s] = "CLOSED" \/ s \in closed') => \E t \in tasks' : t.sock = s /\ Undoes(t)'
    BY <1>0, <1>1, <1>2, <2>1 DEF NodeSession, Undoes
  <2> QED
    BY <1>3, <2>2, <2>3 DEF NodeSession
<1>6. ASSUME NEW s \in Socks, Ready(s)', phase' # "LEFT"
      PROVE  BeatenInTime(s)'
  <2>1. Ping /\ s \in alive /\ IsCurrentClient(s)
    <3>1. s \notin closed /\ ws'[s] = "OPEN"
      BY <1>1, <1>6 DEF Ready, IsCurrentClient
    <3>2. ~Sigterm
      BY <3>1 DEF Sigterm
    <3>3. IsCurrentClient(s)
      BY <1>2, <3>1 DEF IsCurrentClient
    <3> QED
      BY <1>3, <3>1, <3>2, <3>3 DEF Ping
  <2>2. beat = 0 /\ beat' = 1 /\ s \notin alive'
    BY <2>1 DEF Ping
  <2>3. BeatenInTime(s)
    BY <1>1, <1>6, <2>1 DEF NodeInOrder, Ready
  <2>4. Beating(s) => Beating(s)'
    BY <1>1 DEF Beating, Beats
  <2>5. session'[s] = "OPEN" /\ seen'[s] <= 2
    BY <1>1, <2>3 DEF BeatenInTime
  <2>6. Beating(s) \/ seen[s] <= 0 + (1 - 0)
    BY <2>1, <2>2, <2>3 DEF BeatenInTime
  <2>7. Beating(s)' \/ seen'[s] <= 1 + (1 - 1)
    BY <1>1, <2>4, <2>6
  <2> QED
    BY <2>2, <2>5, <2>7 DEF BeatenInTime
<1>7. server' # "UP" => OpenSockets' = {}
  BY <1>2, <1>3 DEF OpenSockets, Sigterm
<1> QED
  BY <1>4, <1>5, <1>6, <1>7 DEF NodeInOrder

(* Whoever is waited for has been heard of.                                *)
LEMMA ShutdownInOrder ==
  ASSUME StoreTypeOK, NodeTypeOK, TasksSound, NodeSockets, NodeInOrder, ShutdownStep
  PROVE  NodeInOrder'
<1> DEFINE New == {NewTask("CLOSE", s, 0, "DISCONNECT") : s \in active \cap known_id}
<1>0. SocketValuesOK /\ (\A r \in tasks : NodeHandler(r)) /\ active \subseteq Socks
  BY StoreTypeSplits DEF NodeInOrder, NodeTypeOK
<1>1. /\ UNCHANGED <<session, seen, phase, ws, closed, known_id, alive, active, beat>>
      /\ tasks' = IF server # "TASKS" THEN tasks ELSE tasks \cup New
  BY DEF ShutdownStep, NodeKeeps, storeVars, socketVars
<1>2. \/ server = "SETUPS" /\ server' = "CHAINS" /\ ~Pending({"OPEN"}, Socks)
      \/ server = "CHAINS" /\ server' = "TASKS"
      \/ server = "TASKS" /\ server' = "DISCONNECTS" /\ ~Pending({"POLL", "BEAT"}, active)
      \/ server = "DISCONNECTS" /\ server' = "ENDED" /\ ~Pending({"CLOSE"}, active)
  <2>1. PICK i \in 2 .. 5 : server = ShutdownSteps[i] /\ ~Awaited[server] /\ server' = ShutdownSteps[i + 1]
    BY DEF ShutdownStep
  <2>2. i = 2 \/ i = 3 \/ i = 4 \/ i = 5
    BY <2>1
  <2>3. CASE i = 2
    <3>1. server = "SETUPS" /\ server' = "CHAINS" /\ ~Awaited["SETUPS"]
      BY <2>1, <2>3, ShutdownHasSixSteps
    <3> QED
      BY <3>1 DEF Awaited
  <2>4. CASE i = 3
    BY <2>1, <2>4, ShutdownHasSixSteps
  <2>5. CASE i = 4
    <3>1. server = "TASKS" /\ server' = "DISCONNECTS" /\ ~Awaited["TASKS"]
      BY <2>1, <2>5, ShutdownHasSixSteps
    <3> QED
      BY <3>1 DEF Awaited
  <2>6. CASE i = 5
    <3>1. server = "DISCONNECTS" /\ server' = "ENDED" /\ ~Awaited["DISCONNECTS"]
      BY <2>1, <2>6, ShutdownHasSixSteps
    <3> QED
      BY <3>1 DEF Awaited
  <2> QED
    BY <2>2, <2>3, <2>4, <2>5, <2>6
<1>3. OpenSockets = {} /\ OpenSockets' = {} /\ \A s \in Socks : ws'[s] # "OPEN"
  BY <1>1, <1>2 DEF NodeInOrder, OpenSockets
<1>4. \A u \in tasks' : NodeHandler(u)'
  <2>1. ASSUME NEW u \in New
        PROVE  NodeHandler(u)'
    <3>1. PICK s \in active \cap known_id : u = NewTask("CLOSE", s, 0, "DISCONNECT")
      BY <2>1
    <3>2. u.kind = "CLOSE" /\ u.sock = s /\ u.pc = "DISCONNECT" /\ s \in Socks
      BY <1>0, <3>1 DEF NewTask
    <3> QED
      BY <1>1, <1>3, <3>1, <3>2 DEF NodeHandler
  <2>2. ASSUME NEW u \in tasks
        PROVE  NodeHandler(u)'
    <3>0. NodeHandler(u) /\ u.sock \in Socks
      BY <1>0, AnswersAreVersions
    <3>1. u.kind # "OPEN"
      BY <1>2, <3>0 DEF Pending, NodeHandler, CommandKinds
    <3>2. CASE u.kind = "BEAT"
      BY <1>1, <1>2, <3>0, <3>2 DEF NodeHandler, CommandKinds, Pending
    <3>3. CASE u.kind = "CLOSE"
      BY <1>1, <1>2, <3>0, <3>3 DEF NodeHandler, CommandKinds
    <3>4. CASE u.kind \in {"POLL"} \cup CommandKinds
      BY <1>1, <3>0, <3>4 DEF NodeHandler, CommandKinds
    <3> QED
      BY <3>0, <3>1, <3>2, <3>3, <3>4 DEF NodeHandler
  <2> QED
    BY <1>1, <2>1, <2>2
<1>5. ASSUME NEW s \in Socks
      PROVE  NodeSession(s)'
  <2>0. NodeSession(s) /\ tasks \subseteq tasks'
    BY <1>1 DEF NodeInOrder
  <2>1. s \notin known_id' /\ session'[s] = "OPEN" => Busy("OPEN", s)'
    BY <1>1, <2>0 DEF NodeSession, Busy
  <2>2. server' # "ENDED" /\ session'[s] = "OPEN" /\ (ws'[s] = "CLOSED" \/ s \in closed')
          => \E t \in tasks' : t.sock = s /\ Undoes(t)'
    BY <1>1, <1>2, <2>0 DEF NodeSession, Undoes
  <2>3. ASSUME s \in active, session[s] = "OPEN", server = "TASKS"
        PROVE  \E t \in tasks' : t.sock = s /\ Closes(t)'
    <3>1. s \in known_id
      BY <1>0, <2>0, <2>3 DEF NodeSession, Busy, NodeHandler, CommandKinds
    <3> DEFINE u == NewTask("CLOSE", s, 0, "DISCONNECT")
    <3>2. u \in tasks'
      BY <1>1, <2>3, <3>1
    <3>3. u.sock = s /\ Closes(u)'
      BY DEF NewTask, Closes
    <3> QED
      BY <3>2, <3>3
  <2>4. server = "DISCONNECTS" /\ s \in active => session[s] # "OPEN"
    BY <1>2, <2>0 DEF NodeSession, Closes, Pending
  <2> QED
    BY <1>1, <1>2, <2>1, <2>2, <2>3, <2>4 DEF NodeSession
<1>6. \A s \in Socks : ~Ready(s)'
  BY <1>3 DEF Ready, IsCurrentClient
<1> QED
  BY <1>3, <1>4, <1>5, <1>6 DEF NodeInOrder

(* Time passes: no connection and no heartbeat is on its way.              *)
LEMMA NodeTickInOrder ==
  ASSUME StoreTypeOK, NodeTypeOK, TasksSound, NodeSockets, NodeInOrder, NodeTick
  PROVE  NodeInOrder'
<1>0. StoreValuesOK /\ \A r \in tasks : NodeHandler(r) /\ r.kind \notin {"OPEN", "BEAT"}
  BY StoreTypeSplits DEF NodeInOrder, NodeTick
<1>1. UNCHANGED <<session, phase, ws, tasks, closed, known_id, alive, server, active>> /\ beat' = 0
  BY DEF NodeTick, socketVars
<1>2. \A u \in tasks' : NodeHandler(u)'
  <2>1. \A r \in Socks : ws[r] \notin {"OPEN", "NONE"} => ws'[r] # "OPEN"
    BY <1>1
  <2> QED
    BY <1>0, <1>1, <2>1, NodeHandlersFollow
<1>3. ASSUME NEW s \in Socks
      PROVE  NodeSession(s)'
  <2>1. NodeSession(s) /\ (Busy("OPEN", s) => Busy("OPEN", s)')
    BY <1>1 DEF NodeInOrder, Busy
  <2> QED
    BY <1>1, <2>1, NodeSessionFollows
<1>4. ASSUME NEW s \in Socks, Ready(s)', phase' # "LEFT"
      PROVE  BeatenInTime(s)'
  <2>1. BeatenInTime(s) /\ server = "UP"
    <3>1. Ready(s) /\ phase # "LEFT"
      BY <1>1, <1>4 DEF Ready, IsCurrentClient
    <3> QED
      BY <3>1, ReadyIsSetUp DEF NodeInOrder
  <2>2. beat = 1
    BY <2>1 DEF NodeTick, NodeTypeOK
  <2>3. ~Beating(s)
    BY <1>0 DEF Beating, Beats
  <2>4. seen[s] <= (IF s \in alive THEN 0 ELSE 1) /\ seen[s] \in Nat
    <3>1. seen[s] \in 0 .. StaleAfter
      BY <1>0 DEF StoreValuesOK
    <3>2. seen[s] \in Nat
      BY <3>1, Stores
    <3>3. seen[s] <= (IF s \in alive THEN 0 ELSE 1) + (1 - 1)
      BY <2>1, <2>2, <2>3 DEF BeatenInTime
    <3> QED
      BY <3>2, <3>3
  <2>5. seen'[s] = seen[s] \/ seen'[s] = seen[s] + 1
    BY DEF NodeTick, Older
  <2>6. seen'[s] <= (IF s \in alive' THEN 0 ELSE 1) + (1 - 0) /\ seen'[s] <= 2
    BY <1>1, <2>4, <2>5
  <2> QED
    BY <1>1, <2>1, <2>6 DEF BeatenInTime
<1>5. server' # "UP" => OpenSockets' = {}
  BY <1>1 DEF NodeInOrder, OpenSockets
<1> QED
  BY <1>2, <1>3, <1>4, <1>5 DEF NodeInOrder

LEMMA NodeStepInOrder ==
  ASSUME StoreTypeOK, NodeTypeOK, TasksSound, NodeSockets, NodeInOrder, ~faulted',
         \/ \E t \in tasks : NodeStatement(t) \/ NodeResumes(t)
         \/ NodeEvent
         \/ (Append \/ MatchEnds \/ GlobalSweep \/ \E s \in Socks : PeerCloses(s)) /\ UNCHANGED nodeVars
         \/ NodeTick
  PROVE  NodeInOrder'
<1>1. ASSUME NEW t \in tasks, NodeStatement(t)
      PROVE  NodeInOrder'
  <2>1. ~StatementFails(t)
    BY DEF StatementFails
  <2>2. CASE Touch(t) /\ UNCHANGED nodeVars
    BY <2>2, NodeTouchInOrder
  <2>3. CASE Connect(t) /\ UNCHANGED nodeVars
    BY <2>3, NodeConnectInOrder
  <2>4. CASE Disconnect(t) /\ UNCHANGED nodeVars
    BY <2>4, NodeDisconnectInOrder
  <2>5. CASE ((ReadEvents(t) \/ Load(t) \/ Act(t)) /\ UNCHANGED nodeVars) \/ StatementCut(t)
    BY <2>5, NodeResumesInOrder
  <2> QED
    BY <1>1, <2>1, <2>2, <2>3, <2>4, <2>5 DEF NodeStatement
<1>2. ASSUME NEW t \in tasks, NodeResumes(t)
      PROVE  NodeInOrder'
  <2>1. CASE Activate(t) \/ SetupEnds(t)
    BY <2>1, SetupsInOrder
  <2>2. CASE \/ Beaten(t) \/ Compensated(t) \/ Polled(t) \/ PollFails(t) \/ StartCommand(t) \/ Acted(t)
             \/ SnapshotLoaded(t) \/ CommandDone(t) \/ ClientClosed(t)
    BY <2>2, NodeResumesInOrder
  <2> QED
    BY <1>2, <2>1, <2>2 DEF NodeResumes
<1>3. ASSUME NodeEvent
      PROVE  NodeInOrder'
  <2>1. ~Crash
    BY DEF Crash
  <2>2. CASE Ping \/ Sigterm
    BY <2>2, NodeDropsInOrder
  <2>3. CASE ShutdownStep
    BY <2>3, ShutdownInOrder
  <2>4. ASSUME NEW s \in Socks, AcceptConnection(s)
        PROVE  NodeInOrder'
    BY <2>4, AcceptConnectionInOrder
  <2>5. ASSUME NEW s \in Socks, ClientCloses(s)
        PROVE  NodeInOrder'
    BY <2>5, ClientClosesInOrder
  <2>6. ASSUME NEW s \in Socks, Pong(s) \/ PollTimer(s) \/ \E k \in CommandKinds : Enqueue(s, k)
        PROVE  NodeInOrder'
    BY <2>6, ClientAsksInOrder
  <2> QED
    BY <1>3, <2>1, <2>2, <2>3, <2>4, <2>5, <2>6 DEF NodeEvent
<1> QED
  BY <1>1, <1>2, <1>3, NodeSurroundings, NodeTickInOrder

(* On Node the invariant gives what SessionsFollowSockets says of it.      *)
LEMMA NodeGivesSessions ==
  ASSUME NodeInOrder
  PROVE  /\ \A s \in Socks : ws[s] = "CLOSED" /\ SockTasks(s) = {} /\ server # "ENDED" => session[s] # "OPEN"
         /\ \A s \in Socks : Ready(s) /\ phase # "LEFT" => session[s] = "OPEN"
         /\ server = "ENDED" => \A s \in active \cap Socks : session[s] # "OPEN"
<1>1. ASSUME NEW s \in Socks, ws[s] = "CLOSED", SockTasks(s) = {}, server # "ENDED"
      PROVE  session[s] # "OPEN"
  BY <1>1 DEF NodeInOrder, NodeSession, SockTasks
<1>2. ASSUME NEW s \in Socks, Ready(s), phase # "LEFT"
      PROVE  session[s] = "OPEN"
  BY <1>2 DEF NodeInOrder, BeatenInTime
<1>3. ASSUME server = "ENDED", NEW s \in active \cap Socks
      PROVE  session[s] # "OPEN"
  BY <1>3 DEF NodeInOrder, NodeSession
<1> QED
  BY <1>1, <1>2, <1>3

-----------------------------------------------------------------------------
(* Both transports.                                                        *)

SessionsInOrder ==
  /\ AbsenceIsTimed
  /\ transport = "HUB" => server = "UP" /\ (~faulted => HubInOrder /\ AlarmInOrder)
  /\ transport = "NODE" /\ ~faulted => NodeInOrder

RealtimeIInv == SocketInv /\ SessionsInOrder

LEMMA InitSessionsInOrder ==
  ASSUME Init
  PROVE  SessionsInOrder
<1>1. /\ \A s \in Socks : session[s] = "NONE" /\ ws[s] = "NONE"
      /\ tasks = {} /\ away = None /\ due = None /\ handled = {} /\ known_id = {} /\ active = {} /\ server = "UP"
  BY DEF Init, StoreInit, HubInit, NodeInit
<1>2. Open = {}
  BY <1>1 DEF Open
<1>3. AbsenceIsTimed
  BY <1>1 DEF AbsenceIsTimed
<1>4. HubInOrder
  BY <1>1 DEF HubInOrder, OneOpen, HubSession
<1>5. AlarmInOrder
  BY <1>1, <1>2 DEF AlarmInOrder, Watched
<1>6. NodeInOrder
  BY <1>1 DEF NodeInOrder, NodeSession, Ready
<1> QED
  BY <1>1, <1>3, <1>4, <1>5, <1>6 DEF SessionsInOrder

LEMMA SessionsStutter ==
  ASSUME SessionsInOrder, UNCHANGED allVars
  PROVE  SessionsInOrder'
<1>1. UNCHANGED <<storeVars, socketVars, tasks, faulted, hubVars, nodeVars, transport>>
  BY DEF allVars, realtimeVars
<1>2. AbsenceIsTimed => AbsenceIsTimed'
  BY <1>1 DEF AbsenceIsTimed, Open, storeVars
<1>3. HubInOrder => HubInOrder'
  BY <1>1 DEF HubInOrder, HubHandler, OneOpen, HubSession, InTime, Timer, storeVars, socketVars, hubVars
<1>4. AlarmInOrder => AlarmInOrder'
  BY <1>1 DEF AlarmInOrder, Covered, WakeComes, Wakes, Soon, Open, Away, Watched, storeVars, socketVars, hubVars
<1>5. NodeInOrder => NodeInOrder'
  BY <1>1 DEF NodeInOrder, NodeHandler, NodeSession, Undoes, Closes, Busy, Ready, IsCurrentClient, BeatenInTime,
     Beating, Beats, OpenSockets, storeVars, socketVars, nodeVars
<1>6. server' = server
  BY <1>1 DEF nodeVars
<1> QED
  BY <1>1, <1>2, <1>3, <1>4, <1>5, <1>6 DEF SessionsInOrder

LEMMA StepSessionsInOrder ==
  ASSUME RealtimeIInv, WellFormed', Next
  PROVE  SessionsInOrder'
<1>0. /\ StoreTypeOK /\ HubTypeOK /\ HubTypeOK' /\ NodeTypeOK /\ TasksSound /\ SessionsInOrder
      /\ transport = "NODE" => NodeSockets
  BY DEF RealtimeIInv, SocketInv, SocketsInOrder, WellFormed, TypeOK
<1>1. AbsenceIsTimed'
  BY <1>0, StoreTypeSplits, StepKeepsTiming DEF SessionsInOrder
<1>2. ~faulted' => ~faulted
  BY <1>0, FaultsStay
<1>3. transport' = transport
  BY DEF Next, Handler, Tick, Hub, Node, Surroundings
<1>4. ASSUME transport = "HUB"
      PROVE  server' = "UP" /\ (~faulted' => HubInOrder' /\ AlarmInOrder')
  <2>1. /\ \/ \E t \in tasks : HubStatement(t) \/ HubResumes(t)
           \/ HubEvent
           \/ (Append \/ MatchEnds \/ GlobalSweep \/ \E s \in Socks : PeerCloses(s)) /\ UNCHANGED hubVars
           \/ HubTick
        /\ UNCHANGED nodeVars
    BY <1>4 DEF Next, Handler, Tick, Hub, Node, Surroundings
  <2>2. server' = "UP"
    BY <1>0, <1>4, <2>1 DEF SessionsInOrder, nodeVars
  <2>3. ASSUME ~faulted'
        PROVE  HubInOrder' /\ AlarmInOrder'
    <3>1. HubInOrder /\ AlarmInOrder /\ AbsenceIsTimed
      BY <1>0, <1>2, <1>4, <2>3 DEF SessionsInOrder
    <3> QED
      BY <1>0, <2>1, <2>3, <3>1, HubStepInOrder, HubStepCovers
  <2> QED
    BY <2>2, <2>3
<1>5. ASSUME transport = "NODE", ~faulted'
      PROVE  NodeInOrder'
  <2>1. \/ \E t \in tasks : NodeStatement(t) \/ NodeResumes(t)
        \/ NodeEvent
        \/ (Append \/ MatchEnds \/ GlobalSweep \/ \E s \in Socks : PeerCloses(s)) /\ UNCHANGED nodeVars
        \/ NodeTick
    BY <1>5 DEF Next, Handler, Tick, Hub, Node, Surroundings
  <2>2. NodeInOrder
    BY <1>0, <1>2, <1>5 DEF SessionsInOrder
  <2> QED
    BY <1>0, <1>5, <2>1, <2>2, NodeStepInOrder
<1> QED
  BY <1>1, <1>3, <1>4, <1>5 DEF SessionsInOrder

(* Both transports keep their sockets and their sessions in order.         *)
THEOREM SessionsStayInOrder == Spec => []RealtimeIInv
<1>1. Init => RealtimeIInv
  BY InitWellFormed, InitInOrder, InitSessionsInOrder DEF RealtimeIInv, SocketInv
<1>2. RealtimeIInv /\ [Next]_allVars => RealtimeIInv'
  <2>1. ASSUME RealtimeIInv, Next
        PROVE  RealtimeIInv'
    <3>1. WellFormed /\ SocketsInOrder
      BY <2>1 DEF RealtimeIInv, SocketInv
    <3>2. WellFormed' /\ SocketsInOrder'
      BY <2>1, <3>1, StepWellFormed, StepInOrder
    <3> QED
      BY <2>1, <3>2, StepSessionsInOrder DEF RealtimeIInv, SocketInv
  <2>2. ASSUME RealtimeIInv, UNCHANGED allVars
        PROVE  RealtimeIInv'
    BY <2>2, SocketStutter, SessionsStutter DEF RealtimeIInv
  <2> QED
    BY <2>1, <2>2
<1> QED
  BY <1>1, <1>2, PTL DEF Spec

LEMMA TransportIsKnown ==
  ASSUME RealtimeIInv
  PROVE  transport \in {"HUB", "NODE"}
BY RealtimeAssumption DEF RealtimeIInv, SocketInv, WellFormed, TypeOK

(* What services keep in memory is well formed, no more sockets are open   *)
(* than the cap allows, and the alarm of a Durable Object comes no later   *)
(* than whatever of the match will be due next.                            *)
THEOREM RealtimeKeepsItsBounds == Spec => []RealtimeInv
<1>1. RealtimeIInv => RealtimeInv
  <2>1. SUFFICES ASSUME RealtimeIInv
                 PROVE  RealtimeInv
    OBVIOUS
  <2>2. TypeOK /\ CapHolds /\ SessionsInOrder
    BY <2>1 DEF RealtimeIInv, SocketInv, WellFormed, SocketsInOrder
  <2>3. StoreTypeOK /\ HubTypeOK
    BY <2>2 DEF TypeOK
  <2>4. AlarmCoversDeadlines
    BY <2>2, <2>3, AlarmIsInTime DEF AlarmCoversDeadlines, SessionsInOrder
  <2> QED
    BY <2>2, <2>4 DEF RealtimeInv
<1> QED
  BY <1>1, SessionsStayInOrder, PTL

(* As long as no statement or message has failed: the session of a socket  *)
(* that is gone ends with the last handler of the socket, the session of an*)
(* open socket stays open however long its tab sleeps, and an orderly      *)
(* shutdown leaves no session of its clients open.                         *)
THEOREM SessionsDoFollowSockets == Spec => []SessionsFollowSockets
<1>1. RealtimeIInv => SessionsFollowSockets
  <2>1. SUFFICES ASSUME RealtimeIInv
                 PROVE  SessionsFollowSockets
    OBVIOUS
  <2>2. SessionsInOrder /\ active \subseteq Socks /\ transport \in {"HUB", "NODE"}
    BY <2>1, TransportIsKnown DEF RealtimeIInv, SocketInv, WellFormed, TypeOK, NodeTypeOK
  <2>3. CASE faulted
    BY <2>3 DEF SessionsFollowSockets, GoneStaysGone, OpenSocketKeepsSession, ShutdownLeavesNoSession
  <2>4. CASE ~faulted /\ transport = "HUB"
    <3>1. HubInOrder /\ server = "UP"
      BY <2>2, <2>4 DEF SessionsInOrder
    <3>2. GoneStaysGone
      BY <3>1, HubGivesSessions DEF GoneStaysGone
    <3>3. OpenSocketKeepsSession
      BY <2>4, <3>1, HubGivesSessions DEF OpenSocketKeepsSession, Attached
    <3>4. ShutdownLeavesNoSession
      BY <3>1 DEF ShutdownLeavesNoSession
    <3> QED
      BY <3>2, <3>3, <3>4 DEF SessionsFollowSockets
  <2>5. CASE ~faulted /\ transport = "NODE"
    <3>1. NodeInOrder
      BY <2>2, <2>5 DEF SessionsInOrder
    <3>2. GoneStaysGone
      BY <3>1, NodeGivesSessions DEF GoneStaysGone
    <3>3. OpenSocketKeepsSession
      BY <2>5, <3>1, NodeGivesSessions DEF OpenSocketKeepsSession, Attached
    <3>4. ShutdownLeavesNoSession
      BY <2>2, <3>1, NodeGivesSessions DEF ShutdownLeavesNoSession
    <3> QED
      BY <3>2, <3>3, <3>4 DEF SessionsFollowSockets
  <2> QED
    BY <2>2, <2>3, <2>4, <2>5
<1> QED
  BY <1>1, SessionsStayInOrder, PTL
=============================================================================
