----------------------------- MODULE MatchEngine -----------------------------
(***************************************************************************)
(* One coding round of the authoritative match engine: the match row, its  *)
(* participants, their code executions and their realtime sessions.        *)
(*                                                                         *)
(* Nearly every operation of the engine is one database transaction that   *)
(* holds the match row FOR UPDATE, so it is one atomic action here.  The   *)
(* exceptions are kept apart, because that is where the races are:         *)
(*   - a submission draws its receipt (time and sequence) BEFORE it waits  *)
(*     for the match row: Receive, then StartExecution or DropReceipt;     *)
(*   - closing a session and sweeping stale ones commit first, and the     *)
(*     participant is reconciled by a later transaction, which a crash can *)
(*     prevent: DisconnectSession / ExpireStaleSessions, then              *)
(*     ReconcileConnection or CrashBeforeReconcile;                        *)
(*   - touching a session takes no match lock at all.                      *)
(*                                                                         *)
(* Left out: best_passed_count and activity (display only), the version    *)
(* counter and the non-lifecycle events, command receipts (a replayed      *)
(* command is a stuttering step), the choice of the problem, rematches.    *)
(*                                                                         *)
(* A definition whose name starts with Bad is a plausible fault in the one *)
(* that follows it. Nothing uses it: it is there to be swapped in, to see  *)
(* that a property notices.                                                *)
(***************************************************************************)
EXTENDS Naturals, Sequences, MatchStates

CONSTANTS
  Players,      \* the users who may play the round
  Host,         \* the one who created the room (slot 1)
  Mode,         \* "DUEL" or "PRACTICE"
  Languages,    \* the languages a player can choose
  Sessions,     \* ids of realtime sessions
  Owner,        \* the player whose browser drew the session id
  MaxExec,      \* BOUND: receipts drawn in the round
  Runtimes,     \* the runtimes a judge can measure
  Countdown,    \* countdownMs
  Grace,        \* reconnectGraceSeconds
  StaleAfter,   \* REALTIME_SESSION_STALE_AFTER_SECONDS
  Cooldown,     \* failedSubmissionCooldownSeconds
  SampleGap,    \* sampleRateLimitSeconds
  ExecStale,    \* staleAfterSeconds of recoverStaleExecutions
  Kinds,        \* the execution kinds in play, of "RUN" and "SUBMIT"
  LastLobbyAct, \* BOUND: lobby commands are sent until this time,
  LastPlayAct,  \*        executions start and players concede until this one,
  LastLinkAct,  \*        and sockets open, beat and close until this one
  MaxTime,      \* BOUND: the clock stops here
  MaxPending,   \* BOUND: reconciliations outstanding per player
  MayCrash,     \* whether a server can die between two transactions
  None          \* SQL NULL

ASSUME ModeAssumption ==
  /\ Host \in Players
  /\ \/ Mode = "PRACTICE" /\ Players = {Host}
     \/ Mode = "DUEL" /\ \E guest \in Players : guest # Host /\ Players = {Host, guest}
ASSUME OwnerAssumption == Owner \in [Sessions -> Players]
ASSUME NumbersAssumption ==
  /\ {MaxExec, Countdown, Grace, StaleAfter, Cooldown, SampleGap, ExecStale,
      LastLobbyAct, LastPlayAct, LastLinkAct, MaxTime, MaxPending} \subseteq Nat
  /\ Runtimes \subseteq Nat
  /\ Kinds \subseteq {"RUN", "SUBMIT"}
ASSUME CrashAssumption == MayCrash \in BOOLEAN
ASSUME NoneAssumption ==
  None \notin Nat /\ None \notin Players /\ None \notin Languages

VARIABLES
  now,          \* clock_timestamp()
  match,        \* the row of table matches
  part,         \* the rows of match_participants
  exec,         \* the rows of executions, by server_sequence
  sess,         \* the rows of realtime_sessions
  pending,      \* reconcileConnection calls still to run, per player
  records,      \* what the round added to player_records
  journal       \* the lifecycle events appended to match_events

vars == <<now, match, part, exec, sess, pending, records, journal>>

Executions == 1 .. MaxExec
(* REJECTED stands for the six verdicts that cost the player a cooldown.   *)
Verdicts == {"ACCEPTED", "REJECTED", "INFRA_ERROR"}
(* WAITING: a receipt is drawn but no row exists yet.                      *)
ExecStatus == {"FREE", "WAITING", "DROPPED", "QUEUED", "RUNNING", "COMPLETED"}
Outcomes == {"NONE", "WIN", "LOSS", "NO_CONTEST", "CANCELLED"}
Lifecycle ==
  {"COUNTDOWN_STARTED", "MATCH_ACTIVE", "MATCH_FINISHED", "REMATCH_OPENED"}

MatchRow ==
  [state : MatchState, startsAt : Nat \cup {None}, winner : Players \cup {None},
   endReason : EndReason \cup {NoReason}, recordsApplied : BOOLEAN]

ParticipantRow ==
  [joined : BOOLEAN, lang : Languages \cup {None}, ready : BOOLEAN,
   active : Executions \cup {None}, connected : BOOLEAN,
   discAt : Nat \cup {None}, deadline : Nat \cup {None},
   cooldown : Nat, nextRun : Nat, outcome : Outcomes]

ExecutionRow ==
  [status : ExecStatus, user : Players, kind : {"RUN", "SUBMIT"}, rcv : Nat,
   created : Nat, completed : Nat, verdict : Verdicts \cup {"NONE"}, runtime : Nat]

NoExecution ==
  [status |-> "FREE", user |-> Host, kind |-> "RUN", rcv |-> 0, created |-> 0,
   completed |-> 0, verdict |-> "NONE", runtime |-> 0]

(* at is last_seen_at while the session is open and disconnected_at after. *)
SessionRow == [status : {"UNUSED", "OPEN", "CLOSED"}, at : Nat]

TypeOK ==
  /\ now \in Nat
  /\ match \in MatchRow
  /\ match.state \in {"COUNTDOWN", "ACTIVE"} => match.startsAt \in Nat
  /\ part \in [Players -> ParticipantRow]
  /\ exec \in [Executions -> ExecutionRow]
  /\ sess \in [Sessions -> SessionRow]
  /\ pending \in [Players -> Nat]
  /\ records \in [Players -> [wins : Nat, losses : Nat]]
  /\ journal \in Seq(Lifecycle)

(* The state createRoom commits: the host is in the lobby, alone.          *)
Init ==
  /\ now = 0
  /\ match = [state |-> "LOBBY", startsAt |-> None, winner |-> None,
              endReason |-> NoReason, recordsApplied |-> FALSE]
  /\ part = [u \in Players |->
               [joined |-> u = Host, lang |-> None, ready |-> FALSE,
                active |-> None, connected |-> FALSE, discAt |-> None,
                deadline |-> None, cooldown |-> 0, nextRun |-> 0,
                outcome |-> "NONE"]]
  /\ exec = [e \in Executions |-> NoExecution]
  /\ sess = [s \in Sessions |-> [status |-> "UNUSED", at |-> 0]]
  /\ pending = [u \in Players |-> 0]
  /\ records = [u \in Players |-> [wins |-> 0, losses |-> 0]]
  /\ journal = <<>>

-----------------------------------------------------------------------------
(* Queries the transactions make.                                          *)

SessionsOf(u) == {s \in Sessions : Owner[s] = u}

(* An open session heard from recently enough.                             *)
Fresh(s) == sess[s].status = "OPEN" /\ sess[s].at + StaleAfter > now

Live(u) == part[u].connected /\ \E s \in SessionsOf(u) : Fresh(s)

Persisted(ex, e)  == ex[e].status \in {"QUEUED", "RUNNING", "COMPLETED"}
Unresolved(ex, e) == ex[e].status \in {"QUEUED", "RUNNING"}
OpenSubmit(ex, e) == Unresolved(ex, e) /\ ex[e].kind = "SUBMIT"
Accepted(ex, e) ==
  /\ ex[e].status = "COMPLETED"
  /\ ex[e].kind = "SUBMIT"
  /\ ex[e].verdict = "ACCEPTED"

(* The order of the winner query: receipt, then runtime, then sequence.    *)
Before(ex, e, f) ==
  \/ ex[e].rcv < ex[f].rcv
  \/ ex[e].rcv = ex[f].rcv /\ ex[e].runtime < ex[f].runtime
  \/ ex[e].rcv = ex[f].rcv /\ ex[e].runtime = ex[f].runtime /\ e < f

(* e is the first accepted submission, and no submission received no later *)
(* than e is still being judged.                                           *)
Decides(ex, e) ==
  /\ Accepted(ex, e)
  /\ \A f \in Executions : Accepted(ex, f) /\ f # e => Before(ex, e, f)
  /\ \A f \in Executions : OpenSubmit(ex, f) => ex[f].rcv > ex[e].rcv

-----------------------------------------------------------------------------
(* Decisions: how a transaction may end the round.                         *)

NoDecision == [reason |-> NoReason, winner |-> None]

Opponent(u) == CHOOSE v \in Players : v # u

(* Faults: waits for later submissions too; forgets those received at once.*)
BadOverBlocked(ex) ==
  IF \E e \in Executions : Decides(ex, e) /\ \A f \in Executions : ~OpenSubmit(ex, f)
    THEN [reason |-> "ACCEPTED",
          winner |-> ex[CHOOSE e \in Executions : Decides(ex, e)].user]
    ELSE NoDecision
BadUnderBlocked(ex) ==
  LET First(e) ==
        /\ Accepted(ex, e)
        /\ \A f \in Executions : Accepted(ex, f) /\ f # e => Before(ex, e, f)
        /\ \A f \in Executions : OpenSubmit(ex, f) => ex[f].rcv >= ex[e].rcv
  IN IF \E e \in Executions : First(e)
       THEN [reason |-> "ACCEPTED",
             winner |-> ex[CHOOSE e \in Executions : First(e)].user]
       ELSE NoDecision
AcceptedDecision(ex) ==
  IF \E e \in Executions : Decides(ex, e)
    THEN [reason |-> "ACCEPTED",
          winner |-> ex[CHOOSE e \in Executions : Decides(ex, e)].user]
    ELSE NoDecision

Gone(p)    == {u \in Players : ~p[u].connected}
Expired(p) == {u \in Gone(p) : p[u].deadline # None /\ p[u].deadline <= now}

(* Faults: in-flight work is not spared; two absent players wait for ever. *)
BadUnsparing(p, ex) ==
  \/ match.state # "ACTIVE" \/ Mode = "PRACTICE" \/ Expired(p) = {}
  \/ Gone(p) = Players /\ Expired(p) # Players
BadStandoff(p, ex) ==
  match.state # "ACTIVE" \/ Mode = "PRACTICE" \/ Expired(p) = {} \/ Gone(p) = Players

(* Why an expired deadline must not end the round yet.                     *)
AbsenceMustWait(p, ex) ==
  \/ match.state # "ACTIVE" \/ Mode = "PRACTICE"
  \/ Expired(p) = {}
  \/ \E e \in Executions : Accepted(ex, e)
  \/ \E e \in Executions : OpenSubmit(ex, e) /\ ex[e].user \in Expired(p)
  \/ Gone(p) = Players /\ Expired(p) # Players

AbsenceDecision(p, ex) ==
  IF AbsenceMustWait(p, ex) THEN NoDecision
  ELSE IF Gone(p) = Players THEN [reason |-> "NO_CONTEST", winner |-> None]
  ELSE [reason |-> "FORFEIT", winner |-> CHOOSE u \in Players : p[u].connected]

OutcomeOf(d, u) ==
  IF d.reason \in {"NO_CONTEST", "CANCELLED"} THEN d.reason
  ELSE IF u = d.winner THEN "WIN" ELSE "LOSS"

(* Fault: a no-contest costs both players a loss.                          *)
BadAnyVerdict(d) == Mode = "DUEL" /\ d.reason # "CANCELLED"
AppliesRecord(d) ==
  Mode = "DUEL" /\ ShouldApplyRecord(d.reason) /\ d.winner \in Players

(* The participants after finalizeMatchTx.                                 *)
Concluded(p, d) ==
  IF d = NoDecision THEN p
  ELSE [u \in Players |->
          [p[u] EXCEPT !.outcome = OutcomeOf(d, u), !.active = None]]

(* The match row, the records and the events after finalizeMatchTx.        *)
Finalize(d) ==
  /\ match' = [match EXCEPT
                 !.state = IF Mode = "DUEL" THEN "REMATCH_PENDING" ELSE "FINISHED",
                 !.winner = d.winner,
                 !.endReason = d.reason,
                 !.recordsApplied = AppliesRecord(d)]
  /\ records' = [u \in Players |->
                   [wins   |-> records[u].wins
                                 + IF AppliesRecord(d) /\ u = d.winner THEN 1 ELSE 0,
                    losses |-> records[u].losses
                                 + IF AppliesRecord(d) /\ u # d.winner THEN 1 ELSE 0]]
  /\ journal' = journal \o IF Mode = "DUEL" THEN <<"MATCH_FINISHED", "REMATCH_OPENED">>
                                            ELSE <<"MATCH_FINISHED">>

Conclude(d) ==
  \/ d # NoDecision /\ Finalize(d)
  \/ d = NoDecision /\ UNCHANGED <<match, records, journal>>

-----------------------------------------------------------------------------
(* The lobby.                                                              *)

(* A room has one guest seat; cancelling the lobby closes the room.        *)
JoinRoom(u) ==
  /\ now <= LastLobbyAct
  /\ Mode = "DUEL" /\ u # Host
  /\ match.endReason # "CANCELLED"
  /\ ~part[u].joined
  /\ part' = [part EXCEPT ![u].joined = TRUE]
  /\ UNCHANGED <<now, match, exec, sess, pending, records, journal>>

SetLanguage(u, l) ==
  /\ now <= LastLobbyAct
  /\ part[u].joined
  /\ match.state = "LOBBY"
  /\ part' = [part EXCEPT ![u] = [@ EXCEPT !.lang = l, !.ready = FALSE]]
  /\ UNCHANGED <<now, match, exec, sess, pending, records, journal>>

AllReady(p) ==
  \A u \in Players : p[u].joined /\ p[u].ready /\ p[u].lang # None

(* Readying the last player needs everybody live; otherwise the whole      *)
(* command is rolled back.                                                 *)
SetReady(u, ready) ==
  LET p == [part EXCEPT ![u].ready = ready] IN
  /\ now <= LastLobbyAct
  /\ part[u].joined
  /\ match.state = "LOBBY"
  /\ ready => part[u].lang # None /\ Live(u)
  /\ part' = p
  /\ \/ /\ AllReady(p)
        /\ \A v \in Players : Live(v)
        /\ match' = [match EXCEPT !.state = "COUNTDOWN",
                                  !.startsAt = now + Countdown]
        /\ journal' = Append(journal, "COUNTDOWN_STARTED")
     \/ /\ ~AllReady(p)
        /\ UNCHANGED <<match, journal>>
  /\ UNCHANGED <<now, exec, sess, pending, records>>

CancelMatch ==
  /\ now <= LastLobbyAct
  /\ match.state = "LOBBY"
  /\ match' = [match EXCEPT !.state = "FINISHED", !.endReason = "CANCELLED"]
  /\ part' = [u \in Players |->
                [part[u] EXCEPT !.outcome = IF part[u].joined THEN "CANCELLED" ELSE @]]
  /\ journal' = Append(journal, "MATCH_FINISHED")
  /\ UNCHANGED <<now, exec, sess, pending, records>>

CountdownOver == match.state = "COUNTDOWN" /\ match.startsAt <= now

(* Absence during the countdown starts to count when the round does.       *)
AbsentSince(u) ==
  IF part[u].discAt # None /\ part[u].discAt >= match.startsAt
    THEN part[u].discAt ELSE match.startsAt

AdvanceCountdown ==
  /\ CountdownOver
  /\ match' = [match EXCEPT !.state = "ACTIVE"]
  /\ part' = [u \in Players |->
       IF Mode = "DUEL" /\ ~part[u].connected /\ part[u].deadline = None
         THEN [part[u] EXCEPT !.discAt = AbsentSince(u),
                              !.deadline = AbsentSince(u) + Grace]
         ELSE part[u]]
  /\ journal' = Append(journal, "MATCH_ACTIVE")
  /\ UNCHANGED <<now, exec, sess, pending, records>>

-----------------------------------------------------------------------------
(* Executions.                                                             *)

(* The first statement of startExecution: the receipt is captured before   *)
(* the transaction waits for the match row.                                *)
Receive(u, kind) ==
  /\ now <= LastPlayAct
  /\ part[u].joined
  /\ \E e \in Executions :
       /\ exec[e].status = "FREE"
       /\ \A f \in 1 .. (e - 1) : exec[f].status # "FREE"
       /\ exec' = [exec EXCEPT ![e] = [@ EXCEPT !.status = "WAITING", !.user = u,
                                                 !.kind = kind, !.rcv = now]]
  /\ UNCHANGED <<now, match, part, sess, pending, records, journal>>

(* Fault: a second execution may start beside the first.                   *)
BadTwoAtOnce(e) ==
  /\ match.state = "ACTIVE" \/ CountdownOver
  /\ exec[e].rcv >= match.startsAt
  /\ part[exec[e].user].lang # None
MayStart(e) ==
  /\ match.state = "ACTIVE" \/ CountdownOver
  /\ exec[e].rcv >= match.startsAt
  /\ part[exec[e].user].lang # None
  /\ part[exec[e].user].active = None

RunAllowed(u) == part[u].nextRun <= now

(* Fault: nobody looks at the cooldown.                                    *)
BadSubmitAllowed(u) == TRUE
SubmitAllowed(u) == part[u].cooldown <= now

(* Fault: activating a match on the way is not logged.                     *)
BadSilentActivation == journal
JournalOnStart ==
  IF CountdownOver THEN Append(journal, "MATCH_ACTIVE") ELSE journal

(* The rest of startExecution, under the match lock. It activates a match  *)
(* whose countdown is over, without AdvanceCountdown's deadlines.          *)
StartExecution(e) ==
  LET u == exec[e].user IN
  /\ now <= LastPlayAct
  /\ exec[e].status = "WAITING"
  /\ MayStart(e)
  /\ \/ /\ exec[e].kind = "RUN"
        /\ RunAllowed(u)
        /\ part' = [part EXCEPT ![u] = [@ EXCEPT !.active = e,
                                                 !.nextRun = now + SampleGap]]
     \/ /\ exec[e].kind = "SUBMIT"
        /\ SubmitAllowed(u)
        /\ part' = [part EXCEPT ![u].active = e]
  /\ exec' = [exec EXCEPT ![e] = [@ EXCEPT !.status = "QUEUED", !.created = now]]
  /\ match' = [match EXCEPT !.state = "ACTIVE"]
  /\ journal' = JournalOnStart
  /\ UNCHANGED <<now, sess, pending, records>>

(* startExecution refuses, or its caller dies: the receipt is a gap.       *)
DropReceipt(e) ==
  /\ exec[e].status = "WAITING"
  /\ exec' = [exec EXCEPT ![e] = [NoExecution EXCEPT !.status = "DROPPED"]]
  /\ UNCHANGED <<now, match, part, sess, pending, records, journal>>

MarkExecutionRunning(e) ==
  /\ Unresolved(exec, e)
  /\ exec' = [exec EXCEPT ![e].status = "RUNNING"]
  /\ UNCHANGED <<now, match, part, sess, pending, records, journal>>

(* What a submission that was just completed decides: an acceptance first, *)
(* else an absence that was waiting for this submission.                   *)
SubmitDecision(p, ex) ==
  IF AcceptedDecision(ex) # NoDecision THEN AcceptedDecision(ex)
                                       ELSE AbsenceDecision(p, ex)

(* A rejected submission costs a cooldown, an infrastructure failure none. *)
Penalized(e, verdict) == exec[e].kind = "SUBMIT" /\ verdict = "REJECTED"

CooldownAfter(e, verdict) ==
  IF Penalized(e, verdict) THEN now + Cooldown ELSE part[exec[e].user].cooldown

(* completeExecution. A replayed callback finds the row COMPLETED and      *)
(* changes nothing. A result that comes after the round only fills the row.*)
Complete(e, verdict, runtime) ==
  LET u == exec[e].user
      eligible == match.state = "ACTIVE" /\ part[u].active = e
      done == [exec EXCEPT ![e] = [@ EXCEPT !.status = "COMPLETED", !.completed = now,
                                            !.verdict = verdict, !.runtime = runtime]]
      freed == [part EXCEPT ![u] =
                  [@ EXCEPT !.active = None, !.cooldown = CooldownAfter(e, verdict)]]
      d == IF exec[e].kind = "SUBMIT" THEN SubmitDecision(freed, done)
                                      ELSE NoDecision
  IN /\ Unresolved(exec, e)
     /\ exec' = done
     /\ \/ /\ eligible
           /\ part' = Concluded(freed, d)
           /\ Conclude(d)
        \/ /\ ~eligible
           /\ UNCHANGED <<match, part, records, journal>>
     /\ UNCHANGED <<now, sess, pending>>

(* The coordinator hands over the runner's result, with a measured runtime *)
(* if it accepts.                                                          *)
CompleteExecution(e) ==
  \/ \E runtime \in Runtimes : Complete(e, "ACCEPTED", runtime)
  \/ \E verdict \in Verdicts \ {"ACCEPTED"} : Complete(e, verdict, 0)

(* Fault: only executions that never started are given up.                 *)
BadQueuedOnly(e) ==
  /\ exec[e].status = "QUEUED"
  /\ exec[e].created + ExecStale <= now
  /\ Complete(e, "INFRA_ERROR", 0)
(* Maintenance gives up on an execution nobody has resolved.               *)
RecoverStaleExecution(e) ==
  /\ exec[e].created + ExecStale <= now
  /\ Complete(e, "INFRA_ERROR", 0)

(* Conceding; alone in a practice round it cancels.                        *)
ForfeitMatch(u) ==
  LET d == IF Mode = "DUEL" THEN [reason |-> "FORFEIT", winner |-> Opponent(u)]
                            ELSE [reason |-> "CANCELLED", winner |-> None]
  IN /\ now <= LastPlayAct
     /\ match.state = "ACTIVE"
     /\ \A e \in Executions : OpenSubmit(exec, e) => exec[e].user # u
     /\ part' = Concluded(part, d)
     /\ Conclude(d)
     /\ UNCHANGED <<now, exec, sess, pending>>

-----------------------------------------------------------------------------
(* Presence.                                                               *)

(* Fault: the deadline survives the reconnection.                          *)
BadOnline(row) == [row EXCEPT !.connected = TRUE, !.discAt = None]
Online(row) ==
  [row EXCEPT !.connected = TRUE, !.discAt = None, !.deadline = None]

(* A connection first settles an absence that has already run out.         *)
ConnectSession(s) ==
  LET u == Owner[s]
      d == AbsenceDecision(part, exec)
  IN /\ now <= LastLinkAct
     /\ part[u].joined
     /\ sess' = [sess EXCEPT ![s] = [status |-> "OPEN", at |-> now]]
     /\ part' = [Concluded(part, d) EXCEPT ![u] = Online(@)]
     /\ Conclude(d)
     /\ UNCHANGED <<now, exec, pending>>

(* A heartbeat: one statement, which only an open session answers.         *)
TouchSession(s) ==
  /\ now <= LastLinkAct
  /\ sess[s].status = "OPEN"
  /\ sess' = [sess EXCEPT ![s].at = now]
  /\ UNCHANGED <<now, match, part, exec, pending, records, journal>>

(* The socket closes: the first of the two transactions.                   *)
DisconnectSession(s) ==
  /\ now <= LastLinkAct
  /\ sess[s].status = "OPEN"
  /\ pending[Owner[s]] < MaxPending
  /\ sess' = [sess EXCEPT ![s] = [status |-> "CLOSED", at |-> now]]
  /\ pending' = [pending EXCEPT ![Owner[s]] = @ + 1]
  /\ UNCHANGED <<now, match, part, exec, records, journal>>

StaleSessions == {s \in Sessions : sess[s].status = "OPEN" /\ ~Fresh(s)}

(* The sweep closes every stale session, as of its last heartbeat.         *)
ExpireStaleSessions ==
  LET owners == {Owner[s] : s \in StaleSessions} IN
  /\ StaleSessions # {}
  /\ \A u \in owners : pending[u] < MaxPending
  /\ sess' = [s \in Sessions |->
                IF s \in StaleSessions THEN [sess[s] EXCEPT !.status = "CLOSED"]
                                       ELSE sess[s]]
  /\ pending' = [u \in Players |-> IF u \in owners THEN pending[u] + 1 ELSE pending[u]]
  /\ UNCHANGED <<now, match, part, exec, records, journal>>

(* t is the last sign of life of u in any of its session rows.             *)
LastSeen(u, t) ==
  LET seen == {sess[s].at : s \in {r \in SessionsOf(u) : sess[r].status # "UNUSED"}}
  IN t \in seen /\ \A x \in seen : x <= t

(* Fault: absence is noticed in an active round only.                      *)
BadActiveOnly(u) ==
  /\ match.state = "ACTIVE"
  /\ part[u].connected /\ \A s \in SessionsOf(u) : ~Fresh(s)
Absent(u) == part[u].connected /\ \A s \in SessionsOf(u) : ~Fresh(s)

(* Fault: the reconciliation also runs with no session just closed.        *)
BadDue(u) == part[u].connected
Due(u) == pending[u] > 0

(* The second transaction: the participant is marked absent unless another *)
(* of its sessions is fresh.                                               *)
ReconcileConnection(u) ==
  /\ Due(u)
  /\ pending' = [pending EXCEPT ![u] = @ - 1]
  /\ \/ /\ Absent(u)
        /\ \E t \in 0 .. now :
             /\ LastSeen(u, t)
             /\ part' = [part EXCEPT ![u] =
                  [@ EXCEPT !.connected = FALSE,
                            !.discAt = t,
                            !.deadline = IF match.state = "ACTIVE" /\ Mode = "DUEL"
                                           THEN t + Grace ELSE None]]
     \/ ~Absent(u) /\ UNCHANGED part
  /\ UNCHANGED <<now, match, exec, sess, records, journal>>

(* The server dies between the two transactions.                           *)
CrashBeforeReconcile(u) ==
  /\ MayCrash
  /\ pending[u] > 0
  /\ pending' = [pending EXCEPT ![u] = @ - 1]
  /\ UNCHANGED <<now, match, part, exec, sess, records, journal>>

(* The sweep over reconnect deadlines that have passed.                    *)
ProcessDueDisconnects ==
  LET d == AbsenceDecision(part, exec) IN
  /\ d # NoDecision
  /\ part' = Concluded(part, d)
  /\ Conclude(d)
  /\ UNCHANGED <<now, exec, sess, pending>>

Tick ==
  /\ now < MaxTime
  /\ now' = now + 1
  /\ UNCHANGED <<match, part, exec, sess, pending, records, journal>>

-----------------------------------------------------------------------------
Next ==
  \/ \E u \in Players : JoinRoom(u)
  \/ \E u \in Players, l \in Languages : SetLanguage(u, l)
  \/ \E u \in Players, ready \in BOOLEAN : SetReady(u, ready)
  \/ CancelMatch
  \/ AdvanceCountdown
  \/ \E u \in Players, kind \in Kinds : Receive(u, kind)
  \/ \E e \in Executions : StartExecution(e)
  \/ \E e \in Executions : DropReceipt(e)
  \/ \E e \in Executions : MarkExecutionRunning(e)
  \/ \E e \in Executions : CompleteExecution(e)
  \/ \E e \in Executions : RecoverStaleExecution(e)
  \/ \E u \in Players : ForfeitMatch(u)
  \/ \E s \in Sessions : ConnectSession(s)
  \/ \E s \in Sessions : TouchSession(s)
  \/ \E s \in Sessions : DisconnectSession(s)
  \/ ExpireStaleSessions
  \/ \E u \in Players : ReconcileConnection(u)
  \/ \E u \in Players : CrashBeforeReconcile(u)
  \/ ProcessDueDisconnects
  \/ Tick

Spec == Init /\ [][Next]_vars

(* Maintenance, and a server that stays up, run again and again; users and *)
(* runners owe nothing.                                                    *)
Fairness ==
  /\ WF_vars(Tick)
  /\ WF_vars(AdvanceCountdown)
  /\ WF_vars(ExpireStaleSessions)
  /\ WF_vars(ProcessDueDisconnects)
  /\ \A u \in Players : WF_vars(ReconcileConnection(u))
  /\ \A e \in Executions : WF_vars(RecoverStaleExecution(e))

FairSpec == Spec /\ Fairness

-----------------------------------------------------------------------------
(* Safety.                                                                 *)

(* No verdict is forgotten: while the round is active there is no accepted *)
(* submission that the winner query would already crown. Every completion  *)
(* must therefore look for the winner itself; nobody polls for it.         *)
NoForgottenWinner ==
  match.state = "ACTIVE" => ~ \E e \in Executions : Decides(exec, e)

(* The winner of an accepted round is the author of the submission that    *)
(* comes first, and stays so whatever late results arrive afterwards.      *)
WinnerIsEarliest ==
  match.endReason = "ACCEPTED" =>
    \E e \in Executions : Decides(exec, e) /\ exec[e].user = match.winner

(* The active_execution_id pointer and the executions table agree: in an   *)
(* active round every unresolved execution is its author's only one, so    *)
(* its result will count; outside of it nobody holds one.                  *)
OneLiveExecution ==
  /\ \A e \in Executions :
       match.state = "ACTIVE" /\ Unresolved(exec, e) => part[exec[e].user].active = e
  /\ \A u \in Players : part[u].active # None =>
       /\ match.state = "ACTIVE"
       /\ Unresolved(exec, part[u].active)
       /\ exec[part[u].active].user = u

(* A player is never beaten by default while one of its own submissions is *)
(* still being judged, and no contest is declared over an acceptance.      *)
DefaultSparesSubmissions ==
  /\ match.endReason = "FORFEIT" =>
       \A e \in Executions : OpenSubmit(exec, e) => exec[e].user = match.winner
  /\ match.endReason = "NO_CONTEST" =>
       \A e \in Executions : ~OpenSubmit(exec, e) /\ ~Accepted(exec, e)

(* Two sample runs of one player start at least SampleGap apart, however   *)
(* their requests and the submissions in between interleave.               *)
RunsAreSpaced ==
  \A e, f \in Executions :
    /\ e # f /\ exec[e].user = exec[f].user
    /\ exec[e].kind = "RUN" /\ exec[f].kind = "RUN"
    /\ Persisted(exec, e) /\ Persisted(exec, f)
    => \/ exec[e].created >= exec[f].created + SampleGap
       \/ exec[f].created >= exec[e].created + SampleGap

(* A rejected submission blocks: the executions of one player follow one   *)
(* another, and a submission that follows a rejected one starts a whole    *)
(* Cooldown after that verdict, whoever gave it and whatever came between. *)
Follows(f, e) ==
  /\ exec[e].status = "COMPLETED"
  /\ exec[f].created >= exec[e].completed
  /\ exec[f].kind = "SUBMIT" /\ exec[e].kind = "SUBMIT" /\ exec[e].verdict = "REJECTED"
       => exec[f].created >= exec[e].completed + Cooldown
RejectionsBlock ==
  \A e, f \in Executions :
    /\ e # f /\ exec[e].user = exec[f].user
    /\ Persisted(exec, e) /\ Persisted(exec, f)
    => Follows(f, e) \/ Follows(e, f)

(* A player's cooldown moves only when a submission of its own is rejected *)
(* in an active round, and then it runs from that moment: never by a       *)
(* sample run, an infrastructure failure, a result that comes too late or  *)
(* anything else that happens.                                             *)
CooldownIsEarned ==
  \A u \in Players : part'[u].cooldown # part[u].cooldown =>
    /\ match.state = "ACTIVE"
    /\ part'[u].cooldown = now + Cooldown
    /\ \E e \in Executions :
         /\ Unresolved(exec, e) /\ exec[e].user = u /\ exec[e].kind = "SUBMIT"
         /\ exec'[e].status = "COMPLETED" /\ exec'[e].verdict = "REJECTED"

(* The two limits of a player, of every step: after it, neither has been   *)
(* evaded by racing requests, and it lays a cooldown on nobody who has not *)
(* earned it.                                                              *)
RateLimitsApply == [][RunsAreSpaced' /\ RejectionsBlock' /\ CooldownIsEarned]_vars

(* A reconnect deadline exists only for an absent player of a duel that    *)
(* has started, never of one in the lobby or counting down; it runs the    *)
(* full grace period from the moment the absence counts from, which has    *)
(* passed. A duel that has ended keeps it.                                 *)
DeadlineRunsFromAbsence ==
  \A u \in Players : part[u].deadline # None =>
    /\ Mode = "DUEL" /\ match.state \notin {"LOBBY", "COUNTDOWN"}
    /\ ~part[u].connected
    /\ part[u].discAt # None /\ part[u].discAt <= now
    /\ part[u].deadline = part[u].discAt + Grace

(* A player counted as connected has an open session, or a reconciliation  *)
(* that will notice the contrary is still to run (unless servers die).     *)
PresenceIsWatched ==
  \A u \in Players :
    part[u].connected /\ ~MayCrash =>
      pending[u] > 0 \/ \E s \in SessionsOf(u) : sess[s].status = "OPEN"

(* The lifecycle events in the event log are exactly those of the state    *)
(* the match row is in: none missing, repeated or out of order.            *)
JournalTellsState ==
  journal = CASE match.state = "LOBBY"     -> <<>>
              [] match.state = "COUNTDOWN" -> <<"COUNTDOWN_STARTED">>
              [] match.state = "ACTIVE"    -> <<"COUNTDOWN_STARTED", "MATCH_ACTIVE">>
              [] match.state = "FINISHED" /\ match.startsAt = None -> <<"MATCH_FINISHED">>
              [] match.state = "FINISHED" /\ match.startsAt # None ->
                   <<"COUNTDOWN_STARTED", "MATCH_ACTIVE", "MATCH_FINISHED">>
              [] OTHER -> <<"COUNTDOWN_STARTED", "MATCH_ACTIVE",
                            "MATCH_FINISHED", "REMATCH_OPENED">>

(* The engine keeps the promises of MatchContract: one verdict, reached    *)
(* from an active round, booked in the records exactly once with it.       *)
Contract == INSTANCE MatchContract WITH
  state   <- match.state,
  verdict <- [reason |-> match.endReason, winner |-> match.winner],
  tally   <- records

ImplementsContract == Contract!Spec

-----------------------------------------------------------------------------
(* Liveness, for behaviours of FairSpec.                                   *)

(* A countdown always ends, with no help from the players.                 *)
CountdownEnds == match.state = "COUNTDOWN" ~> match.state # "COUNTDOWN"

(* Every execution that got a row is resolved, even when its runner or its *)
(* coordinator never answers.                                              *)
ExecutionsResolve ==
  \A e \in Executions : Unresolved(exec, e) ~> exec[e].status = "COMPLETED"

(* What a round waits for comes, with no help from anybody.                *)
RoundMovesOn == CountdownEnds /\ ExecutionsResolve

(* A duel everybody walks away from comes to an end, whatever was in       *)
(* flight, provided every absent player has been given a deadline.         *)
AbsenceIsTimed ==
  match.state = "ACTIVE" /\ Mode = "DUEL" =>
    \A u \in Players : ~part[u].connected => part[u].deadline # None

AbandonedDuelEnds ==
  (match.state = "ACTIVE" /\ Mode = "DUEL" /\ AbsenceIsTimed) ~> match.state # "ACTIVE"

-----------------------------------------------------------------------------
(* Claims of the documentation that the code does not keep.                *)

(* AbsenceIsTimed, as an invariant: every player absent from an active     *)
(* duel has a reconnect deadline. StartExecution activates without setting *)
(* one for a player who left during the countdown.                         *)

(* The stale-session sweep is the last resort for a socket whose close     *)
(* could not be recorded. It only looks at open sessions, so a crash       *)
(* between closing the session and reconciling is never repaired.          *)
SweepIsFallback ==
  \A u \in Players :
    (part[u].connected /\ \A s \in SessionsOf(u) : sess[s].status # "OPEN")
      ~> (~part[u].connected \/ \E s \in SessionsOf(u) : sess[s].status = "OPEN")

(* The deadline is started by the disconnection of the final session: a    *)
(* player whose deadline runs has no live session. A session that was late *)
(* but not yet swept can beat again after another one was closed.          *)
DeadlineMeansNoLiveSession ==
  \A u \in Players : part[u].deadline # None => \A s \in SessionsOf(u) : ~Fresh(s)

(* An accepted candidate cannot finalize while the opponent's submission   *)
(* with an earlier receipt, which nothing would refuse, is unresolved.     *)
EarlierReceiptHoldsVerdict ==
  [][ match.endReason = NoReason /\ match'.endReason = "ACCEPTED" =>
        \A e, f \in Executions :
          /\ exec[e].status = "WAITING" /\ exec[e].kind = "SUBMIT"
          /\ exec[e].user # match'.winner
          /\ MayStart(e) /\ SubmitAllowed(exec[e].user)
          /\ Accepted(exec', f) /\ exec[f].user = match'.winner
          => exec[e].rcv >= exec[f].rcv ]_vars
=============================================================================
