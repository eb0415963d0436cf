-------------------------- MODULE MatchEngineProofs --------------------------
(***************************************************************************)
(* What TLAPS proves of MatchEngine, for every number of executions, every *)
(* set of sessions and every timing constant.                              *)
(***************************************************************************)
EXTENDS MatchEngine, SequenceTheorems, TLAPS

LEMMA NumbersAreNatural ==
  /\ Countdown \in Nat /\ Grace \in Nat /\ StaleAfter \in Nat
  /\ Cooldown \in Nat /\ SampleGap \in Nat /\ MaxExec \in Nat
  BY NumbersAssumption

-----------------------------------------------------------------------------
(* The operators that decide a round and conclude it.                      *)

Decision == [reason : EndReason \cup {NoReason}, winner : Players \cup {None}]

(* The winner query and the disconnect evaluation name a player or nobody. *)
LEMMA DecisionsAreTyped ==
  ASSUME NEW p \in [Players -> ParticipantRow],
         NEW ex \in [Executions -> ExecutionRow]
  PROVE  /\ AcceptedDecision(ex) \in Decision
         /\ AbsenceDecision(p, ex) \in Decision
         /\ SubmitDecision(p, ex) \in Decision
<1>1. NoDecision \in Decision
  BY DEF NoDecision, Decision
<1>2. AcceptedDecision(ex) \in Decision
  <2>1. CASE \E e \in Executions : Decides(ex, e)
    <3>1. (CHOOSE e \in Executions : Decides(ex, e)) \in Executions
      BY <2>1
    <3>2. ex[CHOOSE e \in Executions : Decides(ex, e)].user \in Players
      BY <3>1 DEF ExecutionRow
    <3> QED
      BY <2>1, <3>2 DEF AcceptedDecision, Decision, EndReason
  <2>2. CASE ~ \E e \in Executions : Decides(ex, e)
    BY <1>1, <2>2 DEF AcceptedDecision
  <2> QED
    BY <2>1, <2>2
<1>3. AbsenceDecision(p, ex) \in Decision
  <2>1. ASSUME Gone(p) # Players
        PROVE  (CHOOSE u \in Players : p[u].connected) \in Players
    <3>1. \E u \in Players : p[u].connected
      BY <2>1 DEF Gone
    <3> QED
      BY <3>1
  <2> QED
    BY <1>1, <2>1 DEF AbsenceDecision, Decision, EndReason
<1> QED
  BY <1>2, <1>3 DEF SubmitDecision

LEMMA OpponentIsAPlayer ==
  ASSUME Mode = "DUEL", NEW u \in Players
  PROVE  /\ Opponent(u) \in Players
         /\ Opponent(u) # u
  BY ModeAssumption DEF Opponent

(* Ending a round keeps every row well formed.                             *)
LEMMA ConcludedIsTyped ==
  ASSUME NEW p \in [Players -> ParticipantRow], NEW d \in Decision
  PROVE  Concluded(p, d) \in [Players -> ParticipantRow]
<1>1. \A u \in Players : OutcomeOf(d, u) \in Outcomes
  BY DEF OutcomeOf, Outcomes
<1> QED
  BY <1>1 DEF Concluded, ParticipantRow

LEMMA ConcludeIsTyped ==
  ASSUME TypeOK, NEW d \in Decision, Conclude(d)
  PROVE  /\ match' \in MatchRow
         /\ match'.state \in {"COUNTDOWN", "ACTIVE"} => match'.startsAt \in Nat
         /\ records' \in [Players -> [wins : Nat, losses : Nat]]
         /\ journal' \in Seq(Lifecycle)
<1>1. CASE d = NoDecision
  BY <1>1 DEF Conclude, TypeOK
<1>2. CASE d # NoDecision
  <2>1. Finalize(d)
    BY <1>2 DEF Conclude
  <2>2. match' \in MatchRow /\ match'.state \in {"REMATCH_PENDING", "FINISHED"}
    BY <2>1 DEF Finalize, TypeOK, MatchRow, MatchState, Decision, AppliesRecord
  <2>3. records' \in [Players -> [wins : Nat, losses : Nat]]
    BY <2>1 DEF Finalize, TypeOK
  <2>4. journal' \in Seq(Lifecycle)
    <3>1. <<"MATCH_FINISHED", "REMATCH_OPENED">> \in Seq(Lifecycle)
      BY DEF Lifecycle
    <3>2. <<"MATCH_FINISHED">> \in Seq(Lifecycle)
      BY DEF Lifecycle
    <3> QED
      BY <2>1, <3>1, <3>2 DEF Finalize, TypeOK
  <2> QED
    BY <2>2, <2>3, <2>4
<1> QED
  BY <1>1, <1>2

-----------------------------------------------------------------------------
(* Type correctness.                                                       *)

(* Appending a lifecycle event to the log gives a log.                     *)
LEMMA EventsAreLogged ==
  ASSUME journal \in Seq(Lifecycle)
  PROVE  /\ Append(journal, "COUNTDOWN_STARTED") \in Seq(Lifecycle)
         /\ Append(journal, "MATCH_ACTIVE") \in Seq(Lifecycle)
         /\ Append(journal, "MATCH_FINISHED") \in Seq(Lifecycle)
<1>1. {"COUNTDOWN_STARTED", "MATCH_ACTIVE", "MATCH_FINISHED"} \subseteq Lifecycle
  BY DEF Lifecycle
<1> QED
  BY <1>1

(* The author's row once its execution is resolved.                        *)
LEMMA FreedIsTyped ==
  ASSUME TypeOK, NEW e \in Executions, NEW verdict \in Verdicts
  PROVE  [part EXCEPT ![exec[e].user] =
            [@ EXCEPT !.active = None, !.cooldown = CooldownAfter(e, verdict)]]
           \in [Players -> ParticipantRow]
<1>1. exec[e].user \in Players
  BY DEF TypeOK, ExecutionRow
<1>2. CooldownAfter(e, verdict) \in Nat
  BY <1>1, NumbersAreNatural DEF CooldownAfter, TypeOK, ParticipantRow
<1>3. \A v \in Players, c \in Nat :
        [part[v] EXCEPT !.active = None, !.cooldown = c] \in ParticipantRow
  BY DEF TypeOK, ParticipantRow
<1> QED
  BY <1>1, <1>2, <1>3 DEF TypeOK

(* completeExecution keeps every row well formed, whoever calls it.        *)
LEMMA CompleteIsTyped ==
  ASSUME TypeOK, NEW e \in Executions, NEW verdict \in Verdicts,
         NEW runtime \in Nat, Complete(e, verdict, runtime)
  PROVE  TypeOK'
<1> DEFINE u == exec[e].user
           done == [exec EXCEPT ![e] = [@ EXCEPT !.status = "COMPLETED", !.completed = now,
                                                 !.verdict = verdict,
                                                 !.runtime = runtime]]
           freed == [part EXCEPT ![u] =
                       [@ EXCEPT !.active = None,
                                 !.cooldown = CooldownAfter(e, verdict)]]
           d == IF exec[e].kind = "SUBMIT" THEN SubmitDecision(freed, done)
                                           ELSE NoDecision
<1>2. done \in [Executions -> ExecutionRow]
  <2>1. exec \in [Executions -> ExecutionRow]
    BY DEF TypeOK
  <2>2. [exec[e] EXCEPT !.status = "COMPLETED", !.completed = now,
                       !.verdict = verdict, !.runtime = runtime]
          \in ExecutionRow
    BY <2>1 DEF TypeOK, ExecutionRow, ExecStatus
  <2> QED
    BY <2>1, <2>2
<1>3. freed \in [Players -> ParticipantRow]
  BY FreedIsTyped
<1>4. d \in Decision
  BY <1>2, <1>3, DecisionsAreTyped DEF NoDecision, Decision
<1>5. /\ exec' = done
      /\ now' = now /\ sess' = sess /\ pending' = pending
      /\ \/ part' = Concluded(freed, d) /\ Conclude(d)
         \/ UNCHANGED <<match, part, records, journal>>
  BY DEF Complete
<1>6. CASE part' = Concluded(freed, d) /\ Conclude(d)
  <2>1. part' \in [Players -> ParticipantRow]
    BY <1>3, <1>4, <1>6, ConcludedIsTyped
  <2> QED
    BY <1>2, <1>4, <1>5, <1>6, <2>1, ConcludeIsTyped DEF TypeOK
<1>7. CASE UNCHANGED <<match, part, records, journal>>
  BY <1>2, <1>5, <1>7 DEF TypeOK
<1> QED
  BY <1>5, <1>6, <1>7

LEMMA InitIsTyped == Init => TypeOK
  BY ModeAssumption
     DEF Init, TypeOK, MatchRow, MatchState, NoReason, ParticipantRow, Outcomes,
         ExecutionRow, ExecStatus, NoExecution, SessionRow

LEMMA NextKeepsTypes == TypeOK /\ [Next]_vars => TypeOK'
<1> SUFFICES ASSUME TypeOK, [Next]_vars
             PROVE  TypeOK'
  OBVIOUS
<1>1. ASSUME NEW u \in Players, JoinRoom(u)
      PROVE  TypeOK'
  <2>1. [part[u] EXCEPT !.joined = TRUE] \in ParticipantRow
    BY DEF TypeOK, ParticipantRow
  <2> QED
    BY <1>1, <2>1 DEF JoinRoom, TypeOK
<1>2. ASSUME NEW u \in Players, NEW l \in Languages, SetLanguage(u, l)
      PROVE  TypeOK'
  <2>1. [part[u] EXCEPT !.lang = l, !.ready = FALSE] \in ParticipantRow
    BY DEF TypeOK, ParticipantRow
  <2> QED
    BY <1>2, <2>1 DEF SetLanguage, TypeOK
<1>3. ASSUME NEW u \in Players, NEW ready \in BOOLEAN, SetReady(u, ready)
      PROVE  TypeOK'
  <2>1. part' \in [Players -> ParticipantRow]
    <3>1. /\ [part[u] EXCEPT !.ready = TRUE] \in ParticipantRow
          /\ [part[u] EXCEPT !.ready = FALSE] \in ParticipantRow
      BY DEF TypeOK, ParticipantRow
    <3> QED
      BY <1>3, <3>1 DEF SetReady, TypeOK
  <2>2. /\ match' \in MatchRow
        /\ match'.state \in {"COUNTDOWN", "ACTIVE"} => match'.startsAt \in Nat
    <3>1. \A t \in Nat :
            LET row == [match EXCEPT !.state = "COUNTDOWN", !.startsAt = t]
            IN row \in MatchRow /\ row.startsAt = t
      BY DEF TypeOK, MatchRow, MatchState
    <3>2. now + Countdown \in Nat
      BY NumbersAreNatural DEF TypeOK
    <3> QED
      BY <1>3, <3>1, <3>2 DEF SetReady, TypeOK
  <2>3. journal' \in Seq(Lifecycle)
    BY <1>3, EventsAreLogged DEF SetReady, TypeOK
  <2> QED
    BY <1>3, <2>1, <2>2, <2>3 DEF SetReady, TypeOK
<1>4. CASE CancelMatch
  <2>1. part' \in [Players -> ParticipantRow]
    <3>1. \A u \in Players :
            [part[u] EXCEPT !.outcome = IF part[u].joined THEN "CANCELLED" ELSE @]
              \in ParticipantRow
      BY DEF TypeOK, ParticipantRow, Outcomes
    <3> QED
      BY <1>4, <3>1 DEF CancelMatch
  <2>2. match' \in MatchRow /\ match'.state = "FINISHED"
    <3>1. LET row == [match EXCEPT !.state = "FINISHED", !.endReason = "CANCELLED"]
          IN row \in MatchRow /\ row.state = "FINISHED"
      BY DEF TypeOK, MatchRow, MatchState, EndReason
    <3> QED
      BY <1>4, <3>1 DEF CancelMatch
  <2>3. journal' \in Seq(Lifecycle)
    BY <1>4, EventsAreLogged DEF CancelMatch, TypeOK
  <2> QED
    BY <1>4, <2>1, <2>2, <2>3 DEF CancelMatch, TypeOK
<1>5. CASE AdvanceCountdown
  <2>1. \A u \in Players : AbsentSince(u) \in Nat
    BY <1>5 DEF AdvanceCountdown, CountdownOver, AbsentSince, TypeOK, ParticipantRow
  <2>2. part' \in [Players -> ParticipantRow]
    <3>1. \A u \in Players : AbsentSince(u) + Grace \in Nat
      BY <2>1, NumbersAreNatural
    <3>2. \A u \in Players, t \in Nat, x \in Nat :
            [part[u] EXCEPT !.discAt = t, !.deadline = x] \in ParticipantRow
      BY DEF TypeOK, ParticipantRow
    <3> QED
      BY <1>5, <2>1, <3>1, <3>2 DEF AdvanceCountdown, TypeOK
  <2>3. match' \in MatchRow /\ match'.startsAt \in Nat
    BY <1>5 DEF AdvanceCountdown, CountdownOver, TypeOK, MatchRow, MatchState
  <2>4. journal' \in Seq(Lifecycle)
    BY <1>5, EventsAreLogged DEF AdvanceCountdown, TypeOK
  <2> QED
    BY <1>5, <2>2, <2>3, <2>4 DEF AdvanceCountdown, TypeOK
<1>6. ASSUME NEW u \in Players, NEW kind \in Kinds, Receive(u, kind)
      PROVE  TypeOK'
  <2>1. kind \in {"RUN", "SUBMIT"}
    BY NumbersAssumption
  <2> QED
    <3>1. \A e \in Executions :
            [exec[e] EXCEPT !.status = "WAITING", !.user = u, !.kind = kind, !.rcv = now]
              \in ExecutionRow
      BY <2>1 DEF TypeOK, ExecutionRow, ExecStatus
    <3> QED
      BY <1>6, <3>1 DEF Receive, TypeOK
<1>7. ASSUME NEW e \in Executions, StartExecution(e)
      PROVE  TypeOK'
  <2>1. exec[e].user \in Players
    BY DEF TypeOK, ExecutionRow
  <2>2. part' \in [Players -> ParticipantRow]
    <3>1. now + SampleGap \in Nat
      BY NumbersAreNatural DEF TypeOK
    <3>2. \A u \in Players, t \in Nat :
            /\ [part[u] EXCEPT !.active = e, !.nextRun = t] \in ParticipantRow
            /\ [part[u] EXCEPT !.active = e] \in ParticipantRow
      BY DEF TypeOK, ParticipantRow
    <3> QED
      BY <1>7, <2>1, <3>1, <3>2 DEF StartExecution, TypeOK
  <2>3. exec' \in [Executions -> ExecutionRow]
    <3>1. [exec[e] EXCEPT !.status = "QUEUED", !.created = now] \in ExecutionRow
      BY DEF TypeOK, ExecutionRow, ExecStatus
    <3> QED
      BY <1>7, <3>1 DEF StartExecution, TypeOK
  <2>4. match' \in MatchRow /\ match'.startsAt \in Nat
    BY <1>7 DEF StartExecution, MayStart, CountdownOver, TypeOK, MatchRow, MatchState
  <2>5. journal' \in Seq(Lifecycle)
    BY <1>7, EventsAreLogged DEF StartExecution, JournalOnStart, TypeOK
  <2> QED
    BY <1>7, <2>2, <2>3, <2>4, <2>5 DEF StartExecution, TypeOK
<1>8. ASSUME NEW e \in Executions, DropReceipt(e)
      PROVE  TypeOK'
  <2>1. [NoExecution EXCEPT !.status = "DROPPED"] \in ExecutionRow
    BY ModeAssumption DEF NoExecution, ExecutionRow, ExecStatus
  <2> QED
    BY <1>8, <2>1 DEF DropReceipt, TypeOK
<1>9. ASSUME NEW e \in Executions, MarkExecutionRunning(e)
      PROVE  TypeOK'
  <2>1. [exec[e] EXCEPT !.status = "RUNNING"] \in ExecutionRow
    BY DEF TypeOK, ExecutionRow, ExecStatus
  <2> QED
    BY <1>9, <2>1 DEF MarkExecutionRunning, TypeOK
<1>10. ASSUME NEW e \in Executions, CompleteExecution(e)
       PROVE  TypeOK'
  <2>1. PICK verdict \in Verdicts, runtime \in Nat : Complete(e, verdict, runtime)
    BY <1>10, NumbersAssumption DEF CompleteExecution, Verdicts
  <2> QED
    BY <2>1, CompleteIsTyped
<1>11. ASSUME NEW e \in Executions, RecoverStaleExecution(e)
       PROVE  TypeOK'
  BY <1>11, CompleteIsTyped DEF RecoverStaleExecution, Verdicts
<1>12. ASSUME NEW u \in Players, ForfeitMatch(u)
       PROVE  TypeOK'
  <2> DEFINE d == IF Mode = "DUEL" THEN [reason |-> "FORFEIT", winner |-> Opponent(u)]
                                   ELSE [reason |-> "CANCELLED", winner |-> None]
  <2>1. d \in Decision
    BY OpponentIsAPlayer DEF Decision, EndReason
  <2>2. part' = Concluded(part, d) /\ Conclude(d)
    BY <1>12 DEF ForfeitMatch
  <2>3. UNCHANGED <<now, exec, sess, pending>>
    BY <1>12 DEF ForfeitMatch
  <2> HIDE DEF d
  <2>4. part' \in [Players -> ParticipantRow]
    BY <2>1, <2>2, ConcludedIsTyped DEF TypeOK
  <2> QED
    BY <2>1, <2>2, <2>3, <2>4, ConcludeIsTyped DEF TypeOK
<1>13. ASSUME NEW s \in Sessions, ConnectSession(s)
       PROVE  TypeOK'
  <2> DEFINE d == AbsenceDecision(part, exec)
  <2>1. d \in Decision
    BY DecisionsAreTyped DEF TypeOK
  <2>2. Owner[s] \in Players
    BY OwnerAssumption
  <2>3. /\ sess' = [sess EXCEPT ![s] = [status |-> "OPEN", at |-> now]]
        /\ part' = [Concluded(part, d) EXCEPT ![Owner[s]] = Online(@)]
        /\ Conclude(d)
        /\ UNCHANGED <<now, exec, pending>>
    BY <1>13 DEF ConnectSession
  <2> HIDE DEF d
  <2>4. part' \in [Players -> ParticipantRow]
    <3>1. Concluded(part, d) \in [Players -> ParticipantRow]
      BY <2>1, ConcludedIsTyped DEF TypeOK
    <3>2. Online(Concluded(part, d)[Owner[s]]) \in ParticipantRow
      <4>1. Concluded(part, d)[Owner[s]] \in ParticipantRow
        BY <2>2, <3>1
      <4> QED
        BY <4>1 DEF Online, ParticipantRow
    <3> QED
      BY <2>2, <2>3, <3>1, <3>2
  <2>5. sess' \in [Sessions -> SessionRow]
    BY <2>3 DEF TypeOK, SessionRow
  <2> QED
    BY <2>1, <2>3, <2>4, <2>5, ConcludeIsTyped DEF TypeOK
<1>14. ASSUME NEW s \in Sessions, TouchSession(s)
       PROVE  TypeOK'
  BY <1>14 DEF TouchSession, TypeOK, SessionRow
<1>15. ASSUME NEW s \in Sessions, DisconnectSession(s)
       PROVE  TypeOK'
  <2>1. sess' \in [Sessions -> SessionRow]
    BY <1>15 DEF DisconnectSession, TypeOK, SessionRow
  <2>2. pending' \in [Players -> Nat]
    <3>1. pending' = [pending EXCEPT ![Owner[s]] = @ + 1]
      BY <1>15 DEF DisconnectSession
    <3>2. Owner[s] \in Players
      BY OwnerAssumption
    <3> QED
      BY <3>1, <3>2 DEF TypeOK
  <2> QED
    BY <1>15, <2>1, <2>2 DEF DisconnectSession, TypeOK
<1>16. CASE ExpireStaleSessions
  <2>1. sess' \in [Sessions -> SessionRow]
    <3>1. \A s \in Sessions : [sess[s] EXCEPT !.status = "CLOSED"] \in SessionRow
      BY DEF TypeOK, SessionRow
    <3> QED
      BY <1>16, <3>1 DEF ExpireStaleSessions, TypeOK
  <2>2. pending' \in [Players -> Nat]
    <3> DEFINE owners == {Owner[s] : s \in StaleSessions}
    <3>1. pending' = [u \in Players |->
                        IF u \in owners THEN pending[u] + 1 ELSE pending[u]]
      BY <1>16 DEF ExpireStaleSessions
    <3> HIDE DEF owners
    <3> QED
      BY <3>1 DEF TypeOK
  <2> QED
    BY <1>16, <2>1, <2>2 DEF ExpireStaleSessions, TypeOK
<1>17. ASSUME NEW u \in Players, ReconcileConnection(u)
       PROVE  TypeOK'
  <2>1. pending' \in [Players -> Nat]
    <3>1. pending[u] - 1 \in Nat
      <4>1. pending[u] \in Nat /\ pending[u] > 0
        BY <1>17 DEF ReconcileConnection, Due, TypeOK
      <4> QED
        BY <4>1
    <3> QED
      BY <1>17, <3>1 DEF ReconcileConnection, TypeOK
  <2>2. part' \in [Players -> ParticipantRow]
    <3> DEFINE ends(t) == IF match.state = "ACTIVE" /\ Mode = "DUEL"
                            THEN t + Grace ELSE None
    <3>1. \A t \in 0 .. now : t \in Nat /\ ends(t) \in Nat \cup {None}
      BY NumbersAreNatural DEF TypeOK
    <3> HIDE DEF ends
    <3>2. \A t \in 0 .. now :
            [part[u] EXCEPT !.connected = FALSE, !.discAt = t, !.deadline = ends(t)]
              \in ParticipantRow
      BY <3>1 DEF TypeOK, ParticipantRow
    <3>3. \/ UNCHANGED part
          \/ \E t \in 0 .. now :
               part' = [part EXCEPT ![u] =
                 [@ EXCEPT !.connected = FALSE, !.discAt = t, !.deadline = ends(t)]]
      BY <1>17 DEF ReconcileConnection, ends
    <3> QED
      BY <3>2, <3>3 DEF TypeOK
  <2> QED
    BY <1>17, <2>1, <2>2 DEF ReconcileConnection, TypeOK
<1>18. ASSUME NEW u \in Players, CrashBeforeReconcile(u)
       PROVE  TypeOK'
  <2>1. pending[u] - 1 \in Nat
    <3>1. pending[u] \in Nat /\ pending[u] > 0
      BY <1>18 DEF CrashBeforeReconcile, TypeOK
    <3> QED
      BY <3>1
  <2> QED
    BY <1>18, <2>1 DEF CrashBeforeReconcile, TypeOK
<1>19. CASE ProcessDueDisconnects
  <2> DEFINE d == AbsenceDecision(part, exec)
  <2>1. d \in Decision
    BY DecisionsAreTyped DEF TypeOK
  <2>2. /\ part' = Concluded(part, d) /\ Conclude(d)
        /\ UNCHANGED <<now, exec, sess, pending>>
    BY <1>19 DEF ProcessDueDisconnects
  <2> HIDE DEF d
  <2>3. part' \in [Players -> ParticipantRow]
    BY <2>1, <2>2, ConcludedIsTyped DEF TypeOK
  <2> QED
    BY <2>1, <2>2, <2>3, ConcludeIsTyped DEF TypeOK
<1>20. CASE Tick
  BY <1>20 DEF Tick, TypeOK
<1>21. CASE UNCHANGED vars
  BY <1>21 DEF vars, TypeOK
<1> QED
  BY <1>1, <1>2, <1>3, <1>4, <1>5, <1>6, <1>7, <1>8, <1>9, <1>10, <1>11, <1>12,
     <1>13, <1>14, <1>15, <1>16, <1>17, <1>18, <1>19, <1>20, <1>21 DEF Next

(* Every row the engine writes is well formed, in every reachable state.   *)
THEOREM TypeCorrect == Spec => []TypeOK
<1>1. Init => TypeOK
  BY InitIsTyped
<1>2. TypeOK /\ [Next]_vars => TypeOK'
  BY NextKeepsTypes
<1> QED
  BY <1>1, <1>2, PTL DEF Spec

-----------------------------------------------------------------------------
(* The judging invariant. NoForgottenWinner and OneLiveExecution are not   *)
(* inductive alone: activating a match must find no execution in it, and   *)
(* a verdict must close the match to new executions.                       *)

NothingRanYet ==
  match.state \in {"LOBBY", "COUNTDOWN"} =>
    \A e \in Executions : ~Persisted(exec, e)

OpenMeansUndecided ==
  match.state \in {"LOBBY", "COUNTDOWN", "ACTIVE"} => match.endReason = NoReason

JudgingInv ==
  /\ NothingRanYet
  /\ OpenMeansUndecided
  /\ OneLiveExecution
  /\ NoForgottenWinner
  /\ WinnerIsEarliest

(* What the database knows of the executions is the same in both: receipts *)
(* without a row may differ, and QUEUED may have become RUNNING.           *)
SameRows(ex, ex2) ==
  \A e \in Executions :
    /\ Unresolved(ex2, e) <=> Unresolved(ex, e)
    /\ ex2[e].status = "COMPLETED" <=> ex[e].status = "COMPLETED"
    /\ Persisted(ex, e) =>
         /\ ex2[e].user = ex[e].user
         /\ ex2[e].kind = ex[e].kind
         /\ ex2[e].rcv = ex[e].rcv
         /\ ex2[e].created = ex[e].created
         /\ ex2[e].completed = ex[e].completed
         /\ ex2[e].verdict = ex[e].verdict
         /\ ex2[e].runtime = ex[e].runtime

LEMMA SameRowsSameVerdict ==
  ASSUME NEW ex, NEW ex2, SameRows(ex, ex2)
  PROVE  \A e \in Executions :
           /\ Persisted(ex2, e) <=> Persisted(ex, e)
           /\ Accepted(ex2, e) <=> Accepted(ex, e)
           /\ OpenSubmit(ex2, e) <=> OpenSubmit(ex, e)
           /\ Decides(ex2, e) <=> Decides(ex, e)
<1>1. \A e \in Executions :
        /\ Persisted(ex2, e) <=> Persisted(ex, e)
        /\ Accepted(ex2, e) <=> Accepted(ex, e)
        /\ OpenSubmit(ex2, e) <=> OpenSubmit(ex, e)
  BY DEF SameRows, Persisted, Unresolved, Accepted, OpenSubmit
<1>2. \A e \in Executions :
        Accepted(ex, e) \/ OpenSubmit(ex, e) =>
          ex2[e].rcv = ex[e].rcv /\ ex2[e].runtime = ex[e].runtime
  BY DEF SameRows, Persisted, Unresolved, Accepted, OpenSubmit
<1>3. \A e, f \in Executions :
        Accepted(ex, e) /\ Accepted(ex, f) => (Before(ex2, e, f) <=> Before(ex, e, f))
  BY <1>2 DEF Before
<1> QED
  BY <1>1, <1>2, <1>3 DEF Decides

(* Drawing or dropping a receipt and marking an execution running.         *)
LEMMA ReceiptsKeepRows ==
  ASSUME TypeOK,
         \/ \E u \in Players, kind \in Kinds : Receive(u, kind)
         \/ \E e \in Executions : DropReceipt(e) \/ MarkExecutionRunning(e)
  PROVE  SameRows(exec, exec')
<1>1. ASSUME NEW u \in Players, NEW kind \in Kinds, Receive(u, kind)
      PROVE  SameRows(exec, exec')
  <2>1. PICK e \in Executions :
          /\ exec[e].status = "FREE"
          /\ exec' = [exec EXCEPT ![e] = [@ EXCEPT !.status = "WAITING", !.user = u,
                                                   !.kind = kind, !.rcv = now]]
    BY <1>1 DEF Receive
  <2>2. /\ exec'[e].status = "WAITING"
        /\ \A f \in Executions : f # e => exec'[f] = exec[f]
    BY <2>1 DEF TypeOK, ExecutionRow
  <2> QED
    BY <2>1, <2>2 DEF SameRows, Unresolved, Persisted
<1>2. ASSUME NEW e \in Executions, DropReceipt(e)
      PROVE  SameRows(exec, exec')
  <2>1. /\ exec[e].status = "WAITING"
        /\ exec'[e].status = "DROPPED"
        /\ \A f \in Executions : f # e => exec'[f] = exec[f]
    BY <1>2 DEF DropReceipt, NoExecution, TypeOK
  <2> QED
    BY <2>1 DEF SameRows, Unresolved, Persisted
<1>3. ASSUME NEW e \in Executions, MarkExecutionRunning(e)
      PROVE  SameRows(exec, exec')
  <2>1. /\ Unresolved(exec, e)
        /\ exec'[e] = [exec[e] EXCEPT !.status = "RUNNING"]
        /\ \A f \in Executions : f # e => exec'[f] = exec[f]
    BY <1>3 DEF MarkExecutionRunning, TypeOK
  <2>2. /\ exec'[e].status = "RUNNING"
        /\ exec'[e].user = exec[e].user /\ exec'[e].kind = exec[e].kind
        /\ exec'[e].rcv = exec[e].rcv /\ exec'[e].verdict = exec[e].verdict
        /\ exec'[e].runtime = exec[e].runtime /\ exec'[e].created = exec[e].created
        /\ exec'[e].completed = exec[e].completed
    BY <2>1 DEF TypeOK, ExecutionRow
  <2> QED
    BY <2>1, <2>2 DEF SameRows, Unresolved, Persisted
<1> QED
  BY <1>1, <1>2, <1>3

(* A step that leaves the rows, the verdict and the active executions      *)
(* alone keeps the judging invariant.                                      *)
LEMMA QuietStepsKeepJudging ==
  ASSUME JudgingInv, SameRows(exec, exec'),
         match'.state = match.state,
         match'.endReason = match.endReason,
         match'.winner = match.winner,
         \A u \in Players : part'[u].active = part[u].active,
         TypeOK, TypeOK'
  PROVE  JudgingInv'
<1> USE SameRowsSameVerdict
<1>1. NothingRanYet'
  BY DEF JudgingInv, NothingRanYet
<1>2. OpenMeansUndecided'
  BY DEF JudgingInv, OpenMeansUndecided
<1>3. OneLiveExecution'
  <2>1. \A e \in Executions :
          Unresolved(exec', e) => Unresolved(exec, e) /\ exec'[e].user = exec[e].user
    BY DEF SameRows, Unresolved, Persisted
  <2>2. \A e \in Executions : exec'[e].user \in Players
    BY DEF TypeOK, ExecutionRow
  <2>3. \A u \in Players : part[u].active # None => part[u].active \in Executions
    BY DEF TypeOK, ParticipantRow
  <2>4. \A e \in Executions :
          Unresolved(exec, e) => Unresolved(exec', e) /\ exec'[e].user = exec[e].user
    BY DEF SameRows, Unresolved, Persisted
  <2> QED
    BY <2>1, <2>2, <2>3, <2>4 DEF JudgingInv, OneLiveExecution
<1>4. NoForgottenWinner'
  BY DEF JudgingInv, NoForgottenWinner
<1>5. WinnerIsEarliest'
  <2>1. \A e \in Executions : Decides(exec, e) => exec'[e].user = exec[e].user
    BY DEF SameRows, Decides, Accepted, Persisted
  <2> QED
    BY <2>1 DEF JudgingInv, WinnerIsEarliest
<1> QED
  BY <1>1, <1>2, <1>3, <1>4, <1>5 DEF JudgingInv

(* So does a step that concludes the round, if an acceptance it announces  *)
(* is the one the winner query crowns.                                     *)
LEMMA ConclusionsKeepJudging ==
  ASSUME JudgingInv, NEW d \in Decision, d # NoDecision, Finalize(d),
         d.reason = "ACCEPTED" =>
           \E e \in Executions : Decides(exec', e) /\ exec'[e].user = d.winner,
         \A u \in Players : part'[u].active = None,
         TypeOK
  PROVE  JudgingInv'
<1>1. /\ match'.state \in {"FINISHED", "REMATCH_PENDING"}
      /\ match'.endReason = d.reason
      /\ match'.winner = d.winner
  BY DEF Finalize, TypeOK, MatchRow
<1> QED
  BY <1>1 DEF JudgingInv, NothingRanYet, OpenMeansUndecided, OneLiveExecution,
              NoForgottenWinner, WinnerIsEarliest

(* Starting an execution adds an unresolved row for a player with none.    *)
LEMMA StartKeepsJudging ==
  ASSUME TypeOK, JudgingInv, NEW e \in Executions, StartExecution(e)
  PROVE  JudgingInv'
<1> DEFINE u == exec[e].user
<1>1. /\ u \in Players
      /\ exec[e].status = "WAITING"
      /\ match.state \in {"COUNTDOWN", "ACTIVE"}
      /\ match'.state = "ACTIVE"
      /\ match'.endReason = match.endReason
      /\ match.endReason = NoReason
  BY DEF StartExecution, MayStart, CountdownOver, TypeOK, MatchRow, ExecutionRow,
         JudgingInv, OpenMeansUndecided
<1>2. /\ part[u].active = None
      /\ part'[u].active = e
      /\ \A v \in Players : v # u => part'[v] = part[v]
  <2>1. part[u] \in ParticipantRow /\ part \in [Players -> ParticipantRow]
    BY <1>1 DEF TypeOK
  <2>2. \E row : part' = [part EXCEPT ![u] = row] /\ row.active = e
    <3>1. \A t : [part[u] EXCEPT !.active = e, !.nextRun = t].active = e
      BY <2>1 DEF ParticipantRow
    <3>2. [part[u] EXCEPT !.active = e].active = e
      BY <2>1 DEF ParticipantRow
    <3> QED
      BY <3>1, <3>2 DEF StartExecution
  <2> QED
    BY <1>1, <2>1, <2>2 DEF StartExecution, MayStart
<1>3. /\ exec'[e].status = "QUEUED" /\ exec'[e].user = u
      /\ \A f \in Executions : f # e => exec'[f] = exec[f]
  <2>1. exec' = [exec EXCEPT ![e] = [@ EXCEPT !.status = "QUEUED", !.created = now]]
    BY DEF StartExecution
  <2> QED
    BY <2>1 DEF TypeOK, ExecutionRow
<1>4. /\ \A f \in Executions : Accepted(exec', f) <=> Accepted(exec, f)
      /\ \A f \in Executions : OpenSubmit(exec, f) => OpenSubmit(exec', f)
      /\ \A f \in Executions : Accepted(exec, f) \/ OpenSubmit(exec, f) => f # e
  BY <1>1, <1>3 DEF Accepted, OpenSubmit, Unresolved
<1>5. \A f \in Executions : Decides(exec', f) => Decides(exec, f)
  <2>1. ASSUME NEW f \in Executions, Decides(exec', f)
        PROVE  Decides(exec, f)
    <3>1. Accepted(exec, f) /\ f # e
      BY <1>4, <2>1 DEF Decides
    <3>2. \A g \in Executions : Accepted(exec, g) /\ g # f => Before(exec, f, g)
      BY <1>3, <1>4, <2>1, <3>1 DEF Decides, Before
    <3>3. \A g \in Executions : OpenSubmit(exec, g) => exec[g].rcv > exec[f].rcv
      BY <1>3, <1>4, <2>1, <3>1 DEF Decides
    <3> QED
      BY <3>1, <3>2, <3>3 DEF Decides
  <2> QED
    BY <2>1
<1>6. NoForgottenWinner'
  <2>1. CASE match.state = "ACTIVE"
    BY <1>5, <2>1 DEF JudgingInv, NoForgottenWinner
  <2>2. CASE match.state = "COUNTDOWN"
    <3>1. \A f \in Executions : ~Accepted(exec, f)
      BY <2>2 DEF JudgingInv, NothingRanYet, Persisted, Accepted
    <3> QED
      BY <1>5, <3>1 DEF NoForgottenWinner, Decides
  <2> QED
    BY <1>1, <2>1, <2>2
<1>7. OneLiveExecution'
  <2>1. \A f \in Executions : Unresolved(exec, f) => match.state = "ACTIVE"
    BY <1>1 DEF JudgingInv, NothingRanYet, Persisted, Unresolved
  <2>2. ASSUME NEW f \in Executions, Unresolved(exec', f)
        PROVE  part'[exec'[f].user].active = f
    <3>1. CASE f = e
      BY <1>2, <1>3, <3>1
    <3>2. CASE f # e
      <4>1. Unresolved(exec, f) /\ exec'[f].user = exec[f].user
        BY <1>3, <2>2, <3>2 DEF Unresolved
      <4>2. part[exec[f].user].active = f /\ exec[f].user \in Players
        BY <2>1, <4>1 DEF JudgingInv, OneLiveExecution, TypeOK, ExecutionRow
      <4>3. exec[f].user # u
        BY <1>2, <4>2, NoneAssumption DEF Executions
      <4> QED
        BY <1>2, <4>1, <4>2, <4>3
    <3> QED
      BY <3>1, <3>2
  <2>3. ASSUME NEW v \in Players, part'[v].active # None
        PROVE  Unresolved(exec', part'[v].active) /\ exec'[part'[v].active].user = v
    <3>1. CASE v = u
      BY <1>2, <1>3, <3>1 DEF Unresolved
    <3>2. CASE v # u
      <4> DEFINE f == part[v].active
      <4>1. f \in Executions /\ Unresolved(exec, f) /\ exec[f].user = v
        BY <1>2, <2>3, <3>2 DEF JudgingInv, OneLiveExecution, TypeOK, ParticipantRow
      <4>2. f # e
        BY <3>2, <4>1
      <4> QED
        BY <1>2, <1>3, <3>2, <4>1, <4>2 DEF Unresolved
    <3> QED
      BY <3>1, <3>2
  <2> QED
    BY <1>1, <2>2, <2>3 DEF OneLiveExecution
<1>8. NothingRanYet' /\ OpenMeansUndecided' /\ WinnerIsEarliest'
  BY <1>1 DEF NothingRanYet, OpenMeansUndecided, WinnerIsEarliest, NoReason
<1> QED
  BY <1>6, <1>7, <1>8 DEF JudgingInv

(* The winner query finds somebody exactly when a submission decides.      *)
LEMMA AcceptedDecisionCrowns ==
  ASSUME NEW ex
  PROVE  /\ AcceptedDecision(ex) = NoDecision => ~ \E e \in Executions : Decides(ex, e)
         /\ AcceptedDecision(ex) # NoDecision =>
              /\ AcceptedDecision(ex).reason = "ACCEPTED"
              /\ \E e \in Executions :
                   Decides(ex, e) /\ ex[e].user = AcceptedDecision(ex).winner
<1>1. ASSUME NEW x, NEW y PROVE [reason |-> "ACCEPTED", winner |-> x] # NoDecision
  BY DEF NoDecision, NoReason
<1>2. CASE \E e \in Executions : Decides(ex, e)
  <2> DEFINE first == CHOOSE e \in Executions : Decides(ex, e)
  <2>1. first \in Executions /\ Decides(ex, first)
    BY <1>2
  <2>2. AcceptedDecision(ex) = [reason |-> "ACCEPTED", winner |-> ex[first].user]
    BY <1>2 DEF AcceptedDecision
  <2> HIDE DEF first
  <2> QED
    BY <1>1, <2>1, <2>2
<1>3. CASE ~ \E e \in Executions : Decides(ex, e)
  BY <1>3 DEF AcceptedDecision
<1> QED
  BY <1>2, <1>3

(* Absence ends active duels only, and never with an acceptance.           *)
LEMMA AbsenceDecisionEndsDuels ==
  ASSUME NEW p, NEW ex, AbsenceDecision(p, ex) # NoDecision
  PROVE  /\ match.state = "ACTIVE" /\ Mode # "PRACTICE"
         /\ AbsenceDecision(p, ex).reason \in {"NO_CONTEST", "FORFEIT"}
  BY DEF AbsenceDecision, AbsenceMustWait

LEMMA ConcludedFreesAll ==
  ASSUME NEW p \in [Players -> ParticipantRow], NEW d
  PROVE  /\ d = NoDecision => Concluded(p, d) = p
         /\ d # NoDecision => \A u \in Players : Concluded(p, d)[u].active = None
  BY DEF Concluded, ParticipantRow

(* A result may arrive while the round is active or long after it.         *)
LEMMA CompleteKeepsJudging ==
  ASSUME TypeOK, TypeOK', JudgingInv,
         NEW e \in Executions, NEW verdict \in Verdicts, NEW runtime \in Nat,
         Complete(e, verdict, runtime)
  PROVE  JudgingInv'
<1> DEFINE u == exec[e].user
           freed == [part EXCEPT ![u] =
                       [@ EXCEPT !.active = None,
                                 !.cooldown = CooldownAfter(e, verdict)]]
           d == IF exec[e].kind = "SUBMIT" THEN SubmitDecision(freed, exec')
                                           ELSE NoDecision
<1>1. /\ Unresolved(exec, e)
      /\ exec'[e].status = "COMPLETED" /\ exec'[e].kind = exec[e].kind
      /\ exec'[e].rcv = exec[e].rcv /\ exec'[e].user = u
      /\ \A f \in Executions : f # e => exec'[f] = exec[f]
  <2>1. exec' = [exec EXCEPT ![e] = [@ EXCEPT !.status = "COMPLETED", !.completed = now,
                                              !.verdict = verdict, !.runtime = runtime]]
    BY DEF Complete
  <2> QED
    BY <2>1 DEF Complete, TypeOK, ExecutionRow
<1>2. /\ u \in Players
      /\ exec[e].rcv \in Nat
      /\ freed \in [Players -> ParticipantRow]
  <2>1. u \in Players /\ exec[e].rcv \in Nat
    BY DEF TypeOK, ExecutionRow
  <2> QED
    BY <2>1, FreedIsTyped
<1>3. CASE match.state = "ACTIVE" /\ part[u].active = e
  <2>1. part' = Concluded(freed, d) /\ Conclude(d)
    BY <1>1, <1>3 DEF Complete
  <2>2. CASE d # NoDecision
    <3>1. /\ d \in Decision /\ Finalize(d)
          /\ \A v \in Players : part'[v].active = None
      <4>1. exec' \in [Executions -> ExecutionRow]
        BY DEF TypeOK
      <4>2. d \in Decision
        BY <1>2, <2>2, <4>1, DecisionsAreTyped
      <4>3. \A v \in Players : part'[v].active = None
        BY <1>2, <2>1, <2>2, ConcludedFreesAll
      <4>4. Finalize(d)
        BY <2>1, <2>2 DEF Conclude
      <4> QED
        BY <4>2, <4>3, <4>4
    <3>2. d.reason = "ACCEPTED" =>
            \E c \in Executions : Decides(exec', c) /\ exec'[c].user = d.winner
      BY <2>2, AcceptedDecisionCrowns, AbsenceDecisionEndsDuels DEF SubmitDecision
    <3> HIDE DEF d
    <3> QED
      BY <2>2, <3>1, <3>2, ConclusionsKeepJudging
  <2>3. CASE d = NoDecision
    <3>1. UNCHANGED match /\ part' = freed
      BY <1>2, <2>1, <2>3, ConcludedFreesAll DEF Conclude
    <3>2. /\ part'[u].active = None
          /\ \A v \in Players : v # u => part'[v] = part[v]
      BY <1>2, <3>1 DEF TypeOK, ParticipantRow
    <3>3. NoForgottenWinner'
      <4>1. CASE exec[e].kind = "SUBMIT"
        BY <2>3, <4>1, AcceptedDecisionCrowns DEF SubmitDecision, NoForgottenWinner
      <4>2. CASE exec[e].kind # "SUBMIT"
        <5>1. \A f \in Executions :
                /\ Accepted(exec', f) <=> Accepted(exec, f)
                /\ OpenSubmit(exec', f) <=> OpenSubmit(exec, f)
                /\ Accepted(exec, f) \/ OpenSubmit(exec, f) => exec'[f] = exec[f]
          BY <1>1, <4>2 DEF Accepted, OpenSubmit, Unresolved
        <5>2. \A f \in Executions : Decides(exec', f) => Decides(exec, f)
          BY <5>1 DEF Decides, Before
        <5> QED
          BY <1>3, <5>2 DEF JudgingInv, NoForgottenWinner
      <4> QED
        BY <4>1, <4>2
    <3>4. OneLiveExecution'
      <4>1. ASSUME NEW f \in Executions, Unresolved(exec', f)
            PROVE  part'[exec'[f].user].active = f
        <5>1. f # e /\ exec'[f] = exec[f] /\ Unresolved(exec, f)
          BY <1>1, <4>1 DEF Unresolved
        <5>2. part[exec[f].user].active = f /\ exec[f].user \in Players
          BY <1>3, <5>1 DEF JudgingInv, OneLiveExecution, TypeOK, ExecutionRow
        <5>3. exec[f].user # u
          BY <1>3, <5>1, <5>2
        <5> QED
          BY <3>2, <5>1, <5>2, <5>3
      <4>2. ASSUME NEW v \in Players, part'[v].active # None
            PROVE  Unresolved(exec', part'[v].active) /\ exec'[part'[v].active].user = v
        <5> DEFINE f == part[v].active
        <5>1. v # u /\ part'[v].active = f
          BY <3>2, <4>2
        <5>2. f \in Executions /\ Unresolved(exec, f) /\ exec[f].user = v
          BY <4>2, <5>1 DEF JudgingInv, OneLiveExecution, TypeOK, ParticipantRow
        <5>3. f # e
          BY <5>1, <5>2
        <5> QED
          BY <1>1, <5>1, <5>2, <5>3 DEF Unresolved
      <4> QED
        BY <1>3, <3>1, <4>1, <4>2 DEF OneLiveExecution
    <3>5. NothingRanYet' /\ OpenMeansUndecided' /\ WinnerIsEarliest'
      BY <1>3, <3>1 DEF JudgingInv, NothingRanYet, OpenMeansUndecided,
                        WinnerIsEarliest, NoReason
    <3> QED
      BY <3>3, <3>4, <3>5 DEF JudgingInv
  <2> QED
    BY <2>2, <2>3
<1>4. CASE ~(match.state = "ACTIVE" /\ part[u].active = e)
  <2>1. UNCHANGED <<match, part>>
    BY <1>4 DEF Complete
  <2>2. match.state \notin {"LOBBY", "COUNTDOWN", "ACTIVE"}
    BY <1>1, <1>4
       DEF JudgingInv, OneLiveExecution, NothingRanYet, Persisted, Unresolved
  <2>3. \A v \in Players : part[v].active = None
    BY <2>2 DEF JudgingInv, OneLiveExecution
  <2>4. ASSUME NEW c \in Executions, Decides(exec, c)
        PROVE  Decides(exec', c) /\ exec'[c].user = exec[c].user
    <3>1. c # e /\ exec'[c] = exec[c] /\ Accepted(exec', c)
      BY <1>1, <2>4 DEF Decides, Accepted, Unresolved
    <3>2. ASSUME NEW g \in Executions, Accepted(exec', g), g # c
          PROVE  Before(exec', c, g)
      <4>1. CASE g = e
        <5>1. OpenSubmit(exec, e)
          BY <1>1, <3>2, <4>1 DEF OpenSubmit, Accepted
        <5>2. exec[e].rcv > exec[c].rcv /\ exec[c].rcv \in Nat
          BY <2>4, <5>1 DEF Decides, TypeOK, ExecutionRow
        <5> QED
          BY <1>1, <1>2, <3>1, <4>1, <5>2 DEF Before
      <4>2. CASE g # e
        BY <1>1, <2>4, <3>1, <3>2, <4>2 DEF Decides, Before, Accepted
      <4> QED
        BY <4>1, <4>2
    <3>3. ASSUME NEW g \in Executions, OpenSubmit(exec', g)
          PROVE  exec'[g].rcv > exec'[c].rcv
      BY <1>1, <2>4, <3>1, <3>3 DEF Decides, OpenSubmit, Unresolved
    <3> QED
      BY <3>1, <3>2, <3>3 DEF Decides
  <2> QED
    BY <2>1, <2>2, <2>3, <2>4
       DEF JudgingInv, NothingRanYet, OpenMeansUndecided, OneLiveExecution,
           NoForgottenWinner, WinnerIsEarliest
<1> QED
  BY <1>3, <1>4

LEMMA InitJudges == Init => JudgingInv
  BY DEF Init, JudgingInv, NothingRanYet, OpenMeansUndecided, OneLiveExecution,
         NoForgottenWinner, WinnerIsEarliest, NoExecution, NoReason, Persisted,
         Unresolved

LEMMA NextKeepsJudging == TypeOK /\ TypeOK' /\ JudgingInv /\ [Next]_vars => JudgingInv'
<1> SUFFICES ASSUME TypeOK, TypeOK', JudgingInv, [Next]_vars
             PROVE  JudgingInv'
  OBVIOUS
<1>same. SameRows(exec, exec)
  BY DEF SameRows
<1>rows. part \in [Players -> ParticipantRow] /\ now \in Nat
  BY DEF TypeOK
<1>1. ASSUME NEW u \in Players, JoinRoom(u)
      PROVE  JudgingInv'
  <2>1. \A v \in Players : part'[v].active = part[v].active
    BY <1>1 DEF JoinRoom, TypeOK, ParticipantRow
  <2> QED
    BY <1>1, <1>same, <2>1, QuietStepsKeepJudging DEF JoinRoom
<1>2. ASSUME NEW u \in Players, NEW l \in Languages, SetLanguage(u, l)
      PROVE  JudgingInv'
  <2>1. \A v \in Players : part'[v].active = part[v].active
    BY <1>2 DEF SetLanguage, TypeOK, ParticipantRow
  <2> QED
    BY <1>2, <1>same, <2>1, QuietStepsKeepJudging DEF SetLanguage
<1>3. ASSUME NEW u \in Players, NEW ready \in BOOLEAN, SetReady(u, ready)
      PROVE  JudgingInv'
  <2>1. \A v \in Players : part'[v].active = part[v].active
    <3>1. part' = [part EXCEPT ![u].ready = ready]
      BY <1>3 DEF SetReady
    <3> QED
      BY <1>rows, <3>1 DEF ParticipantRow
  <2>2. /\ exec' = exec
        /\ match.state = "LOBBY"
        /\ match'.state \in {"LOBBY", "COUNTDOWN"}
        /\ match'.endReason = match.endReason
    BY <1>3 DEF SetReady, TypeOK, MatchRow
  <2> QED
    BY <2>1, <2>2
       DEF JudgingInv, NothingRanYet, OpenMeansUndecided, OneLiveExecution,
           NoForgottenWinner, WinnerIsEarliest, NoReason
<1>4. CASE CancelMatch
  <2>1. \A v \in Players : part'[v].active = part[v].active
    BY <1>4 DEF CancelMatch, TypeOK, ParticipantRow
  <2>2. /\ match.state = "LOBBY"
        /\ match'.state = "FINISHED"
        /\ match'.endReason = "CANCELLED"
    BY <1>4 DEF CancelMatch, TypeOK, MatchRow
  <2> QED
    BY <2>1, <2>2
       DEF JudgingInv, NothingRanYet, OpenMeansUndecided, OneLiveExecution,
           NoForgottenWinner, WinnerIsEarliest
<1>5. CASE AdvanceCountdown
  <2>1. \A v \in Players : part'[v].active = part[v].active
    BY <1>rows, <1>5 DEF AdvanceCountdown, ParticipantRow
  <2>2. /\ exec' = exec
        /\ match.state = "COUNTDOWN"
        /\ match'.state = "ACTIVE"
        /\ match'.endReason = match.endReason
    BY <1>5 DEF AdvanceCountdown, CountdownOver, TypeOK, MatchRow
  <2>3. \A e \in Executions : ~Unresolved(exec, e) /\ ~Accepted(exec, e)
    BY <2>2 DEF JudgingInv, NothingRanYet, Persisted, Unresolved, Accepted
  <2>4. \A v \in Players : part'[v].active = None
    BY <2>1, <2>2 DEF JudgingInv, OneLiveExecution
  <2> QED
    BY <2>2, <2>3, <2>4
       DEF JudgingInv, NothingRanYet, OpenMeansUndecided, OneLiveExecution,
           NoForgottenWinner, WinnerIsEarliest, Decides, NoReason
<1>6. ASSUME NEW u \in Players, NEW kind \in Kinds, Receive(u, kind)
      PROVE  JudgingInv'
  <2>1. SameRows(exec, exec')
    BY <1>6, ReceiptsKeepRows
  <2> QED
    BY <1>6, <2>1, QuietStepsKeepJudging DEF Receive
<1>7. ASSUME NEW e \in Executions, StartExecution(e)
      PROVE  JudgingInv'
  BY <1>7, StartKeepsJudging
<1>8. ASSUME NEW e \in Executions, DropReceipt(e)
      PROVE  JudgingInv'
  <2>1. SameRows(exec, exec')
    BY <1>8, ReceiptsKeepRows
  <2> QED
    BY <1>8, <2>1, QuietStepsKeepJudging DEF DropReceipt
<1>9. ASSUME NEW e \in Executions, MarkExecutionRunning(e)
      PROVE  JudgingInv'
  <2>1. SameRows(exec, exec')
    BY <1>9, ReceiptsKeepRows
  <2> QED
    BY <1>9, <2>1, QuietStepsKeepJudging DEF MarkExecutionRunning
<1>10. ASSUME NEW e \in Executions, CompleteExecution(e)
       PROVE  JudgingInv'
  <2>1. PICK verdict \in Verdicts, runtime \in Nat : Complete(e, verdict, runtime)
    BY <1>10, NumbersAssumption DEF CompleteExecution, Verdicts
  <2> QED
    BY <2>1, CompleteKeepsJudging
<1>11. ASSUME NEW e \in Executions, RecoverStaleExecution(e)
       PROVE  JudgingInv'
  BY <1>11, CompleteKeepsJudging DEF RecoverStaleExecution, Verdicts
<1>12. ASSUME NEW u \in Players, ForfeitMatch(u)
       PROVE  JudgingInv'
  <2> DEFINE d == IF Mode = "DUEL" THEN [reason |-> "FORFEIT", winner |-> Opponent(u)]
                                   ELSE [reason |-> "CANCELLED", winner |-> None]
  <2>1. d \in Decision /\ d # NoDecision /\ d.reason # "ACCEPTED"
    BY OpponentIsAPlayer DEF Decision, EndReason, NoDecision, NoReason
  <2>2. part' = Concluded(part, d) /\ Conclude(d)
    BY <1>12 DEF ForfeitMatch
  <2> HIDE DEF d
  <2>3. \A v \in Players : part'[v].active = None
    BY <2>1, <2>2, ConcludedFreesAll DEF TypeOK
  <2> QED
    BY <2>1, <2>2, <2>3, ConclusionsKeepJudging DEF Conclude
<1>13. ASSUME NEW s \in Sessions, ConnectSession(s)
       PROVE  JudgingInv'
  <2> DEFINE d == AbsenceDecision(part, exec)
  <2>1. /\ part' = [Concluded(part, d) EXCEPT ![Owner[s]] = Online(@)]
        /\ Conclude(d) /\ exec' = exec
    BY <1>13 DEF ConnectSession
  <2>2. \A v \in Players : part'[v].active = Concluded(part, d)[v].active
    <3>1. Concluded(part, d) \in [Players -> ParticipantRow] /\ d \in Decision
      BY DecisionsAreTyped, ConcludedIsTyped DEF TypeOK
    <3> HIDE DEF d
    <3> QED
      BY <2>1, <3>1 DEF Online, ParticipantRow
  <2>3. CASE d = NoDecision
    <3>1. \A v \in Players : part'[v].active = part[v].active
      BY <2>2, <2>3 DEF Concluded
    <3> QED
      BY <1>same, <2>1, <2>3, <3>1, QuietStepsKeepJudging DEF Conclude
  <2>4. CASE d # NoDecision
    <3>1. d \in Decision /\ d.reason # "ACCEPTED"
      BY <2>4, DecisionsAreTyped, AbsenceDecisionEndsDuels DEF TypeOK
    <3>2. \A v \in Players : part'[v].active = None
      BY <2>2, <2>4, ConcludedFreesAll DEF TypeOK
    <3> HIDE DEF d
    <3> QED
      BY <2>1, <2>4, <3>1, <3>2, ConclusionsKeepJudging DEF Conclude
  <2> QED
    BY <2>3, <2>4
<1>14. ASSUME NEW s \in Sessions, TouchSession(s)
       PROVE  JudgingInv'
  BY <1>14, <1>same, QuietStepsKeepJudging DEF TouchSession
<1>15. ASSUME NEW s \in Sessions, DisconnectSession(s)
       PROVE  JudgingInv'
  BY <1>15, <1>same, QuietStepsKeepJudging DEF DisconnectSession
<1>16. CASE ExpireStaleSessions
  BY <1>16, <1>same, QuietStepsKeepJudging DEF ExpireStaleSessions
<1>17. ASSUME NEW u \in Players, ReconcileConnection(u)
       PROVE  JudgingInv'
  <2>1. \A v \in Players : part'[v].active = part[v].active
    <3>1. ASSUME NEW t, NEW x,
                 part' = [part EXCEPT ![u] =
                   [@ EXCEPT !.connected = FALSE, !.discAt = t, !.deadline = x]]
          PROVE  \A v \in Players : part'[v].active = part[v].active
      BY <1>rows, <3>1 DEF ParticipantRow
    <3> QED
      BY <1>17, <3>1 DEF ReconcileConnection
  <2> QED
    BY <1>17, <1>same, <2>1, QuietStepsKeepJudging DEF ReconcileConnection
<1>18. ASSUME NEW u \in Players, CrashBeforeReconcile(u)
       PROVE  JudgingInv'
  BY <1>18, <1>same, QuietStepsKeepJudging DEF CrashBeforeReconcile
<1>19. CASE ProcessDueDisconnects
  <2> DEFINE d == AbsenceDecision(part, exec)
  <2>1. d # NoDecision /\ part' = Concluded(part, d) /\ Conclude(d)
    BY <1>19 DEF ProcessDueDisconnects
  <2>2. d \in Decision /\ d.reason # "ACCEPTED"
    BY <2>1, DecisionsAreTyped, AbsenceDecisionEndsDuels DEF TypeOK
  <2>3. \A v \in Players : part'[v].active = None
    BY <2>1, ConcludedFreesAll DEF TypeOK
  <2> HIDE DEF d
  <2> QED
    BY <2>1, <2>2, <2>3, ConclusionsKeepJudging DEF Conclude
<1>20. CASE Tick
  BY <1>20, <1>same, QuietStepsKeepJudging DEF Tick
<1>21. CASE UNCHANGED vars
  BY <1>21, <1>same, QuietStepsKeepJudging DEF vars
<1> QED
  BY <1>1, <1>2, <1>3, <1>4, <1>5, <1>6, <1>7, <1>8, <1>9, <1>10, <1>11, <1>12,
     <1>13, <1>14, <1>15, <1>16, <1>17, <1>18, <1>19, <1>20, <1>21 DEF Next

LEMMA JudgingIsInvariant == Spec => []JudgingInv
<1>1. Init => JudgingInv
  BY InitJudges
<1>2. TypeOK /\ TypeOK' /\ JudgingInv /\ [Next]_vars => JudgingInv'
  BY NextKeepsJudging
<1> QED
  BY <1>1, <1>2, TypeCorrect, PTL DEF Spec

(* No reachable state of an active round hides a winner: whatever order    *)
(* receipts, starts, results and recoveries interleave in, the completion  *)
(* that makes a submission decisive also ends the round.                   *)
THEOREM NobodyForgotten == Spec => []NoForgottenWinner
<1>1. JudgingInv => NoForgottenWinner
  BY DEF JudgingInv
<1> QED
  BY <1>1, JudgingIsInvariant, PTL

(* The winner of an accepted round stays the author of the first accepted  *)
(* submission, also when slower results come in after the verdict.         *)
THEOREM EarliestWins == Spec => []WinnerIsEarliest
<1>1. JudgingInv => WinnerIsEarliest
  BY DEF JudgingInv
<1> QED
  BY <1>1, JudgingIsInvariant, PTL

(* active_execution_id and the executions table never disagree.            *)
THEOREM OneAtATime == Spec => []OneLiveExecution
<1>1. JudgingInv => OneLiveExecution
  BY DEF JudgingInv
<1> QED
  BY <1>1, JudgingIsInvariant, PTL
-----------------------------------------------------------------------------
(* The engine keeps the promises of MatchContract. One lemma sorts the     *)
(* steps of the engine by what they do to the match row, the records and   *)
(* the event log; the refinement and the journal both rest on it.          *)

Zero == [u \in Players |-> [wins |-> 0, losses |-> 0]]

LedgerInv ==
  /\ match.state \in {"LOBBY", "COUNTDOWN", "ACTIVE"} =>
       /\ match.endReason = NoReason
       /\ match.winner = None
       /\ records = Zero
  /\ match.state = "LOBBY" => match.startsAt = None
  /\ match.state # "JUDGING"
  /\ JournalTellsState

StartsCountdown ==
  /\ match.state = "LOBBY"
  /\ match' = [match EXCEPT !.state = "COUNTDOWN", !.startsAt = now + Countdown]
  /\ journal' = Append(journal, "COUNTDOWN_STARTED")
  /\ UNCHANGED records

Activates ==
  /\ match.state = "COUNTDOWN"
  /\ match' = [match EXCEPT !.state = "ACTIVE"]
  /\ journal' = Append(journal, "MATCH_ACTIVE")
  /\ UNCHANGED records

ReachesVerdict ==
  /\ match.state = "ACTIVE"
  /\ \E d \in Decision : Contract!LegalVerdict(d) /\ Finalize(d)

RoundStep ==
  \/ UNCHANGED <<match, records, journal>>
  \/ StartsCountdown
  \/ CancelMatch
  \/ Activates
  \/ ReachesVerdict

(* Whatever a transaction decides is a verdict the contract allows.        *)
LEMMA DecisionsAreLegal ==
  ASSUME NEW p \in [Players -> ParticipantRow],
         NEW ex \in [Executions -> ExecutionRow]
  PROVE  /\ AcceptedDecision(ex) # NoDecision => Contract!LegalVerdict(AcceptedDecision(ex))
         /\ AbsenceDecision(p, ex) # NoDecision => Contract!LegalVerdict(AbsenceDecision(p, ex))
         /\ SubmitDecision(p, ex) # NoDecision => Contract!LegalVerdict(SubmitDecision(p, ex))
<1>1. ASSUME AcceptedDecision(ex) # NoDecision
      PROVE  Contract!LegalVerdict(AcceptedDecision(ex))
  <2>1. PICK e \in Executions :
          /\ AcceptedDecision(ex).reason = "ACCEPTED"
          /\ ex[e].user = AcceptedDecision(ex).winner
    BY <1>1, AcceptedDecisionCrowns
  <2>2. ex[e].user \in Players
    BY DEF ExecutionRow
  <2> QED
    BY <2>1, <2>2 DEF Contract!LegalVerdict
<1>2. ASSUME AbsenceDecision(p, ex) # NoDecision
      PROVE  Contract!LegalVerdict(AbsenceDecision(p, ex))
  <2>1. Mode = "DUEL" /\ ~AbsenceMustWait(p, ex)
    BY <1>2, AbsenceDecisionEndsDuels, ModeAssumption DEF AbsenceDecision
  <2>2. CASE Gone(p) = Players
    BY <2>1, <2>2 DEF AbsenceDecision, Contract!LegalVerdict
  <2>3. CASE Gone(p) # Players
    <3>1. \E u \in Players : p[u].connected
      BY <2>3 DEF Gone
    <3>2. (CHOOSE u \in Players : p[u].connected) \in Players
      BY <3>1
    <3> QED
      BY <2>1, <2>3, <3>2 DEF AbsenceDecision, Contract!LegalVerdict
  <2> QED
    BY <2>2, <2>3
<1> QED
  BY <1>1, <1>2 DEF SubmitDecision

(* A conclusion in an active round is nothing or a verdict.                *)
LEMMA ConclusionsAreRoundSteps ==
  ASSUME match.state = "ACTIVE", NEW d \in Decision, Conclude(d),
         d # NoDecision => Contract!LegalVerdict(d)
  PROVE  RoundStep
  BY DEF Conclude, RoundStep, ReachesVerdict

LEMMA EveryStepIsARoundStep == TypeOK /\ [Next]_vars => RoundStep
<1> SUFFICES ASSUME TypeOK, [Next]_vars
             PROVE  RoundStep
  OBVIOUS
<1>rows. /\ part \in [Players -> ParticipantRow]
         /\ exec \in [Executions -> ExecutionRow]
         /\ match \in MatchRow
  BY DEF TypeOK
<1>1. ASSUME NEW u \in Players, NEW ready \in BOOLEAN, SetReady(u, ready)
      PROVE  RoundStep
  BY <1>1 DEF SetReady, RoundStep, StartsCountdown
<1>2. CASE AdvanceCountdown
  BY <1>2 DEF AdvanceCountdown, CountdownOver, RoundStep, Activates
<1>3. ASSUME NEW e \in Executions, StartExecution(e)
      PROVE  RoundStep
  <2>1. CASE CountdownOver
    BY <1>3, <2>1 DEF StartExecution, JournalOnStart, CountdownOver, RoundStep, Activates
  <2>2. CASE ~CountdownOver
    <3>1. match.state = "ACTIVE"
      BY <1>3, <2>2 DEF StartExecution, MayStart
    <3>2. [match EXCEPT !.state = "ACTIVE"] = match
      BY <1>rows, <3>1 DEF MatchRow
    <3> QED
      BY <1>3, <2>2, <3>2 DEF StartExecution, JournalOnStart, RoundStep
  <2> QED
    BY <2>1, <2>2
<1>4. ASSUME NEW e \in Executions, NEW verdict \in Verdicts, NEW runtime \in Nat,
             Complete(e, verdict, runtime)
      PROVE  RoundStep
  <2> DEFINE u == exec[e].user
             done == [exec EXCEPT ![e] = [@ EXCEPT !.status = "COMPLETED", !.completed = now,
                                                   !.verdict = verdict,
                                                   !.runtime = runtime]]
             freed == [part EXCEPT ![u] =
                         [@ EXCEPT !.active = None,
                                   !.cooldown = CooldownAfter(e, verdict)]]
             d == IF exec[e].kind = "SUBMIT" THEN SubmitDecision(freed, done)
                                             ELSE NoDecision
  <2>1. done \in [Executions -> ExecutionRow]
    <3>1. [exec[e] EXCEPT !.status = "COMPLETED", !.completed = now,
                       !.verdict = verdict, !.runtime = runtime]
            \in ExecutionRow
      BY <1>rows DEF TypeOK, ExecutionRow, ExecStatus
    <3> QED
      BY <1>rows, <3>1
  <2>2. freed \in [Players -> ParticipantRow]
    BY FreedIsTyped
  <2>3. d \in Decision /\ (d # NoDecision => Contract!LegalVerdict(d))
    BY <2>1, <2>2, DecisionsAreTyped, DecisionsAreLegal DEF NoDecision, Decision
  <2>4. \/ match.state = "ACTIVE" /\ Conclude(d)
        \/ UNCHANGED <<match, records, journal>>
    BY <1>4 DEF Complete
  <2> HIDE DEF d
  <2> QED
    BY <2>3, <2>4, ConclusionsAreRoundSteps DEF RoundStep
<1>5. ASSUME NEW e \in Executions, CompleteExecution(e)
      PROVE  RoundStep
  <2>1. PICK verdict \in Verdicts, runtime \in Nat : Complete(e, verdict, runtime)
    BY <1>5, NumbersAssumption DEF CompleteExecution, Verdicts
  <2> QED
    BY <1>4, <2>1
<1>6. ASSUME NEW e \in Executions, RecoverStaleExecution(e)
      PROVE  RoundStep
  BY <1>4, <1>6 DEF RecoverStaleExecution, Verdicts
<1>7. ASSUME NEW u \in Players, ForfeitMatch(u)
      PROVE  RoundStep
  <2> DEFINE d == IF Mode = "DUEL" THEN [reason |-> "FORFEIT", winner |-> Opponent(u)]
                                   ELSE [reason |-> "CANCELLED", winner |-> None]
  <2>1. d \in Decision /\ Contract!LegalVerdict(d)
    BY OpponentIsAPlayer, ModeAssumption DEF Decision, EndReason, Contract!LegalVerdict
  <2>2. match.state = "ACTIVE" /\ Conclude(d)
    BY <1>7 DEF ForfeitMatch
  <2> HIDE DEF d
  <2> QED
    BY <2>1, <2>2, ConclusionsAreRoundSteps
<1>8. ASSUME Conclude(AbsenceDecision(part, exec))
      PROVE  RoundStep
  <2> DEFINE d == AbsenceDecision(part, exec)
  <2>1. d \in Decision /\ (d # NoDecision => Contract!LegalVerdict(d))
    BY <1>rows, DecisionsAreTyped, DecisionsAreLegal
  <2>2. d # NoDecision => match.state = "ACTIVE"
    BY AbsenceDecisionEndsDuels
  <2>3. Conclude(d)
    BY <1>8
  <2> HIDE DEF d
  <2>4. CASE d = NoDecision
    BY <2>3, <2>4 DEF Conclude, RoundStep
  <2>5. CASE d # NoDecision
    BY <2>1, <2>2, <2>3, <2>5, ConclusionsAreRoundSteps
  <2> QED
    BY <2>4, <2>5
<1>9. CASE UNCHANGED <<match, records, journal>>
  BY <1>9 DEF RoundStep
<1> QED
  BY <1>1, <1>2, <1>3, <1>5, <1>6, <1>7, <1>8, <1>9
     DEF Next, vars, RoundStep, JoinRoom, SetLanguage, Receive, DropReceipt,
         MarkExecutionRunning, ConnectSession, TouchSession, DisconnectSession,
         ExpireStaleSessions, ReconcileConnection, CrashBeforeReconcile,
         ProcessDueDisconnects, Tick
LEMMA InitIsLedger == Init => LedgerInv
  BY DEF Init, LedgerInv, Zero, JournalTellsState, NoReason

(* What a verdict books in records that were empty is the contract's delta.*)
LEMMA VerdictsBookTheirDelta ==
  ASSUME records = Zero, NEW d \in Decision, Finalize(d)
  PROVE  records' = Contract!Delta(d)
<1>1. records' = [u \in Players |->
                    [wins   |-> IF AppliesRecord(d) /\ u = d.winner THEN 1 ELSE 0,
                     losses |-> IF AppliesRecord(d) /\ u # d.winner THEN 1 ELSE 0]]
  BY DEF Finalize, Zero
<1>2. CASE AppliesRecord(d)
  BY <1>1, <1>2 DEF AppliesRecord, Contract!Delta, ShouldApplyRecord,
                    Contract!ShouldApplyRecord
<1>3. CASE ~AppliesRecord(d)
  BY <1>1, <1>3 DEF AppliesRecord, Contract!Delta, ShouldApplyRecord,
                    Contract!ShouldApplyRecord
<1> QED
  BY <1>2, <1>3

(* Event lists written out: one event added, and the events of a verdict.  *)
LEMMA OneMoreEvent ==
  ASSUME NEW S, NEW a \in S, NEW b \in S
  PROVE  Append(<<a>>, b) = <<a, b>>
<1>1. /\ <<a>> \in Seq(S) /\ Len(<<a>>) = 1
      /\ <<a, b>> \in Seq(S) /\ Len(<<a, b>>) = 2
  OBVIOUS
<1>2. /\ Append(<<a>>, b) \in Seq(S) /\ Len(Append(<<a>>, b)) = 2
      /\ \A i \in 1 .. 2 : Append(<<a>>, b)[i] = <<a, b>>[i]
  BY <1>1, AppendProperties
<1> QED
  BY <1>1, <1>2, SeqEqual

LEMMA VerdictEvents ==
  ASSUME NEW S, NEW a \in S, NEW b \in S, NEW c \in S, NEW d \in S
  PROVE  /\ <<a, b>> \o <<c>> = <<a, b, c>>
         /\ <<a, b>> \o <<c, d>> = <<a, b, c, d>>
<1>1. /\ <<a, b>> \in Seq(S) /\ Len(<<a, b>>) = 2
      /\ <<c>> \in Seq(S) /\ Len(<<c>>) = 1
      /\ <<c, d>> \in Seq(S) /\ Len(<<c, d>>) = 2
      /\ <<a, b, c>> \in Seq(S) /\ Len(<<a, b, c>>) = 3
      /\ <<a, b, c, d>> \in Seq(S) /\ Len(<<a, b, c, d>>) = 4
  OBVIOUS
<1>2. /\ <<a, b>> \o <<c>> \in Seq(S) /\ Len(<<a, b>> \o <<c>>) = 3
      /\ \A i \in 1 .. 3 : (<<a, b>> \o <<c>>)[i] = <<a, b, c>>[i]
  BY <1>1, ConcatProperties
<1>3. /\ <<a, b>> \o <<c, d>> \in Seq(S) /\ Len(<<a, b>> \o <<c, d>>) = 4
      /\ \A i \in 1 .. 4 : (<<a, b>> \o <<c, d>>)[i] = <<a, b, c, d>>[i]
  BY <1>1, ConcatProperties
<1>4. <<a, b>> \o <<c>> = <<a, b, c>>
  BY <1>1, <1>2, SeqEqual
<1>5. <<a, b>> \o <<c, d>> = <<a, b, c, d>>
  BY <1>1, <1>3, SeqEqual
<1> QED
  BY <1>4, <1>5

LEMMA WrittenOut ==
  /\ Append(<<"COUNTDOWN_STARTED">>, "MATCH_ACTIVE")
       = <<"COUNTDOWN_STARTED", "MATCH_ACTIVE">>
  /\ <<"COUNTDOWN_STARTED", "MATCH_ACTIVE">> \o <<"MATCH_FINISHED">>
       = <<"COUNTDOWN_STARTED", "MATCH_ACTIVE", "MATCH_FINISHED">>
  /\ <<"COUNTDOWN_STARTED", "MATCH_ACTIVE">> \o <<"MATCH_FINISHED", "REMATCH_OPENED">>
       = <<"COUNTDOWN_STARTED", "MATCH_ACTIVE", "MATCH_FINISHED", "REMATCH_OPENED">>
<1>1. /\ "COUNTDOWN_STARTED" \in Lifecycle /\ "MATCH_ACTIVE" \in Lifecycle
      /\ "MATCH_FINISHED" \in Lifecycle /\ "REMATCH_OPENED" \in Lifecycle
  BY DEF Lifecycle
<1>2. Append(<<"COUNTDOWN_STARTED">>, "MATCH_ACTIVE")
        = <<"COUNTDOWN_STARTED", "MATCH_ACTIVE">>
  BY <1>1, OneMoreEvent, Zenon
<1>3. <<"COUNTDOWN_STARTED", "MATCH_ACTIVE">> \o <<"MATCH_FINISHED">>
        = <<"COUNTDOWN_STARTED", "MATCH_ACTIVE", "MATCH_FINISHED">>
  BY <1>1, VerdictEvents, Zenon
<1>4. <<"COUNTDOWN_STARTED", "MATCH_ACTIVE">> \o <<"MATCH_FINISHED", "REMATCH_OPENED">>
        = <<"COUNTDOWN_STARTED", "MATCH_ACTIVE", "MATCH_FINISHED", "REMATCH_OPENED">>
  BY <1>1, VerdictEvents, Zenon
<1> QED
  BY <1>2, <1>3, <1>4

LEMMA RoundStepsKeepLedger ==
  ASSUME TypeOK, LedgerInv, RoundStep
  PROVE  LedgerInv'
<1>rows. match \in MatchRow /\ match.state \in MatchState
  BY DEF TypeOK, MatchRow
<1>1. CASE UNCHANGED <<match, records, journal>>
  BY <1>1 DEF LedgerInv, JournalTellsState
<1>2. CASE StartsCountdown
  <2>1. /\ match'.state = "COUNTDOWN"
        /\ match'.endReason = match.endReason /\ match'.winner = match.winner
    BY <1>rows, <1>2 DEF StartsCountdown, MatchRow
  <2>2. journal = <<>>
    BY <1>2 DEF StartsCountdown, LedgerInv, JournalTellsState
  <2>3. journal' = <<"COUNTDOWN_STARTED">>
    BY <1>2, <2>2 DEF StartsCountdown
  <2> QED
    BY <1>2, <2>1, <2>3 DEF StartsCountdown, LedgerInv, JournalTellsState
<1>3. CASE CancelMatch
  <2>1. /\ match'.state = "FINISHED" /\ match'.startsAt = None
        /\ match.state = "LOBBY"
    BY <1>rows, <1>3 DEF CancelMatch, MatchRow, LedgerInv
  <2>2. journal' = <<"MATCH_FINISHED">>
    <3>1. journal = <<>>
      BY <2>1 DEF LedgerInv, JournalTellsState
    <3> QED
      BY <1>3, <3>1 DEF CancelMatch
  <2> QED
    BY <2>1, <2>2 DEF LedgerInv, JournalTellsState
<1>4. CASE Activates
  <2>1. /\ match'.state = "ACTIVE" /\ match.state = "COUNTDOWN"
        /\ match'.endReason = match.endReason /\ match'.winner = match.winner
    BY <1>rows, <1>4 DEF Activates, MatchRow
  <2>2. journal' = <<"COUNTDOWN_STARTED", "MATCH_ACTIVE">>
    <3>1. journal = <<"COUNTDOWN_STARTED">>
      BY <2>1 DEF LedgerInv, JournalTellsState
    <3>2. journal' = Append(journal, "MATCH_ACTIVE")
      BY <1>4 DEF Activates
    <3> QED
      BY <3>1, <3>2, WrittenOut
  <2> QED
    BY <1>4, <2>1, <2>2 DEF Activates, LedgerInv, JournalTellsState
<1>5. CASE ReachesVerdict
  <2>1. PICK d \in Decision : Finalize(d)
    BY <1>5 DEF ReachesVerdict
  <2>2. /\ match'.state = IF Mode = "DUEL" THEN "REMATCH_PENDING" ELSE "FINISHED"
        /\ match'.startsAt = match.startsAt /\ match'.startsAt # None
    <3>1. match.state = "ACTIVE" /\ match.startsAt # None
      BY <1>5, NoneAssumption DEF ReachesVerdict, TypeOK
    <3> QED
      BY <1>rows, <2>1, <3>1 DEF Finalize, MatchRow
  <2>3. journal = <<"COUNTDOWN_STARTED", "MATCH_ACTIVE">>
    BY <1>5 DEF ReachesVerdict, LedgerInv, JournalTellsState
  <2>4. CASE Mode = "DUEL"
    <3>1. journal' = <<"COUNTDOWN_STARTED", "MATCH_ACTIVE",
                       "MATCH_FINISHED", "REMATCH_OPENED">>
      <4>1. journal' = journal \o <<"MATCH_FINISHED", "REMATCH_OPENED">>
        BY <2>1, <2>4 DEF Finalize
      <4> QED
        BY <2>3, <4>1, WrittenOut
    <3> QED
      BY <2>2, <2>4, <3>1 DEF LedgerInv, JournalTellsState
  <2>5. CASE Mode # "DUEL"
    <3>1. journal' = <<"COUNTDOWN_STARTED", "MATCH_ACTIVE", "MATCH_FINISHED">>
      <4>1. journal' = journal \o <<"MATCH_FINISHED">>
        BY <2>1, <2>5 DEF Finalize
      <4> QED
        BY <2>3, <4>1, WrittenOut
    <3> QED
      BY <2>2, <2>5, <3>1 DEF LedgerInv, JournalTellsState
  <2> QED
    BY <2>4, <2>5
<1> QED
  BY <1>1, <1>2, <1>3, <1>4, <1>5 DEF RoundStep

LEMMA LedgerIsInvariant == Spec => []LedgerInv
<1>1. Init => LedgerInv
  BY InitIsLedger
<1>2. TypeOK /\ LedgerInv /\ [Next]_vars => LedgerInv'
  BY EveryStepIsARoundStep, RoundStepsKeepLedger
<1> QED
  BY <1>1, <1>2, TypeCorrect, PTL DEF Spec

(* The lifecycle events of a round are those of the state its row is in:   *)
(* none is missing, repeated or out of order, whichever transaction        *)
(* activated the round and whichever concluded it.                         *)
THEOREM JournalIsExact == Spec => []JournalTellsState
<1>1. LedgerInv => JournalTellsState
  BY DEF LedgerInv
<1> QED
  BY <1>1, LedgerIsInvariant, PTL

LEMMA InitImplementsContract == Init => Contract!Init
<1> SUFFICES ASSUME Init
             PROVE  Contract!Init
  OBVIOUS
<1>1. Contract!Delta(Contract!NoVerdict) = Zero
  BY DEF Contract!Delta, Contract!NoVerdict, Zero, ShouldApplyRecord,
         Contract!ShouldApplyRecord, NoReason, Contract!NoReason
<1> QED
  BY <1>1 DEF Init, Contract!Init, Contract!NoVerdict, Contract!NoReason, NoReason, Zero

LEMMA RoundStepsImplementContract ==
  ASSUME TypeOK, LedgerInv, RoundStep
  PROVE  [Contract!Next]_Contract!vars
<1>rows. match \in MatchRow
  BY DEF TypeOK
<1>1. CASE UNCHANGED <<match, records, journal>>
  BY <1>1 DEF Contract!vars
<1>2. CASE StartsCountdown
  BY <1>rows, <1>2 DEF StartsCountdown, MatchRow, Contract!Next, Contract!Advance
<1>3. CASE CancelMatch
  <2>1. /\ match'.state = "FINISHED" /\ match'.endReason = "CANCELLED"
        /\ match'.winner = None /\ match.state = "LOBBY"
    BY <1>rows, <1>3 DEF CancelMatch, MatchRow, LedgerInv
  <2>2. UNCHANGED records
    BY <1>3 DEF CancelMatch
  <2> QED
    BY <2>1, <2>2 DEF Contract!Next, Contract!Cancel
<1>4. CASE Activates
  BY <1>rows, <1>4 DEF Activates, MatchRow, Contract!Next, Contract!Advance
<1>5. CASE ReachesVerdict
  <2>1. PICK d \in Decision : Contract!LegalVerdict(d) /\ Finalize(d)
    BY <1>5 DEF ReachesVerdict
  <2>2. d \in [reason : EndReason, winner : Players \cup {None}]
    BY <2>1 DEF Contract!LegalVerdict, Decision, EndReason
  <2>3. match.state = "ACTIVE" /\ records = Zero
    BY <1>5 DEF ReachesVerdict, LedgerInv
  <2>4. /\ match'.state = Contract!Rest
        /\ [reason |-> match'.endReason, winner |-> match'.winner] = d
    BY <1>rows, <2>1, <2>2 DEF Finalize, MatchRow, Contract!Rest
  <2>5. records' = Contract!Delta(d)
    BY <2>1, <2>3, VerdictsBookTheirDelta
  <2>6. Contract!CanTransition("ACTIVE", "FINISHED")
    BY DEF Contract!CanTransition, Contract!Transitions
  <2>7. Contract!Resolve(d)
    BY <2>1, <2>3, <2>4, <2>5, <2>6 DEF Contract!Resolve
  <2> QED
    BY <2>2, <2>7 DEF Contract!Next, EndReason, Contract!EndReason
<1> QED
  BY <1>1, <1>2, <1>3, <1>4, <1>5 DEF RoundStep

(* The engine implements MatchContract under the refinement mapping of     *)
(* MatchEngine: whatever the interleaving of lobby, runners, sweeps and    *)
(* sockets, a round moves forward only, reaches at most one verdict, a     *)
(* legal one and from an active round, and books the records in that very  *)
(* step and never again.                                                   *)
THEOREM EngineImplementsContract == Spec => ImplementsContract
<1>1. Init => Contract!Init
  BY InitImplementsContract
<1>2. TypeOK /\ LedgerInv /\ [Next]_vars => [Contract!Next]_Contract!vars
  BY EveryStepIsARoundStep, RoundStepsImplementContract
<1> QED
  BY <1>1, <1>2, TypeCorrect, LedgerIsInvariant, PTL
     DEF Spec, ImplementsContract, Contract!Spec
-----------------------------------------------------------------------------
(* What a step may do to the participants: only three actions move a       *)
(* player's presence, and only two its limits.                             *)

SamePresence(p, q) ==
  \A u \in Players :
    /\ q[u].connected = p[u].connected
    /\ q[u].discAt = p[u].discAt
    /\ q[u].deadline = p[u].deadline

SameLimits(p, q) ==
  \A u \in Players :
    q[u].cooldown = p[u].cooldown /\ q[u].nextRun = p[u].nextRun

Completes(e) ==
  \E verdict \in Verdicts, runtime \in Nat : Complete(e, verdict, runtime)

ParticipantStep ==
  /\ \/ SamePresence(part, part')
     \/ AdvanceCountdown
     \/ \E s \in Sessions : ConnectSession(s)
     \/ \E u \in Players : ReconcileConnection(u)
  /\ \/ SameLimits(part, part')
     \/ \E e \in Executions : StartExecution(e)
     \/ \E e \in Executions : Completes(e)

LEMMA ConcludedKeepsTheRest ==
  ASSUME NEW p \in [Players -> ParticipantRow], NEW d
  PROVE  SamePresence(p, Concluded(p, d)) /\ SameLimits(p, Concluded(p, d))
<1>1. CASE d = NoDecision
  BY <1>1 DEF Concluded, SamePresence, SameLimits
<1>2. CASE d # NoDecision
  <2>1. \A u \in Players : \A x :
          LET row == [p[u] EXCEPT !.outcome = x, !.active = None]
          IN /\ row.connected = p[u].connected /\ row.discAt = p[u].discAt
             /\ row.deadline = p[u].deadline /\ row.cooldown = p[u].cooldown
             /\ row.nextRun = p[u].nextRun
    BY DEF ParticipantRow
  <2> QED
    BY <1>2, <2>1 DEF Concluded, SamePresence, SameLimits
<1> QED
  BY <1>1, <1>2

LEMMA EveryStepIsAParticipantStep == TypeOK /\ [Next]_vars => ParticipantStep
<1> SUFFICES ASSUME TypeOK, [Next]_vars
             PROVE  ParticipantStep
  OBVIOUS
<1>rows. /\ part \in [Players -> ParticipantRow]
         /\ exec \in [Executions -> ExecutionRow]
  BY DEF TypeOK
<1>1. ASSUME UNCHANGED part
      PROVE  ParticipantStep
  BY <1>1 DEF ParticipantStep, SamePresence, SameLimits
<1>2. ASSUME NEW u \in Players, JoinRoom(u)
      PROVE  ParticipantStep
  <2>1. part' = [part EXCEPT ![u].joined = TRUE]
    BY <1>2 DEF JoinRoom
  <2> QED
    BY <1>rows, <2>1 DEF ParticipantRow, ParticipantStep, SamePresence, SameLimits
<1>3. ASSUME NEW u \in Players, NEW l \in Languages, SetLanguage(u, l)
      PROVE  ParticipantStep
  <2>1. part' = [part EXCEPT ![u] = [@ EXCEPT !.lang = l, !.ready = FALSE]]
    BY <1>3 DEF SetLanguage
  <2> QED
    BY <1>rows, <2>1 DEF ParticipantRow, ParticipantStep, SamePresence, SameLimits
<1>4. ASSUME NEW u \in Players, NEW ready \in BOOLEAN, SetReady(u, ready)
      PROVE  ParticipantStep
  <2>1. part' = [part EXCEPT ![u].ready = ready]
    BY <1>4 DEF SetReady
  <2> QED
    BY <1>rows, <2>1 DEF ParticipantRow, ParticipantStep, SamePresence, SameLimits
<1>5. CASE CancelMatch
  <2>1. \A u \in Players : \E x : part'[u] = [part[u] EXCEPT !.outcome = x]
    BY <1>5 DEF CancelMatch
  <2>2. ASSUME NEW p \in ParticipantRow, NEW x
        PROVE  LET row == [p EXCEPT !.outcome = x]
               IN /\ row.connected = p.connected /\ row.discAt = p.discAt
                  /\ row.deadline = p.deadline /\ row.cooldown = p.cooldown
                  /\ row.nextRun = p.nextRun
    BY DEF ParticipantRow
  <2>3. ASSUME NEW u \in Players
        PROVE  /\ part'[u].connected = part[u].connected /\ part'[u].discAt = part[u].discAt
               /\ part'[u].deadline = part[u].deadline /\ part'[u].cooldown = part[u].cooldown
               /\ part'[u].nextRun = part[u].nextRun
    <3>1. PICK x : part'[u] = [part[u] EXCEPT !.outcome = x]
      BY <2>1
    <3>2. part[u] \in ParticipantRow
      BY <1>rows
    <3> QED
      BY <2>2, <3>1, <3>2
  <2>4. SamePresence(part, part') /\ SameLimits(part, part')
    BY <2>3 DEF SamePresence, SameLimits
  <2> QED
    BY <2>4 DEF ParticipantStep
<1>6. CASE AdvanceCountdown
  <2>1. SameLimits(part, part')
    BY <1>rows, <1>6 DEF AdvanceCountdown, ParticipantRow, SameLimits
  <2> QED
    BY <1>6, <2>1 DEF ParticipantStep
<1>7. ASSUME NEW e \in Executions, StartExecution(e)
      PROVE  ParticipantStep
  <2>1. PICK u \in Players :
          \/ \E t : part' = [part EXCEPT ![u] = [@ EXCEPT !.active = e, !.nextRun = t]]
          \/ part' = [part EXCEPT ![u] = [@ EXCEPT !.active = e]]
    <3>1. exec[e].user \in Players
      BY <1>rows DEF ExecutionRow
    <3> QED
      BY <1>7, <3>1 DEF StartExecution
  <2>2. ASSUME part' = [part EXCEPT ![u] = [@ EXCEPT !.active = e]]
        PROVE  SamePresence(part, part')
    BY <1>rows, <2>2 DEF ParticipantRow, SamePresence
  <2>3. ASSUME NEW t,
               part' = [part EXCEPT ![u] = [@ EXCEPT !.active = e, !.nextRun = t]]
        PROVE  SamePresence(part, part')
    BY <1>rows, <2>3 DEF ParticipantRow, SamePresence
  <2>4. SamePresence(part, part')
    BY <2>1, <2>2, <2>3
  <2> QED
    BY <1>7, <2>4 DEF ParticipantStep
<1>8. ASSUME NEW e \in Executions, Completes(e)
      PROVE  ParticipantStep
  <2>1. PICK verdict \in Verdicts, runtime \in Nat : Complete(e, verdict, runtime)
    BY <1>8 DEF Completes
  <2> DEFINE freed == [part EXCEPT ![exec[e].user] =
                         [@ EXCEPT !.active = None,
                                   !.cooldown = CooldownAfter(e, verdict)]]
  <2>2. freed \in [Players -> ParticipantRow]
    BY FreedIsTyped
  <2>3. SamePresence(part, freed)
    <3>1. exec[e].user \in Players
      BY <1>rows DEF ExecutionRow
    <3>2. \A u \in Players : \A x :
            LET row == [part[u] EXCEPT !.active = None, !.cooldown = x]
            IN /\ row.connected = part[u].connected /\ row.discAt = part[u].discAt
               /\ row.deadline = part[u].deadline
      BY <1>rows DEF ParticipantRow
    <3> QED
      BY <1>rows, <3>1, <3>2 DEF SamePresence
  <2>4. (\E d : part' = Concluded(freed, d)) \/ UNCHANGED part
    BY <2>1 DEF Complete
  <2> HIDE DEF freed
  <2>5. SamePresence(part, part')
    BY <2>2, <2>3, <2>4, ConcludedKeepsTheRest DEF SamePresence
  <2> QED
    BY <1>8, <2>5 DEF ParticipantStep
<1>9. ASSUME NEW d, part' = Concluded(part, d)
      PROVE  ParticipantStep
  BY <1>rows, <1>9, ConcludedKeepsTheRest DEF ParticipantStep
<1>10. ASSUME NEW s \in Sessions, ConnectSession(s)
       PROVE  ParticipantStep
  <2> DEFINE p == Concluded(part, AbsenceDecision(part, exec))
  <2>1. p \in [Players -> ParticipantRow]
    BY <1>rows, DecisionsAreTyped, ConcludedIsTyped
  <2>2. part' = [p EXCEPT ![Owner[s]] = Online(@)] /\ Owner[s] \in Players
    BY <1>10, OwnerAssumption DEF ConnectSession
  <2>3. SameLimits(part, p)
    BY <1>rows, ConcludedKeepsTheRest
  <2> HIDE DEF p
  <2>4. \A u \in Players : Online(p[u]).cooldown = p[u].cooldown
                        /\ Online(p[u]).nextRun = p[u].nextRun
    BY <2>1 DEF Online, ParticipantRow
  <2>5. SameLimits(part, part')
    BY <2>1, <2>2, <2>3, <2>4 DEF SameLimits
  <2> QED
    BY <1>10, <2>5 DEF ParticipantStep
<1>11. ASSUME NEW u \in Players, ReconcileConnection(u)
       PROVE  ParticipantStep
  <2>1. \/ UNCHANGED part
        \/ \E t, x : part' = [part EXCEPT ![u] =
             [@ EXCEPT !.connected = FALSE, !.discAt = t, !.deadline = x]]
    BY <1>11 DEF ReconcileConnection
  <2>2. \A t, x : LET row == [part[u] EXCEPT !.connected = FALSE, !.discAt = t,
                                             !.deadline = x]
                  IN row.cooldown = part[u].cooldown /\ row.nextRun = part[u].nextRun
    BY <1>rows DEF ParticipantRow
  <2>3. SameLimits(part, part')
    <3>1. CASE UNCHANGED part
      BY <3>1 DEF SameLimits
    <3>2. ASSUME NEW t, NEW x, part' = [part EXCEPT ![u] =
                   [@ EXCEPT !.connected = FALSE, !.discAt = t, !.deadline = x]]
          PROVE  SameLimits(part, part')
      BY <1>rows, <2>2, <3>2 DEF SameLimits
    <3> QED
      BY <2>1, <3>1, <3>2
  <2> QED
    BY <1>11, <2>3 DEF ParticipantStep
<1>12. ASSUME NEW e \in Executions, CompleteExecution(e) \/ RecoverStaleExecution(e)
       PROVE  ParticipantStep
  <2>1. Completes(e)
    BY <1>12, NumbersAssumption
       DEF CompleteExecution, RecoverStaleExecution, Completes, Verdicts
  <2> QED
    BY <1>8, <2>1
<1> QED
  BY <1>1, <1>2, <1>3, <1>4, <1>5, <1>6, <1>7, <1>9, <1>10, <1>11, <1>12
     DEF Next, vars, Receive, DropReceipt, MarkExecutionRunning, ForfeitMatch,
         TouchSession, DisconnectSession, ExpireStaleSessions,
         CrashBeforeReconcile, ProcessDueDisconnects, Tick

-----------------------------------------------------------------------------
(* A round never goes back, and neither does the clock.                    *)
LEMMA RoundsNeverReturn ==
  ASSUME TypeOK, RoundStep
  PROVE  /\ match'.state \in {"LOBBY", "COUNTDOWN"} =>
              match.state \in {"LOBBY", "COUNTDOWN"}
         /\ match'.state \in {"LOBBY", "COUNTDOWN", "ACTIVE"} =>
              match.state \in {"LOBBY", "COUNTDOWN", "ACTIVE"}
<1>1. CASE UNCHANGED <<match, records, journal>>
  BY <1>1
<1>2. CASE StartsCountdown
  BY <1>2 DEF StartsCountdown
<1>3. CASE CancelMatch
  BY <1>3 DEF CancelMatch
<1>4. CASE Activates
  <2>1. match.state = "COUNTDOWN" /\ match'.state = "ACTIVE"
    BY <1>4 DEF Activates, TypeOK, MatchRow
  <2> QED
    BY <2>1
<1>5. CASE ReachesVerdict
  <2>1. match'.state \in {"FINISHED", "REMATCH_PENDING"}
    BY <1>5 DEF ReachesVerdict, Finalize, TypeOK, MatchRow
  <2> QED
    BY <2>1
<1> QED
  BY <1>1, <1>2, <1>3, <1>4, <1>5 DEF RoundStep

LEMMA ClockNeverReturns == TypeOK /\ [Next]_vars => now' >= now
<1> SUFFICES ASSUME TypeOK, [Next]_vars
             PROVE  now' >= now
  OBVIOUS
<1>1. now' = now \/ now' = now + 1
  BY DEF Next, vars, JoinRoom, SetLanguage, SetReady, CancelMatch, AdvanceCountdown,
         Receive, StartExecution, DropReceipt, MarkExecutionRunning, Complete,
         CompleteExecution, RecoverStaleExecution, ForfeitMatch, ConnectSession,
         TouchSession, DisconnectSession, ExpireStaleSessions, ReconcileConnection,
         CrashBeforeReconcile, ProcessDueDisconnects, Tick
<1> QED
  BY <1>1 DEF TypeOK

-----------------------------------------------------------------------------
(* Presence.                                                               *)

(* An absence lies in the past: activation and reconciliation both date it *)
(* back, the one to the start of the round, the other to the last sign of  *)
(* life.                                                                   *)
AbsencesArePast ==
  \A u \in Players : part[u].discAt # None => part[u].discAt <= now

DeadlineInv == DeadlineRunsFromAbsence /\ AbsencesArePast

(* Two players may lose each other, but never the clock that times it.     *)
LEMMA StepsKeepDeadlines ==
  ASSUME TypeOK, TypeOK', DeadlineInv, ParticipantStep, RoundStep, now' >= now
  PROVE  DeadlineInv'
<1> USE DEF DeadlineInv
<1>rows. /\ part \in [Players -> ParticipantRow] /\ exec \in [Executions -> ExecutionRow]
         /\ now \in Nat /\ now' \in Nat
  BY DEF TypeOK
<1>times. \A u \in Players : part[u].discAt # None => part[u].discAt \in Nat
  BY <1>rows DEF ParticipantRow
<1>begun. match.state \notin {"LOBBY", "COUNTDOWN"} => match'.state \notin {"LOBBY", "COUNTDOWN"}
  BY RoundsNeverReturn
<1>1. CASE SamePresence(part, part')
  BY <1>1, <1>rows, <1>times, <1>begun
     DEF SamePresence, DeadlineRunsFromAbsence, AbsencesArePast
<1>2. CASE AdvanceCountdown
  <2>1. \A u \in Players : AbsentSince(u) \in Nat /\ AbsentSince(u) <= now
    BY <1>2, <1>rows, <1>times
       DEF AdvanceCountdown, CountdownOver, AbsentSince, TypeOK, AbsencesArePast
  <2>2. match'.state = "ACTIVE" /\ now' = now
    BY <1>2 DEF AdvanceCountdown, TypeOK, MatchRow
  <2>3. ASSUME NEW u \in Players,
               Mode = "DUEL" /\ ~part[u].connected /\ part[u].deadline = None
        PROVE  /\ ~part'[u].connected /\ part'[u].discAt # None
               /\ part'[u].discAt <= now
               /\ part'[u].deadline = part'[u].discAt + Grace
    <3>1. part'[u] = [part[u] EXCEPT !.discAt = AbsentSince(u),
                                     !.deadline = AbsentSince(u) + Grace]
      BY <1>2, <2>3 DEF AdvanceCountdown
    <3> QED
      BY <1>rows, <2>1, <2>3, <3>1, NoneAssumption DEF ParticipantRow
  <2>4. ASSUME NEW u \in Players,
               ~(Mode = "DUEL" /\ ~part[u].connected /\ part[u].deadline = None)
        PROVE  part'[u] = part[u]
    BY <1>2, <2>4 DEF AdvanceCountdown
  <2>5. DeadlineRunsFromAbsence'
    BY <2>2, <2>3, <2>4 DEF DeadlineRunsFromAbsence
  <2>6. AbsencesArePast'
    BY <2>2, <2>3, <2>4 DEF AbsencesArePast
  <2> QED
    BY <2>5, <2>6
<1>3. ASSUME NEW s \in Sessions, ConnectSession(s)
      PROVE  DeadlineInv'
  <2> DEFINE p == Concluded(part, AbsenceDecision(part, exec))
  <2>1. p \in [Players -> ParticipantRow]
    BY <1>rows, DecisionsAreTyped, ConcludedIsTyped
  <2>2. /\ part' = [p EXCEPT ![Owner[s]] = Online(@)] /\ Owner[s] \in Players
        /\ now' = now
    BY <1>3, OwnerAssumption DEF ConnectSession
  <2>3. SamePresence(part, p)
    BY <1>rows, ConcludedKeepsTheRest
  <2> HIDE DEF p
  <2>4. \A u \in Players : Online(p[u]).deadline = None /\ Online(p[u]).discAt = None
    BY <2>1 DEF Online, ParticipantRow
  <2>5. ASSUME NEW u \in Players
        PROVE  \/ part'[u].deadline = None /\ part'[u].discAt = None
               \/ /\ part'[u].connected = part[u].connected
                  /\ part'[u].discAt = part[u].discAt
                  /\ part'[u].deadline = part[u].deadline
    BY <2>1, <2>2, <2>3, <2>4 DEF SamePresence
  <2>6. DeadlineRunsFromAbsence'
    BY <1>begun, <2>2, <2>5 DEF DeadlineRunsFromAbsence
  <2>7. AbsencesArePast'
    BY <2>2, <2>5 DEF AbsencesArePast
  <2> QED
    BY <2>6, <2>7
<1>4. ASSUME NEW u \in Players, ReconcileConnection(u)
      PROVE  DeadlineInv'
  <2>same. match' = match /\ now' = now
    BY <1>4 DEF ReconcileConnection
  <2>1. CASE UNCHANGED part
    BY <2>same, <2>1 DEF DeadlineRunsFromAbsence, AbsencesArePast
  <2>2. CASE ~UNCHANGED part
    <3>1. PICK t \in 0 .. now :
            part' = [part EXCEPT ![u] =
              [@ EXCEPT !.connected = FALSE, !.discAt = t,
                        !.deadline = IF match.state = "ACTIVE" /\ Mode = "DUEL"
                                       THEN t + Grace ELSE None]]
      BY <1>4, <2>2 DEF ReconcileConnection
    <3>2. t # None /\ t <= now
      BY NoneAssumption DEF TypeOK
    <3>3. /\ ~part'[u].connected /\ part'[u].discAt = t
          /\ part'[u].deadline # None =>
               match.state = "ACTIVE" /\ Mode = "DUEL" /\ part'[u].deadline = t + Grace
          /\ \A v \in Players : v # u => part'[v] = part[v]
      BY <1>rows, <3>1 DEF ParticipantRow
    <3>4. DeadlineRunsFromAbsence'
      BY <2>same, <3>2, <3>3 DEF DeadlineRunsFromAbsence
    <3>5. AbsencesArePast'
      BY <2>same, <3>2, <3>3 DEF AbsencesArePast
    <3> QED
      BY <3>4, <3>5
  <2> QED
    BY <2>1, <2>2
<1> QED
  BY <1>1, <1>2, <1>3, <1>4 DEF ParticipantStep

(* Only a player absent from a duel that has started has a reconnect       *)
(* deadline, and it runs the whole grace period from the moment the        *)
(* absence counts from, which is never in the future: whichever of the     *)
(* reconciliation and the activation of the round set it, and also once    *)
(* the duel is over.                                                       *)
THEOREM DeadlinesAreFair == Spec => []DeadlineRunsFromAbsence
<1>1. Init => DeadlineInv
  BY DEF Init, DeadlineInv, DeadlineRunsFromAbsence, AbsencesArePast
<1>2. TypeOK /\ TypeOK' /\ DeadlineInv /\ [Next]_vars => DeadlineInv'
  BY EveryStepIsAParticipantStep, EveryStepIsARoundStep, ClockNeverReturns,
     StepsKeepDeadlines
<1>3. DeadlineInv => DeadlineRunsFromAbsence
  BY DEF DeadlineInv
<1> QED
  BY <1>1, <1>2, <1>3, TypeCorrect, PTL DEF Spec

(* Connecting, closing, sweeping and reconciling watch each other.         *)
LEMMA StepsKeepWatch ==
  ASSUME TypeOK, PresenceIsWatched, ParticipantStep, [Next]_vars
  PROVE  PresenceIsWatched'
<1>rows. /\ part \in [Players -> ParticipantRow] /\ exec \in [Executions -> ExecutionRow]
         /\ sess \in [Sessions -> SessionRow] /\ pending \in [Players -> Nat]
  BY DEF TypeOK
<1>1. ASSUME NEW s \in Sessions, ConnectSession(s)
      PROVE  PresenceIsWatched'
  <2> DEFINE p == Concluded(part, AbsenceDecision(part, exec))
  <2>1. p \in [Players -> ParticipantRow] /\ SamePresence(part, p)
    BY <1>rows, DecisionsAreTyped, ConcludedIsTyped, ConcludedKeepsTheRest
  <2>2. /\ part' = [p EXCEPT ![Owner[s]] = Online(@)] /\ Owner[s] \in Players
        /\ sess' = [sess EXCEPT ![s] = [status |-> "OPEN", at |-> now]]
        /\ pending' = pending
    BY <1>1, OwnerAssumption DEF ConnectSession
  <2> HIDE DEF p
  <2>3. sess'[s].status = "OPEN" /\ s \in SessionsOf(Owner[s])
    BY <1>rows, <2>2 DEF SessionsOf
  <2>4. \A r \in Sessions : sess[r].status = "OPEN" => sess'[r].status = "OPEN"
    BY <1>rows, <2>2
  <2>5. \A u \in Players : u # Owner[s] => part'[u].connected = part[u].connected
    BY <2>1, <2>2 DEF SamePresence
  <2> QED
    BY <2>2, <2>3, <2>4, <2>5 DEF PresenceIsWatched, SessionsOf
<1>2. ASSUME NEW u \in Players, ReconcileConnection(u)
      PROVE  PresenceIsWatched'
  <2>1. sess' = sess /\ \A v \in Players : v # u => pending'[v] = pending[v]
    BY <1>2, <1>rows DEF ReconcileConnection
  <2>2. CASE Absent(u) /\ ~UNCHANGED part
    <3>1. \E t, x : part' = [part EXCEPT ![u] =
            [@ EXCEPT !.connected = FALSE, !.discAt = t, !.deadline = x]]
      BY <1>2, <2>2 DEF ReconcileConnection
    <3>2. /\ ~part'[u].connected
          /\ \A v \in Players : v # u => part'[v] = part[v]
      BY <1>rows, <3>1 DEF ParticipantRow
    <3> QED
      BY <2>1, <3>2 DEF PresenceIsWatched
  <2>3. CASE Absent(u) /\ UNCHANGED part
    <3>1. PICK t \in 0 .. now : part' = [part EXCEPT ![u] =
            [@ EXCEPT !.connected = FALSE, !.discAt = t,
                      !.deadline = IF match.state = "ACTIVE" /\ Mode = "DUEL"
                                     THEN t + Grace ELSE None]]
      BY <1>2, <2>3 DEF ReconcileConnection
    <3>2. ~part'[u].connected
      BY <1>rows, <3>1 DEF ParticipantRow
    <3> QED
      BY <2>3, <3>2 DEF Absent
  <2>4. CASE ~Absent(u)
    <3>1. UNCHANGED part
      BY <1>2, <2>4 DEF ReconcileConnection
    <3>2. part[u].connected => \E s \in SessionsOf(u) : sess[s].status = "OPEN"
      BY <2>4 DEF Absent, Fresh
    <3> QED
      BY <2>1, <3>1, <3>2 DEF PresenceIsWatched
  <2> QED
    BY <2>2, <2>3, <2>4
<1>3. ASSUME NEW s \in Sessions, TouchSession(s)
      PROVE  PresenceIsWatched'
  <2>1. part' = part /\ pending' = pending
        /\ \A r \in Sessions : sess'[r].status = sess[r].status
    BY <1>3, <1>rows DEF TouchSession, SessionRow
  <2> QED
    BY <2>1 DEF PresenceIsWatched, SessionsOf
<1>4. ASSUME NEW s \in Sessions, DisconnectSession(s)
      PROVE  PresenceIsWatched'
  <2>1. part' = part /\ Owner[s] \in Players
        /\ \A r \in Sessions : r # s => sess'[r] = sess[r]
    BY <1>4, <1>rows, OwnerAssumption DEF DisconnectSession
  <2>2. /\ pending'[Owner[s]] > 0
        /\ \A v \in Players : v # Owner[s] => pending'[v] = pending[v]
    BY <1>4, <1>rows, <2>1 DEF DisconnectSession
  <2> QED
    BY <2>1, <2>2 DEF PresenceIsWatched, SessionsOf
<1>5. CASE ExpireStaleSessions
  <2>1. part' = part
    BY <1>5 DEF ExpireStaleSessions
  <2>2. \A s \in Sessions : s \notin StaleSessions => sess'[s] = sess[s]
    BY <1>5 DEF ExpireStaleSessions
  <2>3. \A u \in Players :
          pending'[u] = IF u \in {Owner[s] : s \in StaleSessions} THEN pending[u] + 1
                                                                   ELSE pending[u]
    BY <1>5 DEF ExpireStaleSessions
  <2>4. SUFFICES ASSUME NEW u \in Players, part[u].connected, ~MayCrash
                 PROVE  pending'[u] > 0 \/ \E s \in SessionsOf(u) : sess'[s].status = "OPEN"
    BY <2>1 DEF PresenceIsWatched
  <2>5. CASE u \in {Owner[s] : s \in StaleSessions}
    <3>1. pending'[u] = pending[u] + 1 /\ pending[u] \in Nat
      BY <1>rows, <2>3, <2>5
    <3> QED
      BY <3>1
  <2>6. CASE u \notin {Owner[s] : s \in StaleSessions}
    <3>1. \A s \in SessionsOf(u) : s \notin StaleSessions /\ s \in Sessions
      BY <2>6 DEF SessionsOf
    <3>2. pending'[u] = pending[u]
      BY <2>3, <2>6
    <3> QED
      BY <2>2, <2>4, <3>1, <3>2 DEF PresenceIsWatched
  <2> QED
    BY <2>5, <2>6
<1>6. ASSUME NEW u \in Players, CrashBeforeReconcile(u)
      PROVE  PresenceIsWatched'
  BY <1>6 DEF CrashBeforeReconcile, PresenceIsWatched
<1>7. ASSUME UNCHANGED <<sess, pending>>, SamePresence(part, part') \/ AdvanceCountdown
      PROVE  PresenceIsWatched'
  <2>1. \A u \in Players : part'[u].connected = part[u].connected
    <3>1. CASE SamePresence(part, part')
      BY <3>1 DEF SamePresence
    <3>2. CASE AdvanceCountdown
      <4> SUFFICES ASSUME NEW u \in Players
                   PROVE  part'[u].connected = part[u].connected
        OBVIOUS
      <4>1. \/ part'[u] = part[u]
            \/ part'[u] = [part[u] EXCEPT !.discAt = AbsentSince(u),
                                          !.deadline = AbsentSince(u) + Grace]
        BY <3>2 DEF AdvanceCountdown
      <4>2. part[u] \in ParticipantRow
        BY <1>rows
      <4> QED
        BY <4>1, <4>2 DEF ParticipantRow
    <3> QED
      BY <1>7, <3>1, <3>2
  <2> QED
    BY <1>7, <2>1 DEF PresenceIsWatched, SessionsOf
<1>8. \/ UNCHANGED <<sess, pending>>
      \/ \E s \in Sessions : ConnectSession(s) \/ TouchSession(s) \/ DisconnectSession(s)
      \/ ExpireStaleSessions
      \/ \E u \in Players : ReconcileConnection(u) \/ CrashBeforeReconcile(u)
  BY DEF Next, vars, JoinRoom, SetLanguage, SetReady, CancelMatch, AdvanceCountdown,
         Receive, StartExecution, DropReceipt, MarkExecutionRunning, CompleteExecution,
         RecoverStaleExecution, Complete, ForfeitMatch, ProcessDueDisconnects, Tick
<1> QED
  BY <1>1, <1>2, <1>3, <1>4, <1>5, <1>6, <1>7, <1>8 DEF ParticipantStep

(* As long as servers stay up, a player counted as connected has an open   *)
(* session, or the reconciliation that will notice the contrary is still   *)
(* to run, however closings, sweeps, heartbeats and connections of its     *)
(* several sessions interleave.                                            *)
THEOREM NobodyIsLostSight == Spec => []PresenceIsWatched
<1>1. Init => PresenceIsWatched
  BY DEF Init, PresenceIsWatched
<1>2. TypeOK /\ PresenceIsWatched /\ [Next]_vars => PresenceIsWatched'
  BY EveryStepIsAParticipantStep, StepsKeepWatch
<1> QED
  BY <1>1, <1>2, TypeCorrect, PTL DEF Spec
-----------------------------------------------------------------------------
(* What a step may do to the executions table, and the two properties that *)
(* range over its rows.                                                    *)

ExecutionStep ==
  \/ SameRows(exec, exec')
  \/ \E e \in Executions : StartExecution(e)
  \/ \E e \in Executions : Completes(e)

LEMMA EveryStepIsAnExecutionStep == TypeOK /\ [Next]_vars => ExecutionStep
<1> SUFFICES ASSUME TypeOK, [Next]_vars
             PROVE  ExecutionStep
  OBVIOUS
<1>1. ASSUME UNCHANGED exec
      PROVE  ExecutionStep
  BY <1>1 DEF ExecutionStep, SameRows
<1>2. ASSUME \/ \E u \in Players, kind \in Kinds : Receive(u, kind)
             \/ \E e \in Executions : DropReceipt(e) \/ MarkExecutionRunning(e)
      PROVE  ExecutionStep
  BY <1>2, ReceiptsKeepRows DEF ExecutionStep
<1>3. ASSUME NEW e \in Executions, CompleteExecution(e) \/ RecoverStaleExecution(e)
      PROVE  ExecutionStep
  <2>1. Completes(e)
    BY <1>3, NumbersAssumption
       DEF CompleteExecution, RecoverStaleExecution, Completes, Verdicts
  <2> QED
    BY <2>1 DEF ExecutionStep
<1> QED
  BY <1>1, <1>2, <1>3
     DEF Next, vars, ExecutionStep, JoinRoom, SetLanguage, SetReady, CancelMatch,
         AdvanceCountdown, ForfeitMatch, ConnectSession, TouchSession,
         DisconnectSession, ExpireStaleSessions, ReconcileConnection,
         CrashBeforeReconcile, ProcessDueDisconnects, Tick

(* The row a result fills, and the ones it leaves alone.                   *)
LEMMA CompletionFillsOneRow ==
  ASSUME TypeOK, NEW e \in Executions, NEW verdict \in Verdicts, NEW runtime \in Nat,
         Complete(e, verdict, runtime)
  PROVE  /\ Unresolved(exec, e)
         /\ exec'[e].status = "COMPLETED" /\ exec'[e].verdict = verdict
         /\ exec'[e].user = exec[e].user /\ exec'[e].kind = exec[e].kind
         /\ exec'[e].created = exec[e].created /\ exec'[e].completed = now
         /\ \A f \in Executions : f # e => exec'[f] = exec[f]
<1>1. exec' = [exec EXCEPT ![e] = [@ EXCEPT !.status = "COMPLETED", !.completed = now,
                                            !.verdict = verdict, !.runtime = runtime]]
  BY DEF Complete
<1> QED
  BY <1>1 DEF Complete, TypeOK, ExecutionRow

(* RunsAreSpaced and RejectionsBlock are inductive together with the place *)
(* of every row in time and with what it left behind: a row was created    *)
(* and completed in the past, the next run of its author is due no sooner  *)
(* than SampleGap after a run, and until the round is over the author's    *)
(* cooldown covers every rejection, not only the last one.                 *)
RunsAreScheduled ==
  \A e \in Executions : Persisted(exec, e) =>
    /\ exec[e].created <= now
    /\ exec[e].kind = "RUN" =>
         exec[e].created + SampleGap <= part[exec[e].user].nextRun

Rejected(ex, e) ==
  ex[e].status = "COMPLETED" /\ ex[e].kind = "SUBMIT" /\ ex[e].verdict = "REJECTED"

CooldownsStand ==
  \A e \in Executions : exec[e].status = "COMPLETED" =>
    /\ exec[e].completed <= now
    /\ match.state \in {"LOBBY", "COUNTDOWN", "ACTIVE"} /\ Rejected(exec, e) =>
         exec[e].completed + Cooldown <= part[exec[e].user].cooldown

LimitsInv == RunsAreScheduled /\ RunsAreSpaced /\ CooldownsStand /\ RejectionsBlock

LEMMA QuietStepsKeepLimits ==
  ASSUME TypeOK, TypeOK', LimitsInv, SameRows(exec, exec'), SameLimits(part, part'),
         RoundStep, now' >= now
  PROVE  LimitsInv'
<1> USE DEF LimitsInv
<1>1. \A e \in Executions : Persisted(exec', e) => Persisted(exec, e)
  BY SameRowsSameVerdict
<1>2. \A e \in Executions :
        /\ exec[e].created \in Nat /\ exec[e].completed \in Nat /\ exec[e].user \in Players
        /\ exec'[e].created \in Nat /\ exec'[e].completed \in Nat
  BY DEF TypeOK, ExecutionRow
<1>3. now \in Nat /\ now' \in Nat
  BY DEF TypeOK
<1>4. RunsAreScheduled'
  BY <1>1, <1>2, <1>3 DEF RunsAreScheduled, SameRows, SameLimits
<1>5. CooldownsStand'
  <2>1. \A e \in Executions : exec[e].status = "COMPLETED" => Persisted(exec, e)
    BY DEF Persisted
  <2>2. match'.state \in {"LOBBY", "COUNTDOWN", "ACTIVE"} =>
          match.state \in {"LOBBY", "COUNTDOWN", "ACTIVE"}
    BY RoundsNeverReturn
  <2> QED
    BY <1>2, <1>3, <2>1, <2>2 DEF CooldownsStand, Rejected, SameRows, SameLimits
<1>6. RunsAreSpaced'
  BY <1>1 DEF RunsAreSpaced, SameRows
<1>7. RejectionsBlock'
  <2>1. \A e, f \in Executions :
          Persisted(exec, e) /\ Persisted(exec, f) /\ Follows(f, e) => Follows(f, e)'
    BY DEF Follows, SameRows
  <2> QED
    BY <1>1, <2>1 DEF RejectionsBlock, SameRows
<1> QED
  BY <1>4, <1>5, <1>6, <1>7

(* A sample run that starts comes SampleGap after the latest of its author.*)
LEMMA StartsKeepLimits ==
  ASSUME TypeOK, TypeOK', JudgingInv, LimitsInv, NEW e \in Executions, StartExecution(e)
  PROVE  LimitsInv'
<1> DEFINE u == exec[e].user
<1>1. /\ exec[e].status = "WAITING"
      /\ exec'[e].status = "QUEUED" /\ exec'[e].created = now
      /\ exec'[e].user = u /\ exec'[e].kind = exec[e].kind
      /\ \A f \in Executions : f # e => exec'[f] = exec[f]
  <2>1. exec' = [exec EXCEPT ![e] = [@ EXCEPT !.status = "QUEUED", !.created = now]]
    BY DEF StartExecution
  <2> QED
    BY <2>1 DEF StartExecution, TypeOK, ExecutionRow
<1>2. /\ u \in Players /\ now \in Nat /\ now' = now /\ SampleGap \in Nat
      /\ part \in [Players -> ParticipantRow]
  BY NumbersAreNatural DEF StartExecution, TypeOK, ExecutionRow
<1>3. \A f \in Executions : Persisted(exec', f) <=> Persisted(exec, f) \/ f = e
  BY <1>1 DEF Persisted
<1>4. /\ \A v \in Players : part'[v].cooldown = part[v].cooldown
      /\ \A v \in Players : v # u => part'[v].nextRun = part[v].nextRun
      /\ exec[e].kind = "RUN" =>
           part[u].nextRun <= now /\ part'[u].nextRun = now + SampleGap
      /\ exec[e].kind # "RUN" => part'[u].nextRun = part[u].nextRun
  <2>1. CASE exec[e].kind = "RUN"
    <3>1. /\ part[u].nextRun <= now
          /\ part' = [part EXCEPT ![u] = [@ EXCEPT !.active = e,
                                                   !.nextRun = now + SampleGap]]
      BY <2>1 DEF StartExecution, RunAllowed
    <3> HIDE DEF u
    <3> QED
      BY <1>2, <2>1, <3>1 DEF ParticipantRow
  <2>2. CASE exec[e].kind # "RUN"
    <3>1. part' = [part EXCEPT ![u] = [@ EXCEPT !.active = e]]
      BY <2>2 DEF StartExecution
    <3> HIDE DEF u
    <3> QED
      BY <1>2, <2>2, <3>1 DEF ParticipantRow
  <2> QED
    BY <2>1, <2>2
<1>5. \A f \in Executions : exec[f].created \in Nat /\ exec[f].user \in Players
  BY DEF TypeOK, ExecutionRow
<1>6. \A v \in Players : part[v].nextRun \in Nat /\ part'[v].nextRun \in Nat
  BY DEF TypeOK, ParticipantRow
<1>7. ASSUME NEW f \in Executions, f # e, Persisted(exec, f), exec[f].user = u,
             exec[f].kind = "RUN", exec[e].kind = "RUN"
      PROVE  exec[f].created + SampleGap <= now
  BY <1>2, <1>4, <1>5, <1>6, <1>7 DEF LimitsInv, RunsAreScheduled
<1>8. RunsAreScheduled'
  <2> SUFFICES ASSUME NEW f \in Executions, Persisted(exec', f)
               PROVE  /\ exec'[f].created <= now'
                      /\ exec'[f].kind = "RUN" =>
                           exec'[f].created + SampleGap <= part'[exec'[f].user].nextRun
    BY DEF RunsAreScheduled
  <2>1. CASE f = e
    BY <1>1, <1>2, <1>4, <2>1
  <2>2. CASE f # e
    <3>1. Persisted(exec, f) /\ exec'[f] = exec[f]
      BY <1>1, <1>3, <2>2
    <3>2. CASE exec[f].user = u /\ exec[e].kind = "RUN"
      BY <1>2, <1>4, <1>5, <1>7, <2>2, <3>1, <3>2 DEF LimitsInv, RunsAreScheduled
    <3>3. CASE ~(exec[f].user = u /\ exec[e].kind = "RUN")
      BY <1>2, <1>4, <1>5, <3>1, <3>3 DEF LimitsInv, RunsAreScheduled
    <3> QED
      BY <3>2, <3>3
  <2> QED
    BY <2>1, <2>2
<1>9. CooldownsStand'
  <2>1. match'.state = "ACTIVE" /\ match.state \in {"COUNTDOWN", "ACTIVE"}
    BY DEF StartExecution, MayStart, CountdownOver, TypeOK, MatchRow
  <2>2. \A f \in Executions : exec'[f].status = "COMPLETED" =>
          f # e /\ exec'[f] = exec[f] /\ exec[f].user \in Players
    BY <1>1, <1>5
  <2> QED
    BY <1>2, <1>4, <2>1, <2>2 DEF LimitsInv, CooldownsStand, Rejected
<1>10. RunsAreSpaced'
  <2> SUFFICES ASSUME NEW f \in Executions, NEW g \in Executions,
                      f # g, exec'[f].user = exec'[g].user,
                      exec'[f].kind = "RUN", exec'[g].kind = "RUN",
                      Persisted(exec', f), Persisted(exec', g)
               PROVE  \/ exec'[f].created >= exec'[g].created + SampleGap
                      \/ exec'[g].created >= exec'[f].created + SampleGap
    BY DEF RunsAreSpaced
  <2>1. CASE f # e /\ g # e
    BY <1>1, <1>3, <2>1 DEF LimitsInv, RunsAreSpaced
  <2>2. CASE f = e
    BY <1>1, <1>2, <1>3, <1>5, <1>7, <2>2
  <2>3. CASE g = e
    BY <1>1, <1>2, <1>3, <1>5, <1>7, <2>3
  <2> QED
    BY <2>1, <2>2, <2>3
<1>11. ASSUME NEW f \in Executions, f # e, Persisted(exec, f), exec[f].user = u
       PROVE  Follows(e, f)'
  <2>1. exec[f].status = "COMPLETED" /\ match.state \in {"COUNTDOWN", "ACTIVE"}
    <3>1. part[u].active = None /\ match.state \in {"COUNTDOWN", "ACTIVE"}
      BY DEF StartExecution, MayStart, CountdownOver
    <3>2. match.state = "ACTIVE"
      BY <1>11, <3>1 DEF JudgingInv, NothingRanYet
    <3>3. ~Unresolved(exec, f)
      BY <1>11, <3>1, <3>2, NoneAssumption DEF JudgingInv, OneLiveExecution, Executions
    <3> QED
      BY <1>11, <3>1, <3>3 DEF Persisted, Unresolved
  <2>2. /\ exec[f].completed <= now
        /\ Rejected(exec, f) => exec[f].completed + Cooldown <= part[u].cooldown
    BY <1>11, <2>1 DEF LimitsInv, CooldownsStand
  <2>3. exec[e].kind = "SUBMIT" => part[u].cooldown <= now
    BY DEF StartExecution, SubmitAllowed
  <2>4. exec[f].completed \in Nat /\ part[u].cooldown \in Nat /\ Cooldown \in Nat
    BY <1>2, NumbersAreNatural DEF TypeOK, ExecutionRow, ParticipantRow
  <2> QED
    BY <1>1, <1>2, <1>11, <2>1, <2>2, <2>3, <2>4 DEF Follows, Rejected
<1>12. RejectionsBlock'
  <2> SUFFICES ASSUME NEW f \in Executions, NEW g \in Executions,
                      f # g, exec'[f].user = exec'[g].user,
                      Persisted(exec', f), Persisted(exec', g)
               PROVE  Follows(f, g)' \/ Follows(g, f)'
    BY DEF RejectionsBlock
  <2>1. CASE f # e /\ g # e
    BY <1>1, <1>3, <2>1 DEF LimitsInv, RejectionsBlock, Follows
  <2>2. CASE f = e
    BY <1>1, <1>3, <1>11, <2>2
  <2>3. CASE g = e
    BY <1>1, <1>3, <1>11, <2>3
  <2> QED
    BY <2>1, <2>2, <2>3
<1> QED
  BY <1>8, <1>9, <1>10, <1>12 DEF LimitsInv

(* What a result does to the limits of the players: at most the author's   *)
(* cooldown moves, for a rejected submission of a round that is active.    *)
LEMMA ResultsMoveCooldowns ==
  ASSUME TypeOK, NEW e \in Executions, NEW verdict \in Verdicts, NEW runtime \in Nat,
         Complete(e, verdict, runtime)
  PROVE  /\ \A v \in Players : part'[v].nextRun = part[v].nextRun
         /\ \A v \in Players : part'[v].cooldown # part[v].cooldown =>
              /\ match.state = "ACTIVE"
              /\ v = exec[e].user /\ Penalized(e, verdict)
              /\ part'[v].cooldown = now + Cooldown
         /\ match.state = "ACTIVE" /\ part[exec[e].user].active = e
              /\ Penalized(e, verdict) => part'[exec[e].user].cooldown = now + Cooldown
<1> DEFINE u == exec[e].user
           freed == [part EXCEPT ![u] =
                       [@ EXCEPT !.active = None,
                                 !.cooldown = CooldownAfter(e, verdict)]]
           eligible == match.state = "ACTIVE" /\ part[u].active = e
<1>1. u \in Players /\ part \in [Players -> ParticipantRow]
  BY DEF TypeOK, ExecutionRow
<1>2. CASE ~eligible
  <2>1. UNCHANGED part
    BY <1>2 DEF Complete
  <2> QED
    BY <1>2, <2>1
<1>3. CASE eligible
  <2>1. freed \in [Players -> ParticipantRow]
    BY FreedIsTyped
  <2>2. \E d : part' = Concluded(freed, d)
    BY <1>3 DEF Complete
  <2>3. \A v \in Players :
          /\ v # u => freed[v] = part[v]
          /\ freed[v].nextRun = part[v].nextRun
          /\ freed[u].cooldown = CooldownAfter(e, verdict)
    <3>1. \A x : LET row == [part[u] EXCEPT !.active = None, !.cooldown = x]
                 IN row.nextRun = part[u].nextRun /\ row.cooldown = x
      BY <1>1 DEF ParticipantRow
    <3> HIDE DEF u
    <3> QED
      BY <1>1, <3>1
  <2> HIDE DEF freed
  <2>4. SameLimits(freed, part')
    BY <2>1, <2>2, ConcludedKeepsTheRest
  <2> QED
    BY <1>1, <1>3, <2>3, <2>4 DEF SameLimits, CooldownAfter
<1> QED
  BY <1>2, <1>3

(* A rejection that counts sets the cooldown that covers it, and with it   *)
(* every earlier one; a result leaves the schedule of sample runs alone.   *)
LEMMA CompletionsKeepLimits ==
  ASSUME TypeOK, TypeOK', JudgingInv, LimitsInv, RoundStep,
         NEW e \in Executions, Completes(e)
  PROVE  LimitsInv'
<1>1. PICK verdict \in Verdicts, runtime \in Nat : Complete(e, verdict, runtime)
  BY DEF Completes
<1> DEFINE u == exec[e].user
<1>2. /\ Unresolved(exec, e)
      /\ exec'[e].status = "COMPLETED" /\ exec'[e].verdict = verdict
      /\ exec'[e].user = u /\ exec'[e].kind = exec[e].kind
      /\ exec'[e].created = exec[e].created /\ exec'[e].completed = now
      /\ \A f \in Executions : f # e => exec'[f] = exec[f]
  BY <1>1, CompletionFillsOneRow
<1>3. /\ u \in Players /\ now \in Nat /\ now' = now /\ Cooldown \in Nat
      /\ \A f \in Executions :
           /\ exec[f].created \in Nat /\ exec[f].completed \in Nat
           /\ exec[f].user \in Players
      /\ \A v \in Players : part[v].cooldown \in Nat
  BY <1>1, NumbersAreNatural DEF Complete, TypeOK, ExecutionRow, ParticipantRow
<1>4. \A f \in Executions : Persisted(exec', f) <=> Persisted(exec, f)
  BY <1>2 DEF Persisted, Unresolved
<1>5. /\ \A v \in Players : part'[v].nextRun = part[v].nextRun
      /\ \A v \in Players : part'[v].cooldown # part[v].cooldown =>
           v = u /\ Penalized(e, verdict) /\ part'[v].cooldown = now + Cooldown
      /\ match.state = "ACTIVE" /\ Penalized(e, verdict) =>
           part'[u].cooldown = now + Cooldown
  <2>1. match.state = "ACTIVE" => part[u].active = e
    BY <1>2 DEF JudgingInv, OneLiveExecution
  <2> QED
    BY <1>1, <2>1, ResultsMoveCooldowns
<1>6. RunsAreScheduled'
  BY <1>2, <1>3, <1>4, <1>5 DEF LimitsInv, RunsAreScheduled
<1>7. RunsAreSpaced'
  BY <1>2, <1>4 DEF LimitsInv, RunsAreSpaced
<1>8. CooldownsStand'
  <2> SUFFICES ASSUME NEW f \in Executions, exec'[f].status = "COMPLETED"
               PROVE  /\ exec'[f].completed <= now
                      /\ match'.state \in {"LOBBY", "COUNTDOWN", "ACTIVE"}
                           /\ Rejected(exec', f) =>
                           exec'[f].completed + Cooldown <= part'[exec'[f].user].cooldown
    BY <1>3 DEF CooldownsStand
  <2>1. match'.state \in {"LOBBY", "COUNTDOWN", "ACTIVE"} => match.state = "ACTIVE"
    BY <1>2, RoundsNeverReturn DEF JudgingInv, NothingRanYet, Persisted, Unresolved
  <2>2. CASE f = e
    BY <1>2, <1>3, <1>5, <2>1, <2>2 DEF Penalized, Rejected
  <2>3. CASE f # e
    <3>1. exec'[f] = exec[f] /\ exec[f].completed <= now /\ exec[f].user \in Players
      BY <1>2, <1>3, <2>3 DEF LimitsInv, CooldownsStand
    <3>2. match.state = "ACTIVE" /\ Rejected(exec, f) =>
            exec[f].completed + Cooldown <= part[exec[f].user].cooldown
      BY <2>3, <3>1 DEF LimitsInv, CooldownsStand
    <3> QED
      BY <1>3, <1>5, <2>1, <3>1, <3>2 DEF Rejected
  <2> QED
    BY <2>2, <2>3
<1>9. RejectionsBlock'
  <2>1. ASSUME NEW f \in Executions, NEW g \in Executions, Follows(g, f)
        PROVE  Follows(g, f)'
    <3>1. exec'[f] = exec[f]
      BY <1>2, <2>1 DEF Follows, Unresolved
    <3>2. exec'[g].created = exec[g].created /\ exec'[g].kind = exec[g].kind
      BY <1>2
    <3> QED
      BY <2>1, <3>1, <3>2 DEF Follows
  <2>2. \A f \in Executions : exec'[f].user = exec[f].user
    BY <1>2
  <2> QED
    BY <1>4, <2>1, <2>2 DEF LimitsInv, RejectionsBlock
<1> QED
  BY <1>6, <1>7, <1>8, <1>9 DEF LimitsInv

LEMMA NextKeepsLimits ==
  TypeOK /\ TypeOK' /\ JudgingInv /\ LimitsInv /\ [Next]_vars => LimitsInv'
<1> SUFFICES ASSUME TypeOK, TypeOK', JudgingInv, LimitsInv, [Next]_vars
             PROVE  LimitsInv'
  OBVIOUS
<1>round. RoundStep
  BY EveryStepIsARoundStep
<1>1. CASE \E e \in Executions : StartExecution(e)
  BY <1>1, StartsKeepLimits
<1>2. CASE \E e \in Executions : Completes(e)
  BY <1>2, <1>round, CompletionsKeepLimits
<1>3. CASE /\ ~ \E e \in Executions : StartExecution(e)
           /\ ~ \E e \in Executions : Completes(e)
  <2>1. SameRows(exec, exec')
    BY <1>3, EveryStepIsAnExecutionStep DEF ExecutionStep
  <2>2. SameLimits(part, part')
    BY <1>3, EveryStepIsAParticipantStep DEF ParticipantStep
  <2> QED
    BY <1>round, <2>1, <2>2, ClockNeverReturns, QuietStepsKeepLimits
<1> QED
  BY <1>1, <1>2, <1>3

(* Nothing but the result of a player's own submission moves its cooldown. *)
LEMMA CooldownsAreEarned == TypeOK /\ [Next]_vars => CooldownIsEarned
<1> SUFFICES ASSUME TypeOK, [Next]_vars, NEW u \in Players,
                    part'[u].cooldown # part[u].cooldown
             PROVE  /\ match.state = "ACTIVE"
                    /\ part'[u].cooldown = now + Cooldown
                    /\ \E e \in Executions :
                         /\ Unresolved(exec, e)
                         /\ exec[e].user = u /\ exec[e].kind = "SUBMIT"
                         /\ exec'[e].status = "COMPLETED"
                         /\ exec'[e].verdict = "REJECTED"
  BY DEF CooldownIsEarned
<1>1. ASSUME NEW e \in Executions, StartExecution(e)
      PROVE  FALSE
  <2> DEFINE w == exec[e].user
  <2>1. part \in [Players -> ParticipantRow]
    BY DEF TypeOK
  <2>2. PICK row : part' = [part EXCEPT ![w] = row] /\ row.cooldown = part[w].cooldown
    <3>1. w \in Players
      BY DEF TypeOK, ExecutionRow
    <3>2. \A x, y : /\ [part[w] EXCEPT !.active = x, !.nextRun = y].cooldown = part[w].cooldown
                    /\ [part[w] EXCEPT !.active = x].cooldown = part[w].cooldown
      BY <2>1, <3>1 DEF ParticipantRow
    <3>3. \/ part' = [part EXCEPT ![w] = [part[w] EXCEPT !.active = e, !.nextRun = now + SampleGap]]
          \/ part' = [part EXCEPT ![w] = [part[w] EXCEPT !.active = e]]
      BY <1>1 DEF StartExecution
    <3> HIDE DEF w
    <3>4. CASE part' = [part EXCEPT ![w] = [part[w] EXCEPT !.active = e]]
      BY <3>2, <3>4, Zenon
    <3>5. CASE part' = [part EXCEPT ![w] = [part[w] EXCEPT !.active = e,
                                                           !.nextRun = now + SampleGap]]
      BY <3>2, <3>5, Zenon
    <3> QED
      BY <3>3, <3>4, <3>5
  <2> HIDE DEF w
  <2> QED
    BY <1>1, <2>1, <2>2
<1>2. ASSUME NEW e \in Executions, Completes(e)
      PROVE  /\ match.state = "ACTIVE"
             /\ part'[u].cooldown = now + Cooldown
             /\ Unresolved(exec, e)
             /\ exec[e].user = u /\ exec[e].kind = "SUBMIT"
             /\ exec'[e].status = "COMPLETED"
             /\ exec'[e].verdict = "REJECTED"
  <2>1. PICK verdict \in Verdicts, runtime \in Nat : Complete(e, verdict, runtime)
    BY <1>2 DEF Completes
  <2> QED
    BY <2>1, ResultsMoveCooldowns, CompletionFillsOneRow DEF Penalized
<1> QED
  BY <1>1, <1>2, EveryStepIsAParticipantStep DEF ParticipantStep, SameLimits

(* The two limits of a player hold whatever receipts, starts, results and  *)
(* recoveries interleave. Two sample runs of a player start at least       *)
(* SampleGap apart; a submission starts a whole Cooldown after every       *)
(* rejected one before it; and a cooldown changes only in the step that    *)
(* rejects a submission of that player in an active round, to run from     *)
(* then on.                                                                *)
THEOREM LimitsApply == Spec => RateLimitsApply
<1>1. Init => LimitsInv
  BY DEF Init, LimitsInv, RunsAreScheduled, RunsAreSpaced, CooldownsStand,
         RejectionsBlock, Persisted, NoExecution
<1>2. TypeOK /\ TypeOK' /\ JudgingInv /\ LimitsInv /\ [Next]_vars => LimitsInv'
  BY NextKeepsLimits
<1>3. TypeOK /\ [Next]_vars => [CooldownIsEarned]_vars
  BY CooldownsAreEarned
<1>4. TypeOK /\ TypeOK' /\ JudgingInv /\ LimitsInv /\ [Next]_vars
        => [RunsAreSpaced' /\ RejectionsBlock' /\ CooldownIsEarned]_vars
  BY <1>2, <1>3 DEF LimitsInv
<1>5. Spec => []TypeOK /\ []JudgingInv
  BY TypeCorrect, JudgingIsInvariant, PTL
<1> QED
  BY <1>1, <1>2, <1>4, <1>5, PTL DEF Spec, RateLimitsApply

-----------------------------------------------------------------------------
(* Nobody is spared or crowned by default over work in flight: what the    *)
(* property says of a verdict, as a predicate of any decision.             *)
Spares(ex, reason, winner) ==
  /\ reason = "FORFEIT" =>
       \A e \in Executions : OpenSubmit(ex, e) => ex[e].user = winner
  /\ reason = "NO_CONTEST" =>
       \A e \in Executions : ~OpenSubmit(ex, e) /\ ~Accepted(ex, e)

(* There are two players in a duel.                                        *)
LEMMA TwoPlayers ==
  ASSUME Mode = "DUEL", NEW u \in Players, NEW v \in Players, NEW w \in Players,
         v # u, w # u
  PROVE  v = w
  BY ModeAssumption

LEMMA AbsenceSpares ==
  ASSUME NEW p \in [Players -> ParticipantRow],
         NEW ex \in [Executions -> ExecutionRow],
         AbsenceDecision(p, ex) # NoDecision
  PROVE  Spares(ex, AbsenceDecision(p, ex).reason, AbsenceDecision(p, ex).winner)
<1>1. /\ Mode = "DUEL"
      /\ Expired(p) # {}
      /\ \A e \in Executions : ~Accepted(ex, e)
      /\ \A e \in Executions : OpenSubmit(ex, e) => ex[e].user \notin Expired(p)
      /\ Gone(p) = Players => Expired(p) = Players
  BY ModeAssumption DEF AbsenceDecision, AbsenceMustWait
<1>2. \A e \in Executions : ex[e].user \in Players
  BY DEF ExecutionRow
<1>3. CASE Gone(p) = Players
  <2>1. AbsenceDecision(p, ex).reason = "NO_CONTEST"
    BY <1>3 DEF AbsenceDecision
  <2>2. \A e \in Executions : ~OpenSubmit(ex, e)
    BY <1>1, <1>2, <1>3
  <2> QED
    BY <1>1, <2>1, <2>2 DEF Spares
<1>4. CASE Gone(p) # Players
  <2> DEFINE w == CHOOSE u \in Players : p[u].connected
  <2>1. w \in Players /\ p[w].connected
    <3>1. \E u \in Players : p[u].connected
      BY <1>4 DEF Gone
    <3> QED
      BY <3>1
  <2>2. PICK x \in Players : x \in Expired(p) /\ ~p[x].connected
    BY <1>1 DEF Expired, Gone
  <2>3. AbsenceDecision(p, ex) = [reason |-> "FORFEIT", winner |-> w]
    BY <1>4 DEF AbsenceDecision
  <2> HIDE DEF w
  <2>4. \A e \in Executions : OpenSubmit(ex, e) => ex[e].user = w
    <3>1. ASSUME NEW e \in Executions, OpenSubmit(ex, e)
          PROVE  ex[e].user = w
      <4>1. ex[e].user # x /\ w # x
        BY <1>1, <2>1, <2>2, <3>1
      <4> QED
        BY <1>1, <1>2, <2>1, <2>2, <4>1, TwoPlayers
    <3> QED
      BY <3>1
  <2> QED
    BY <2>3, <2>4 DEF Spares
<1> QED
  BY <1>3, <1>4

(* A conclusion that spares the rows it leaves is a step that keeps the    *)
(* property, and so is one that concludes nothing.                         *)
LEMMA ConclusionsSpare ==
  ASSUME TypeOK, NEW d \in Decision, d # NoDecision, Conclude(d),
         Spares(exec', d.reason, d.winner)
  PROVE  DefaultSparesSubmissions'
<1>1. match'.endReason = d.reason /\ match'.winner = d.winner
  BY DEF Conclude, Finalize, TypeOK, MatchRow
<1> QED
  BY <1>1 DEF Spares, DefaultSparesSubmissions

LEMMA SettledStepsSpare ==
  ASSUME TypeOK, TypeOK', DefaultSparesSubmissions,
         match'.endReason = match.endReason, match'.winner = match.winner,
         \A e \in Executions :
           /\ OpenSubmit(exec', e) => OpenSubmit(exec, e)
           /\ Accepted(exec', e) => Accepted(exec, e) \/ OpenSubmit(exec, e)
           /\ OpenSubmit(exec', e) => exec'[e].user = exec[e].user
  PROVE  DefaultSparesSubmissions'
  BY DEF DefaultSparesSubmissions

LEMMA RowsStaySettled ==
  ASSUME SameRows(exec, exec')
  PROVE  \A e \in Executions :
           /\ OpenSubmit(exec', e) => OpenSubmit(exec, e)
           /\ Accepted(exec', e) => Accepted(exec, e) \/ OpenSubmit(exec, e)
           /\ OpenSubmit(exec', e) => exec'[e].user = exec[e].user
<1>1. \A e \in Executions : OpenSubmit(exec, e) => Persisted(exec, e)
  BY DEF OpenSubmit, Unresolved, Persisted
<1> QED
  BY <1>1, SameRowsSameVerdict DEF SameRows

LEMMA CompletionsSpare ==
  ASSUME TypeOK, TypeOK', DefaultSparesSubmissions,
         NEW e \in Executions, Completes(e)
  PROVE  DefaultSparesSubmissions'
<1>1. PICK verdict \in Verdicts, runtime \in Nat : Complete(e, verdict, runtime)
  BY DEF Completes
<1> DEFINE freed == [part EXCEPT ![exec[e].user] =
                       [@ EXCEPT !.active = None,
                                 !.cooldown = CooldownAfter(e, verdict)]]
           d == IF exec[e].kind = "SUBMIT" THEN SubmitDecision(freed, exec')
                                           ELSE NoDecision
<1>2. /\ Unresolved(exec, e)
      /\ exec'[e].status = "COMPLETED" /\ exec'[e].kind = exec[e].kind
      /\ \A f \in Executions : f # e => exec'[f] = exec[f]
  BY <1>1, CompletionFillsOneRow
<1>3. \A f \in Executions :
        /\ OpenSubmit(exec', f) => OpenSubmit(exec, f)
        /\ Accepted(exec', f) => Accepted(exec, f) \/ OpenSubmit(exec, f)
        /\ OpenSubmit(exec', f) => exec'[f].user = exec[f].user
  BY <1>2 DEF OpenSubmit, Unresolved, Accepted
<1>4. CASE UNCHANGED match
  BY <1>3, <1>4, SettledStepsSpare
<1>5. CASE ~UNCHANGED match
  <2>1. Conclude(d) /\ d # NoDecision
    BY <1>1, <1>5 DEF Complete, Conclude
  <2>2. freed \in [Players -> ParticipantRow] /\ exec' \in [Executions -> ExecutionRow]
    BY FreedIsTyped DEF TypeOK
  <2>3. d \in Decision
    BY <2>1, <2>2, DecisionsAreTyped
  <2>4. Spares(exec', d.reason, d.winner)
    <3>1. CASE AcceptedDecision(exec') # NoDecision
      BY <2>1, <3>1, AcceptedDecisionCrowns DEF SubmitDecision, Spares
    <3>2. CASE AcceptedDecision(exec') = NoDecision
      <4>1. d = AbsenceDecision(freed, exec')
        BY <2>1, <3>2 DEF SubmitDecision
      <4> HIDE DEF d, freed
      <4> QED
        BY <2>1, <2>2, <4>1, AbsenceSpares
    <3> QED
      BY <3>1, <3>2
  <2> HIDE DEF d
  <2> QED
    BY <2>1, <2>3, <2>4, ConclusionsSpare
<1> QED
  BY <1>4, <1>5

LEMMA NextSpares ==
  TypeOK /\ TypeOK' /\ JudgingInv /\ JudgingInv' /\ DefaultSparesSubmissions
    /\ [Next]_vars => DefaultSparesSubmissions'
<1> SUFFICES ASSUME TypeOK, TypeOK', JudgingInv, JudgingInv', DefaultSparesSubmissions,
                    [Next]_vars
             PROVE  DefaultSparesSubmissions'
  OBVIOUS
<1>rows. /\ part \in [Players -> ParticipantRow] /\ exec \in [Executions -> ExecutionRow]
         /\ match \in MatchRow
  BY DEF TypeOK
<1>1. ASSUME match'.endReason \in {NoReason, "CANCELLED"}
      PROVE  DefaultSparesSubmissions'
  BY <1>1 DEF DefaultSparesSubmissions, NoReason
<1>2. ASSUME NEW e \in Executions, StartExecution(e)
      PROVE  DefaultSparesSubmissions'
  <2>1. match'.state = "ACTIVE"
    BY <1>2, <1>rows DEF StartExecution, MatchRow
  <2> QED
    BY <1>1, <2>1 DEF JudgingInv, OpenMeansUndecided
<1>3. CASE \E e \in Executions : Completes(e)
  BY <1>3, CompletionsSpare
<1>4. ASSUME SameRows(exec, exec'), UNCHANGED match
      PROVE  DefaultSparesSubmissions'
  BY <1>4, RowsStaySettled, SettledStepsSpare
<1>5. ASSUME exec' = exec, Conclude(AbsenceDecision(part, exec))
      PROVE  DefaultSparesSubmissions'
  <2> DEFINE d == AbsenceDecision(part, exec)
  <2>1. d \in Decision /\ (d # NoDecision => Spares(exec, d.reason, d.winner))
    BY <1>rows, DecisionsAreTyped, AbsenceSpares
  <2>2. Conclude(d) /\ exec' = exec
    BY <1>5
  <2> HIDE DEF d
  <2>3. CASE d = NoDecision
    BY <2>2, <2>3, <1>4 DEF Conclude, SameRows
  <2>4. CASE d # NoDecision
    BY <2>1, <2>2, <2>4, ConclusionsSpare
  <2> QED
    BY <2>3, <2>4
<1>6. ASSUME NEW u \in Players, ForfeitMatch(u)
      PROVE  DefaultSparesSubmissions'
  <2> DEFINE d == IF Mode = "DUEL" THEN [reason |-> "FORFEIT", winner |-> Opponent(u)]
                                   ELSE [reason |-> "CANCELLED", winner |-> None]
  <2>1. d \in Decision /\ d # NoDecision
    BY OpponentIsAPlayer DEF Decision, EndReason, NoDecision, NoReason
  <2>2. /\ Conclude(d) /\ exec' = exec
        /\ \A e \in Executions : OpenSubmit(exec, e) => exec[e].user # u
    BY <1>6 DEF ForfeitMatch
  <2>3. Spares(exec, d.reason, d.winner)
    <3>1. CASE Mode = "DUEL"
      <4>1. \A e \in Executions : OpenSubmit(exec, e) => exec[e].user = Opponent(u)
        <5>1. \A e \in Executions : exec[e].user \in Players
          BY <1>rows DEF ExecutionRow
        <5> QED
          BY <2>2, <3>1, <5>1, OpponentIsAPlayer, TwoPlayers
      <4> QED
        BY <3>1, <4>1 DEF Spares
    <3>2. CASE Mode # "DUEL"
      BY <3>2 DEF Spares
    <3> QED
      BY <3>1, <3>2
  <2> HIDE DEF d
  <2> QED
    BY <2>1, <2>2, <2>3, ConclusionsSpare
<1>7. CASE CancelMatch
  <2>1. match'.endReason = "CANCELLED"
    BY <1>7, <1>rows DEF CancelMatch, MatchRow
  <2> QED
    BY <1>1, <2>1
<1>8. ASSUME match'.state \in {"COUNTDOWN", "ACTIVE"}
      PROVE  DefaultSparesSubmissions'
  BY <1>1, <1>8 DEF JudgingInv, OpenMeansUndecided
<1>9. CASE ~ UNCHANGED match /\ exec' = exec
  <2>1. CASE StartsCountdown \/ Activates
    <3>1. match'.state \in {"COUNTDOWN", "ACTIVE"}
      BY <2>1, <1>rows DEF StartsCountdown, Activates, MatchRow
    <3> QED
      BY <1>8, <3>1
  <2>2. CASE ReachesVerdict
    <3>1. \/ \E u \in Players : ForfeitMatch(u)
          \/ Conclude(AbsenceDecision(part, exec))
          \/ \E e \in Executions : StartExecution(e)
          \/ \E e \in Executions : CompleteExecution(e) \/ RecoverStaleExecution(e)
          \/ CancelMatch \/ AdvanceCountdown
          \/ \E u \in Players, ready \in BOOLEAN : SetReady(u, ready)
      BY <1>9 DEF Next, vars, JoinRoom, SetLanguage, Receive, DropReceipt,
                  MarkExecutionRunning, ConnectSession, TouchSession, DisconnectSession,
                  ExpireStaleSessions, ReconcileConnection, CrashBeforeReconcile,
                  ProcessDueDisconnects, Tick
    <3>2. ~CancelMatch /\ ~AdvanceCountdown
          /\ ~ \E u \in Players, ready \in BOOLEAN : SetReady(u, ready)
      BY <2>2 DEF ReachesVerdict, CancelMatch, AdvanceCountdown, CountdownOver, SetReady
    <3>3. ASSUME NEW e \in Executions, CompleteExecution(e) \/ RecoverStaleExecution(e)
          PROVE  Completes(e)
      BY <3>3, NumbersAssumption
         DEF CompleteExecution, RecoverStaleExecution, Completes, Verdicts
    <3> QED
      BY <1>2, <1>3, <1>5, <1>6, <1>9, <3>1, <3>2, <3>3
  <2> QED
    BY <1>7, <1>9, <2>1, <2>2, EveryStepIsARoundStep DEF RoundStep
<1>10. CASE ~ UNCHANGED match /\ exec' # exec
  <2>1. \/ \E e \in Executions : StartExecution(e)
        \/ \E e \in Executions : CompleteExecution(e) \/ RecoverStaleExecution(e)
    BY <1>10 DEF Next, vars, JoinRoom, SetLanguage, SetReady, CancelMatch,
                 AdvanceCountdown, Receive, DropReceipt, MarkExecutionRunning,
                 ForfeitMatch, ConnectSession, TouchSession, DisconnectSession,
                 ExpireStaleSessions, ReconcileConnection, CrashBeforeReconcile,
                 ProcessDueDisconnects, Tick
  <2>2. ASSUME NEW e \in Executions, CompleteExecution(e) \/ RecoverStaleExecution(e)
        PROVE  Completes(e)
    BY <2>2, NumbersAssumption
       DEF CompleteExecution, RecoverStaleExecution, Completes, Verdicts
  <2> QED
    BY <1>2, <1>3, <2>1, <2>2
<1> QED
  BY <1>2, <1>3, <1>4, <1>9, <1>10, EveryStepIsAnExecutionStep DEF ExecutionStep

(* Nobody is beaten by default while a submission of its own is still      *)
(* being judged, and no contest is declared over an acceptance, also after *)
(* the results that were in flight have come in.                           *)
THEOREM DefaultsAreSpared == Spec => []DefaultSparesSubmissions
<1>1. Init => DefaultSparesSubmissions
  BY DEF Init, DefaultSparesSubmissions, NoReason
<1>2. TypeOK /\ TypeOK' /\ JudgingInv /\ JudgingInv' /\ DefaultSparesSubmissions
        /\ [Next]_vars => DefaultSparesSubmissions'
  BY NextSpares
<1> QED
  BY <1>1, <1>2, TypeCorrect, JudgingIsInvariant, PTL DEF Spec
=============================================================================
