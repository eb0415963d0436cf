--------------------------- MODULE MatchContract ---------------------------
(***************************************************************************)
(* What one coding round promises, whatever goes on inside it: a lifecycle *)
(* that only moves forward, at most one verdict, and win/loss records that *)
(* change in the very step that reaches the verdict and in no other step.  *)
(* Participants, executions, sessions and time are all invisible here; the *)
(* engine is shown to implement this specification.                        *)
(***************************************************************************)
EXTENDS Naturals, MatchStates

CONSTANTS
  Players,      \* the users who may play the round
  Mode,         \* "DUEL" or "PRACTICE"
  None          \* stands for SQL NULL

VARIABLES
  state,        \* the state of the match row
  verdict,      \* [reason, winner] once the round is over
  tally         \* what the round added to each player's record

vars == <<state, verdict, tally>>

NoVerdict == [reason |-> NoReason, winner |-> None]

(* The verdicts a coding round can reach once it is active.                *)
LegalVerdict(v) ==
  \/ v.reason = "ACCEPTED"   /\ v.winner \in Players
  \/ v.reason = "FORFEIT"    /\ Mode = "DUEL"     /\ v.winner \in Players
  \/ v.reason = "NO_CONTEST" /\ Mode = "DUEL"     /\ v.winner = None
  \/ v.reason = "CANCELLED"  /\ Mode = "PRACTICE" /\ v.winner = None

(* The record delta of a verdict: one win and one loss, or nothing.        *)
Delta(v) ==
  [u \in Players |->
     IF Mode = "DUEL" /\ ShouldApplyRecord(v.reason) /\ v.winner \in Players
       THEN [wins   |-> IF u = v.winner THEN 1 ELSE 0,
             losses |-> IF u = v.winner THEN 0 ELSE 1]
       ELSE [wins |-> 0, losses |-> 0]]

(* Where a resolved round rests: a duel waits for a rematch.               *)
Rest == IF Mode = "DUEL" THEN "REMATCH_PENDING" ELSE "FINISHED"

Init ==
  /\ state = "LOBBY"
  /\ verdict = NoVerdict
  /\ tally = Delta(NoVerdict)

Advance ==
  /\ \/ state = "LOBBY"     /\ state' = "COUNTDOWN"
     \/ state = "COUNTDOWN" /\ state' = "ACTIVE"
  /\ UNCHANGED <<verdict, tally>>

Cancel ==
  /\ state = "LOBBY"
  /\ state' = "FINISHED"
  /\ verdict' = [reason |-> "CANCELLED", winner |-> None]
  /\ UNCHANGED tally

Resolve(v) ==
  /\ state = "ACTIVE"
  /\ LegalVerdict(v)
  /\ CanTransition(state, "FINISHED")
  /\ state' = Rest
  /\ verdict' = v
  /\ tally' = Delta(v)

Next ==
  \/ Advance
  \/ Cancel
  \/ \E v \in [reason : EndReason, winner : Players \cup {None}] : Resolve(v)

Spec == Init /\ [][Next]_vars
=============================================================================
