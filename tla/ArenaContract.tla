--------------------------- MODULE ArenaContract ---------------------------
(***************************************************************************)
(* What one AI/ML round promises: the lifecycle of MatchContract with the  *)
(* judging in it, a verdict at most once and from the right state, and     *)
(* records that change only with it, in the step that reaches it. Answers, *)
(* evaluations, judges and their workers are invisible here.               *)
(***************************************************************************)
EXTENDS MatchContract

(* Verdicts that need no judge: somebody left, or nobody wrote anything.   *)
UnjudgedVerdict(v) ==
  \/ v.reason = "FORFEIT"        /\ Mode = "DUEL" /\ v.winner \in Players
  \/ v.reason = "CANCELLED"      /\ Mode = "PRACTICE" /\ v.winner = None
  \/ v.reason \in {"NO_CONTEST", "ANSWER_TIMEOUT"} /\ v.winner = None

(* Verdicts on a judged round: a duel always has a winner unless judging   *)
(* failed for good.                                                        *)
JudgedVerdict(v) ==
  \/ /\ v.reason \in {"JUDGED", "ANSWER_TIMEOUT"}
     /\ IF Mode = "DUEL" THEN v.winner \in Players ELSE v.winner = None
  \/ v.reason = "JUDGE_FAILED" /\ v.winner = None

ArenaInit ==
  /\ state = "COUNTDOWN"
  /\ verdict = NoVerdict
  /\ tally = Delta(NoVerdict)

ArenaAdvance ==
  /\ \/ state = "COUNTDOWN" /\ state' = "ACTIVE"
     \/ state = "ACTIVE"    /\ state' = "JUDGING"
  /\ CanTransition(state, state')
  /\ UNCHANGED <<verdict, tally>>

ArenaResolve(v) ==
  /\ \/ state = "ACTIVE"  /\ UnjudgedVerdict(v)
     \/ state = "JUDGING" /\ JudgedVerdict(v)
  /\ CanTransition(state, "FINISHED")
  /\ state' = Rest
  /\ verdict' = v
  /\ tally' = Delta(v)

ArenaNext ==
  \/ ArenaAdvance
  \/ \E v \in [reason : EndReason, winner : Players \cup {None}] : ArenaResolve(v)

ArenaSpec == ArenaInit /\ [][ArenaNext]_vars
=============================================================================
