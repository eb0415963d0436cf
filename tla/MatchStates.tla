---------------------------- MODULE MatchStates ----------------------------
(***************************************************************************)
(* The vocabulary of a match that every other module shares: the states of *)
(* the match row and the transitions between them, the reasons a match can *)
(* end for, and which of those reasons count in the players' records.      *)
(***************************************************************************)

MatchModes == {"DUEL", "PRACTICE"}

MatchState ==
  {"LOBBY", "COUNTDOWN", "ACTIVE", "JUDGING", "FINISHED", "REMATCH_PENDING"}

EndReason ==
  {"ACCEPTED", "FORFEIT", "CANCELLED", "NO_CONTEST", "JUDGED",
   "ANSWER_TIMEOUT", "JUDGE_FAILED"}

Transitions ==
  [ LOBBY           |-> {"COUNTDOWN", "FINISHED"},
    COUNTDOWN       |-> {"ACTIVE", "FINISHED"},
    ACTIVE          |-> {"JUDGING", "FINISHED"},
    JUDGING         |-> {"FINISHED"},
    FINISHED        |-> {"REMATCH_PENDING"},
    REMATCH_PENDING |-> {} ]

CanTransition(from, to) == to \in Transitions[from]

(* Whether a verdict with this reason moves the win/loss records.          *)
ShouldApplyRecord(endReason) ==
  endReason \in {"ACCEPTED", "FORFEIT", "JUDGED", "ANSWER_TIMEOUT"}

(* What the row shows while no verdict has been reached.                   *)
NoReason == "NONE"
=============================================================================
