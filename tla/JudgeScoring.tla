---------------------------- MODULE JudgeScoring ----------------------------
(***************************************************************************)
(* What the judge's output must satisfy, and the official scores computed  *)
(* from it.  A rubric has criteria with a maximum each, Top in total; some *)
(* have a rank in the order of tie breaks.  Texts are left out, but for    *)
(* whether an answer is blank and whether two answers are the same.        *)
(***************************************************************************)
EXTENDS Integers, FiniteSets, FiniteSetsExt, Folds

CONSTANTS
  Criteria,  \* ids of the rubric's criteria
  MaxScore,  \* of each criterion
  Rank,      \* 1 .. 4 in the order of tie breaks, or 0
  Top,       \* the total of MaxScore
  Foreign    \* an id that is no criterion's

ASSUME RubricAssumption ==
  /\ IsFiniteSet(Criteria)
  /\ MaxScore \in [Criteria -> Nat \ {0}] /\ Rank \in [Criteria -> 0 .. 4]
  /\ \A c, d \in Criteria : Rank[c] = Rank[d] /\ Rank[c] # 0 => c = d
  /\ Top \in Nat \ {0}
  /\ Top = MapThenFoldSet(LAMBDA x, y : x + y, 0, LAMBDA c : MaxScore[c],
                          LAMBDA S : CHOOSE c \in S : TRUE, Criteria)
  /\ Foreign \notin Criteria

Labels == {"A", "B"}
Opponent(l) == IF l = "A" THEN "B" ELSE "A"
Reasons == {"none", "correctness", "completeness_or_specificity", "clarity",
            "exact_equivalence", "blank_forfeit"}
Snapshots == {"DISTINCT", "SAME", "BLANK_A", "BLANK_B", "ALONE"}
Rejected == [kind |-> "REJECTED"]
NoVerdict == [kind |-> "NONE"]

VARIABLES
  snapshot,  \* the answers of the evaluation, ALONE in practice
  output,    \* what the provider returned
  verdict    \* what validation made of it

scoringVars == <<snapshot, output, verdict>>

-----------------------------------------------------------------------------
(* normalizeCriterionScores: one score for each criterion, within bounds.  *)
(* A list that names a criterion twice is no function and never valid.     *)
Normal(scores) ==
  /\ DOMAIN scores = Criteria
  /\ \A c \in Criteria : scores[c] \in 0 .. MaxScore[c]

Total(scores) ==
  MapThenFoldSet(LAMBDA x, y : x + y, 0, LAMBDA c : scores[c], LAMBDA S : CHOOSE c \in S : TRUE, Criteria)

(* requiredTieBreakFromScores.                                             *)
Decisive(a, b) == {c \in Criteria : Rank[c] # 0 /\ a[c] # b[c]}
(* Fault: the last criterion that differs decides.                         *)
BadFirstDecisive(a, b) == CHOOSE c \in Decisive(a, b) : \A d \in Decisive(a, b) : Rank[d] <= Rank[c]
FirstDecisive(a, b) == CHOOSE c \in Decisive(a, b) : \A d \in Decisive(a, b) : Rank[c] <= Rank[d]
ReasonOf(c) == <<"correctness", "completeness_or_specificity", "completeness_or_specificity", "clarity">>[Rank[c]]

TieBreakRespected(a, b, o) ==
  Decisive(a, b) # {} =>
    LET c == FirstDecisive(a, b)
    IN o.reason = ReasonOf(c) /\ o.winner = IF a[c] > b[c] THEN "A" ELSE "B"

(* Fault: half a win.                                                      *)
BadAtLeastOne(x) == x
AtLeastOne(x) == IF x > 1 THEN x ELSE 1

(* One point between the winner and the loser, and none above the top.     *)
AfterTie(raw, winner) ==
  IF raw["A"] = Top THEN [raw EXCEPT ![Opponent(winner)] = Top - 1]
  ELSE [raw EXCEPT ![winner] = raw["A"] + 1]

(* computeOfficialDuelScores.                                              *)
Official(raw, winner, blank) ==
  IF blank # "" THEN [l \in Labels |-> IF l = blank THEN 0 ELSE AtLeastOne(raw[l])]
  ELSE IF raw["A"] = raw["B"] THEN AfterTie(raw, winner) ELSE raw

Blank(s) == IF s = "BLANK_A" THEN "A" ELSE IF s = "BLANK_B" THEN "B" ELSE ""

(* Answers that differ have got the same total.                            *)
AcceptsTie(o) ==
  /\ o.reason \notin {"none", "blank_forfeit"}
  /\ TieBreakRespected(o.A, o.B, o)
  /\ o.reason = "exact_equivalence" => o.winner = "A" /\ o.A = o.B

Raw(o) == [l \in Labels |-> Total(o[l])]

(* The conditions of validateAiMlDuelScoring, by the snapshot's answers.   *)
AcceptsDuel(s, o, raw) ==
  /\ Normal(o.A) /\ Normal(o.B)
  /\ \A l \in Labels : raw[l] \in 0 .. Top
  /\ \/ /\ Blank(s) # "" /\ raw[Blank(s)] = 0
        /\ o.winner = Opponent(Blank(s)) /\ o.reason = "blank_forfeit"
     \/ /\ s = "SAME"
        /\ o.A = o.B /\ o.winner = "A" /\ o.reason = "exact_equivalence"
     \/ /\ Blank(s) = "" /\ s # "SAME" /\ raw["A"] # raw["B"]
        /\ o.winner = (IF raw["A"] > raw["B"] THEN "A" ELSE "B") /\ o.reason = "none"
     \/ Blank(s) = "" /\ s # "SAME" /\ raw["A"] = raw["B"] /\ AcceptsTie(o)

Duel(s, o) ==
  IF AcceptsDuel(s, o, Raw(o))
    THEN [kind |-> "DUEL", official |-> Official(Raw(o), o.winner, Blank(s)),
          winner |-> o.winner, reason |-> o.reason]
    ELSE Rejected

(* validateAiMlPracticeScoring.                                            *)
Practice(o) ==
  IF Normal(o.A) THEN [kind |-> "PRACTICE", official |-> Total(o.A)] ELSE Rejected

-----------------------------------------------------------------------------
(* What providers return: the scores within bounds, one that is above, one *)
(* for a criterion that is none, and none.                                 *)
InBounds == {f \in [Criteria -> 0 .. Top] : \A c \in Criteria : f[c] <= MaxScore[c]}
Submissions == InBounds \cup {[c \in Criteria |-> Top + 1], [c \in Criteria \cup {Foreign} |-> 0],
                              [c \in {} |-> 0]}
Outputs == [A : Submissions, B : Submissions, winner : Labels, reason : Reasons]

ScoringTypeOK ==
  /\ snapshot \in Snapshots /\ output \in Outputs
  /\ \/ verdict \in {NoVerdict, Rejected}
     \/ verdict \in [kind : {"PRACTICE"}, official : 0 .. Top]
     \/ verdict \in [kind : {"DUEL"}, official : [Labels -> 0 .. Top], winner : Labels, reason : Reasons]

ScoringInit ==
  /\ snapshot \in Snapshots
  /\ output \in Outputs
  /\ verdict = NoVerdict

Validate ==
  /\ verdict = NoVerdict
  /\ verdict' = IF snapshot = "ALONE" THEN Practice(output) ELSE Duel(snapshot, output)
  /\ UNCHANGED <<snapshot, output>>

ScoringSpec == ScoringInit /\ [][Validate]_scoringVars

-----------------------------------------------------------------------------
(* What must hold.                                                         *)

(* Players see who has won: the official scores never tie, and a blank     *)
(* answer gets nothing (scoring.ts:59, :80).                               *)
WinnerScoresHigher ==
  verdict.kind = "DUEL" =>
    /\ verdict.official[verdict.winner] > verdict.official[Opponent(verdict.winner)]
    /\ Blank(snapshot) # "" => verdict.official[Blank(snapshot)] = 0

(* Totals first, then the criteria in the order of the rubric: scores that *)
(* are better in this order never lose (scoring.ts:131).                   *)
Better(a, b) ==
  \/ Total(a) > Total(b)
  \/ /\ Total(a) = Total(b)
     /\ \E c \in Criteria : /\ Rank[c] # 0 /\ a[c] > b[c]
                            /\ \A d \in Criteria : Rank[d] \in 1 .. Rank[c] - 1 => a[d] = b[d]
VerdictFollowsScores ==
  verdict.kind = "DUEL" /\ Blank(snapshot) = ""
    => ~Better(output[Opponent(verdict.winner)], output[verdict.winner])

(* The labels are drawn by lot: what is accepted of two answers that differ*)
(* is accepted with the labels changed, but for exact equivalence.         *)
Mirrored(o) == [A |-> o.B, B |-> o.A, winner |-> Opponent(o.winner), reason |-> o.reason]
MirroredSnapshot ==
  CASE snapshot = "BLANK_A" -> "BLANK_B" [] snapshot = "BLANK_B" -> "BLANK_A" [] OTHER -> snapshot
LabelsDoNotMatter ==
  verdict.kind = "DUEL" /\ verdict.reason # "exact_equivalence" =>
    Duel(MirroredSnapshot, Mirrored(output)) =
      [verdict EXCEPT !.winner = Opponent(@),
                      !.official = [l \in Labels |-> verdict.official[Opponent(l)]]]

(* The verdict is well formed, and it is the one the scores call for.      *)
ScoringInv == ScoringTypeOK /\ VerdictFollowsScores /\ LabelsDoNotMatter
=============================================================================
