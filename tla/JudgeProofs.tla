------------------------------ MODULE JudgeProofs ------------------------------
(***************************************************************************)
(* The judge.  Whatever the rubric and whatever the judge returns, the     *)
(* official scores show the winner ahead, and the verdict is the one that  *)
(* the scores call for.  However many workers send requests, however often *)
(* they die, no limit of a day is exceeded, and what is sent is told.      *)
(***************************************************************************)
EXTENDS JudgeScoring, JudgeRequests, FiniteSetTheorems, WellFoundedInduction, TLAPS

LEMMA TopIsPositive == Top \in Nat \ {0}
BY RubricAssumption

(* A tie is split by a point that both the total and zero leave room for.  *)
LEMMA TieIsSplit ==
  ASSUME NEW raw \in [Labels -> 0 .. Top], NEW w \in Labels, raw["A"] = raw["B"]
  PROVE  AfterTie(raw, w)[w] > AfterTie(raw, w)[Opponent(w)]
<1>1. "A" \in Labels /\ "B" \in Labels /\ Opponent(w) \in Labels /\ Opponent(w) # w
  BY DEF Labels, Opponent
<1>2. raw[w] = raw["A"] /\ raw[Opponent(w)] = raw["A"] /\ raw["A"] \in 0 .. Top
  BY <1>1 DEF Labels
<1>3. CASE raw["A"] = Top
  <2>1. AfterTie(raw, w) = [raw EXCEPT ![Opponent(w)] = Top - 1]
    BY <1>3 DEF AfterTie
  <2>2. AfterTie(raw, w)[w] = Top /\ AfterTie(raw, w)[Opponent(w)] = Top - 1
    BY <1>1, <1>2, <1>3, <2>1
  <2> QED BY <2>2, TopIsPositive
<1>4. CASE raw["A"] # Top
  <2>1. AfterTie(raw, w) = [raw EXCEPT ![w] = raw["A"] + 1]
    BY <1>4 DEF AfterTie
  <2>2. AfterTie(raw, w)[w] = raw["A"] + 1 /\ AfterTie(raw, w)[Opponent(w)] = raw["A"]
    BY <1>1, <1>2, <2>1
  <2> QED BY <1>2, <2>2, TopIsPositive
<1> QED BY <1>3, <1>4

LEMMA HigherTotalLeads ==
  ASSUME NEW raw \in [Labels -> 0 .. Top], NEW w \in Labels,
         raw["A"] # raw["B"], w = IF raw["A"] > raw["B"] THEN "A" ELSE "B"
  PROVE  raw[w] > raw[Opponent(w)]
<1>1. raw["A"] \in 0 .. Top /\ raw["B"] \in 0 .. Top
  BY DEF Labels
<1> QED BY <1>1, TopIsPositive DEF Opponent

LEMMA OneIsPositive ==
  ASSUME NEW raw \in [Labels -> 0 .. Top], NEW w \in Labels
  PROVE  AtLeastOne(raw[w]) > 0
<1>1. raw[w] \in 0 .. Top
  OBVIOUS
<1> QED BY <1>1, TopIsPositive DEF AtLeastOne

(* One accepted output: blank, tie and plain win, in this order.           *)
LEMMA AcceptedIsDecided ==
  ASSUME NEW s \in Snapshots, NEW o, o.winner \in Labels,
         NEW raw \in [Labels -> 0 .. Top], AcceptsDuel(s, o, raw), s = "SAME" => raw["A"] = raw["B"]
  PROVE  /\ Official(raw, o.winner, Blank(s))[o.winner]
              > Official(raw, o.winner, Blank(s))[Opponent(o.winner)]
         /\ Blank(s) # "" => Official(raw, o.winner, Blank(s))[Blank(s)] = 0
<1>1. o.winner \in Labels /\ Blank(s) \in Labels \cup {""}
  BY DEF Labels, Blank
<1>2. CASE Blank(s) # ""
  <2>1. Blank(s) \in Labels /\ o.winner = Opponent(Blank(s)) /\ s # "SAME"
    BY <1>1, <1>2 DEF AcceptsDuel, Blank
  <2>2. Opponent(o.winner) = Blank(s) /\ o.winner # Blank(s)
    BY <2>1 DEF Opponent, Labels
  <2>3. Official(raw, o.winner, Blank(s)) = [l \in Labels |-> IF l = Blank(s) THEN 0 ELSE AtLeastOne(raw[l])]
    BY <1>2 DEF Official
  <2>4. Official(raw, o.winner, Blank(s))[Blank(s)] = 0
        /\ Official(raw, o.winner, Blank(s))[o.winner] = AtLeastOne(raw[o.winner])
    BY <1>1, <2>1, <2>2, <2>3
  <2>5. AtLeastOne(raw[o.winner]) > 0
    BY <1>1, OneIsPositive
  <2> QED BY <2>2, <2>4, <2>5
<1>3. CASE Blank(s) = "" /\ raw["A"] = raw["B"]
  <2>1. Official(raw, o.winner, Blank(s)) = AfterTie(raw, o.winner)
    BY <1>3 DEF Official
  <2> QED BY <1>1, <1>3, <2>1, TieIsSplit
<1>4. CASE Blank(s) = "" /\ raw["A"] # raw["B"]
  <2>1. o.winner = IF raw["A"] > raw["B"] THEN "A" ELSE "B"
    BY <1>4 DEF AcceptsDuel
  <2>2. Official(raw, o.winner, Blank(s)) = raw
    BY <1>4 DEF Official
  <2>3. raw[o.winner] > raw[Opponent(o.winner)]
    BY <1>1, <1>4, <2>1, HigherTotalLeads
  <2> QED BY <1>4, <2>2, <2>3
<1> QED BY <1>2, <1>3, <1>4

LEMMA DuelIsDecided ==
  ASSUME NEW s \in Snapshots, NEW o \in [A : Submissions, B : Submissions, winner : Labels, reason : Reasons],
         Duel(s, o).kind = "DUEL"
  PROVE  /\ Duel(s, o).official[Duel(s, o).winner] > Duel(s, o).official[Opponent(Duel(s, o).winner)]
         /\ Blank(s) # "" => Duel(s, o).official[Blank(s)] = 0
<1>1. AcceptsDuel(s, o, Raw(o))
  BY DEF Duel, Rejected
<1>2. Duel(s, o).official = Official(Raw(o), o.winner, Blank(s)) /\ Duel(s, o).winner = o.winner
  BY <1>1 DEF Duel
<1>3. Raw(o) \in [Labels -> 0 .. Top]
  <2>1. Raw(o) = [l \in Labels |-> Raw(o)[l]] BY DEF Raw
  <2>2. \A l \in Labels : Raw(o)[l] \in 0 .. Top BY <1>1 DEF AcceptsDuel
  <2> QED BY <2>1, <2>2
<1>4. s = "SAME" => Raw(o)["A"] = Raw(o)["B"]
  <2>1. s = "SAME" => o.A = o.B BY <1>1 DEF AcceptsDuel, Blank
  <2>2. Raw(o)["A"] = Total(o.A) /\ Raw(o)["B"] = Total(o.B) BY DEF Raw, Labels
  <2> QED BY <2>1, <2>2
<1> QED BY <1>1, <1>2, <1>3, <1>4, AcceptedIsDecided

ScoringIInv ==
  /\ snapshot \in Snapshots
  /\ output \in [A : Submissions, B : Submissions, winner : Labels, reason : Reasons]
  /\ WinnerScoresHigher

(* Players see who has won: the official scores never tie, and a blank     *)
(* answer gets nothing (scoring.ts:59, :80).                               *)
THEOREM WinnerScoresHigherAlways == ScoringSpec => []WinnerScoresHigher
<1>1. ScoringInit => ScoringIInv
  BY DEF ScoringInit, ScoringIInv, WinnerScoresHigher, NoVerdict, Outputs
<1>2. ScoringIInv /\ [Validate]_scoringVars => ScoringIInv'
  <2> SUFFICES ASSUME ScoringIInv, [Validate]_scoringVars PROVE ScoringIInv'
    OBVIOUS
  <2>1. CASE UNCHANGED scoringVars
    BY <2>1 DEF ScoringIInv, scoringVars, WinnerScoresHigher
  <2>2. CASE Validate
    <3>1. UNCHANGED <<snapshot, output>>
          /\ verdict' = IF snapshot = "ALONE" THEN Practice(output) ELSE Duel(snapshot, output)
      BY <2>2 DEF Validate
    <3>2. CASE snapshot = "ALONE"
      <4>1. verdict'.kind # "DUEL"
        BY <3>1, <3>2 DEF Practice, Rejected
      <4> QED BY <3>1, <4>1 DEF ScoringIInv, WinnerScoresHigher
    <3>3. CASE snapshot # "ALONE"
      <4>1. verdict' = Duel(snapshot, output) BY <3>1, <3>3
      <4>2. WinnerScoresHigher'
        BY <3>1, <4>1, DuelIsDecided DEF ScoringIInv, WinnerScoresHigher
      <4> QED BY <3>1, <4>2 DEF ScoringIInv
    <3> QED BY <3>2, <3>3
  <2> QED BY <2>1, <2>2
<1>3. ScoringIInv => WinnerScoresHigher
  BY DEF ScoringIInv
<1> QED BY <1>1, <1>2, <1>3, PTL DEF ScoringSpec

-----------------------------------------------------------------------------
(* Totals.  A sum over the criteria takes them one by one; what is proved  *)
(* of it is proved for the smallest set of criteria that could fail it.    *)

LEMMA Smallest ==
  ASSUME NEW T \in SUBSET Nat, T # {}
  PROVE  \E m \in T : \A k \in T : m <= k
<1>1. PICK m \in T : \A k \in T : ~(<<k, m>> \in OpToRel(<, Nat))
  BY NatLessThanWellFounded, WFMin
<1>2. \A k \in T : ~(k < m)
  BY <1>1 DEF OpToRel
<1>3. \A k \in T : k \in Nat /\ m \in Nat
  OBVIOUS
<1> QED
  BY <1>2, <1>3

(* The rubric's assumption without its sum.                                *)
LEMMA Rubric ==
  /\ IsFiniteSet(Criteria) /\ Top \in Nat \ {0} /\ Foreign \notin Criteria
  /\ MaxScore \in [Criteria -> Nat \ {0}] /\ Rank \in [Criteria -> 0 .. 4]
  /\ \A c, d \in Criteria : Rank[c] = Rank[d] /\ Rank[c] # 0 => c = d
BY RubricAssumption

Small(n) == {s \in SUBSET Criteria : Cardinality(s) <= n}
First(s) == CHOOSE c \in s : TRUE
Sums(f, g, D) == g = [s \in D |-> IF s = {} THEN 0 ELSE f[First(s)] + g[s \ {First(s)}]]
Sum(f) == CHOOSE g : Sums(f, g, SUBSET Criteria)

LEMMA OneLess ==
  ASSUME NEW s \in SUBSET Criteria, s # {}
  PROVE  /\ First(s) \in s /\ First(s) \in Criteria /\ s \ {First(s)} \in SUBSET Criteria
         /\ Cardinality(s) \in Nat /\ Cardinality(s) > 0
         /\ Cardinality(s \ {First(s)}) = Cardinality(s) - 1
<1>1. First(s) \in s
  BY DEF First
<1>2. IsFiniteSet(s) /\ Cardinality(s) \in Nat
  BY Rubric, FS_Subset, FS_CardinalityType
<1>3. Cardinality(s) # 0
  BY <1>2, FS_EmptySet
<1>4. Cardinality(s \ {First(s)}) = Cardinality(s) - 1
  BY <1>1, <1>2, FS_RemoveElement
<1> QED
  BY <1>1, <1>2, <1>3, <1>4

LEMMA SumsExist ==
  ASSUME NEW f, NEW n \in Nat
  PROVE  \E g : Sums(f, g, Small(n))
<1> DEFINE B == {k \in Nat : ~ \E g : Sums(f, g, Small(k))}
<1> SUFFICES ASSUME B # {} PROVE FALSE
  OBVIOUS
<1>1. PICK m \in B : \A k \in B : m <= k
  <2>1. B \in SUBSET Nat OBVIOUS
  <2> HIDE DEF B
  <2> QED BY <2>1, Smallest
<1>2. CASE m = 0
  <2>1. \A s \in Small(0) : s = {}
    <3> SUFFICES ASSUME NEW s \in SUBSET Criteria, Cardinality(s) <= 0, s # {} PROVE FALSE
      BY DEF Small
    <3>1. Cardinality(s) \in Nat /\ Cardinality(s) > 0
      BY OneLess
    <3> QED
      BY <3>1
  <2> DEFINE g == [s \in Small(0) |-> 0]
  <2>2. Sums(f, g, Small(0))
    BY <2>1 DEF Sums
  <2> QED
    BY <1>2, <2>2
<1>3. CASE m # 0
  <2>1. m \in Nat /\ m - 1 \in Nat /\ m - 1 \notin B
    BY <1>1, <1>3
  <2>2. PICK g : Sums(f, g, Small(m - 1))
    BY <2>1
  <2> DEFINE h == [s \in Small(m) |-> IF s = {} THEN 0 ELSE f[First(s)] + g[s \ {First(s)}]]
  <2>3. \A s \in Small(m) : s # {} => s \ {First(s)} \in Small(m - 1) /\ s \ {First(s)} \in Small(m)
    BY <2>1, OneLess DEF Small
  <2>4. \A s \in Small(m - 1) : s \in Small(m)
    <3> SUFFICES ASSUME NEW s \in SUBSET Criteria, Cardinality(s) <= m - 1 PROVE Cardinality(s) <= m
      BY DEF Small
    <3>1. Cardinality(s) \in Nat
      BY Rubric, FS_Subset, FS_CardinalityType
    <3> QED
      BY <2>1, <3>1
  <2>5. \A s \in Small(m - 1) : g[s] = IF s = {} THEN 0 ELSE f[First(s)] + g[s \ {First(s)}]
    BY <2>2 DEF Sums
  <2>6. \A s \in Small(m - 1) : h[s] = g[s]
    BY <2>4, <2>5
  <2>7. \A s \in Small(m) : s # {} => h[s \ {First(s)}] = g[s \ {First(s)}]
    BY <2>3, <2>6
  <2>8. h = [s \in Small(m) |-> IF s = {} THEN 0 ELSE f[First(s)] + h[s \ {First(s)}]]
    <3> DEFINE k == [s \in Small(m) |-> IF s = {} THEN 0 ELSE f[First(s)] + h[s \ {First(s)}]]
    <3>1. \A s \in Small(m) : h[s] = k[s]
      <4> SUFFICES ASSUME NEW s \in Small(m) PROVE h[s] = k[s]
        OBVIOUS
      <4>1. h[s] = IF s = {} THEN 0 ELSE f[First(s)] + g[s \ {First(s)}]
        OBVIOUS
      <4>2. k[s] = IF s = {} THEN 0 ELSE f[First(s)] + h[s \ {First(s)}]
        BY DEF k
      <4> QED
        BY <2>7, <4>1, <4>2
    <3>2. h = [s \in Small(m) |-> h[s]] /\ k = [s \in Small(m) |-> k[s]]
      OBVIOUS
    <3> QED
      BY <3>1, <3>2
  <2> HIDE DEF h
  <2>9. Sums(f, h, Small(m))
    BY <2>8 DEF Sums
  <2> QED
    BY <2>9, <1>1
<1> QED
  BY <1>2, <1>3

LEMMA SumUnfolds ==
  ASSUME NEW f
  PROVE  /\ Sum(f)[{}] = 0
         /\ \A s \in SUBSET Criteria :
              s # {} => Sum(f)[s] = f[First(s)] + Sum(f)[s \ {First(s)}]
<1>1. Cardinality(Criteria) \in Nat
  BY Rubric, FS_CardinalityType
<1>2. Small(Cardinality(Criteria)) = SUBSET Criteria
  BY Rubric, FS_Subset DEF Small
<1>3. \E g : Sums(f, g, SUBSET Criteria)
  <2>1. \E g : Sums(f, g, Small(Cardinality(Criteria)))
    BY <1>1, SumsExist
  <2> QED
    BY <1>2, <2>1
<1>4. Sums(f, Sum(f), SUBSET Criteria)
  BY <1>3 DEF Sum
<1> DEFINE g == Sum(f)
<1>5. g = [s \in SUBSET Criteria |-> IF s = {} THEN 0 ELSE f[First(s)] + g[s \ {First(s)}]]
  BY <1>4 DEF Sums
<1> HIDE DEF g
<1>6. g[{}] = 0 /\ \A s \in SUBSET Criteria : s # {} => g[s] = f[First(s)] + g[s \ {First(s)}]
  BY <1>5
<1> QED
  BY <1>6 DEF g

(* Sums of larger scores are larger.                                       *)
LEMMA SumsAreMonotone ==
  ASSUME NEW f \in [Criteria -> Nat], NEW h \in [Criteria -> Nat],
         \A c \in Criteria : f[c] <= h[c]
  PROVE  /\ Sum(f)[Criteria] \in Nat /\ Sum(h)[Criteria] \in Nat
         /\ Sum(f)[Criteria] <= Sum(h)[Criteria]
<1> DEFINE F == Sum(f)
           H == Sum(h)
           Fine(s) == F[s] \in Nat /\ H[s] \in Nat /\ F[s] <= H[s]
           B == {k \in Nat : \E s \in SUBSET Criteria : Cardinality(s) = k /\ ~Fine(s)}
<1>1. /\ F[{}] = 0 /\ H[{}] = 0
      /\ \A s \in SUBSET Criteria : s # {} => /\ F[s] = f[First(s)] + F[s \ {First(s)}]
                                              /\ H[s] = h[First(s)] + H[s \ {First(s)}]
  BY SumUnfolds
<1> HIDE DEF F, H
<1>2. B = {}
  <2> SUFFICES ASSUME B # {} PROVE FALSE
    OBVIOUS
  <2>1. PICK m \in B : \A k \in B : m <= k
    <3>1. B \in SUBSET Nat OBVIOUS
    <3> HIDE DEF B
    <3> QED BY <3>1, Smallest
  <2>2. PICK s \in SUBSET Criteria : Cardinality(s) = m /\ ~Fine(s)
    BY <2>1
  <2>3. s # {}
    <3>1. Fine({})
      BY <1>1
    <3> HIDE DEF Fine
    <3> QED
      BY <2>2, <3>1
  <2>4. /\ First(s) \in Criteria /\ s \ {First(s)} \in SUBSET Criteria
        /\ m \in Nat /\ m > 0 /\ Cardinality(s \ {First(s)}) = m - 1
    BY <2>2, <2>3, OneLess
  <2>5. m - 1 \notin B /\ m - 1 \in Nat
    BY <2>1, <2>4
  <2>6. Fine(s \ {First(s)})
    BY <2>4, <2>5
  <2>7. f[First(s)] \in Nat /\ h[First(s)] \in Nat /\ f[First(s)] <= h[First(s)]
    BY <2>4
  <2>8. F[s] = f[First(s)] + F[s \ {First(s)}] /\ H[s] = h[First(s)] + H[s \ {First(s)}]
    BY <1>1, <2>3
  <2>9. Fine(s)
    BY <2>6, <2>7, <2>8
  <2> QED
    BY <2>2, <2>9
<1>3. Cardinality(Criteria) \in Nat
  BY Rubric, FS_CardinalityType
<1>4. Fine(Criteria)
  BY <1>2, <1>3
<1> QED
  BY <1>4 DEF F, H

LEMMA TotalIsSum == \A f : Total(f) = Sum(f)[Criteria]
BY DEF Total, MapThenFoldSet, Sum, Sums, First

LEMMA TopIsSum == Top = Sum(MaxScore)[Criteria]
BY RubricAssumption DEF MapThenFoldSet, Sum, Sums, First

LEMMA TotalIsBounded ==
  ASSUME NEW f \in Submissions, Normal(f)
  PROVE  Total(f) \in 0 .. Top
<1>1. f = [c \in Criteria |-> f[c]]
  <2>1. CASE f \in InBounds
    BY <2>1 DEF InBounds
  <2>2. CASE f = [c \in Criteria |-> Top + 1]
    BY <2>2
  <2>3. CASE f = [c \in Criteria \cup {Foreign} |-> 0]
    BY <2>3, Rubric DEF Normal
  <2>4. CASE f = [c \in {} |-> 0]
    BY <2>4 DEF Normal
  <2> QED
    BY <2>1, <2>2, <2>3, <2>4 DEF Submissions
<1>2. \A c \in Criteria : MaxScore[c] \in Nat /\ f[c] \in 0 .. MaxScore[c]
  BY Rubric DEF Normal
<1>3. f \in [Criteria -> Nat] /\ MaxScore \in [Criteria -> Nat] /\ \A c \in Criteria : f[c] <= MaxScore[c]
  <2>1. \A c \in Criteria : f[c] \in Nat /\ f[c] <= MaxScore[c]
    BY <1>2
  <2>2. MaxScore = [c \in Criteria |-> MaxScore[c]]
    BY Rubric
  <2>3. f \in [Criteria -> Nat]
    BY <1>1, <2>1
  <2>4. MaxScore \in [Criteria -> Nat]
    BY <1>2, <2>2
  <2> QED
    BY <2>1, <2>3, <2>4
<1>4. /\ Sum(f)[Criteria] \in Nat /\ Sum(MaxScore)[Criteria] \in Nat
      /\ Sum(f)[Criteria] <= Sum(MaxScore)[Criteria]
  BY <1>3, SumsAreMonotone
<1> QED
  BY <1>4, TotalIsSum, TopIsSum

-----------------------------------------------------------------------------
(* The official scores are within bounds, for every rubric.                *)
LEMMA OfficialIsBounded ==
  ASSUME NEW raw \in [Labels -> 0 .. Top], NEW w \in Labels, NEW b
  PROVE  Official(raw, w, b) \in [Labels -> 0 .. Top]
<1> DEFINE Score == 0 .. Top
<1>1. /\ \A x \in Score : x \in Int /\ x >= 0 /\ x <= Top
      /\ \A x \in Int : x >= 0 /\ x <= Top => x \in Score
      /\ Top \in Int /\ Top >= 1
  BY TopIsPositive
<1>2. /\ raw \in [Labels -> Score] /\ \A l \in Labels : raw[l] \in Score
      /\ "A" \in Labels /\ "B" \in Labels /\ Opponent(w) \in Labels
  BY DEF Labels, Opponent
<1> SUFFICES Official(raw, w, b) \in [Labels -> Score]
  OBVIOUS
<1> HIDE DEF Score
<1>3. CASE b # ""
  <2>1. \A l \in Labels : AtLeastOne(raw[l]) \in Score
    BY <1>1, <1>2 DEF AtLeastOne
  <2>2. Official(raw, w, b) = [l \in Labels |-> IF l = b THEN 0 ELSE AtLeastOne(raw[l])]
    BY <1>3 DEF Official
  <2>3. 0 \in Score
    BY <1>1
  <2> QED
    BY <2>1, <2>2, <2>3
<1>4. CASE b = "" /\ raw["A"] = raw["B"]
  <2>1. Official(raw, w, b) = AfterTie(raw, w)
    BY <1>4 DEF Official
  <2>2. CASE raw["A"] = Top
    <3>1. Top - 1 \in Score
      BY <1>1
    <3>2. Official(raw, w, b) = [raw EXCEPT ![Opponent(w)] = Top - 1]
      BY <2>1, <2>2 DEF AfterTie
    <3> QED
      BY <1>2, <3>1, <3>2
  <2>3. CASE raw["A"] # Top
    <3>1. raw["A"] + 1 \in Score
      BY <1>1, <1>2, <2>3
    <3>2. Official(raw, w, b) = [raw EXCEPT ![w] = raw["A"] + 1]
      BY <2>1, <2>3 DEF AfterTie
    <3> QED
      BY <1>2, <3>1, <3>2
  <2> QED
    BY <2>2, <2>3
<1>5. CASE b = "" /\ raw["A"] # raw["B"]
  BY <1>2, <1>5 DEF Official
<1> QED
  BY <1>3, <1>4, <1>5

LEMMA RawIsBounded ==
  ASSUME NEW s, NEW o, AcceptsDuel(s, o, Raw(o))
  PROVE  /\ Raw(o) \in [Labels -> 0 .. Top]
         /\ Raw(o)["A"] = Total(o.A) /\ Raw(o)["B"] = Total(o.B)
         /\ Raw(o)["A"] \in Int /\ Raw(o)["B"] \in Int
<1>1. Raw(o) = [l \in Labels |-> Raw(o)[l]]
  BY DEF Raw
<1>2. \A l \in Labels : Raw(o)[l] \in 0 .. Top
  BY DEF AcceptsDuel
<1>3. "A" \in Labels /\ "B" \in Labels
  BY DEF Labels
<1>4. Raw(o)["A"] = Total(o.A) /\ Raw(o)["B"] = Total(o.B)
  BY <1>3 DEF Raw
<1>5. Raw(o)["A"] \in 0 .. Top /\ Raw(o)["B"] \in 0 .. Top
  BY <1>2, <1>3
<1>6. Raw(o)["A"] \in Int /\ Raw(o)["B"] \in Int
  BY <1>5
<1>7. Raw(o) \in [Labels -> 0 .. Top]
  BY <1>1, <1>2
<1> QED
  BY <1>4, <1>6, <1>7

-----------------------------------------------------------------------------
(* The tie break.                                                          *)

(* The first criterion that decides is one, and the ones before it do not. *)
LEMMA FirstDecides ==
  ASSUME NEW a, NEW b, Decisive(a, b) # {}
  PROVE  /\ FirstDecisive(a, b) \in Decisive(a, b)
         /\ \A d \in Decisive(a, b) : Rank[FirstDecisive(a, b)] <= Rank[d]
<1> DEFINE D == Decisive(a, b)
           R == {Rank[c] : c \in D}
<1>1. D \subseteq Criteria /\ \A c \in Criteria : Rank[c] \in Nat
  BY Rubric DEF Decisive
<1>2. R \in SUBSET Nat /\ R # {}
  BY <1>1
<1>3. PICK m \in R : \A k \in R : m <= k
  <2> HIDE DEF R
  <2> QED BY <1>2, Smallest
<1>4. \E c \in D : \A d \in D : Rank[c] <= Rank[d]
  BY <1>3
<1> QED
  BY <1>4 DEF FirstDecisive

LEMMA DecisiveIsSymmetric ==
  ASSUME NEW a, NEW b
  PROVE  Decisive(a, b) = Decisive(b, a) /\ FirstDecisive(a, b) = FirstDecisive(b, a)
<1>1. Decisive(a, b) = Decisive(b, a)
  BY DEF Decisive
<1> QED
  BY <1>1 DEF FirstDecisive

(* What is better in the order of the rubric decides first.                *)
LEMMA BetterDecides ==
  ASSUME NEW a, NEW b, Normal(a), Normal(b), Total(a) = Total(b), Total(a) \in Int, Better(a, b)
  PROVE  Decisive(a, b) # {} /\ a[FirstDecisive(a, b)] > b[FirstDecisive(a, b)]
<1>1. PICK c \in Criteria : /\ Rank[c] # 0 /\ a[c] > b[c]
                            /\ \A d \in Criteria : Rank[d] \in 1 .. Rank[c] - 1 => a[d] = b[d]
  BY DEF Better
<1>2. a[c] \in Int /\ b[c] \in Int
  BY Rubric DEF Normal
<1>3. c \in Decisive(a, b)
  BY <1>1, <1>2 DEF Decisive
<1> DEFINE f == FirstDecisive(a, b)
<1>4. f \in Decisive(a, b) /\ Rank[f] <= Rank[c]
  BY <1>3, FirstDecides
<1>5. f \in Criteria /\ Rank[f] # 0 /\ a[f] # b[f]
  BY <1>4 DEF Decisive
<1> HIDE DEF f
<1>6. Rank[f] \in 0 .. 4 /\ Rank[c] \in 0 .. 4
  BY <1>5, Rubric
<1>7. Rank[f] \notin 1 .. Rank[c] - 1
  BY <1>1, <1>5
<1>8. Rank[f] = Rank[c]
  BY <1>4, <1>5, <1>6, <1>7
<1>9. f = c
  BY <1>1, <1>5, <1>8, Rubric
<1> QED
  BY <1>1, <1>3, <1>9 DEF f

-----------------------------------------------------------------------------
(* What is accepted.                                                       *)
Outs == [A : Submissions, B : Submissions, winner : Labels, reason : Reasons]

LEMMA DuelIsAccepted ==
  ASSUME NEW s, NEW o, Duel(s, o).kind = "DUEL"
  PROVE  /\ AcceptsDuel(s, o, Raw(o))
         /\ Duel(s, o) = [kind |-> "DUEL", official |-> Official(Raw(o), o.winner, Blank(s)),
                          winner |-> o.winner, reason |-> o.reason]
BY DEF Duel, Rejected

LEMMA NormalScores ==
  ASSUME NEW f, Normal(f)
  PROVE  \A c \in Criteria : f[c] \in Int
<1>1. \A c \in Criteria : f[c] \in 0 .. MaxScore[c]
  BY DEF Normal
<1> QED
  BY <1>1

LEMMA HigherIsBetter ==
  ASSUME NEW a, NEW b, Total(a) \in Int, Total(b) \in Int, Better(a, b)
  PROVE  Total(a) >= Total(b)
BY DEF Better

LEMMA NobodyBeatsThemselves ==
  ASSUME NEW a, Normal(a), Total(a) \in Int
  PROVE  ~Better(a, a)
BY NormalScores DEF Better

LEMMA Compare ==
  ASSUME NEW x \in Int, NEW y \in Int
  PROVE  /\ x # y => x > y \/ y > x
         /\ x > y => ~(y > x) /\ ~(y >= x)
         /\ ~(x > y) /\ x # y => y > x
OBVIOUS

(* Scores that are better never lose: by the total, or by the tie break.   *)
LEMMA BetterWins ==
  ASSUME NEW s \in Snapshots, NEW o \in Outs, AcceptsDuel(s, o, Raw(o)), Blank(s) = ""
  PROVE  /\ o.winner = "A" => ~Better(o.B, o.A)
         /\ o.winner = "B" => ~Better(o.A, o.B)
<1> DEFINE a == o.A
           b == o.B
           w == o.winner
<1>1. Total(a) \in Int /\ Total(b) \in Int /\ Raw(o)["A"] = Total(a) /\ Raw(o)["B"] = Total(b)
  BY RawIsBounded
<1>2. Normal(a) /\ Normal(b)
  BY DEF AcceptsDuel
<1>3. \A c \in Criteria : a[c] \in Int /\ b[c] \in Int
  BY <1>2, NormalScores
<1>4. a # b /\ Total(a) # Total(b) =>
        /\ Total(a) > Total(b) => w = "A"
        /\ ~(Total(a) > Total(b)) => w = "B"
  BY <1>1 DEF AcceptsDuel
<1>5. a # b /\ Total(a) = Total(b) /\ Decisive(a, b) # {} =>
        /\ a[FirstDecisive(a, b)] > b[FirstDecisive(a, b)] => w = "A"
        /\ ~(a[FirstDecisive(a, b)] > b[FirstDecisive(a, b)]) => w = "B"
  BY <1>1 DEF AcceptsDuel, AcceptsTie, TieBreakRespected
<1> SUFFICES (w = "A" => ~Better(b, a)) /\ (w = "B" => ~Better(a, b))
  OBVIOUS
<1> HIDE DEF a, b, w
<1>6. CASE a = b
  BY <1>1, <1>2, <1>6, NobodyBeatsThemselves
<1>7. CASE a # b /\ Total(a) # Total(b)
  <2>1. Better(a, b) => Total(a) >= Total(b)
    BY <1>1, HigherIsBetter
  <2>2. Better(b, a) => Total(b) >= Total(a)
    BY <1>1, HigherIsBetter
  <2>3. Total(a) > Total(b) \/ Total(b) > Total(a)
    BY <1>1, <1>7, Compare
  <2>4. Total(a) > Total(b) => w = "A" /\ ~(Total(b) >= Total(a))
    BY <1>1, <1>4, <1>7, Compare
  <2>5. Total(b) > Total(a) => w = "B" /\ ~(Total(a) >= Total(b))
    BY <1>1, <1>4, <1>7, Compare
  <2> HIDE <1>4
  <2> QED
    BY <2>1, <2>2, <2>3, <2>4, <2>5
<1>8. CASE a # b /\ Total(a) = Total(b)
  <2> DEFINE f == FirstDecisive(a, b)
  <2>1. FirstDecisive(b, a) = f /\ Decisive(b, a) = Decisive(a, b)
    BY DecisiveIsSymmetric
  <2>2. Decisive(a, b) # {} => f \in Criteria
    BY FirstDecides DEF Decisive
  <2>3. Better(a, b) => Decisive(a, b) # {} /\ a[f] > b[f]
    BY <1>1, <1>2, <1>8, BetterDecides
  <2>4. Better(b, a) => Decisive(b, a) # {} /\ b[FirstDecisive(b, a)] > a[FirstDecisive(b, a)]
    BY <1>1, <1>2, <1>8, BetterDecides
  <2> HIDE DEF f
  <2>5. Better(b, a) => Decisive(a, b) # {} /\ b[f] > a[f]
    BY <2>1, <2>4
  <2>6. Decisive(a, b) # {} => (a[f] > b[f] => w = "A") /\ (~(a[f] > b[f]) => w = "B")
    BY <1>5, <1>8 DEF f
  <2>7. Better(a, b) => w = "A"
    BY <2>3, <2>6
  <2>8. Better(b, a) => ~(a[f] > b[f])
    <3>1. Decisive(a, b) # {} => a[f] \in Int /\ b[f] \in Int
      BY <1>3, <2>2
    <3> QED
      BY <2>5, <3>1, Compare
  <2>9. Better(b, a) => w = "B"
    BY <2>5, <2>6, <2>8
  <2> QED
    BY <2>7, <2>9
<1> QED
  BY <1>6, <1>7, <1>8

(* The snapshot with its labels changed.                                   *)
Mirror(s) == IF s = "BLANK_A" THEN "BLANK_B" ELSE IF s = "BLANK_B" THEN "BLANK_A" ELSE s

LEMMA MirroredTwice ==
  ASSUME NEW s \in Snapshots, NEW w \in Labels
  PROVE  /\ Mirror(s) \in Snapshots /\ (Mirror(s) = "SAME" <=> s = "SAME")
         /\ Blank(s) = "" <=> Blank(Mirror(s)) = ""
         /\ Blank(s) # "" => Blank(s) \in Labels /\ Blank(Mirror(s)) = Opponent(Blank(s))
         /\ Opponent(w) \in Labels /\ Opponent(w) # w /\ Opponent(Opponent(w)) = w
BY DEF Snapshots, Mirror, Blank, Labels, Opponent

LEMMA RawIsMirrored ==
  ASSUME NEW o
  PROVE  /\ Raw(Mirrored(o))["A"] = Raw(o)["B"] /\ Raw(Mirrored(o))["B"] = Raw(o)["A"]
         /\ \A l \in Labels : Raw(Mirrored(o))[l] = Raw(o)[Opponent(l)]
<1>1. /\ Mirrored(o)["A"] = o["B"] /\ Mirrored(o)["B"] = o["A"]
  BY DEF Mirrored
<1>2. "A" \in Labels /\ "B" \in Labels /\ \A l \in Labels : l = "A" \/ l = "B"
  BY DEF Labels
<1>3. Raw(Mirrored(o))["A"] = Raw(o)["B"] /\ Raw(Mirrored(o))["B"] = Raw(o)["A"]
  BY <1>1, <1>2 DEF Raw
<1> QED
  BY <1>2, <1>3 DEF Opponent

LEMMA MirroredIsAccepted ==
  ASSUME NEW s \in Snapshots, NEW o \in Outs, AcceptsDuel(s, o, Raw(o)), o.reason # "exact_equivalence"
  PROVE  AcceptsDuel(Mirror(s), Mirrored(o), Raw(Mirrored(o)))
<1> DEFINE m == Mirrored(o)
           t == Mirror(s)
           raw == Raw(o)
           war == Raw(Mirrored(o))
<1>1. /\ m.A = o.B /\ m.B = o.A /\ m.winner = Opponent(o.winner) /\ m.reason = o.reason
  BY DEF Mirrored
<1>2. /\ o.winner \in Labels /\ raw["A"] \in Int /\ raw["B"] \in Int
      /\ raw \in [Labels -> 0 .. Top]
  BY RawIsBounded DEF Outs
<1>3. war["A"] = raw["B"] /\ war["B"] = raw["A"] /\ \A l \in Labels : war[l] = raw[Opponent(l)]
  BY RawIsMirrored
<1>4. Normal(m.A) /\ Normal(m.B)
  BY <1>1 DEF AcceptsDuel
<1>5. \A l \in Labels : war[l] \in 0 .. Top
  <2> SUFFICES ASSUME NEW l \in Labels PROVE war[l] \in 0 .. Top
    OBVIOUS
  <2>1. Opponent(l) \in Labels /\ war[l] = raw[Opponent(l)]
    BY <1>3, MirroredTwice
  <2>2. raw[Opponent(l)] \in 0 .. Top
    BY <2>1 DEF AcceptsDuel
  <2> QED
    BY <2>1, <2>2
<1>6. s # "SAME" /\ t # "SAME"
  <2>1. s = "SAME" => o.reason = "exact_equivalence"
    BY DEF AcceptsDuel, Blank
  <2> QED
    BY <2>1, <1>2, MirroredTwice
<1>7. CASE Blank(s) # ""
  <2>1. raw[Blank(s)] = 0 /\ o.winner = Opponent(Blank(s)) /\ o.reason = "blank_forfeit"
    BY <1>6, <1>7 DEF AcceptsDuel
  <2>2. Blank(s) \in Labels /\ Blank(t) = Opponent(Blank(s)) /\ Blank(t) # "" /\ Blank(t) \in Labels
        /\ Opponent(Blank(t)) = Blank(s) /\ Opponent(o.winner) = Blank(s)
    <3>1. Blank(s) \in Labels /\ Blank(t) = Opponent(Blank(s)) /\ Blank(t) # ""
      BY <1>2, <1>7, MirroredTwice
    <3>2. Blank(t) \in Labels /\ Opponent(Blank(t)) = Blank(s)
      BY <3>1, MirroredTwice
    <3> QED
      BY <2>1, <3>1, <3>2
  <2>3. war[Blank(t)] = 0 /\ m.winner = Opponent(Blank(t)) /\ m.reason = "blank_forfeit"
    BY <1>1, <1>3, <2>1, <2>2
  <2> HIDE DEF m, t, war
  <2>4. AcceptsDuel(t, m, war)
    BY <1>4, <1>5, <2>2, <2>3 DEF AcceptsDuel
  <2> QED
    BY <2>4 DEF m, t, war
<1>8. CASE Blank(s) = "" /\ raw["A"] # raw["B"]
  <2>1. o.winner = (IF raw["A"] > raw["B"] THEN "A" ELSE "B") /\ o.reason = "none"
    BY <1>6, <1>8 DEF AcceptsDuel
  <2>2. m.winner = (IF war["A"] > war["B"] THEN "A" ELSE "B") /\ m.reason = "none"
    <3>1. raw["A"] > raw["B"] => ~(raw["B"] > raw["A"])
      BY <1>2, Compare
    <3>2. ~(raw["A"] > raw["B"]) => raw["B"] > raw["A"]
      BY <1>2, <1>8, Compare
    <3>3. Opponent("A") = "B" /\ Opponent("B") = "A"
      BY DEF Opponent
    <3> HIDE DEF m, raw, war
    <3> QED
      BY <1>1, <1>3, <2>1, <3>1, <3>2, <3>3
  <2>3. Blank(t) = "" /\ war["A"] # war["B"]
    BY <1>2, <1>3, <1>8, MirroredTwice
  <2> HIDE DEF m, t, war
  <2>4. AcceptsDuel(t, m, war)
    BY <1>4, <1>5, <1>6, <2>2, <2>3 DEF AcceptsDuel
  <2> QED
    BY <2>4 DEF m, t, war
<1>9. CASE Blank(s) = "" /\ raw["A"] = raw["B"]
  <2>1. o.reason \notin {"none", "blank_forfeit"} /\ TieBreakRespected(o.A, o.B, o)
    BY <1>6, <1>9 DEF AcceptsDuel, AcceptsTie
  <2>2. TieBreakRespected(m.A, m.B, m)
    <3> SUFFICES ASSUME Decisive(o.B, o.A) # {}
                 PROVE  /\ m.reason = ReasonOf(FirstDecisive(o.B, o.A))
                        /\ m.winner = IF o.B[FirstDecisive(o.B, o.A)] > o.A[FirstDecisive(o.B, o.A)]
                                        THEN "A" ELSE "B"
      BY <1>1 DEF TieBreakRespected
    <3> DEFINE f == FirstDecisive(o.B, o.A)
    <3>1. FirstDecisive(o.A, o.B) = f /\ Decisive(o.A, o.B) # {}
      BY DecisiveIsSymmetric
    <3>2. /\ o.reason = ReasonOf(f) /\ o.winner = IF o.A[f] > o.B[f] THEN "A" ELSE "B"
      BY <2>1, <3>1 DEF TieBreakRespected
    <3>3. f \in Criteria /\ o.A[f] # o.B[f]
      BY <3>1, FirstDecides DEF Decisive
    <3>4. o.A[f] \in Int /\ o.B[f] \in Int
      <4>1. Normal(o.A) /\ Normal(o.B)
        BY DEF AcceptsDuel
      <4> QED
        BY <3>3, <4>1, NormalScores
    <3> HIDE DEF f
    <3>5. m.winner = IF o.B[f] > o.A[f] THEN "A" ELSE "B"
      BY <1>1, <3>2, <3>3, <3>4 DEF Opponent
    <3> QED
      BY <1>1, <3>2, <3>5 DEF f
  <2>3. Blank(t) = "" /\ war["A"] = war["B"]
    BY <1>2, <1>3, <1>9, MirroredTwice
  <2> HIDE DEF m, t, war
  <2>4. AcceptsTie(m)
    BY <1>1, <2>1, <2>2 DEF AcceptsTie
  <2>5. AcceptsDuel(t, m, war)
    BY <1>4, <1>5, <1>6, <2>3, <2>4 DEF AcceptsDuel
  <2> QED
    BY <2>5 DEF m, t, war
<1> QED
  BY <1>7, <1>8, <1>9

LEMMA OtherLabel ==
  /\ \A l \in Labels : /\ Opponent(l) \in Labels /\ Opponent(l) # l /\ Opponent(Opponent(l)) = l
                       /\ l # ""
  /\ \A l, k \in Labels : l = Opponent(k) <=> Opponent(l) = k
  /\ "A" \in Labels /\ "B" \in Labels /\ Opponent("A") = "B" /\ Opponent("B") = "A"
BY DEF Labels, Opponent

Opposite(b, c) == (b = "" /\ c = "") \/ (b \in Labels /\ c = Opponent(b))

LEMMA OfficialIsMirrored ==
  ASSUME NEW raw \in [Labels -> 0 .. Top], NEW war \in [Labels -> 0 .. Top],
         \A l \in Labels : war[l] = raw[Opponent(l)],
         NEW w \in Labels, NEW b, NEW c, Opposite(b, c)
  PROVE  Official(war, Opponent(w), c) = [l \in Labels |-> Official(raw, w, b)[Opponent(l)]]
<1> DEFINE f == Official(raw, w, b)
           g == Official(war, Opponent(w), c)
<1>1. war["A"] = raw["B"] /\ war["B"] = raw["A"]
  BY OtherLabel
<1>2. SUFFICES g = [l \in Labels |-> g[l]] /\ \A l \in Labels : g[l] = f[Opponent(l)]
  OBVIOUS
<1>3. CASE b \in Labels /\ c = Opponent(b)
  <2>1. b # "" /\ c # ""
    BY <1>3, OtherLabel
  <2>2. /\ f = [l \in Labels |-> IF l = b THEN 0 ELSE AtLeastOne(raw[l])]
        /\ g = [l \in Labels |-> IF l = c THEN 0 ELSE AtLeastOne(war[l])]
    BY <2>1 DEF Official
  <2>3. ASSUME NEW l \in Labels
        PROVE  g[l] = f[Opponent(l)]
    <3>1. Opponent(l) \in Labels /\ (l = c <=> Opponent(l) = b)
      BY <1>3, OtherLabel
    <3>2. g[l] = IF l = c THEN 0 ELSE AtLeastOne(war[l])
      BY <2>2
    <3>3. f[Opponent(l)] = IF Opponent(l) = b THEN 0 ELSE AtLeastOne(raw[Opponent(l)])
      BY <2>2, <3>1
    <3>4. war[l] = raw[Opponent(l)]
      OBVIOUS
    <3> HIDE DEF f, g
    <3> QED
      BY <3>1, <3>2, <3>3, <3>4
  <2>4. g = [l \in Labels |-> g[l]]
    BY <2>2
  <2> QED
    BY <2>3, <2>4
<1>4. CASE b = "" /\ c = "" /\ raw["A"] = raw["B"]
  <2>1. f = AfterTie(raw, w) /\ g = AfterTie(war, Opponent(w))
    BY <1>1, <1>4 DEF Official
  <2>2. war["A"] = raw["A"]
    BY <1>1, <1>4
  <2>3. PICK k \in Labels, x \in {Top - 1, raw["A"] + 1} : /\ f = [raw EXCEPT ![k] = x] /\ g = [war EXCEPT ![Opponent(k)] = x]
    <3>1. CASE raw["A"] = Top
      <4>1. /\ f = [raw EXCEPT ![Opponent(w)] = Top - 1]
            /\ g = [war EXCEPT ![Opponent(Opponent(w))] = Top - 1]
        BY <2>1, <2>2, <3>1 DEF AfterTie
      <4>2. Opponent(w) \in Labels
        BY OtherLabel
      <4> HIDE DEF f, g
      <4> QED
        BY <4>1, <4>2
    <3>2. CASE raw["A"] # Top
      <4>1. f = [raw EXCEPT ![w] = raw["A"] + 1] /\ g = [war EXCEPT ![Opponent(w)] = raw["A"] + 1]
        BY <2>1, <2>2, <3>2 DEF AfterTie
      <4> HIDE DEF f, g
      <4> QED
        BY <4>1
    <3> QED
      BY <3>1, <3>2
  <2> HIDE DEF f, g
  <2>4. ASSUME NEW l \in Labels
        PROVE  g[l] = f[Opponent(l)]
    <3>1. Opponent(l) \in Labels /\ Opponent(k) \in Labels /\ (l = Opponent(k) <=> Opponent(l) = k)
      BY OtherLabel
    <3>2. g[l] = IF l = Opponent(k) THEN x ELSE war[l]
      BY <2>3
    <3>3. f[Opponent(l)] = IF Opponent(l) = k THEN x ELSE raw[Opponent(l)]
      BY <2>3, <3>1
    <3>4. war[l] = raw[Opponent(l)]
      OBVIOUS
    <3> QED
      BY <3>1, <3>2, <3>3, <3>4
  <2>5. g = [l \in Labels |-> g[l]]
    BY <2>3
  <2> QED
    BY <2>4, <2>5
<1>5. CASE b = "" /\ c = "" /\ raw["A"] # raw["B"]
  <2>1. f = raw /\ g = war
    BY <1>1, <1>5 DEF Official
  <2> HIDE DEF f, g
  <2> QED
    BY <2>1
<1> QED
  BY <1>3, <1>4, <1>5 DEF Opposite

LEMMA DuelIsMirrored ==
  ASSUME NEW s \in Snapshots, NEW o \in Outs,
         AcceptsDuel(s, o, Raw(o)), o.reason # "exact_equivalence"
  PROVE  Duel(Mirror(s), Mirrored(o)) =
           [kind |-> "DUEL",
            official |-> [l \in Labels |-> Official(Raw(o), o.winner, Blank(s))[Opponent(l)]],
            winner |-> Opponent(o.winner), reason |-> o.reason]
<1> DEFINE m == Mirrored(o)
<1>1. AcceptsDuel(Mirror(s), m, Raw(m))
  BY MirroredIsAccepted
<1>2. m.winner = Opponent(o.winner) /\ m.reason = o.reason
  BY DEF Mirrored
<1>3. Duel(Mirror(s), m) = [kind |-> "DUEL", official |-> Official(Raw(m), m.winner, Blank(Mirror(s))),
                            winner |-> m.winner, reason |-> m.reason]
  BY <1>1 DEF Duel
<1>4. Raw(o) \in [Labels -> 0 .. Top] /\ Raw(m) \in [Labels -> 0 .. Top]
  BY <1>1, RawIsBounded
<1>5. \A l \in Labels : Raw(m)[l] = Raw(o)[Opponent(l)]
  BY RawIsMirrored
<1>6. o.winner \in Labels
  BY DEF Outs
<1>7. \/ Blank(s) = "" /\ Blank(Mirror(s)) = ""
      \/ Blank(s) \in Labels /\ Blank(Mirror(s)) = Opponent(Blank(s))
  BY <1>6, MirroredTwice
<1> HIDE DEF m
<1> DEFINE r == Raw(o)
           q == Raw(m)
           w == o.winner
           b == Blank(s)
           c == Blank(Mirror(s))
<1>8. /\ r \in [Labels -> 0 .. Top] /\ q \in [Labels -> 0 .. Top]
      /\ \A l \in Labels : q[l] = r[Opponent(l)]
      /\ w \in Labels
      /\ Opposite(b, c)
  BY <1>4, <1>5, <1>6, <1>7 DEF Opposite
<1> HIDE DEF r, q, w, b, c
<1>9. Official(q, Opponent(w), c) = [l \in Labels |-> Official(r, w, b)[Opponent(l)]]
  BY <1>8, OfficialIsMirrored
<1>10. Official(Raw(m), Opponent(o.winner), Blank(Mirror(s)))
        = [l \in Labels |-> Official(Raw(o), o.winner, Blank(s))[Opponent(l)]]
  BY <1>9 DEF r, q, w, b, c
<1>11. Duel(Mirror(s), m) =
        [kind |-> "DUEL",
         official |-> [l \in Labels |-> Official(Raw(o), o.winner, Blank(s))[Opponent(l)]],
         winner |-> Opponent(o.winner), reason |-> o.reason]
  BY <1>2, <1>3, <1>10
<1> QED
  BY <1>11 DEF m

-----------------------------------------------------------------------------
(* The verdict is what validation makes of snapshot and output.            *)
VerdictIsValidated ==
  /\ snapshot \in Snapshots /\ output \in Outs
  /\ \/ verdict = NoVerdict
     \/ snapshot = "ALONE" /\ verdict = Practice(output)
     \/ verdict = Duel(snapshot, output)

LEMMA VerdictHolds ==
  ASSUME VerdictIsValidated
  PROVE  ScoringInv
<1> DEFINE s == snapshot
           o == output
<1>1. s \in Snapshots /\ o \in Outs /\ o.winner \in Labels /\ o.reason \in Reasons
      /\ o.A \in Submissions /\ output \in Outputs
  BY DEF VerdictIsValidated, Outs, Outputs
<1>2. CASE verdict \in {NoVerdict, Rejected}
  <2>1. verdict.kind # "DUEL"
    BY <1>2 DEF NoVerdict, Rejected
  <2> QED
    BY <1>1, <1>2, <2>1 DEF ScoringInv, ScoringTypeOK, VerdictFollowsScores, LabelsDoNotMatter
<1>3. CASE verdict = Practice(o) /\ verdict # Rejected
  <2>1. Normal(o.A) /\ verdict = [kind |-> "PRACTICE", official |-> Total(o.A)]
    BY <1>3 DEF Practice
  <2>2. Total(o.A) \in 0 .. Top
    BY <1>1, <2>1, TotalIsBounded
  <2>3. verdict \in [kind : {"PRACTICE"}, official : 0 .. Top] /\ verdict.kind # "DUEL"
    BY <2>1, <2>2
  <2> QED
    BY <1>1, <2>3 DEF ScoringInv, ScoringTypeOK, VerdictFollowsScores, LabelsDoNotMatter
<1>4. CASE verdict = Duel(s, o) /\ verdict # Rejected
  <2>1. Duel(s, o).kind = "DUEL"
    BY <1>4 DEF Duel
  <2> DEFINE F == Official(Raw(o), o.winner, Blank(s))
  <2>2. /\ AcceptsDuel(s, o, Raw(o))
        /\ verdict = [kind |-> "DUEL", official |-> F, winner |-> o.winner, reason |-> o.reason]
    BY <1>4, <2>1, DuelIsAccepted
  <2>3. F \in [Labels -> 0 .. Top]
    <3>1. Raw(o) \in [Labels -> 0 .. Top]
      BY <2>2, RawIsBounded
    <3> QED
      BY <1>1, <3>1, OfficialIsBounded
  <2>4. ScoringTypeOK
    <3> HIDE DEF F
    <3>1. verdict \in [kind : {"DUEL"}, official : [Labels -> 0 .. Top], winner : Labels, reason : Reasons]
      BY <1>1, <2>2, <2>3
    <3> QED
      BY <1>1, <3>1 DEF ScoringTypeOK
  <2>5. VerdictFollowsScores
    <3> SUFFICES ASSUME Blank(s) = "" PROVE ~Better(o[Opponent(o.winner)], o[o.winner])
      BY <2>2 DEF VerdictFollowsScores
    <3>1. (o.winner = "A" => ~Better(o.B, o.A)) /\ (o.winner = "B" => ~Better(o.A, o.B))
      BY <1>1, <2>2, BetterWins
    <3>2. CASE o.winner = "A"
      <4>1. o[Opponent(o.winner)] = o.B /\ o[o.winner] = o.A
        BY <3>2, OtherLabel
      <4> QED
        BY <3>1, <3>2, <4>1
    <3>3. CASE o.winner = "B"
      <4>1. o[Opponent(o.winner)] = o.A /\ o[o.winner] = o.B
        BY <3>3, OtherLabel
      <4> QED
        BY <3>1, <3>3, <4>1
    <3> QED
      BY <1>1, <3>2, <3>3 DEF Labels
  <2>6. LabelsDoNotMatter
    <3> SUFFICES ASSUME o.reason # "exact_equivalence"
                 PROVE  Duel(MirroredSnapshot, Mirrored(o)) =
                          [verdict EXCEPT !.winner = Opponent(@),
                                          !.official = [l \in Labels |-> verdict.official[Opponent(l)]]]
      BY <2>2 DEF LabelsDoNotMatter
    <3>1. MirroredSnapshot = Mirror(s)
      BY <1>1 DEF MirroredSnapshot, Mirror, Snapshots
    <3>2. Duel(Mirror(s), Mirrored(o)) =
            [kind |-> "DUEL", official |-> [l \in Labels |-> F[Opponent(l)]],
             winner |-> Opponent(o.winner), reason |-> o.reason]
      BY <1>1, <2>2, DuelIsMirrored
    <3> HIDE DEF F
    <3>3. [verdict EXCEPT !.winner = Opponent(@),
                          !.official = [l \in Labels |-> verdict.official[Opponent(l)]]] =
            [kind |-> "DUEL", official |-> [l \in Labels |-> F[Opponent(l)]],
             winner |-> Opponent(o.winner), reason |-> o.reason]
      <4> DEFINE G == [l \in Labels |-> F[Opponent(l)]]
                 W == Opponent(o.winner)
      <4>1. G = [l \in Labels |-> verdict.official[Opponent(l)]] /\ W = Opponent(verdict.winner)
        BY <2>2
      <4> SUFFICES [verdict EXCEPT !.winner = Opponent(verdict.winner),
                                   !.official = [l \in Labels |-> verdict.official[Opponent(l)]]] =
                     [kind |-> "DUEL", official |-> G, winner |-> W, reason |-> o.reason]
        BY <2>2
      <4> HIDE DEF G, W
      <4> SUFFICES [verdict EXCEPT !.winner = W, !.official = G] =
                     [kind |-> "DUEL", official |-> G, winner |-> W, reason |-> o.reason]
        BY <4>1
      <4> DEFINE w == o.winner
                 e == o.reason
      <4>2. verdict = [kind |-> "DUEL", official |-> F, winner |-> w, reason |-> e]
        BY <2>2
      <4> HIDE DEF w, e, s, o
      <4>3. [verdict EXCEPT !.winner = W, !.official = G] =
              [kind |-> "DUEL", official |-> G, winner |-> W, reason |-> e]
        <5> DEFINE u == [verdict EXCEPT !.winner = W]
        <5>1. verdict \in [kind : {"DUEL"}, official : {F}, winner : {w}, reason : {e}]
          BY <4>2
        <5>2. u = [kind |-> "DUEL", official |-> F, winner |-> W, reason |-> e]
          BY <4>2, <5>1
        <5>3. u \in [kind : {"DUEL"}, official : {F}, winner : {W}, reason : {e}]
          BY <5>2
        <5>4. [verdict EXCEPT !.winner = W, !.official = G] = [u EXCEPT !.official = G]
          OBVIOUS
        <5> HIDE DEF u
        <5>5. [u EXCEPT !.official = G] = [kind |-> "DUEL", official |-> G, winner |-> W, reason |-> e]
          BY <5>2, <5>3
        <5> QED
          BY <5>4, <5>5
      <4> QED
        BY <4>3 DEF e
    <3> QED
      BY <3>1, <3>2, <3>3
  <2> QED
    BY <2>4, <2>5, <2>6 DEF ScoringInv
<1> QED
  BY <1>2, <1>3, <1>4 DEF VerdictIsValidated

(* The verdict is well formed, for every rubric: no total is above the     *)
(* rubric's; scores that are better in the order of the rubric never lose  *)
(* (scoring.ts:131); and what is accepted is accepted with the labels      *)
(* changed, with the scores changed likewise.                              *)
THEOREM VerdictIsTheScores == ScoringSpec => []ScoringInv
<1>1. ScoringInit => VerdictIsValidated
  BY DEF ScoringInit, VerdictIsValidated, Outputs, Outs
<1>2. VerdictIsValidated /\ [Validate]_scoringVars => VerdictIsValidated'
  <2> SUFFICES ASSUME VerdictIsValidated, [Validate]_scoringVars PROVE VerdictIsValidated'
    OBVIOUS
  <2>1. CASE Validate
    BY <2>1 DEF Validate, VerdictIsValidated
  <2>2. CASE UNCHANGED scoringVars
    BY <2>2 DEF scoringVars, VerdictIsValidated
  <2> QED
    BY <2>1, <2>2
<1>3. VerdictIsValidated => ScoringInv
  BY VerdictHolds
<1> QED
  BY <1>1, <1>2, <1>3, PTL DEF ScoringSpec

-----------------------------------------------------------------------------
(* The requests.  Rows are kept for as long as they count; claims are of   *)
(* one worker each, and a claim's attempts are numbered.                   *)

LEMMA Limited ==
  /\ Day \in Nat /\ Retention \in Nat /\ Day <= Retention
  /\ DayLimit \in Nat /\ UserLimit \in Nat /\ MatchLimit \in Nat /\ MaxAttempts \in Nat
  /\ MaxClaims \in Nat /\ MaxHour \in Nat
  /\ DayLimit > 0 /\ UserLimit > 0 /\ MatchLimit > 0 /\ MaxAttempts > 0
BY JudgeAssumption

ClaimOf(S, c) == {r \in S : r.claim = c}
(* Attempts of a job for which a request was sent.                         *)
Sent(j) == IF j.pc = "RESERVE" THEN j.attempt - 1 ELSE j.attempt

JobTypes ==
  /\ hour \in Nat /\ claims \in 0 .. MaxClaims
  /\ rows \subseteq Reservation /\ sent \subseteq Reservation
  /\ job \in [Workers -> Job \cup {Idle}]
  /\ \A w \in Workers : job[w].pc = "SLEEP" => job[w].attempt < MaxAttempts
  /\ reports \subseteq [claim : 1 .. MaxClaims, code : Codes, attempts : 0 .. MaxAttempts]

LedgerKept ==
  /\ IsFiniteSet(rows) /\ IsFiniteSet(sent)
  /\ \A s \in sent : s \in rows \/ s.at < hour - Retention
  /\ \A s \in rows \cup sent : s.claim <= claims

BudgetKept ==
  /\ Cardinality(Today(rows)) <= DayLimit
  /\ \A e \in Evaluations : Cardinality(Of(Today(rows), e)) <= MatchLimit
  /\ \A e \in Evaluations : \A u \in Players[e] : Cardinality(Charged(Today(rows), u)) <= UserLimit

ClaimsApart ==
  /\ \A w \in Workers : job[w] # Idle => job[w].claim <= claims
  /\ \A v, w \in Workers : v # w /\ job[v] # Idle /\ job[w] # Idle => job[v].claim # job[w].claim
  /\ \A r \in reports : r.claim <= claims /\ \A w \in Workers : job[w] # Idle => job[w].claim # r.claim

Counted ==
  /\ \A w \in Workers : job[w] # Idle =>
       /\ Cardinality(ClaimOf(sent, job[w].claim)) = Sent(job[w])
       /\ \A s \in ClaimOf(rows \cup sent, job[w].claim) : s.attempt <= Sent(job[w])
  /\ \A r \in reports : Cardinality(ClaimOf(sent, r.claim)) = r.attempts

RequestInv == JobTypes /\ LedgerKept /\ BudgetKept /\ ClaimsApart /\ Counted

LEMMA JobsAreNumbered ==
  ASSUME NEW j \in Job
  PROVE  /\ j # Idle /\ j.pc \in {"RESERVE", "CALL", "SLEEP"} /\ j.evaluation \in Evaluations
         /\ j.claim \in 1 .. MaxClaims /\ j.attempt \in 1 .. MaxAttempts
         /\ j.attempt \in Int /\ j.attempt >= 1 /\ j.attempt <= MaxAttempts
         /\ Sent(j) \in Nat /\ j.attempt - 1 \in 0 .. MaxAttempts /\ j.attempt \in 0 .. MaxAttempts
<1>1. /\ j.pc \in {"RESERVE", "CALL", "SLEEP"} /\ j.evaluation \in Evaluations
      /\ j.claim \in 1 .. MaxClaims /\ j.attempt \in 1 .. MaxAttempts
  BY DEF Job
<1>2. j # Idle
  BY <1>1 DEF Idle
<1> QED
  BY <1>1, <1>2, Limited DEF Sent

LEMMA IdleHasNoPhase == Idle.pc = "IDLE"
BY DEF Idle

LEMMA Fewer ==
  ASSUME NEW S, IsFiniteSet(S), NEW T, T \subseteq S, NEW n \in Nat, Cardinality(S) <= n
  PROVE  Cardinality(T) <= n
<1>1. Cardinality(S) \in Nat
  BY FS_CardinalityType
<1>2. IsFiniteSet(T) /\ Cardinality(T) <= Cardinality(S)
  BY FS_Subset
<1>3. Cardinality(T) \in Nat
  BY <1>2, FS_CardinalityType
<1> QED
  BY <1>1, <1>2, <1>3

LEMMA OneMoreFits ==
  ASSUME NEW S, IsFiniteSet(S), NEW x, NEW T, T \subseteq S \cup {x}, NEW n \in Nat, Cardinality(S) < n
  PROVE  Cardinality(T) <= n
<1>1. Cardinality(S) \in Nat
  BY FS_CardinalityType
<1>2. /\ IsFiniteSet(S \cup {x})
      /\ Cardinality(S \cup {x}) = Cardinality(S) \/ Cardinality(S \cup {x}) = Cardinality(S) + 1
  BY FS_AddElement
<1>3. Cardinality(S \cup {x}) <= n
  BY <1>1, <1>2
<1> QED
  BY <1>2, <1>3, Fewer

LEMMA RequestsInitially == JudgeInit => RequestInv
<1> SUFFICES ASSUME JudgeInit PROVE RequestInv
  OBVIOUS
<1>1. /\ hour = 0 /\ claims = 0 /\ rows = {} /\ sent = {} /\ reports = {}
      /\ job = [w \in Workers |-> Idle]
  BY DEF JudgeInit
<1>2. IsFiniteSet({}) /\ Cardinality({}) = 0
  BY FS_EmptySet
<1>3. \A w \in Workers : job[w] = Idle /\ job[w].pc = "IDLE"
  BY <1>1, IdleHasNoPhase
<1>4. JobTypes
  BY <1>1, <1>3, Limited DEF JobTypes
<1>5. LedgerKept
  BY <1>1, <1>2 DEF LedgerKept
<1>6. BudgetKept
  <2>1. /\ Today(rows) = {} /\ \A e : Of(Today(rows), e) = {}
        /\ \A u : Charged(Today(rows), u) = {}
    BY <1>1 DEF Today, Of, Charged
  <2> QED
    BY <1>2, <2>1, Limited DEF BudgetKept
<1>7. ClaimsApart /\ Counted
  BY <1>1, <1>3 DEF ClaimsApart, Counted
<1> QED
  BY <1>4, <1>5, <1>6, <1>7 DEF RequestInv

(* While no row is added, what counts only goes down.                      *)
LEMMA BudgetShrinks ==
  ASSUME RequestInv, rows' \subseteq rows, hour' \in Nat, hour <= hour'
  PROVE  BudgetKept'
<1>1. \A r \in rows : r.at \in Int /\ hour \in Int /\ hour' \in Int /\ Day \in Int
  BY Limited DEF RequestInv, JobTypes, Reservation
<1>2. Today(rows)' \subseteq Today(rows)
  BY <1>1 DEF Today
<1>3. \A e : Of(Today(rows)', e) \subseteq Of(Today(rows), e)
  BY <1>2 DEF Of
<1>4. \A u : Charged(Today(rows)', u) \subseteq Charged(Today(rows), u)
  BY <1>2 DEF Charged
<1>5. /\ IsFiniteSet(Today(rows)) /\ \A e : IsFiniteSet(Of(Today(rows), e))
      /\ \A u : IsFiniteSet(Charged(Today(rows), u))
  <2>1. IsFiniteSet(rows)
    BY DEF RequestInv, LedgerKept
  <2>2. /\ Today(rows) \in SUBSET rows
        /\ \A e : Of(Today(rows), e) \in SUBSET rows
        /\ \A u : Charged(Today(rows), u) \in SUBSET rows
    BY DEF Today, Of, Charged
  <2> QED
    BY <2>1, <2>2, FS_Subset
<1>6. Cardinality(Today(rows)') <= DayLimit
  BY <1>2, <1>5, Fewer, Limited DEF RequestInv, BudgetKept
<1>7. \A e \in Evaluations : Cardinality(Of(Today(rows)', e)) <= MatchLimit
  BY <1>3, <1>5, Fewer, Limited DEF RequestInv, BudgetKept
<1>8. \A e \in Evaluations : \A u \in Players[e] : Cardinality(Charged(Today(rows)', u)) <= UserLimit
  BY <1>4, <1>5, Fewer, Limited DEF RequestInv, BudgetKept
<1> QED
  BY <1>6, <1>7, <1>8 DEF BudgetKept, Of, Charged

LEMMA JobOrIdle ==
  ASSUME RequestInv, NEW w \in Workers
  PROVE  /\ job[w] \in Job \/ job[w] = Idle
         /\ job[w] \in Job <=> job[w] # Idle
         /\ job[w].pc \in {"RESERVE", "CALL", "SLEEP"} => job[w] \in Job
<1>1. job[w] \in Job \cup {Idle}
  BY DEF RequestInv, JobTypes
<1> QED
  BY <1>1, JobsAreNumbered, IdleHasNoPhase

LEMMA PurgeStep ==
  ASSUME RequestInv, PurgeReservations \/ HourPasses
  PROVE  RequestInv'
<1>1. /\ UNCHANGED <<claims, job, sent, reports>>
      /\ \/ rows' = {r \in rows : r.at >= hour - Retention} /\ hour' = hour
         \/ rows' = rows /\ hour' = hour + 1
  BY DEF PurgeReservations, HourPasses, Retained
<1>2. rows' \subseteq rows /\ hour \in Nat /\ hour' \in Nat /\ hour <= hour'
  BY <1>1 DEF RequestInv, JobTypes
<1>3. BudgetKept'
  BY <1>2, BudgetShrinks
<1>4. JobTypes'
  BY <1>1, <1>2 DEF RequestInv, JobTypes
<1>5. LedgerKept'
  <2>1. IsFiniteSet(rows') /\ IsFiniteSet(sent')
    BY <1>1, <1>2, FS_Subset DEF RequestInv, LedgerKept
  <2>2. \A s \in sent : s.at \in Int /\ Retention \in Int
    BY Limited DEF RequestInv, JobTypes, Reservation
  <2>3. \A s \in sent : s \in rows' \/ s.at < hour' - Retention
    BY <1>1, <1>2, <2>2 DEF RequestInv, LedgerKept
  <2>4. \A s \in rows' \cup sent' : s.claim <= claims'
    BY <1>1, <1>2 DEF RequestInv, LedgerKept
  <2> QED
    BY <1>1, <2>1, <2>3, <2>4 DEF LedgerKept
<1>6. ClaimsApart' /\ Counted'
  BY <1>1, <1>2 DEF RequestInv, ClaimsApart, Counted, ClaimOf
<1> QED
  BY <1>3, <1>4, <1>5, <1>6 DEF RequestInv

LEMMA ClaimStep ==
  ASSUME RequestInv, NEW w \in Workers, NEW e \in Evaluations, Claim(w, e)
  PROVE  RequestInv'
<1> DEFINE row == [pc |-> "RESERVE", evaluation |-> e, claim |-> claims + 1, attempt |-> 1]
<1>1. /\ job[w] = Idle /\ claims < MaxClaims /\ claims' = claims + 1
      /\ job' = [job EXCEPT ![w] = row]
      /\ UNCHANGED <<hour, rows, sent, reports>>
  BY DEF Claim
<1>2. claims \in Nat /\ claims + 1 \in 1 .. MaxClaims /\ claims' \in 0 .. MaxClaims /\ 1 \in 1 .. MaxAttempts
  BY <1>1, Limited DEF RequestInv, JobTypes
<1>3. /\ row \in Job /\ row.pc = "RESERVE" /\ row.claim = claims + 1 /\ Sent(row) = 0
  BY <1>2 DEF Job, Sent
<1> HIDE DEF row
<1>4. /\ job' \in [Workers -> Job \cup {Idle}]
      /\ \A v \in Workers : job'[v] = IF v = w THEN row ELSE job[v]
  BY <1>1, <1>3 DEF RequestInv, JobTypes
<1>5. JobTypes'
  BY <1>1, <1>2, <1>3, <1>4 DEF RequestInv, JobTypes
<1>6. \A s \in rows \cup sent : s.claim \in Int /\ s.claim <= claims
  BY DEF RequestInv, JobTypes, Reservation, LedgerKept
<1>7. LedgerKept'
  BY <1>1, <1>2, <1>6 DEF RequestInv, LedgerKept
<1>8. BudgetKept'
  BY <1>1, BudgetShrinks DEF RequestInv, JobTypes
<1>9. /\ \A v \in Workers : job[v] # Idle => job[v].claim \in Int /\ job[v].claim <= claims
      /\ \A r \in reports : r.claim \in Int /\ r.claim <= claims
  BY JobOrIdle, JobsAreNumbered DEF RequestInv, JobTypes, ClaimsApart
<1>10. ClaimsApart'
  <2>1. \A v \in Workers : job'[v] # Idle => job'[v].claim <= claims'
    BY <1>1, <1>2, <1>3, <1>4, <1>9
  <2>2. \A u, v \in Workers : u # v /\ job'[u] # Idle /\ job'[v] # Idle => job'[u].claim # job'[v].claim
    BY <1>2, <1>3, <1>4, <1>9 DEF RequestInv, ClaimsApart
  <2>3. \A r \in reports : r.claim <= claims' /\ \A v \in Workers : job'[v] # Idle => job'[v].claim # r.claim
    BY <1>1, <1>2, <1>3, <1>4, <1>9 DEF RequestInv, ClaimsApart
  <2> QED
    BY <1>1, <2>1, <2>2, <2>3 DEF ClaimsApart
<1>11. Counted'
  <2>1. ClaimOf(sent, row.claim) = {} /\ ClaimOf(rows \cup sent, row.claim) = {}
    BY <1>2, <1>3, <1>6 DEF ClaimOf
  <2>2. Cardinality(ClaimOf(sent, row.claim)) = Sent(row)
    BY <1>3, <2>1, FS_EmptySet
  <2> QED
    BY <1>1, <1>4, <2>1, <2>2 DEF RequestInv, Counted, ClaimOf
<1> QED
  BY <1>5, <1>7, <1>8, <1>10, <1>11 DEF RequestInv

(* A row that is about to be reserved is not there yet.                    *)
LEMMA NewRowIsNew ==
  ASSUME RequestInv, NEW w \in Workers, job[w].pc = "RESERVE"
  PROVE  /\ job[w] \in Job /\ job[w] # Idle
         /\ NewRow(job[w]) \in Reservation /\ NewRow(job[w]) \notin sent
         /\ NewRow(job[w]).claim = job[w].claim /\ NewRow(job[w]).attempt = job[w].attempt
         /\ NewRow(job[w]).evaluation = job[w].evaluation
         /\ Existing(job[w]) = {}
         /\ RowsWith(job[w]) = Retained(rows) \cup {NewRow(job[w])}
<1> DEFINE j == job[w]
<1>1. j \in Job /\ j # Idle
  BY JobOrIdle
<1> HIDE DEF j
<1>2. /\ j.evaluation \in Evaluations /\ j.claim \in 1 .. MaxClaims
      /\ j.attempt \in 1 .. MaxAttempts /\ j.attempt \in Int
  BY <1>1, JobsAreNumbered
<1>3. hour \in Nat
  BY DEF RequestInv, JobTypes
<1>4. /\ NewRow(j) \in Reservation /\ NewRow(j).claim = j.claim /\ NewRow(j).attempt = j.attempt
      /\ NewRow(j).evaluation = j.evaluation
  BY <1>2, <1>3 DEF NewRow, Reservation
<1>5. \A s \in rows \cup sent : s.claim = j.claim => s.attempt <= j.attempt - 1 /\ s.attempt \in Int
  <2>1. \A s \in ClaimOf(rows \cup sent, j.claim) : s.attempt <= Sent(j)
    BY <1>1 DEF j, RequestInv, Counted
  <2>2. Sent(j) = j.attempt - 1
    BY DEF Sent, j
  <2>3. \A s \in rows \cup sent : s.attempt \in Int
    BY DEF RequestInv, JobTypes, Reservation
  <2> QED
    BY <2>1, <2>2, <2>3 DEF ClaimOf
<1>6. \A s \in rows \cup sent : ~(s.claim = j.claim /\ s.attempt = j.attempt)
  BY <1>2, <1>5
<1>7. Existing(j) = {} /\ NewRow(j) \notin sent
  BY <1>4, <1>6 DEF Existing
<1> QED
  BY <1>1, <1>4, <1>7 DEF j, RowsWith

LEMMA BudgetAdmits ==
  ASSUME RequestInv, NEW n \in Reservation, Admissible(n.evaluation),
         rows' = Retained(rows) \cup {n}, hour' = hour
  PROVE  BudgetKept'
<1>1. Retained(rows) \subseteq rows /\ IsFiniteSet(rows)
  BY DEF Retained, RequestInv, LedgerKept
<1>2. /\ Today(rows)' \subseteq Today(rows) \cup {n}
      /\ \A e : Of(Today(rows)', e) \subseteq Of(Today(rows), e) \cup {n}
      /\ \A e : e # n.evaluation => Of(Today(rows)', e) \subseteq Of(Today(rows), e)
      /\ \A u : Charged(Today(rows)', u) \subseteq Charged(Today(rows), u) \cup {n}
      /\ \A u : u \notin Players[n.evaluation] => Charged(Today(rows)', u) \subseteq Charged(Today(rows), u)
  BY <1>1 DEF Today, Of, Charged
<1>3. /\ IsFiniteSet(Today(rows)) /\ \A e : IsFiniteSet(Of(Today(rows), e))
      /\ \A u : IsFiniteSet(Charged(Today(rows), u))
  <2>1. /\ Today(rows) \in SUBSET rows
        /\ \A e : Of(Today(rows), e) \in SUBSET rows
        /\ \A u : Charged(Today(rows), u) \in SUBSET rows
    BY DEF Today, Of, Charged
  <2> QED
    BY <1>1, <2>1, FS_Subset
<1>4. Cardinality(Today(rows)') <= DayLimit
  BY <1>2, <1>3, OneMoreFits, Limited DEF Admissible
<1>5. ASSUME NEW e \in Evaluations
      PROVE  Cardinality(Of(Today(rows)', e)) <= MatchLimit
  <2>1. CASE e = n.evaluation
    <3>1. Cardinality(Of(Today(rows), e)) < MatchLimit
      BY <2>1 DEF Admissible
    <3> QED
      BY <1>2, <1>3, <3>1, OneMoreFits, Limited
  <2>2. CASE e # n.evaluation
    BY <1>2, <1>3, <2>2, Fewer, Limited DEF RequestInv, BudgetKept
  <2> QED
    BY <2>1, <2>2
<1>6. ASSUME NEW e \in Evaluations, NEW u \in Players[e]
      PROVE  Cardinality(Charged(Today(rows)', u)) <= UserLimit
  <2>1. CASE u \in Players[n.evaluation]
    <3>1. Cardinality(Charged(Today(rows), u)) < UserLimit
      BY <2>1 DEF Admissible
    <3> QED
      BY <1>2, <1>3, <3>1, OneMoreFits, Limited
  <2>2. CASE u \notin Players[n.evaluation]
    BY <1>2, <1>3, <2>2, Fewer, Limited DEF RequestInv, BudgetKept
  <2> QED
    BY <2>1, <2>2
<1> QED
  BY <1>4, <1>5, <1>6 DEF BudgetKept, Of, Charged

(* What a reservation does to the ledger.                                  *)
LEMMA LedgerGrows ==
  ASSUME RequestInv, NEW w \in Workers, job[w].pc = "RESERVE",
         rows' = Retained(rows) \cup {NewRow(job[w])},
         sent' = sent \/ sent' = sent \cup {NewRow(job[w])},
         UNCHANGED <<hour, claims>>
  PROVE  LedgerKept' /\ rows' \subseteq Reservation /\ sent' \subseteq Reservation
<1> DEFINE n == NewRow(job[w])
<1>1. n \in Reservation /\ n.claim = job[w].claim /\ job[w] # Idle
  BY NewRowIsNew
<1>2. n.claim <= claims
  BY <1>1 DEF RequestInv, ClaimsApart
<1> HIDE DEF n
<1>3. Retained(rows) \subseteq rows
  BY DEF Retained
<1>4. IsFiniteSet(rows') /\ IsFiniteSet(sent')
  <2>1. IsFiniteSet(Retained(rows)) /\ IsFiniteSet(sent)
    BY <1>3, FS_Subset DEF RequestInv, LedgerKept
  <2>2. IsFiniteSet(Retained(rows) \cup {n}) /\ IsFiniteSet(sent \cup {n})
    BY <2>1, FS_AddElement
  <2> QED
    BY <2>1, <2>2 DEF n
<1>5. \A s \in sent : s \in Retained(rows) \/ s.at < hour - Retention
  <2>1. \A s \in sent : s.at \in Int /\ hour \in Int /\ Retention \in Int
    BY Limited DEF RequestInv, JobTypes, Reservation
  <2> QED
    BY <2>1 DEF RequestInv, LedgerKept, Retained
<1>6. \A s \in sent' : s \in rows' \/ s.at < hour' - Retention
  BY <1>5
<1>7. \A s \in rows' \cup sent' : s.claim <= claims'
  BY <1>2, <1>3 DEF n, RequestInv, LedgerKept
<1>8. rows' \subseteq Reservation /\ sent' \subseteq Reservation
  BY <1>1, <1>3 DEF n, RequestInv, JobTypes
<1> QED
  BY <1>4, <1>6, <1>7, <1>8 DEF LedgerKept

LEMMA ReserveStep ==
  ASSUME RequestInv, NEW w \in Workers, Reserve(w)
  PROVE  RequestInv'
<1> DEFINE j == job[w]
           n == NewRow(j)
           row == [j EXCEPT !.pc = "CALL"]
<1>1. /\ j.pc = "RESERVE" /\ MayReserve(j) /\ rows' = RowsWith(j)
      /\ sent' = sent \cup (IF Existing(j) = {} THEN {n} ELSE Existing(j))
      /\ job' = [job EXCEPT ![w] = row]
      /\ UNCHANGED <<hour, claims, reports>>
  BY DEF Reserve
<1>2. /\ j \in Job /\ j # Idle /\ Existing(j) = {} /\ n \in Reservation /\ n \notin sent
      /\ n.claim = j.claim /\ n.attempt = j.attempt /\ n.evaluation = j.evaluation
      /\ RowsWith(j) = Retained(rows) \cup {n}
  BY <1>1, NewRowIsNew
<1>3. rows' = Retained(rows) \cup {n} /\ sent' = sent \cup {n} /\ Admissible(n.evaluation)
  BY <1>1, <1>2 DEF MayReserve
<1>4. LedgerKept' /\ rows' \subseteq Reservation /\ sent' \subseteq Reservation
  BY <1>1, <1>3, LedgerGrows
<1>5. BudgetKept'
  BY <1>1, <1>2, <1>3, BudgetAdmits
<1>6. /\ j.attempt \in Int /\ j.attempt >= 1
      /\ Sent(j) = j.attempt - 1
  BY <1>1, <1>2, JobsAreNumbered DEF Sent
<1>7. row \in Job /\ row.pc = "CALL" /\ row.claim = j.claim /\ row.attempt = j.attempt
  BY <1>2 DEF Job
<1>8. row # Idle /\ Sent(row) = j.attempt
  BY <1>7, JobsAreNumbered DEF Sent
<1> HIDE DEF row
<1>9. /\ job' \in [Workers -> Job \cup {Idle}]
      /\ \A v \in Workers : job'[v] = IF v = w THEN row ELSE job[v]
  BY <1>1, <1>7 DEF RequestInv, JobTypes
<1>10. JobTypes'
  BY <1>1, <1>4, <1>7, <1>9 DEF RequestInv, JobTypes
<1>11. ClaimsApart'
  BY <1>1, <1>2, <1>7, <1>9 DEF RequestInv, ClaimsApart
<1>12. \A v \in Workers : v # w /\ job[v] # Idle => job[v].claim # n.claim
  BY <1>2 DEF RequestInv, ClaimsApart
<1>13. \A r \in reports : r.claim # n.claim
  BY <1>2 DEF RequestInv, ClaimsApart
<1>14. Retained(rows) \subseteq rows
  BY DEF Retained
<1> HIDE DEF n, j
<1>15. \A c : c # n.claim => /\ ClaimOf(sent', c) = ClaimOf(sent, c)
                             /\ ClaimOf(rows' \cup sent', c) \subseteq ClaimOf(rows \cup sent, c)
  BY <1>3, <1>14 DEF ClaimOf
<1>16. Cardinality(ClaimOf(sent', n.claim)) = j.attempt
  <2>1. ClaimOf(sent', n.claim) = ClaimOf(sent, n.claim) \cup {n} /\ n \notin ClaimOf(sent, n.claim)
    BY <1>2, <1>3 DEF ClaimOf
  <2>2. IsFiniteSet(ClaimOf(sent, n.claim))
    <3>1. ClaimOf(sent, n.claim) \in SUBSET sent
      BY DEF ClaimOf
    <3> QED
      BY <3>1, FS_Subset DEF RequestInv, LedgerKept
  <2>3. Cardinality(ClaimOf(sent, n.claim)) = j.attempt - 1
    BY <1>2, <1>6 DEF j, RequestInv, Counted
  <2>4. Cardinality(ClaimOf(sent', n.claim)) = Cardinality(ClaimOf(sent, n.claim)) + 1
    BY <2>1, <2>2, FS_AddElement
  <2> QED
    BY <1>6, <2>3, <2>4
<1>17. \A s \in ClaimOf(rows' \cup sent', n.claim) : s.attempt <= j.attempt
  <2>1. \A s \in ClaimOf(rows \cup sent, n.claim) : s.attempt <= j.attempt - 1 /\ s.attempt \in Int
    <3>1. \A s \in ClaimOf(rows \cup sent, n.claim) : s.attempt \in Int
      BY DEF RequestInv, JobTypes, Reservation, ClaimOf
    <3> QED
      BY <1>2, <1>6, <3>1 DEF j, RequestInv, Counted
  <2>2. ClaimOf(rows' \cup sent', n.claim) \subseteq ClaimOf(rows \cup sent, n.claim) \cup {n}
    BY <1>3, <1>14 DEF ClaimOf
  <2>3. n.attempt <= j.attempt
    BY <1>2, <1>6
  <2>4. \A s \in ClaimOf(rows \cup sent, n.claim) : s.attempt <= j.attempt
    BY <1>6, <2>1
  <2> QED
    BY <2>2, <2>3, <2>4
<1>18. Counted'
  <2>1. ASSUME NEW v \in Workers, job'[v] # Idle
        PROVE  /\ Cardinality(ClaimOf(sent', job'[v].claim)) = Sent(job'[v])
               /\ \A s \in ClaimOf(rows' \cup sent', job'[v].claim) : s.attempt <= Sent(job'[v])
    <3>1. CASE v = w
      BY <1>2, <1>7, <1>8, <1>9, <1>16, <1>17, <3>1
    <3>2. CASE v # w
      <4>1. job'[v] = job[v] /\ job[v] # Idle /\ job[v].claim # n.claim
        BY <1>9, <1>12, <2>1, <3>2
      <4>2. /\ Cardinality(ClaimOf(sent, job[v].claim)) = Sent(job[v])
            /\ \A s \in ClaimOf(rows \cup sent, job[v].claim) : s.attempt <= Sent(job[v])
        BY <4>1 DEF RequestInv, Counted
      <4> QED
        BY <1>15, <4>1, <4>2
    <3> QED
      BY <3>1, <3>2
  <2>2. \A r \in reports' : Cardinality(ClaimOf(sent', r.claim)) = r.attempts
    BY <1>1, <1>13, <1>15 DEF RequestInv, Counted
  <2> QED
    BY <2>1, <2>2 DEF Counted, ClaimOf
<1> QED
  BY <1>4, <1>5, <1>10, <1>11, <1>18 DEF RequestInv

(* A claim ends, with a report or without; no more is sent for it.         *)
LEMMA EndKeeps ==
  ASSUME RequestInv, NEW w \in Workers, job[w] # Idle, job' = [job EXCEPT ![w] = Idle],
         UNCHANGED <<hour, claims, sent>>, LedgerKept', BudgetKept', rows' \subseteq Reservation,
         rows' \subseteq rows \cup {NewRow(job[w])},
         NEW code \in Codes,
         \/ reports' = reports
         \/ reports' = reports \cup {[claim |-> job[w].claim, code |-> code, attempts |-> Sent(job[w])]}
  PROVE  RequestInv'
<1> DEFINE rep == [claim |-> job[w].claim, code |-> code, attempts |-> Sent(job[w])]
<1>1. job[w] \in Job
  BY JobOrIdle
<1>2. /\ job[w].claim \in 1 .. MaxClaims /\ Sent(job[w]) \in 0 .. MaxAttempts
      /\ NewRow(job[w]).claim = job[w].claim
  <2>1. job[w].claim \in 1 .. MaxClaims /\ job[w].attempt \in 0 .. MaxAttempts /\ job[w].attempt - 1 \in 0 .. MaxAttempts
    BY <1>1, JobsAreNumbered
  <2> QED
    BY <2>1 DEF Sent, NewRow
<1>3. /\ job' \in [Workers -> Job \cup {Idle}]
      /\ \A v \in Workers : job'[v] = IF v = w THEN Idle ELSE job[v]
  BY DEF RequestInv, JobTypes
<1>4. rep \in [claim : 1 .. MaxClaims, code : Codes, attempts : 0 .. MaxAttempts]
      /\ rep.claim = job[w].claim /\ rep.attempts = Sent(job[w])
  BY <1>2
<1>5. \A r \in reports' : r \in reports \/ r = rep
  OBVIOUS
<1> HIDE DEF rep
<1>6. JobTypes'
  BY <1>3, <1>4, <1>5, IdleHasNoPhase DEF RequestInv, JobTypes
<1>7. ClaimsApart'
  <2>1. \A v \in Workers : job'[v] # Idle => v # w /\ job'[v] = job[v] /\ job[v] # Idle
    BY <1>3
  <2>2. \A v \in Workers : job'[v] # Idle => job'[v].claim # rep.claim
    BY <1>4, <2>1 DEF RequestInv, ClaimsApart
  <2>3. rep.claim <= claims
    BY <1>4 DEF RequestInv, ClaimsApart
  <2>4. \A r \in reports' : r.claim <= claims' /\ \A v \in Workers : job'[v] # Idle => job'[v].claim # r.claim
    BY <1>5, <2>1, <2>2, <2>3 DEF RequestInv, ClaimsApart
  <2>5. \A v \in Workers : job'[v] # Idle => job'[v].claim <= claims'
    BY <2>1 DEF RequestInv, ClaimsApart
  <2>6. \A u, v \in Workers : u # v /\ job'[u] # Idle /\ job'[v] # Idle => job'[u].claim # job'[v].claim
    BY <2>1 DEF RequestInv, ClaimsApart
  <2> QED
    BY <2>4, <2>5, <2>6 DEF ClaimsApart
<1>8. Counted'
  <2>1. ASSUME NEW v \in Workers, job'[v] # Idle
        PROVE  /\ Cardinality(ClaimOf(sent, job'[v].claim)) = Sent(job'[v])
               /\ \A s \in ClaimOf(rows' \cup sent, job'[v].claim) : s.attempt <= Sent(job'[v])
    <3>1. v # w /\ job'[v] = job[v] /\ job[v] # Idle
      BY <1>3, <2>1
    <3>2. job[v].claim # NewRow(job[w]).claim
      BY <1>2, <3>1 DEF RequestInv, ClaimsApart
    <3>3. ClaimOf(rows' \cup sent, job[v].claim) \subseteq ClaimOf(rows \cup sent, job[v].claim)
      BY <3>2 DEF ClaimOf
    <3> QED
      BY <3>1, <3>3 DEF RequestInv, Counted
  <2>2. Cardinality(ClaimOf(sent, rep.claim)) = rep.attempts
    BY <1>4 DEF RequestInv, Counted
  <2>3. \A r \in reports' : Cardinality(ClaimOf(sent, r.claim)) = r.attempts
    BY <1>5, <2>2 DEF RequestInv, Counted
  <2> QED
    BY <2>1, <2>3 DEF Counted, ClaimOf
<1> QED
  BY <1>6, <1>7, <1>8 DEF RequestInv

LEMMA ReserveThrowsStep ==
  ASSUME RequestInv, NEW w \in Workers, ReserveThrows(w)
  PROVE  RequestInv'
<1>1. /\ job[w].pc = "RESERVE" /\ job' = [job EXCEPT ![w] = Idle]
      /\ rows' \in {rows} \cup (IF MayReserve(job[w]) THEN {RowsWith(job[w])} ELSE {})
      /\ reports' = reports \cup {[claim |-> job[w].claim, code |-> "BUDGET", attempts |-> Made(job[w])]}
      /\ UNCHANGED <<hour, claims, sent>>
  BY DEF ReserveThrows, Return
<1>2. /\ job[w] # Idle /\ Existing(job[w]) = {}
      /\ RowsWith(job[w]) = Retained(rows) \cup {NewRow(job[w])}
      /\ NewRow(job[w]) \in Reservation /\ NewRow(job[w]).evaluation = job[w].evaluation
  BY <1>1, NewRowIsNew
<1>3. Made(job[w]) = Sent(job[w])
  BY <1>1 DEF Made, Sent
<1>4. /\ LedgerKept' /\ BudgetKept' /\ rows' \subseteq Reservation
      /\ rows' \subseteq rows \cup {NewRow(job[w])}
  <2>1. CASE rows' = rows
    <3>1. LedgerKept' /\ rows' \subseteq Reservation
      BY <1>1, <2>1 DEF RequestInv, LedgerKept, JobTypes
    <3>2. BudgetKept'
      BY <1>1, <2>1, BudgetShrinks DEF RequestInv, JobTypes
    <3> QED
      BY <2>1, <3>1, <3>2
  <2>2. CASE MayReserve(job[w]) /\ rows' = RowsWith(job[w])
    <3>1. rows' = Retained(rows) \cup {NewRow(job[w])} /\ Admissible(NewRow(job[w]).evaluation)
      BY <1>2, <2>2 DEF MayReserve
    <3>2. LedgerKept' /\ rows' \subseteq Reservation
      BY <1>1, <3>1, LedgerGrows
    <3>3. BudgetKept'
      BY <1>1, <1>2, <3>1, BudgetAdmits
    <3>4. Retained(rows) \subseteq rows
      BY DEF Retained
    <3> QED
      BY <3>1, <3>2, <3>3, <3>4
  <2> QED
    BY <1>1, <2>1, <2>2
<1>5. "BUDGET" \in Codes
  BY DEF Codes
<1> QED
  BY <1>1, <1>2, <1>3, <1>4, <1>5, EndKeeps

LEMMA NothingReserved ==
  ASSUME RequestInv, UNCHANGED <<hour, claims, rows, sent>>
  PROVE  LedgerKept' /\ BudgetKept' /\ rows' \subseteq Reservation
<1>1. LedgerKept' /\ rows' \subseteq Reservation
  BY DEF RequestInv, LedgerKept, JobTypes
<1>2. BudgetKept'
  BY BudgetShrinks DEF RequestInv, JobTypes
<1> QED
  BY <1>1, <1>2

LEMMA DieStep ==
  ASSUME RequestInv, NEW w \in Workers, Die(w)
  PROVE  RequestInv'
<1>1. /\ job[w] # Idle /\ job' = [job EXCEPT ![w] = Idle]
      /\ UNCHANGED <<hour, claims, rows, sent, reports>>
  BY DEF Die
<1>2. LedgerKept' /\ BudgetKept' /\ rows' \subseteq Reservation
  BY <1>1, NothingReserved
<1>3. "FINAL" \in Codes
  BY DEF Codes
<1> QED
  BY <1>1, <1>2, <1>3, EndKeeps

(* A job goes on to its next phase with what it has sent.                  *)
LEMMA NextPhaseKeeps ==
  ASSUME RequestInv, NEW w \in Workers, job[w] \in Job, NEW row \in Job,
         row.claim = job[w].claim, Sent(row) = Sent(job[w]),
         row.pc = "SLEEP" => row.attempt < MaxAttempts,
         job' = [job EXCEPT ![w] = row], UNCHANGED <<hour, claims, rows, sent, reports>>
  PROVE  RequestInv'
<1>1. /\ job' \in [Workers -> Job \cup {Idle}]
      /\ \A v \in Workers : job'[v] = IF v = w THEN row ELSE job[v]
  BY DEF RequestInv, JobTypes
<1>2. job[w] # Idle /\ row # Idle
  BY JobsAreNumbered
<1>3. JobTypes'
  BY <1>1 DEF RequestInv, JobTypes
<1>4. LedgerKept' /\ BudgetKept'
  BY NothingReserved
<1>5. ClaimsApart'
  BY <1>1, <1>2 DEF RequestInv, ClaimsApart
<1>6. ASSUME NEW v \in Workers, job'[v] # Idle
      PROVE  /\ Cardinality(ClaimOf(sent, job'[v].claim)) = Sent(job'[v])
             /\ \A s \in ClaimOf(rows \cup sent, job'[v].claim) : s.attempt <= Sent(job'[v])
  <2>1. CASE v = w
    <3>1. job'[v].claim = job[w].claim /\ Sent(job'[v]) = Sent(job[w])
      BY <1>1, <2>1
    <3> QED
      BY <1>2, <3>1 DEF RequestInv, Counted
  <2>2. CASE v # w
    <3>1. job'[v] = job[v]
      BY <1>1, <2>2
    <3> QED
      BY <1>6, <3>1 DEF RequestInv, Counted
  <2> QED
    BY <2>1, <2>2
<1>7. Counted'
  <2>1. \A r \in reports' : Cardinality(ClaimOf(sent', r.claim)) = r.attempts
    BY DEF RequestInv, Counted
  <2>2. sent' = sent /\ rows' = rows
    OBVIOUS
  <2> QED
    BY <1>6, <2>1, <2>2 DEF Counted
<1> QED
  BY <1>3, <1>4, <1>5, <1>7 DEF RequestInv

LEMMA AnswerStep ==
  ASSUME RequestInv, NEW w \in Workers, NEW code \in Codes, Answer(w, code)
  PROVE  RequestInv'
<1>1. job[w].pc = "CALL" /\ UNCHANGED <<hour, claims, rows, sent>>
  BY DEF Answer
<1>2. job[w] \in Job /\ job[w] # Idle /\ Sent(job[w]) = job[w].attempt
  BY <1>1, JobOrIdle DEF Sent
<1>3. CASE code = "SUCCESS" \/ GivesUp(job[w], code)
  <2>1. /\ job' = [job EXCEPT ![w] = Idle]
        /\ reports' = reports \cup {[claim |-> job[w].claim, code |-> code, attempts |-> job[w].attempt]}
    BY <1>3 DEF Answer, Return
  <2>2. LedgerKept' /\ BudgetKept' /\ rows' \subseteq Reservation
    BY <1>1, NothingReserved
  <2> QED
    BY <1>1, <1>2, <2>1, <2>2, EndKeeps
<1>4. CASE ~(code = "SUCCESS" \/ GivesUp(job[w], code))
  <2> DEFINE row == [job[w] EXCEPT !.pc = "SLEEP"]
  <2>1. job' = [job EXCEPT ![w] = row] /\ reports' = reports
    BY <1>4 DEF Answer
  <2>2. row \in Job /\ row.claim = job[w].claim /\ row.pc = "SLEEP" /\ row.attempt = job[w].attempt
    BY <1>2 DEF Job
  <2>3. Sent(row) = Sent(job[w])
    BY <1>2, <2>2 DEF Sent
  <2>4. row.attempt < MaxAttempts
    <3>1. job[w].attempt \in 1 .. MaxAttempts /\ MaxAttempts \in Nat
      BY <1>2, JobsAreNumbered, Limited
    <3>2. job[w].attempt # MaxAttempts
      BY <1>4 DEF GivesUp
    <3> QED
      BY <2>2, <3>1, <3>2
  <2> HIDE DEF row
  <2> QED
    BY <1>1, <1>2, <2>1, <2>2, <2>3, <2>4, NextPhaseKeeps
<1> QED
  BY <1>3, <1>4

LEMMA WakeStep ==
  ASSUME RequestInv, NEW w \in Workers, Wake(w)
  PROVE  RequestInv'
<1> DEFINE j == job[w]
           row == [pc |-> "RESERVE", evaluation |-> j.evaluation, claim |-> j.claim, attempt |-> j.attempt + 1]
<1>1. /\ j.pc = "SLEEP" /\ UNCHANGED <<hour, claims, rows, sent, reports>>
      /\ job' = [job EXCEPT ![w].pc = "RESERVE", ![w].attempt = Following(@)]
  BY DEF Wake
<1>2. j \in Job /\ j.attempt < MaxAttempts
  BY <1>1, JobOrIdle DEF RequestInv, JobTypes
<1>3. /\ j.evaluation \in Evaluations /\ j.claim \in 1 .. MaxClaims /\ j.attempt \in Int /\ j.attempt >= 1
      /\ MaxAttempts \in Nat
  BY <1>2, JobsAreNumbered, Limited
<1>4. row \in Job /\ row.claim = j.claim /\ row.pc = "RESERVE" /\ row.attempt = j.attempt + 1
  <2>1. j.attempt + 1 \in 1 .. MaxAttempts
    BY <1>2, <1>3
  <2> QED
    BY <1>3, <2>1 DEF Job
<1>5. Sent(row) = Sent(j)
  BY <1>1, <1>3, <1>4 DEF Sent
<1>6. job' = [job EXCEPT ![w] = row]
  <2>1. [j EXCEPT !.pc = "RESERVE", !.attempt = j.attempt + 1] = row
    <3> DEFINE a == [j EXCEPT !.pc = "RESERVE"]
    <3>1. a \in Job /\ a = [pc |-> "RESERVE", evaluation |-> j.evaluation, claim |-> j.claim, attempt |-> j.attempt]
      BY <1>2 DEF Job
    <3>2. [j EXCEPT !.pc = "RESERVE", !.attempt = j.attempt + 1] = [a EXCEPT !.attempt = j.attempt + 1]
      OBVIOUS
    <3> HIDE DEF a
    <3>3. [a EXCEPT !.attempt = j.attempt + 1] = row
      BY <3>1 DEF Job
    <3> QED
      BY <3>2, <3>3
  <2>2. job' = [job EXCEPT ![w] = [j EXCEPT !.pc = "RESERVE", !.attempt = j.attempt + 1]]
    BY <1>1 DEF RequestInv, JobTypes, Following
  <2> QED
    BY <2>1, <2>2
<1> HIDE DEF row
<1> QED
  BY <1>1, <1>2, <1>4, <1>5, <1>6, NextPhaseKeeps

LEMMA RequestsKept ==
  ASSUME RequestInv, [JudgeNext]_judgeVars
  PROVE  RequestInv'
<1>1. ASSUME NEW w \in Workers, Proceeds(w)
      PROVE  RequestInv'
  <2>1. \A code \in Codes \ {"BUDGET"} : code \in Codes
    OBVIOUS
  <2> QED
    BY <1>1, <2>1, ReserveStep, ReserveThrowsStep, WakeStep, AnswerStep DEF Proceeds
<1>2. ASSUME NEW w \in Workers, Die(w)
      PROVE  RequestInv'
  BY <1>2, DieStep
<1>3. ASSUME NEW w \in Workers, NEW e \in Evaluations, Claim(w, e)
      PROVE  RequestInv'
  BY <1>3, ClaimStep
<1>4. CASE PurgeReservations \/ HourPasses
  BY <1>4, PurgeStep
<1>5. CASE UNCHANGED judgeVars
  <2>1. UNCHANGED <<hour, claims, rows, job, sent, reports>>
    BY <1>5 DEF judgeVars
  <2> QED
    BY <2>1, NothingReserved DEF RequestInv, JobTypes, ClaimsApart, Counted, ClaimOf
<1> QED
  BY <1>1, <1>2, <1>3, <1>4, <1>5 DEF JudgeNext

(* For any number of workers and evaluations: in no day are more requests  *)
(* sent than the limits allow, however often workers die and although rows *)
(* are purged (request-budget.ts:86); and what is reported of a claim's    *)
(* attempts is what was sent for it (openai-judge.ts:333).                 *)
THEOREM RequestsAreLimited == JudgeSpec => []JudgeInv
<1>1. JudgeInit => RequestInv
  BY RequestsInitially
<1>2. RequestInv /\ [JudgeNext]_judgeVars => RequestInv'
  BY RequestsKept
<1>3. RequestInv => JudgeInv
  <2> SUFFICES ASSUME RequestInv PROVE JudgeInv
    OBVIOUS
  <2>1. JudgeTypeOK
    BY JobOrIdle DEF RequestInv, JobTypes, JudgeTypeOK
  <2>2. Today(sent) \subseteq Today(rows)
    <3>1. \A s \in sent : s.at \in Int /\ hour \in Int /\ Day \in Int /\ Retention \in Int /\ Day <= Retention
      BY Limited DEF RequestInv, JobTypes, Reservation
    <3> QED
      BY <3>1 DEF RequestInv, LedgerKept, Today
  <2>3. WithinBudget
    <3>1. /\ IsFiniteSet(Today(rows)) /\ \A e : IsFiniteSet(Of(Today(rows), e))
          /\ \A u : IsFiniteSet(Charged(Today(rows), u))
      <4>1. /\ Today(rows) \in SUBSET rows
            /\ \A e : Of(Today(rows), e) \in SUBSET rows
            /\ \A u : Charged(Today(rows), u) \in SUBSET rows
        BY DEF Today, Of, Charged
      <4> QED
        BY <4>1, FS_Subset DEF RequestInv, LedgerKept
    <3>2. /\ \A e : Of(Today(sent), e) \subseteq Of(Today(rows), e)
          /\ \A u : Charged(Today(sent), u) \subseteq Charged(Today(rows), u)
      BY <2>2 DEF Of, Charged
    <3>3. Cardinality(Today(sent)) <= DayLimit
      BY <2>2, <3>1, Fewer, Limited DEF RequestInv, BudgetKept
    <3>4. \A e \in Evaluations : Cardinality(Of(Today(sent), e)) <= MatchLimit
      BY <3>1, <3>2, Fewer, Limited DEF RequestInv, BudgetKept
    <3>5. \A e \in Evaluations : \A u \in Players[e] : Cardinality(Charged(Today(sent), u)) <= UserLimit
      BY <3>1, <3>2, Fewer, Limited DEF RequestInv, BudgetKept
    <3> QED
      BY <3>3, <3>4, <3>5 DEF WithinBudget
  <2>4. AttemptsAreReported
    BY DEF RequestInv, Counted, ClaimOf, AttemptsAreReported
  <2> QED
    BY <2>1, <2>3, <2>4 DEF JudgeInv
<1> QED
  BY <1>1, <1>2, <1>3, PTL DEF JudgeSpec

===============================================================================
