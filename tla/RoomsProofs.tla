----------------------------- MODULE RoomsProofs -----------------------------
(***************************************************************************)
(* What holds of a duel room for every number of users, tabs, keys,        *)
(* problems and rounds.                                                    *)
(*                                                                         *)
(* Every step of the room changes its rows in one of eight ways (RowStep), *)
(* and it sends, advances or ends at most one request.  The invariants of  *)
(* the rows are proved against RowStep, those of the requests against the  *)
(* actions.                                                                *)
(***************************************************************************)
EXTENDS Rooms, SequenceTheorems, FiniteSetTheorems, TLAPS

-----------------------------------------------------------------------------
(* The ways in which a step changes the rows of the room.                  *)

SameRows == UNCHANGED <<seats, active, closed, rounds>>

(* Only round r is written, and it is a row again.                         *)
Writes(r) ==
  /\ r \in DOMAIN rounds
  /\ rounds' \in Seq(RoundRow) /\ Len(rounds') = Len(rounds)
  /\ \A i \in DOMAIN rounds : i # r => rounds'[i] = rounds[i]

KeepsChain(r) == rounds'[r].votes = rounds[r].votes /\ rounds'[r].next = rounds[r].next
KeepsState(r) == rounds'[r].state = rounds[r].state /\ rounds'[r].problem = rounds[r].problem

TakesSeat(u) ==
  /\ u \in Users /\ u \notin Seated /\ ~closed /\ Len(seats) < 2
  /\ seats' = Append(seats, u)
  /\ Writes(active) /\ KeepsChain(active) /\ KeepsState(active)
  /\ rounds'[active].players = rounds[active].players \cup {u}
  /\ rounds'[active].settled = rounds[active].settled
  /\ rounds'[active].window = rounds[active].window
  /\ UNCHANGED <<active, closed>>

Cancels(r) ==
  /\ Writes(r) /\ KeepsChain(r)
  /\ rounds[r].state = "LOBBY" /\ rounds'[r].state = "FINISHED"
  /\ rounds'[r].players = rounds[r].players /\ rounds'[r].settled = rounds[r].players
  /\ rounds'[r].problem = rounds[r].problem
  /\ closed' = TRUE /\ UNCHANGED <<seats, active>>

Votes(u, r) ==
  /\ Writes(r) /\ KeepsState(r)
  /\ u \in rounds[r].players
  /\ rounds[r].state = "REMATCH_PENDING" /\ rounds[r].next = 0
  /\ rounds'[r].votes = rounds[r].votes \cup {u} /\ rounds'[r].next = 0
  /\ rounds'[r].players = rounds[r].players /\ rounds'[r].settled = rounds[r].settled
  /\ UNCHANGED <<seats, active, closed>>

OpensNext(u, r) ==
  /\ r \in DOMAIN rounds /\ u \in rounds[r].players /\ CompletesVote(u, r)
  /\ rounds' \in Seq(RoundRow) /\ Len(rounds') = Len(rounds) + 1
  /\ \A i \in DOMAIN rounds : i # r => rounds'[i] = rounds[i]
  /\ KeepsState(r)
  /\ rounds'[r].votes = rounds[r].votes \cup {u} /\ rounds'[r].next = r + 1
  /\ rounds'[r].players = rounds[r].players /\ rounds'[r].settled = rounds[r].settled
  /\ rounds'[Len(rounds) + 1] = NewRound(Seated)
  /\ active' = r + 1 /\ UNCHANGED <<seats, closed>>

Begins(r) ==
  /\ Writes(r) /\ KeepsChain(r)
  /\ rounds[r].state = "LOBBY" /\ rounds'[r].state = "PLAYING"
  /\ rounds'[r].problem \in Candidates
  /\ rounds'[r].players = rounds[r].players /\ rounds'[r].settled = rounds[r].settled
  /\ UNCHANGED <<seats, active, closed>>

Ends(r) ==
  /\ Writes(r) /\ KeepsChain(r)
  /\ rounds[r].state = "PLAYING" /\ rounds'[r].state = "REMATCH_PENDING"
  /\ rounds'[r].problem = rounds[r].problem
  /\ rounds'[r].players = rounds[r].players /\ rounds'[r].settled = rounds[r].players
  /\ UNCHANGED <<seats, active, closed>>

Closes(r) ==
  /\ Writes(r) /\ KeepsChain(r) /\ KeepsState(r)
  /\ rounds'[r].players = rounds[r].players /\ rounds'[r].settled = rounds[r].settled
  /\ UNCHANGED <<seats, active, closed>>

RowStep ==
  \/ SameRows
  \/ \E u \in Users : TakesSeat(u)
  \/ \E r \in DOMAIN rounds :
       \/ Cancels(r) \/ Begins(r) \/ Ends(r) \/ Closes(r)
       \/ \E u \in Users : Votes(u, r) \/ OpensNext(u, r)

(* What a request names exists, and who votes played.                      *)
Sensible(t, request) ==
  /\ request.round \in DOMAIN rounds
  /\ request.kind \in {"JOIN", "REMATCH", "CANCEL"} => request.key \in Keys
  /\ request.kind = "REMATCH" => Who[t] \in rounds[request.round].players

RequestsMakeSense == \A t \in Tabs : Busy(t) => Sensible(t, tx[t])

(* One member or two, the host among them.                                 *)
SeatsAreFew ==
  /\ Len(seats) <= 2 /\ Host \in Seated
  /\ IsFiniteSet(Seated) /\ Cardinality(Seated) = Len(seats)

(* What the chain of rounds rests on.                                      *)
ChainHolds ==
  /\ Len(rounds) >= 1
  /\ RoundsAreOneChain
  /\ \A r \in DOMAIN rounds :
       /\ rounds[r].players \subseteq Seated /\ rounds[r].votes \subseteq Seated
       /\ rounds[r].next # 0 => rounds[r].state = "REMATCH_PENDING"

(* A round has a problem once it has begun.                                *)
ProblemsAreDrawn ==
  \A r \in DOMAIN rounds :
    rounds[r].problem = NoProblem <=> rounds[r].state \in {"LOBBY", "FINISHED"}

CancelledIsClosed ==
  \A r \in DOMAIN rounds : rounds[r].state = "FINISHED" => closed

(* What a command of kind, for round r, has done for u.                    *)
PromiseKept(u, kind, r) ==
  /\ kind = "JOIN" => u \in Seated
  /\ kind = "CANCEL" => closed
  /\ kind = "REMATCH" => r \in DOMAIN rounds /\ u \in rounds[r].votes

Commands == {"JOIN", "REMATCH", "CANCEL"}

(* A receipt promises what its command did.                                *)
ReceiptsAreTrue ==
  \A u \in Users, k \in Keys :
    LET receipt == receipts[<<u, k>>] IN
    /\ receipt.kind \in Commands \cup {"NONE"}
    /\ receipt.kind # "NONE" => receipt.reply \in Nat
    /\ PromiseKept(u, receipt.kind, receipt.round)

RowInv ==
  /\ TypeOK /\ RequestsMakeSense
  /\ SeatsAreFew /\ ChainHolds /\ ProblemsAreDrawn /\ CancelledIsClosed
  /\ NobodyEntersCancelledRound /\ ProblemsTakeTurns
  /\ ReceiptsAreTrue /\ AnswersHold

-----------------------------------------------------------------------------
(* Sequences and sets.                                                     *)

LEMMA OneRowWritten ==
  ASSUME rounds \in Seq(RoundRow), NEW r \in DOMAIN rounds, NEW row \in RoundRow,
         rounds' = [rounds EXCEPT ![r] = row]
  PROVE  Writes(r) /\ rounds'[r] = row
<1>1. DOMAIN rounds = 1 .. Len(rounds)
  BY LenProperties
<1> QED
  BY <1>1, ExceptSeq DEF Writes

LEMMA RoundsAreRows ==
  ASSUME TypeOK
  PROVE  /\ Len(rounds) \in Nat /\ DOMAIN rounds = 1 .. Len(rounds)
         /\ \A r \in DOMAIN rounds : rounds[r] \in RoundRow
  BY LenProperties, ElementOfSeq DEF TypeOK

(* Two different members of a room are all its members.                    *)
LEMMA PairIsAll ==
  ASSUME TypeOK, SeatsAreFew, NEW X, X \subseteq Seated, Cardinality(X) = 2
  PROVE  X = Seated /\ Cardinality(Seated) = 2
<1>1. Len(seats) \in Nat
  BY LenProperties DEF TypeOK
<1>2. Cardinality(X) <= Cardinality(Seated) /\ (Cardinality(Seated) = Cardinality(X) => Seated = X)
  BY FS_Subset DEF SeatsAreFew
<1> QED
  BY <1>1, <1>2 DEF SeatsAreFew
-----------------------------------------------------------------------------
(* Every step is one of the eight.                                         *)

LEMMA JoinIsARowStep ==
  ASSUME RoomAssumption, TypeOK, RequestsMakeSense, ChainHolds, NEW t \in Tabs, CommitJoin(t)
  PROVE  RowStep
<1> DEFINE u == Who[t]
<1>1. u \in Users
  BY DEF RoomAssumption
<1>2. active \in DOMAIN rounds /\ rounds[active] \in RoundRow
  BY RoundsAreRows DEF ChainHolds, RoundsAreOneChain
<1>3. CASE Reject(t) \/ AnswerRepeat(t, active, active) \/ UNCHANGED <<seats, rounds, active, closed>>
  BY <1>3 DEF Reject, AnswerRepeat, RowStep, SameRows
<1>4. CASE /\ ~closed /\ u \notin Seated /\ Len(seats) < 2
           /\ seats' = Append(seats, u)
           /\ rounds' = [rounds EXCEPT ![active].players = @ \cup {u}]
           /\ UNCHANGED <<active, closed>>
  <2> DEFINE row == [rounds[active] EXCEPT !.players = @ \cup {u}]
  <2>1. /\ row \in RoundRow
        /\ row.players = rounds[active].players \cup {u}
        /\ row.settled = rounds[active].settled /\ row.window = rounds[active].window
        /\ row.votes = rounds[active].votes /\ row.next = rounds[active].next
        /\ row.state = rounds[active].state /\ row.problem = rounds[active].problem
    BY <1>1, <1>2 DEF RoundRow
  <2>2. rounds' = [rounds EXCEPT ![active] = row]
    BY <1>4
  <2> HIDE DEF row
  <2>3. Writes(active) /\ rounds'[active] = row
    BY <1>2, <2>1, <2>2, OneRowWritten DEF TypeOK
  <2>4. TakesSeat(u)
    BY <1>1, <1>4, <2>1, <2>3 DEF TakesSeat, KeepsChain, KeepsState
  <2> QED
    BY <1>1, <2>4 DEF RowStep
<1> QED
  BY <1>3, <1>4 DEF CommitJoin, MayEnter

LEMMA CancelIsARowStep ==
  ASSUME RoomAssumption, TypeOK, RequestsMakeSense, ChainHolds, NEW t \in Tabs, CommitCancel(t)
  PROVE  RowStep
<1> DEFINE r == tx[t].round
<1>1. r \in DOMAIN rounds /\ rounds[r] \in RoundRow
  BY RoundsAreRows DEF RequestsMakeSense, Sensible, CommitCancel, Busy
<1>2. CASE Reject(t) \/ AnswerRepeat(t, r, r)
  BY <1>2 DEF Reject, AnswerRepeat, RowStep, SameRows
<1>3. CASE /\ rounds[r].state = "LOBBY"
           /\ rounds' = [rounds EXCEPT ![r].state = "FINISHED", ![r].settled = rounds[r].players]
           /\ closed' = TRUE /\ UNCHANGED <<seats, active>>
  <2> DEFINE row == [rounds[r] EXCEPT !.state = "FINISHED", !.settled = rounds[r].players]
  <2>1. /\ row \in RoundRow
        /\ row.players = rounds[r].players /\ row.settled = rounds[r].players
        /\ row.votes = rounds[r].votes /\ row.next = rounds[r].next
        /\ row.state = "FINISHED" /\ row.problem = rounds[r].problem
    BY <1>1 DEF RoundRow, RoundState
  <2>2. rounds' = [rounds EXCEPT ![r] = row]
    BY <1>1, <1>3
  <2> HIDE DEF row
  <2>3. Writes(r) /\ rounds'[r] = row
    BY <1>1, <2>1, <2>2, OneRowWritten DEF TypeOK
  <2>4. Cancels(r)
    BY <1>3, <2>1, <2>3 DEF Cancels, KeepsChain
  <2> QED
    BY <1>1, <2>4 DEF RowStep
<1> QED
  BY <1>2, <1>3 DEF CommitCancel

LEMMA VoteIsCounted ==
  ASSUME TypeOK, NEW r \in DOMAIN rounds, NEW u \in Users, u \in rounds[r].players,
         OpenForVotes(r), rounds[r].next = 0,
         rounds' = [rounds EXCEPT ![r].votes = @ \cup {u}],
         UNCHANGED <<seats, active, closed>>
  PROVE  Votes(u, r)
<1>1. rounds[r] \in RoundRow
  BY RoundsAreRows
<1> DEFINE row == [rounds[r] EXCEPT !.votes = @ \cup {u}]
<1>2. /\ row \in RoundRow
      /\ row.players = rounds[r].players /\ row.settled = rounds[r].settled
      /\ row.votes = rounds[r].votes \cup {u} /\ row.next = rounds[r].next
      /\ row.state = rounds[r].state /\ row.problem = rounds[r].problem
  BY <1>1 DEF RoundRow
<1>3. rounds' = [rounds EXCEPT ![r] = row]
  OBVIOUS
<1> HIDE DEF row
<1>4. Writes(r) /\ rounds'[r] = row
  BY <1>2, <1>3, OneRowWritten DEF TypeOK
<1> QED
  BY <1>2, <1>4 DEF Votes, KeepsState, OpenForVotes

LEMMA PairOpensNext ==
  ASSUME TypeOK, NEW r \in DOMAIN rounds, NEW u \in Users, u \in rounds[r].players,
         CompletesVote(u, r),
         rounds' = Append([rounds EXCEPT ![r].votes = @ \cup {u}, ![r].next = r + 1],
                          NewRound(NextPlayers(r))),
         active' = r + 1, UNCHANGED <<seats, closed>>
  PROVE  OpensNext(u, r)
<1>1. /\ rounds[r] \in RoundRow /\ r \in Nat /\ Len(rounds) \in Nat
      /\ DOMAIN rounds = 1 .. Len(rounds)
  BY RoundsAreRows
<1> DEFINE row  == [rounds[r] EXCEPT !.votes = @ \cup {u}, !.next = r + 1]
           then == [rounds EXCEPT ![r] = row]
           new  == NewRound(Seated)
<1>2. rounds[r].votes \cup {u} \in SUBSET Users /\ r + 1 \in Nat
  BY <1>1 DEF RoundRow
<1>3. /\ row.players = rounds[r].players /\ row.settled = rounds[r].settled
      /\ row.votes = rounds[r].votes \cup {u} /\ row.next = r + 1
      /\ row.state = rounds[r].state /\ row.problem = rounds[r].problem
  BY <1>1 DEF RoundRow
<1>4. row \in RoundRow
  BY <1>1, <1>2 DEF RoundRow
<1>5. rounds' = Append(then, new)
  BY <1>1 DEF NextPlayers
<1>6. Seated \subseteq Users
  BY LenProperties, ElementOfSeq DEF Seated, TypeOK
<1>7. new \in RoundRow
  BY <1>6 DEF NewRound, RoundRow, RoundState
<1> HIDE DEF row
<1>8. /\ then \in Seq(RoundRow) /\ Len(then) = Len(rounds)
      /\ \A i \in 1 .. Len(rounds) : then[i] = IF i = r THEN row ELSE rounds[i]
  BY <1>1, <1>4, ExceptSeq DEF TypeOK
<1> HIDE DEF then, new
<1>9. /\ Append(then, new) \in Seq(RoundRow)
      /\ Len(Append(then, new)) = Len(then) + 1
      /\ \A i \in 1 .. Len(then) : Append(then, new)[i] = then[i]
      /\ Append(then, new)[Len(then) + 1] = new
  BY <1>7, <1>8, AppendProperties
<1> QED
  BY <1>1, <1>3, <1>5, <1>8, <1>9 DEF OpensNext, KeepsState, new

LEMMA RematchIsARowStep ==
  ASSUME RoomAssumption, TypeOK, RequestsMakeSense, ChainHolds, NEW t \in Tabs, CommitRematch(t)
  PROVE  RowStep
<1> DEFINE r == tx[t].round
           u == Who[t]
<1>1. r \in DOMAIN rounds /\ u \in Users /\ u \in rounds[r].players
  BY DEF RoomAssumption, RequestsMakeSense, Sensible, CommitRematch, Busy
<1>2. CASE Reject(t) \/ AnswerRepeat(t, r, RepeatTarget(t, r)) \/ UNCHANGED <<seats, rounds, active, closed>>
  BY <1>2 DEF Reject, AnswerRepeat, RowStep, SameRows
<1>3. CASE /\ OpenForVotes(r) /\ rounds[r].next = 0
           /\ rounds' = [rounds EXCEPT ![r].votes = @ \cup {u}]
           /\ UNCHANGED <<seats, active, closed>>
  BY <1>1, <1>3, VoteIsCounted DEF RowStep
<1>4. CASE /\ CompletesVote(u, r)
           /\ rounds' = Append([rounds EXCEPT ![r].votes = @ \cup {u}, ![r].next = r + 1],
                               NewRound(NextPlayers(r)))
           /\ active' = r + 1 /\ UNCHANGED <<seats, closed>>
  BY <1>1, <1>4, PairOpensNext DEF RowStep
<1> QED
  BY <1>2, <1>3, <1>4 DEF CommitRematch

LEMMA RoundIsARowStep ==
  ASSUME RoomAssumption, TypeOK, NEW r \in Rounds,
         BeginRound(r) \/ EndRound(r) \/ WindowCloses(r)
  PROVE  RowStep
<1>1. r \in DOMAIN rounds /\ rounds[r] \in RoundRow
  BY RoundsAreRows DEF BeginRound, EndRound, WindowCloses
<1>2. CASE BeginRound(r)
  <2>1. PICK p \in Candidates : rounds' = [rounds EXCEPT ![r].state = "PLAYING", ![r].problem = p]
    BY <1>2 DEF BeginRound
  <2> DEFINE row == [rounds[r] EXCEPT !.state = "PLAYING", !.problem = p]
  <2>2. p \in Problems
    BY <2>1 DEF Candidates
  <2>3. /\ row \in RoundRow
        /\ row.players = rounds[r].players /\ row.settled = rounds[r].settled
        /\ row.votes = rounds[r].votes /\ row.next = rounds[r].next
        /\ row.state = "PLAYING" /\ row.problem = p
    BY <1>1, <2>2 DEF RoundRow, RoundState
  <2>4. rounds' = [rounds EXCEPT ![r] = row]
    BY <1>1, <2>1
  <2> HIDE DEF row
  <2>5. Writes(r) /\ rounds'[r] = row
    BY <1>1, <2>3, <2>4, OneRowWritten DEF TypeOK
  <2>6. Begins(r)
    BY <1>2, <2>1, <2>3, <2>5 DEF Begins, BeginRound, KeepsChain
  <2> QED
    BY <1>1, <2>6 DEF RowStep
<1>3. CASE EndRound(r)
  <2> DEFINE row == [rounds[r] EXCEPT !.state = "REMATCH_PENDING", !.window = TRUE,
                                      !.settled = rounds[r].players]
  <2>1. /\ row \in RoundRow
        /\ row.players = rounds[r].players /\ row.settled = rounds[r].players
        /\ row.votes = rounds[r].votes /\ row.next = rounds[r].next
        /\ row.state = "REMATCH_PENDING" /\ row.problem = rounds[r].problem
    BY <1>1 DEF RoundRow, RoundState
  <2>2. rounds' = [rounds EXCEPT ![r] = row]
    BY <1>1, <1>3 DEF EndRound
  <2> HIDE DEF row
  <2>3. Writes(r) /\ rounds'[r] = row
    BY <1>1, <2>1, <2>2, OneRowWritten DEF TypeOK
  <2>4. Ends(r)
    BY <1>3, <2>1, <2>3 DEF Ends, EndRound, KeepsChain
  <2> QED
    BY <1>1, <2>4 DEF RowStep
<1>4. CASE WindowCloses(r)
  <2> DEFINE row == [rounds[r] EXCEPT !.window = FALSE]
  <2>1. /\ row \in RoundRow
        /\ row.players = rounds[r].players /\ row.settled = rounds[r].settled
        /\ row.votes = rounds[r].votes /\ row.next = rounds[r].next
        /\ row.state = rounds[r].state /\ row.problem = rounds[r].problem
    BY <1>1 DEF RoundRow
  <2>2. rounds' = [rounds EXCEPT ![r] = row]
    BY <1>1, <1>4 DEF WindowCloses
  <2> HIDE DEF row
  <2>3. Writes(r) /\ rounds'[r] = row
    BY <1>1, <2>1, <2>2, OneRowWritten DEF TypeOK
  <2>4. Closes(r)
    BY <1>4, <2>1, <2>3 DEF Closes, WindowCloses, KeepsChain, KeepsState
  <2> QED
    BY <1>1, <2>4 DEF RowStep
<1> QED
  BY <1>2, <1>3, <1>4

LEMMA EveryStepIsARowStep ==
  ASSUME RoomAssumption, TypeOK, RequestsMakeSense, ChainHolds, [Next]_vars
  PROVE  RowStep
<1>1. ASSUME NEW t \in Tabs, NEW k \in Keys, SendJoin(t, k)
      PROVE  RowStep
  BY <1>1 DEF SendJoin, Begin, RowStep, SameRows
<1>2. ASSUME NEW t \in Tabs, NEW k \in Keys, NEW r \in Rounds, SendRematch(t, k, r) \/ SendCancel(t, k, r)
      PROVE  RowStep
  BY <1>2 DEF SendRematch, SendCancel, Begin, RowStep, SameRows
<1>3. ASSUME NEW t \in Tabs, SendConnect(t) \/ SendTicket(t)
      PROVE  RowStep
  BY <1>3 DEF SendConnect, SendTicket, Begin, RowStep, SameRows
<1>4. ASSUME NEW t \in Tabs, Work(t)
      PROVE  RowStep
  <2>1. CASE Acquire(t) \/ AbortDeadlocked(t) \/ CommitLink(t)
    BY <2>1 DEF Acquire, AbortDeadlocked, CommitLink, Reject, RowStep, SameRows
  <2> QED
    BY <1>4, <2>1, JoinIsARowStep, CancelIsARowStep, RematchIsARowStep DEF Work
<1>5. CASE UNCHANGED vars
  BY <1>5 DEF vars, RowStep, SameRows
<1> QED
  BY <1>1, <1>2, <1>3, <1>4, <1>5, RoundIsARowStep DEF Next-----------------------------------------------------------------------------
(* The rows keep their invariants.                                         *)

LEMMA SeatTaken ==
  ASSUME RoomAssumption, TypeOK, SeatsAreFew, NEW u \in Users, TakesSeat(u)
  PROVE  /\ Seated' = Seated \cup {u} /\ SeatsAreFew'
         /\ Len(seats) = 1 /\ Cardinality(Seated) = 1
<1>1. Len(seats) \in Nat /\ DOMAIN seats = 1 .. Len(seats)
  BY LenProperties DEF TypeOK
<1>2. seats \in Seq(Users)
  BY DEF TypeOK
<1>3. /\ Append(seats, u) \in Seq(Users)
      /\ Len(Append(seats, u)) = Len(seats) + 1
      /\ \A i \in 1 .. Len(seats) : Append(seats, u)[i] = seats[i]
      /\ Append(seats, u)[Len(seats) + 1] = u
  BY <1>2, AppendProperties
<1>4. DOMAIN seats' = 1 .. Len(seats) + 1
  BY <1>3, LenProperties DEF TakesSeat
<1>5. Seated' = Seated \cup {u}
  BY <1>1, <1>3, <1>4 DEF TakesSeat, Seated
<1>6. IsFiniteSet(Seated') /\ Cardinality(Seated') = Cardinality(Seated) + 1
  BY <1>5, FS_AddElement DEF SeatsAreFew, TakesSeat
<1>7. Len(seats) = 1
  <2>1. Seated # {} /\ IsFiniteSet(Seated)
    BY DEF SeatsAreFew
  <2>2. Cardinality(Seated) # 0
    BY <2>1, FS_EmptySet
  <2> QED
    BY <1>1, <2>2 DEF SeatsAreFew, TakesSeat
<1> QED
  BY <1>1, <1>3, <1>5, <1>6, <1>7 DEF SeatsAreFew, TakesSeat

LEMMA SeatsStayFew ==
  ASSUME RoomAssumption, TypeOK, SeatsAreFew, RowStep
  PROVE  SeatsAreFew' /\ Seated \subseteq Seated'
<1>1. CASE UNCHANGED seats
  BY <1>1 DEF SeatsAreFew, Seated
<1>2. ASSUME NEW u \in Users, TakesSeat(u)
      PROVE  SeatsAreFew' /\ Seated \subseteq Seated'
  BY <1>2, SeatTaken
<1> QED
  BY <1>1, <1>2 DEF RowStep, SameRows, Cancels, Begins, Ends, Closes, Votes, OpensNext

(* A guest comes while the room has one round, in its lobby.               *)
LEMMA ChainAfterSeat ==
  ASSUME RoomAssumption, TypeOK, SeatsAreFew, ChainHolds, NEW u \in Users, TakesSeat(u)
  PROVE  ChainHolds'
<1>1. Seated' = Seated \cup {u} /\ Cardinality(Seated) = 1
  BY SeatTaken
<1>2. Len(rounds) \in Nat /\ DOMAIN rounds = 1 .. Len(rounds)
  BY RoundsAreRows
<1>3. Len(rounds) = 1 /\ active = 1
  BY <1>1, <1>2 DEF ChainHolds, RoundsAreOneChain
<1>4. Len(rounds') = 1 /\ DOMAIN rounds' = {1} /\ active' = 1
  <2>1. rounds' \in Seq(RoundRow) /\ Len(rounds') = 1 /\ active' = 1
    BY <1>3 DEF TakesSeat, Writes
  <2> QED
    BY <2>1, LenProperties
<1>5. /\ rounds'[1].next = 0 /\ rounds'[1].votes \subseteq Seated
      /\ rounds'[1].players \subseteq Seated \cup {u}
  BY <1>2, <1>3 DEF TakesSeat, KeepsChain, ChainHolds, RoundsAreOneChain
<1> QED
  BY <1>1, <1>4, <1>5 DEF ChainHolds, RoundsAreOneChain

LEMMA ChainAfterWrite ==
  ASSUME TypeOK, ChainHolds, NEW r \in DOMAIN rounds, Writes(r), KeepsChain(r),
         UNCHANGED <<seats, active>>, rounds'[r].players = rounds[r].players,
         rounds[r].next # 0 => rounds'[r].state = "REMATCH_PENDING"
  PROVE  ChainHolds'
<1>1. DOMAIN rounds = 1 .. Len(rounds) /\ DOMAIN rounds' = DOMAIN rounds
  BY RoundsAreRows, LenProperties DEF Writes
<1>2. Seated' = Seated
  BY DEF Seated
<1>3. \A i \in DOMAIN rounds :
        /\ rounds'[i].players = rounds[i].players /\ rounds'[i].votes = rounds[i].votes
        /\ rounds'[i].next = rounds[i].next
        /\ rounds[i].next # 0 => rounds'[i].state = "REMATCH_PENDING"
  BY DEF Writes, KeepsChain, ChainHolds
<1> QED
  BY <1>1, <1>2, <1>3 DEF ChainHolds, RoundsAreOneChain, Writes

LEMMA ChainAfterVote ==
  ASSUME TypeOK, ChainHolds, NEW r \in DOMAIN rounds, NEW u \in Users, Votes(u, r)
  PROVE  ChainHolds'
<1>1. DOMAIN rounds = 1 .. Len(rounds) /\ DOMAIN rounds' = DOMAIN rounds
  BY RoundsAreRows, LenProperties DEF Votes, Writes
<1>2. Seated' = Seated
  BY DEF Seated, Votes
<1>3. \A i \in DOMAIN rounds :
        /\ rounds'[i].players = rounds[i].players /\ rounds'[i].votes \subseteq Seated
        /\ rounds'[i].next = rounds[i].next
        /\ rounds[i].next # 0 => rounds'[i].votes = rounds[i].votes
        /\ rounds[i].next # 0 => rounds'[i].state = "REMATCH_PENDING"
  BY DEF Votes, Writes, KeepsState, ChainHolds
<1> QED
  BY <1>1, <1>2, <1>3 DEF ChainHolds, RoundsAreOneChain, Writes, Votes

(* The pair that completes its votes is the room.                          *)
LEMMA ChainAfterNext ==
  ASSUME TypeOK, SeatsAreFew, ChainHolds, NEW r \in DOMAIN rounds, NEW u \in Users, OpensNext(u, r)
  PROVE  ChainHolds'
<1> DEFINE n == Len(rounds)
<1>1. n \in Nat /\ DOMAIN rounds = 1 .. n /\ DOMAIN rounds' = 1 .. n + 1
  BY RoundsAreRows, LenProperties DEF OpensNext
<1>2. Seated' = Seated
  BY DEF Seated, OpensNext
<1>3. r = n
  BY <1>1 DEF OpensNext, CompletesVote, ChainHolds, RoundsAreOneChain
<1>4. rounds[r].votes \cup {u} = Seated /\ Cardinality(Seated) = 2
  <2>1. rounds[r].votes \cup {u} \subseteq Seated /\ Cardinality(rounds[r].votes \cup {u}) = 2
    BY DEF OpensNext, CompletesVote, ChainHolds
  <2> QED
    BY <2>1, PairIsAll
<1>5. /\ rounds'[r].votes = Seated /\ rounds'[r].next = r + 1 /\ rounds'[r].players = rounds[r].players
      /\ rounds'[r].state = "REMATCH_PENDING"
  BY <1>4 DEF OpensNext, KeepsState, CompletesVote
<1>6. /\ rounds'[n + 1].votes = {} /\ rounds'[n + 1].next = 0 /\ rounds'[n + 1].players = Seated
  BY DEF OpensNext, NewRound
<1>7. \A i \in DOMAIN rounds : i # r => rounds'[i] = rounds[i]
  BY DEF OpensNext
<1>8. Len(rounds') = n + 1 /\ active' = n + 1
  BY <1>3 DEF OpensNext
<1>9. ASSUME NEW i \in DOMAIN rounds'
      PROVE  /\ rounds'[i].next = (IF i < n + 1 THEN i + 1 ELSE 0)
             /\ rounds'[i].next # 0 => rounds'[i].votes = Seated
             /\ i > 1 => rounds'[i].players = Seated
             /\ rounds'[i].players \subseteq Seated /\ rounds'[i].votes \subseteq Seated
             /\ rounds'[i].next # 0 => rounds'[i].state = "REMATCH_PENDING"
  <2>1. CASE i = n + 1
    BY <1>1, <1>6, <2>1
  <2>2. CASE i = r
    BY <1>1, <1>3, <1>5, <2>2 DEF ChainHolds, RoundsAreOneChain
  <2>3. CASE i \in 1 .. n /\ i # r
    BY <1>1, <1>3, <1>7, <2>3 DEF ChainHolds, RoundsAreOneChain
  <2> QED
    BY <1>1, <2>1, <2>2, <2>3
<1> QED
  BY <1>1, <1>2, <1>4, <1>8, <1>9 DEF ChainHolds, RoundsAreOneChain

LEMMA ChainStays ==
  ASSUME RoomAssumption, TypeOK, SeatsAreFew, ChainHolds, RowStep
  PROVE  ChainHolds'
<1>1. CASE SameRows
  <2>1. Seated' = Seated
    BY <1>1 DEF SameRows, Seated
  <2> QED
    BY <1>1, <2>1 DEF SameRows, ChainHolds, RoundsAreOneChain
<1>2. ASSUME NEW r \in DOMAIN rounds, Cancels(r) \/ Begins(r) \/ Ends(r) \/ Closes(r)
      PROVE  ChainHolds'
  BY <1>2, ChainAfterWrite DEF Cancels, Begins, Ends, Closes, KeepsState, ChainHolds
<1> QED
  BY <1>1, <1>2, ChainAfterSeat, ChainAfterVote, ChainAfterNext DEF RowStep-----------------------------------------------------------------------------
(* States and problems.                                                    *)

(* What a step does to the state and the problem of round i.               *)
LEMMA RoundsAdvance ==
  ASSUME TypeOK, RowStep
  PROVE  /\ DOMAIN rounds \subseteq DOMAIN rounds'
         /\ \A i \in DOMAIN rounds' \ DOMAIN rounds :
              i = Len(rounds) + 1 /\ rounds'[i] = NewRound(Seated)
         /\ \A i \in DOMAIN rounds :
              \/ KeepsState(i)
              \/ /\ rounds[i].state = "LOBBY" /\ rounds'[i].state = "FINISHED"
                 /\ rounds'[i].problem = rounds[i].problem
                 /\ closed' = TRUE
              \/ /\ rounds[i].state = "LOBBY" /\ rounds'[i].state = "PLAYING"
                 /\ rounds'[i].problem \in Candidates
              \/ /\ rounds[i].state = "PLAYING" /\ rounds'[i].state = "REMATCH_PENDING"
                 /\ rounds'[i].problem = rounds[i].problem
<1> DEFINE Advances ==
      /\ DOMAIN rounds \subseteq DOMAIN rounds'
      /\ \A i \in DOMAIN rounds' \ DOMAIN rounds :
           i = Len(rounds) + 1 /\ rounds'[i] = NewRound(Seated)
      /\ \A i \in DOMAIN rounds :
           \/ KeepsState(i)
           \/ /\ rounds[i].state = "LOBBY" /\ rounds'[i].state = "FINISHED"
              /\ rounds'[i].problem = rounds[i].problem
              /\ closed' = TRUE
           \/ /\ rounds[i].state = "LOBBY" /\ rounds'[i].state = "PLAYING"
              /\ rounds'[i].problem \in Candidates
           \/ /\ rounds[i].state = "PLAYING" /\ rounds'[i].state = "REMATCH_PENDING"
              /\ rounds'[i].problem = rounds[i].problem
<1>1. Len(rounds) \in Nat /\ DOMAIN rounds = 1 .. Len(rounds)
  BY RoundsAreRows
<1>2. ASSUME NEW r, Writes(r)
      PROVE  /\ DOMAIN rounds' = DOMAIN rounds
             /\ \A i \in DOMAIN rounds : i # r => KeepsState(i)
  BY <1>1, <1>2, LenProperties DEF Writes, KeepsState
<1>3. ASSUME SameRows
      PROVE  Advances
  BY <1>3 DEF SameRows, KeepsState
<1>4. ASSUME NEW u \in Users, TakesSeat(u)
      PROVE  Advances
  BY <1>2, <1>4 DEF TakesSeat
<1>5. ASSUME NEW r \in DOMAIN rounds, Cancels(r)
      PROVE  Advances
  BY <1>2, <1>5 DEF Cancels
<1>6. ASSUME NEW r \in DOMAIN rounds, Begins(r)
      PROVE  Advances
  BY <1>2, <1>6 DEF Begins
<1>7. ASSUME NEW r \in DOMAIN rounds, Ends(r)
      PROVE  Advances
  BY <1>2, <1>7 DEF Ends
<1>8. ASSUME NEW r \in DOMAIN rounds, Closes(r)
      PROVE  Advances
  BY <1>2, <1>8 DEF Closes
<1>9. ASSUME NEW r \in DOMAIN rounds, NEW u \in Users, Votes(u, r)
      PROVE  Advances
  BY <1>2, <1>9 DEF Votes
<1>10. ASSUME NEW r \in DOMAIN rounds, NEW u \in Users, OpensNext(u, r)
       PROVE  Advances
  <2>1. DOMAIN rounds' = 1 .. Len(rounds) + 1
    BY <1>10, LenProperties DEF OpensNext
  <2>2. \A i \in DOMAIN rounds : KeepsState(i)
    BY <1>10 DEF OpensNext, KeepsState
  <2>3. rounds'[Len(rounds) + 1] = NewRound(Seated)
    BY <1>10 DEF OpensNext
  <2>4. \A i \in DOMAIN rounds' \ DOMAIN rounds : i = Len(rounds) + 1
    BY <1>1, <2>1
  <2>5. DOMAIN rounds \subseteq DOMAIN rounds'
    BY <1>1, <2>1
  <2> QED
    BY <2>2, <2>3, <2>4, <2>5
<1> HIDE DEF Advances
<1>11. Advances
  BY <1>3, <1>4, <1>5, <1>6, <1>7, <1>8, <1>9, <1>10 DEF RowStep
<1> QED
  BY <1>11 DEF Advances

LEMMA DrawnIsAProblem ==
  ASSUME RoomAssumption, NEW p \in Candidates
  PROVE  p \in Problems /\ p # NoProblem
  BY DEF Candidates, RoomAssumption

LEMMA ClosedStays ==
  ASSUME TypeOK, RowStep, closed
  PROVE  closed'
  BY DEF RowStep, SameRows, TakesSeat, Cancels, Begins, Ends, Closes, Votes, OpensNext

LEMMA DrawnAndClosedStay ==
  ASSUME RoomAssumption, TypeOK, ProblemsAreDrawn, CancelledIsClosed, RowStep
  PROVE  ProblemsAreDrawn' /\ CancelledIsClosed'
<1>1. ASSUME NEW i \in DOMAIN rounds'
      PROVE  /\ rounds'[i].problem = NoProblem <=> rounds'[i].state \in {"LOBBY", "FINISHED"}
             /\ rounds'[i].state = "FINISHED" => closed'
  <2>1. CASE i \in DOMAIN rounds
    BY <2>1, RoundsAdvance, DrawnIsAProblem, ClosedStays
       DEF KeepsState, ProblemsAreDrawn, CancelledIsClosed
  <2>2. CASE i \notin DOMAIN rounds
    BY <1>1, <2>2, RoundsAdvance DEF NewRound
  <2> QED
    BY <2>1, <2>2
<1> QED
  BY <1>1 DEF ProblemsAreDrawn, CancelledIsClosed

LEMMA OutcomesStay ==
  ASSUME RoomAssumption, TypeOK, ChainHolds, CancelledIsClosed, NobodyEntersCancelledRound, RowStep
  PROVE  NobodyEntersCancelledRound'
<1>1. Len(rounds) \in Nat /\ DOMAIN rounds = 1 .. Len(rounds)
  BY RoundsAreRows
<1>2. ASSUME NEW r, Writes(r),
             rounds'[r].state = "FINISHED" => rounds'[r].settled = rounds'[r].players
      PROVE  NobodyEntersCancelledRound'
  <2>1. DOMAIN rounds' = DOMAIN rounds
    BY <1>1, <1>2, LenProperties DEF Writes
  <2> QED
    BY <1>2, <2>1 DEF Writes, NobodyEntersCancelledRound
<1>3. CASE SameRows
  BY <1>3 DEF SameRows, NobodyEntersCancelledRound
<1>4. ASSUME NEW u \in Users, TakesSeat(u)
      PROVE  NobodyEntersCancelledRound'
  <2>1. rounds'[active].state # "FINISHED" /\ Writes(active)
    BY <1>4 DEF TakesSeat, KeepsState, CancelledIsClosed, Writes
  <2> QED
    BY <1>2, <2>1
<1>5. ASSUME NEW r \in DOMAIN rounds, Cancels(r) \/ Begins(r) \/ Ends(r)
      PROVE  NobodyEntersCancelledRound'
  BY <1>2, <1>5 DEF Cancels, Begins, Ends
<1>6. ASSUME NEW r \in DOMAIN rounds, Closes(r) \/ \E u \in Users : Votes(u, r)
      PROVE  NobodyEntersCancelledRound'
  BY <1>2, <1>6 DEF Closes, Votes, KeepsState, NobodyEntersCancelledRound
<1>7. ASSUME NEW r \in DOMAIN rounds, NEW u \in Users, OpensNext(u, r)
      PROVE  NobodyEntersCancelledRound'
  <2>1. DOMAIN rounds' = 1 .. Len(rounds) + 1
    BY <1>7, LenProperties DEF OpensNext
  <2>2. \A i \in DOMAIN rounds : i # r => rounds'[i] = rounds[i]
    BY <1>7 DEF OpensNext
  <2>3. rounds'[r].state = "REMATCH_PENDING" /\ rounds'[Len(rounds) + 1].state = "LOBBY"
    BY <1>7 DEF OpensNext, KeepsState, CompletesVote, NewRound
  <2> QED
    BY <1>1, <2>1, <2>2, <2>3 DEF NobodyEntersCancelledRound
<1> QED
  BY <1>3, <1>4, <1>5, <1>6, <1>7 DEF RowStep

(* All problems used in r - 1 rounds: there are at most r - 1 of them.     *)
LEMMA UsedUp ==
  ASSUME RoomAssumption, NEW n \in Nat, NEW f \in [Problems -> 1 .. n],
         \A p, q \in Problems : f[p] = f[q] => p = q
  PROVE  Cardinality(Problems) <= n
<1>1. IsFiniteSet(1 .. n) /\ Cardinality(1 .. n) = n
  BY FS_Interval
<1>2. IsFiniteSet(Problems) /\ Cardinality(Problems) \in Nat
  BY FS_CardinalityType DEF RoomAssumption
<1>3. ~(Cardinality(1 .. n) < Cardinality(Problems))
  BY <1>1, <1>2, FS_PigeonHole
<1> QED
  BY <1>1, <1>2, <1>3

(* What chooseProblem may return for the round that begins.                *)
LEMMA FreshProblem ==
  ASSUME RoomAssumption, TypeOK, ChainHolds, ProblemsAreDrawn,
         NEW r \in DOMAIN rounds, rounds[r].state = "LOBBY", NEW p \in Candidates
  PROVE  /\ r = Len(rounds) /\ p \in Problems
         /\ r <= Cardinality(Problems) => \A i \in 1 .. r - 1 : rounds[i].problem # p
         /\ r > 1 /\ Cardinality(Problems) > 1 => rounds[r - 1].problem # p
<1>1. Len(rounds) \in Nat /\ DOMAIN rounds = 1 .. Len(rounds)
  BY RoundsAreRows
<1>2. r = Len(rounds)
  BY <1>1 DEF ChainHolds, RoundsAreOneChain
<1>3. p \in Problems /\ p # NoProblem
  BY DrawnIsAProblem
<1>4. rounds[r].problem = NoProblem /\ \A i \in 1 .. r - 1 : rounds[i].problem # NoProblem
  <2>1. ASSUME NEW i \in 1 .. r - 1
        PROVE  rounds[i].problem # NoProblem
    <3>1. i \in DOMAIN rounds /\ i < Len(rounds) /\ i + 1 # 0
      BY <1>1, <1>2
    <3>2. rounds[i].state = "REMATCH_PENDING"
      BY <3>1 DEF ChainHolds, RoundsAreOneChain
    <3> QED
      BY <3>1, <3>2 DEF ProblemsAreDrawn
  <2> QED
    BY <2>1 DEF ProblemsAreDrawn
<1>5. CASE Problems \ Used # {}
  <2>1. p \notin Used
    BY <1>5 DEF Candidates
  <2>2. \A i \in DOMAIN rounds : rounds[i].problem # p
    BY <1>3, <2>1 DEF Used
  <2>3. \A i \in 1 .. r - 1 : i \in DOMAIN rounds
    BY <1>1, <1>2
  <2>4. r > 1 => r - 1 \in DOMAIN rounds
    BY <1>1, <1>2
  <2> QED
    BY <1>2, <1>3, <2>2, <2>3, <2>4
<1>6. CASE Problems \subseteq Used
  <2>1. Cardinality(Problems) <= r - 1
    <3> DEFINE f == [q \in Problems |-> CHOOSE i \in 1 .. r - 1 : rounds[i].problem = q]
    <3>1. ASSUME NEW q \in Problems
          PROVE  \E i \in 1 .. r - 1 : rounds[i].problem = q
      <4>1. PICK i \in DOMAIN rounds : rounds[i].problem = q
        BY <1>6 DEF Used
      <4>2. q # NoProblem
        BY DEF RoomAssumption
      <4> QED
        BY <1>1, <1>2, <1>4, <4>1, <4>2
    <3>2. \A q \in Problems : f[q] \in 1 .. r - 1 /\ rounds[f[q]].problem = q
      BY <3>1
    <3>3. f \in [Problems -> 1 .. r - 1]
      BY <3>2
    <3>4. \A q, s \in Problems : f[q] = f[s] => q = s
      BY <3>2
    <3>5. r - 1 \in Nat
      BY <1>1
    <3> HIDE DEF f
    <3> QED
      BY <3>3, <3>4, <3>5, UsedUp
  <2>2. Cardinality(Problems) \in Nat
    BY FS_CardinalityType DEF RoomAssumption
  <2>3. ASSUME r > 1, Cardinality(Problems) > 1
        PROVE  rounds[r - 1].problem # p
    <3>1. LastUsed = rounds[r - 1].problem
      <4> DEFINE had == {i \in DOMAIN rounds : rounds[i].problem # NoProblem}
      <4>1. had = 1 .. r - 1
        BY <1>1, <1>2, <1>4
      <4>2. had # {} /\ (CHOOSE i \in had : \A j \in had : j <= i) = r - 1
        <5>1. r - 1 \in had /\ \A j \in had : j <= r - 1
          BY <1>1, <2>3, <4>1
        <5>2. \A i \in had : (\A j \in had : j <= i) => i = r - 1
          BY <1>1, <4>1, <5>1
        <5> HIDE DEF had
        <5> QED
          BY <5>1, <5>2
      <4> QED
        BY <4>2 DEF LastUsed
    <3>2. Problems \ {LastUsed} # {}
      <4>1. SUFFICES ASSUME Problems \subseteq {LastUsed}
                     PROVE  FALSE
        OBVIOUS
      <4>2. IsFiniteSet({LastUsed}) /\ Cardinality({LastUsed}) = 1
        BY FS_Singleton
      <4>3. Cardinality(Problems) <= 1
        BY <4>1, <4>2, FS_Subset
      <4> QED
        BY <2>2, <2>3, <4>3
    <3>3. p \in Problems \ {LastUsed}
      BY <1>6, <3>2 DEF Candidates
    <3> QED
      BY <3>1, <3>3
  <2> QED
    BY <1>1, <1>2, <1>3, <2>1, <2>2, <2>3
<1> QED
  BY <1>5, <1>6

LEMMA TurnsStay ==
  ASSUME RoomAssumption, TypeOK, ChainHolds, ProblemsAreDrawn, ProblemsTakeTurns, RowStep,
         ChainHolds', ProblemsAreDrawn', TypeOK'
  PROVE  ProblemsTakeTurns'
<1>1. Len(rounds) \in Nat /\ DOMAIN rounds = 1 .. Len(rounds)
      /\ Len(rounds') \in Nat /\ DOMAIN rounds' = 1 .. Len(rounds')
  BY RoundsAreRows, LenProperties DEF TypeOK
<1>2. SUFFICES ASSUME NEW i \in DOMAIN rounds', NEW j \in DOMAIN rounds', i < j
               PROVE  /\ rounds'[i].problem # NoProblem
                      /\ rounds'[j].problem # NoProblem =>
                           /\ j <= Cardinality(Problems) => rounds'[i].problem # rounds'[j].problem
                           /\ j = i + 1 /\ Cardinality(Problems) > 1
                                => rounds'[i].problem # rounds'[j].problem
  BY DEF ProblemsTakeTurns
<1>3. rounds'[i].problem # NoProblem
  <2>1. rounds'[i].next # 0
    BY <1>1, <1>2 DEF ChainHolds, RoundsAreOneChain
  <2> QED
    BY <2>1 DEF ChainHolds, ProblemsAreDrawn
<1>4. CASE j \notin DOMAIN rounds
  BY <1>3, <1>4, RoundsAdvance DEF NewRound
<1>5. CASE j \in DOMAIN rounds
  <2>1. i \in DOMAIN rounds /\ i \in 1 .. Len(rounds) - 1 /\ i \in 1 .. j - 1
    BY <1>1, <1>2, <1>5
  <2>2. rounds'[i].problem = rounds[i].problem
    <3>1. rounds[i].next # 0
      BY <1>1, <2>1 DEF ChainHolds, RoundsAreOneChain
    <3>2. rounds[i].state = "REMATCH_PENDING"
      BY <2>1, <3>1 DEF ChainHolds
    <3> QED
      BY <2>1, <3>2, RoundsAdvance DEF KeepsState
  <2>3. CASE rounds'[j].problem = rounds[j].problem
    BY <1>2, <1>3, <1>5, <2>1, <2>2, <2>3 DEF ProblemsTakeTurns
  <2>4. CASE rounds[j].state = "LOBBY" /\ rounds'[j].problem \in Candidates
    BY <1>1, <1>3, <1>5, <2>1, <2>2, <2>4, FreshProblem
  <2> QED
    BY <1>5, <2>3, <2>4, RoundsAdvance DEF KeepsState
<1> QED
  BY <1>4, <1>5-----------------------------------------------------------------------------
(* Requests, receipts and answers.                                         *)

RequestRow == [kind : Kinds \cup {"NONE"}, key : Keys \cup {NoReply}, round : Nat, got : Nat]
ReceiptRow == [kind : Kinds \cup {"NONE"}, round : Nat, reply : Nat \cup {NoReply}]

(* What a step does to the requests: each ends, goes on, or is a new one   *)
(* that makes sense.                                                       *)
RequestStep ==
  /\ tx' \in [Tabs -> RequestRow] /\ left' \in [Tabs -> Nat]
  /\ \A v \in Tabs :
       \/ tx'[v].kind = "NONE"
       \/ tx'[v].kind = tx[v].kind /\ tx'[v].key = tx[v].key /\ tx'[v].round = tx[v].round
       \/ Sensible(v, tx'[v])

(* The command of t is answered, and what the answer says is so.           *)
Answers(t, r, response) ==
  /\ tx[t].kind \in Commands /\ tx[t].key \in Keys
  /\ Reply(t, r, response)
  /\ PromiseKept(Who[t], answer.kind, r)'
  /\ (answer.kind = "REMATCH" /\ rounds[r].next # 0 => response = r + 1)'
  /\ \/ UNCHANGED receipts
     \/ receipts' = [receipts EXCEPT ![<<Who[t], tx[t].key>>] =
                       [kind |-> tx[t].kind, round |-> r, reply |-> response]]

AnswerStep ==
  \/ Silent /\ UNCHANGED receipts
  \/ \E t \in Tabs, r, response \in Nat : Answers(t, r, response)

LEMMA BeginIsARequestStep ==
  ASSUME RoomAssumption, TypeOK, NEW t \in Tabs,
         NEW kind \in Kinds, NEW k \in Keys \cup {NoReply}, NEW r \in DOMAIN rounds,
         kind \in Commands => k \in Keys,
         kind = "REMATCH" => Who[t] \in rounds[r].players,
         Begin(t, kind, k, r)
  PROVE  RequestStep /\ AnswerStep
<1> DEFINE new == [kind |-> kind, key |-> k, round |-> r, got |-> 0]
<1>1. new \in RequestRow /\ Sensible(t, new)
  BY RoundsAreRows DEF RequestRow, Sensible, Commands
<1>2. tx \in [Tabs -> RequestRow] /\ left \in [Tabs -> Nat]
  BY DEF TypeOK, RequestRow
<1>3. tx' = [tx EXCEPT ![t] = new]
  BY DEF Begin
<1>4. left' \in [Tabs -> Nat]
  <2>1. left[t] \in Nat /\ left[t] > 0
    BY <1>2 DEF Begin
  <2>2. left[t] - 1 \in Nat /\ left' = [left EXCEPT ![t] = left[t] - 1]
    BY <2>1 DEF Begin
  <2> QED
    BY <1>2, <2>2
<1> HIDE DEF new
<1> QED
  BY <1>1, <1>2, <1>3, <1>4 DEF RequestStep, AnswerStep, Begin

LEMMA EndIsARequestStep ==
  ASSUME TypeOK, NEW t \in Tabs, Finish(t), UNCHANGED left
  PROVE  RequestStep
<1>1. tx \in [Tabs -> RequestRow] /\ left \in [Tabs -> Nat]
  BY DEF TypeOK, RequestRow
<1>2. Idle \in RequestRow /\ Idle.kind = "NONE"
  BY DEF Idle, RequestRow
<1> QED
  BY <1>1, <1>2 DEF RequestStep, Finish

LEMMA WhatTheReceiptSays ==
  ASSUME RoomAssumption, TypeOK, RequestsMakeSense, ReceiptsAreTrue,
         NEW t \in Tabs, tx[t].kind \in Commands
  PROVE  /\ tx[t].key \in Keys /\ Who[t] \in Users /\ Sensible(t, tx[t])
         /\ Receipt(t).kind # "NONE" => Receipt(t).reply \in Nat
         /\ PromiseKept(Who[t], Receipt(t).kind, Receipt(t).round)
<1>1. tx[t].key \in Keys /\ Who[t] \in Users /\ Sensible(t, tx[t])
  BY DEF RoomAssumption, RequestsMakeSense, Sensible, Busy, Commands
<1> QED
  BY <1>1 DEF ReceiptsAreTrue, Receipt

LEMMA JoinIsAnswered ==
  ASSUME RoomAssumption, TypeOK, RequestsMakeSense, SeatsAreFew, ChainHolds, ReceiptsAreTrue,
         NEW t \in Tabs, CommitJoin(t)
  PROVE  RequestStep /\ AnswerStep
<1>1. tx[t].kind = "JOIN" /\ tx[t].kind \in Commands
  BY DEF CommitJoin, Commands
<1>2. PICK r \in Nat : r = active
  BY DEF TypeOK
<1>3. CASE Reject(t)
  BY <1>3, EndIsARequestStep DEF Reject, AnswerStep
<1>4. CASE IsRepeat(t, "JOIN", active) /\ AnswerRepeat(t, active, active)
  <2>1. Who[t] \in Seated
    BY <1>1, <1>4, WhatTheReceiptSays DEF IsRepeat, PromiseKept
  <2>2. Seated' = Seated /\ answer'.kind = "JOIN"
    BY <1>1, <1>4 DEF AnswerRepeat, Reply, Seated
  <2>3. Answers(t, r, r)
    BY <1>1, <1>2, <1>4, <2>1, <2>2, WhatTheReceiptSays DEF Answers, AnswerRepeat, PromiseKept
  <2> QED
    BY <1>2, <1>4, <2>3, EndIsARequestStep DEF AnswerRepeat, AnswerStep
<1>5. CASE /\ AnswerNew(t, active, active) /\ UNCHANGED left
           /\ \/ Who[t] \in Seated /\ UNCHANGED <<seats, rounds>>
              \/ seats' = Append(seats, Who[t])
  <2>1. Who[t] \in Seated'
    <3>1. CASE Who[t] \in Seated /\ UNCHANGED seats
      BY <3>1 DEF Seated
    <3>2. CASE seats' = Append(seats, Who[t])
      <4>1. seats \in Seq(Users) /\ Who[t] \in Users
        BY DEF TypeOK, RoomAssumption
      <4>2. /\ seats' \in Seq(Users) /\ Len(seats') = Len(seats) + 1
            /\ seats'[Len(seats) + 1] = Who[t]
        BY <3>2, <4>1, AppendProperties
      <4>3. Len(seats) + 1 \in DOMAIN seats'
        BY <4>1, <4>2, LenProperties
      <4> QED
        BY <4>2, <4>3 DEF Seated
    <3> QED
      BY <1>5, <3>1, <3>2
  <2>2. answer'.kind = "JOIN"
    BY <1>1, <1>5 DEF AnswerNew, Reply
  <2>3. Answers(t, r, r)
    BY <1>1, <1>2, <1>5, <2>1, <2>2, WhatTheReceiptSays DEF Answers, AnswerNew, PromiseKept
  <2> QED
    BY <1>2, <1>5, <2>3, EndIsARequestStep DEF AnswerNew, AnswerStep
<1> QED
  BY <1>3, <1>4, <1>5 DEF CommitJoin

LEMMA CancelIsAnswered ==
  ASSUME RoomAssumption, TypeOK, RequestsMakeSense, ReceiptsAreTrue, NEW t \in Tabs, CommitCancel(t)
  PROVE  RequestStep /\ AnswerStep
<1>1. tx[t].kind = "CANCEL" /\ tx[t].kind \in Commands
  BY DEF CommitCancel, Commands
<1>2. PICK r \in Nat : r = tx[t].round
  BY DEF TypeOK
<1>3. CASE Reject(t)
  BY <1>3, EndIsARequestStep DEF Reject, AnswerStep
<1>4. CASE IsRepeat(t, "CANCEL", r) /\ AnswerRepeat(t, r, r)
  <2>1. closed /\ closed' = closed /\ answer'.kind = "CANCEL"
    BY <1>1, <1>2, <1>4, WhatTheReceiptSays DEF IsRepeat, PromiseKept, AnswerRepeat, Reply
  <2>2. Answers(t, r, r)
    BY <1>1, <1>2, <1>4, <2>1, WhatTheReceiptSays DEF Answers, AnswerRepeat, PromiseKept
  <2> QED
    BY <1>2, <1>4, <2>2, EndIsARequestStep DEF AnswerRepeat, AnswerStep
<1>5. CASE AnswerNew(t, r, r) /\ closed' = TRUE /\ UNCHANGED left
  <2>1. answer'.kind = "CANCEL"
    BY <1>1, <1>5 DEF AnswerNew, Reply
  <2>2. Answers(t, r, r)
    BY <1>1, <1>2, <1>5, <2>1, WhatTheReceiptSays DEF Answers, AnswerNew, PromiseKept
  <2> QED
    BY <1>2, <1>5, <2>2, EndIsARequestStep DEF AnswerNew, AnswerStep
<1> QED
  BY <1>2, <1>3, <1>4, <1>5 DEF CommitCancel

LEMMA RematchIsAnswered ==
  ASSUME RoomAssumption, TypeOK, RequestsMakeSense, SeatsAreFew, ChainHolds, ReceiptsAreTrue,
         NEW t \in Tabs, CommitRematch(t)
  PROVE  RequestStep /\ AnswerStep
<1> DEFINE u == Who[t]
<1>1. tx[t].kind = "REMATCH" /\ tx[t].kind \in Commands
  BY DEF CommitRematch, Commands
<1>2. PICK r \in Nat : r = tx[t].round
  BY DEF TypeOK
<1>3. r \in DOMAIN rounds /\ u \in Users /\ u \in rounds[r].players
  BY <1>1, <1>2, WhatTheReceiptSays DEF Sensible
<1>4. Len(rounds) \in Nat /\ DOMAIN rounds = 1 .. Len(rounds)
  BY RoundsAreRows
<1>5. CASE Reject(t)
  BY <1>5, EndIsARequestStep DEF Reject, AnswerStep
<1>6. CASE IsRepeat(t, "REMATCH", r) /\ AnswerRepeat(t, r, RepeatTarget(t, r))
  <2>1. RepeatTarget(t, r) \in Nat /\ (rounds[r].next # 0 => RepeatTarget(t, r) = r + 1)
    BY <1>1, <1>3, <1>4, <1>6, WhatTheReceiptSays
       DEF RepeatTarget, IsRepeat, ChainHolds, RoundsAreOneChain
  <2>2. PICK response \in Nat : response = RepeatTarget(t, r)
    BY <2>1
  <2>3. u \in rounds[r].votes /\ rounds' = rounds /\ answer'.kind = "REMATCH"
    BY <1>1, <1>6, WhatTheReceiptSays DEF IsRepeat, PromiseKept, AnswerRepeat, Reply
  <2>4. Answers(t, r, response)
    BY <1>1, <1>3, <1>6, <2>1, <2>2, <2>3, WhatTheReceiptSays DEF Answers, AnswerRepeat, PromiseKept
  <2> QED
    BY <1>6, <2>4, EndIsARequestStep DEF AnswerRepeat, AnswerStep
<1>7. ASSUME NEW response \in Nat, AnswerNew(t, r, response), UNCHANGED left,
             r \in DOMAIN rounds', u \in rounds'[r].votes,
             rounds'[r].next # 0 => response = r + 1
      PROVE  RequestStep /\ AnswerStep
  <2>1. answer'.kind = "REMATCH"
    BY <1>1, <1>7 DEF AnswerNew, Reply
  <2>2. Answers(t, r, response)
    BY <1>1, <1>2, <1>7, <2>1, WhatTheReceiptSays DEF Answers, AnswerNew, PromiseKept
  <2> QED
    BY <1>7, <2>2, EndIsARequestStep DEF AnswerNew, AnswerStep
<1>8. CASE /\ rounds[r].next # 0 /\ UNCHANGED <<rounds, left>>
           /\ AnswerNew(t, r, rounds[r].next)
  <2>1. PICK response \in Nat : response = rounds[r].next
    BY <1>3, RoundsAreRows DEF RoundRow
  <2>2. u \in rounds[r].votes /\ response = r + 1
    BY <1>3, <1>4, <1>8, <2>1 DEF ChainHolds, RoundsAreOneChain
  <2> QED
    BY <1>3, <1>7, <1>8, <2>1, <2>2
<1>9. CASE /\ OpenForVotes(r) /\ rounds[r].next = 0
           /\ rounds' = [rounds EXCEPT ![r].votes = @ \cup {u}]
           /\ AnswerNew(t, r, r)
           /\ UNCHANGED <<seats, active, closed, left>>
  <2>1. Votes(u, r)
    BY <1>3, <1>9, VoteIsCounted
  <2>2. r \in DOMAIN rounds' /\ u \in rounds'[r].votes /\ rounds'[r].next = 0
    BY <1>4, <2>1, LenProperties DEF Votes, Writes
  <2> QED
    BY <1>2, <1>7, <1>9, <2>2
<1>10. CASE /\ CompletesVote(u, r)
            /\ rounds' = Append([rounds EXCEPT ![r].votes = @ \cup {u}, ![r].next = r + 1],
                                NewRound(NextPlayers(r)))
            /\ active' = r + 1
            /\ AnswerNew(t, r, r + 1)
            /\ UNCHANGED <<seats, closed, left>>
  <2>1. OpensNext(u, r)
    BY <1>3, <1>10, PairOpensNext
  <2>2. r \in DOMAIN rounds' /\ u \in rounds'[r].votes
    BY <1>3, <1>4, <2>1, LenProperties DEF OpensNext
  <2> QED
    BY <1>7, <1>10, <2>2
<1> QED
  BY <1>2, <1>5, <1>6, <1>8, <1>9, <1>10 DEF CommitRematch

LEMMA EveryStepIsARequestStep ==
  ASSUME RoomAssumption, TypeOK, RequestsMakeSense, SeatsAreFew, ChainHolds, ReceiptsAreTrue, Next
  PROVE  RequestStep /\ AnswerStep
<1>1. tx \in [Tabs -> RequestRow] /\ left \in [Tabs -> Nat]
  BY DEF TypeOK, RequestRow
<1>2. active \in DOMAIN rounds
  BY RoundsAreRows DEF ChainHolds, RoundsAreOneChain
<1>3. ASSUME NEW t \in Tabs, NEW k \in Keys, SendJoin(t, k)
      PROVE  RequestStep /\ AnswerStep
  BY <1>2, <1>3, BeginIsARequestStep DEF SendJoin, Kinds
<1>4. ASSUME NEW t \in Tabs, NEW k \in Keys, NEW r \in Rounds, SendRematch(t, k, r)
      PROVE  RequestStep /\ AnswerStep
  BY <1>4, BeginIsARequestStep DEF SendRematch, Kinds
<1>5. ASSUME NEW t \in Tabs, NEW k \in Keys, NEW r \in Rounds, SendCancel(t, k, r)
      PROVE  RequestStep /\ AnswerStep
  BY <1>5, BeginIsARequestStep DEF SendCancel, Kinds
<1>6. ASSUME NEW t \in Tabs, SendConnect(t) \/ SendTicket(t)
      PROVE  RequestStep /\ AnswerStep
  BY <1>2, <1>6, BeginIsARequestStep DEF SendConnect, SendTicket, Kinds, Commands
<1>7. ASSUME NEW t \in Tabs, Acquire(t)
      PROVE  RequestStep /\ AnswerStep
  <2> DEFINE row == [tx[t] EXCEPT !.got = @ + 1]
  <2>1. /\ row \in RequestRow
        /\ row.kind = tx[t].kind /\ row.key = tx[t].key /\ row.round = tx[t].round
    BY <1>1 DEF RequestRow
  <2>2. tx' = [tx EXCEPT ![t] = row]
    BY <1>7 DEF Acquire
  <2> HIDE DEF row
  <2> QED
    BY <1>1, <1>7, <2>1, <2>2 DEF RequestStep, AnswerStep, Acquire
<1>8. ASSUME NEW t \in Tabs, AbortDeadlocked(t) \/ CommitLink(t)
      PROVE  RequestStep /\ AnswerStep
  BY <1>8, EndIsARequestStep DEF AbortDeadlocked, CommitLink, Reject, Finish, AnswerStep
<1>9. ASSUME NEW r \in Rounds, BeginRound(r) \/ EndRound(r) \/ WindowCloses(r)
      PROVE  RequestStep /\ AnswerStep
  BY <1>1, <1>9 DEF BeginRound, EndRound, WindowCloses, RequestStep, AnswerStep
<1> QED
  BY <1>3, <1>4, <1>5, <1>6, <1>7, <1>8, <1>9, JoinIsAnswered, CancelIsAnswered, RematchIsAnswered
     DEF Next, Work

-----------------------------------------------------------------------------
(* All of it together.                                                     *)

(* Nobody leaves, no vote is withdrawn, no round disappears.               *)
LEMMA NothingIsTakenBack ==
  ASSUME RoomAssumption, TypeOK, SeatsAreFew, RowStep
  PROVE  /\ Seated \subseteq Seated' /\ DOMAIN rounds \subseteq DOMAIN rounds'
         /\ \A i \in DOMAIN rounds : /\ rounds[i].votes \subseteq rounds'[i].votes
                                     /\ rounds[i].players \subseteq rounds'[i].players
<1>1. \A i \in DOMAIN rounds : /\ rounds[i].votes \subseteq rounds'[i].votes
                               /\ rounds[i].players \subseteq rounds'[i].players
  <2>1. CASE SameRows
    BY <2>1 DEF SameRows
  <2>2. ASSUME NEW u \in Users, TakesSeat(u), NEW i \in DOMAIN rounds
        PROVE  /\ rounds[i].votes \subseteq rounds'[i].votes
               /\ rounds[i].players \subseteq rounds'[i].players
    BY <2>2 DEF TakesSeat, Writes, KeepsChain
  <2>3. ASSUME NEW r \in DOMAIN rounds, Cancels(r) \/ Begins(r) \/ Ends(r) \/ Closes(r),
               NEW i \in DOMAIN rounds
        PROVE  /\ rounds[i].votes \subseteq rounds'[i].votes
               /\ rounds[i].players \subseteq rounds'[i].players
    BY <2>3 DEF Cancels, Begins, Ends, Closes, Writes, KeepsChain
  <2>4. ASSUME NEW r \in DOMAIN rounds, NEW u \in Users, Votes(u, r) \/ OpensNext(u, r),
               NEW i \in DOMAIN rounds
        PROVE  /\ rounds[i].votes \subseteq rounds'[i].votes
               /\ rounds[i].players \subseteq rounds'[i].players
    BY <2>4 DEF Votes, OpensNext, Writes
  <2> QED
    BY <2>1, <2>2, <2>3, <2>4 DEF RowStep
<1> QED
  BY <1>1, SeatsStayFew, RoundsAdvance

LEMMA PromisesStay ==
  ASSUME RoomAssumption, TypeOK, SeatsAreFew, RowStep,
         NEW u, NEW kind, NEW r, PromiseKept(u, kind, r)
  PROVE  PromiseKept(u, kind, r)'
  BY NothingIsTakenBack, ClosedStays DEF PromiseKept

LEMMA RequestsStay ==
  ASSUME RoomAssumption, TypeOK, RequestsMakeSense, SeatsAreFew, RowStep, RequestStep
  PROVE  RequestsMakeSense'
<1>1. ASSUME NEW v \in Tabs, tx'[v].kind # "NONE"
      PROVE  Sensible(v, tx[v])'
  <2>1. ASSUME Sensible(v, tx'[v])
        PROVE  Sensible(v, tx[v])'
    BY <2>1, NothingIsTakenBack DEF Sensible
  <2>2. CASE tx'[v].kind = tx[v].kind /\ tx'[v].key = tx[v].key /\ tx'[v].round = tx[v].round
    <3>1. Sensible(v, tx[v])
      BY <1>1, <2>2 DEF RequestsMakeSense, Busy
    <3>2. Sensible(v, tx'[v])
      BY <2>2, <3>1 DEF Sensible
    <3> QED
      BY <2>1, <3>2
  <2> QED
    BY <1>1, <2>1, <2>2 DEF RequestStep
<1> QED
  BY <1>1 DEF RequestsMakeSense, Busy

LEMMA ReceiptsStay ==
  ASSUME RoomAssumption, TypeOK, SeatsAreFew, ReceiptsAreTrue, RowStep, AnswerStep
  PROVE  /\ ReceiptsAreTrue'
         /\ receipts' \in [Users \X Keys -> ReceiptRow]
<1>1. receipts \in [Users \X Keys -> ReceiptRow]
  BY DEF TypeOK, ReceiptRow
<1>2. CASE UNCHANGED receipts
  BY <1>1, <1>2, PromisesStay DEF ReceiptsAreTrue
<1>3. ASSUME NEW t \in Tabs, NEW r \in Nat, NEW response \in Nat, Answers(t, r, response),
             receipts' = [receipts EXCEPT ![<<Who[t], tx[t].key>>] =
                            [kind |-> tx[t].kind, round |-> r, reply |-> response]]
      PROVE  ReceiptsAreTrue' /\ receipts' \in [Users \X Keys -> ReceiptRow]
  <2> DEFINE new  == [kind |-> tx[t].kind, round |-> r, reply |-> response]
             slot == <<Who[t], tx[t].key>>
  <2>1. slot \in Users \X Keys
    BY <1>3 DEF Answers, RoomAssumption
  <2>2. new \in ReceiptRow /\ new.kind \in Commands /\ new.reply \in Nat /\ new.round = r
    BY <1>3 DEF Answers, ReceiptRow, Commands, Kinds
  <2>3. ASSUME NEW u \in Users, NEW k \in Keys
        PROVE  /\ receipts'[<<u, k>>].kind \in Commands \cup {"NONE"}
               /\ receipts'[<<u, k>>].kind # "NONE" => receipts'[<<u, k>>].reply \in Nat
               /\ PromiseKept(u, receipts[<<u, k>>].kind, receipts[<<u, k>>].round)'
    <3>1. CASE <<u, k>> = slot
      <4>1. receipts'[<<u, k>>] = new /\ u = Who[t]
        BY <1>1, <1>3, <2>1, <3>1
      <4> QED
        BY <1>3, <2>2, <4>1 DEF Answers, PromiseKept, Reply
    <3>2. CASE <<u, k>> # slot
      <4>1. receipts'[<<u, k>>] = receipts[<<u, k>>]
        BY <1>1, <1>3, <3>2
      <4>2. PICK old : old = receipts[<<u, k>>]
        OBVIOUS
      <4>3. PromiseKept(u, old.kind, old.round)
        BY <4>2 DEF ReceiptsAreTrue
      <4>4. PromiseKept(u, old.kind, old.round)'
        BY <4>3, PromisesStay
      <4> QED
        BY <4>1, <4>2, <4>4 DEF ReceiptsAreTrue, PromiseKept
    <3> QED
      BY <3>1, <3>2
  <2> HIDE DEF new, slot
  <2>4. receipts' \in [Users \X Keys -> ReceiptRow]
    BY <1>1, <1>3, <2>2 DEF new
  <2> QED
    BY <2>3, <2>4 DEF ReceiptsAreTrue
<1> QED
  BY <1>1, <1>2, <1>3 DEF AnswerStep, Answers

AnswerRow == [tab : Tabs, kind : Kinds, sent : Nat, round : Nat]

LEMMA AnswersAreKept ==
  ASSUME RoomAssumption, TypeOK, AnswerStep
  PROVE  AnswersHold' /\ answer' \in AnswerRow \cup {NoReply}
<1>1. CASE Silent
  BY <1>1 DEF Silent, AnswersHold, AnswersAreTrue, VotersMeet
<1>2. ASSUME NEW t \in Tabs, NEW r \in Nat, NEW response \in Nat, Answers(t, r, response)
      PROVE  AnswersHold' /\ answer' \in AnswerRow \cup {NoReply}
  <2>1. /\ answer'.tab = t /\ answer'.kind = tx[t].kind /\ answer'.sent = r /\ answer'.round = response
        /\ answer' = [tab |-> t, kind |-> tx[t].kind, sent |-> r, round |-> response]
        /\ answer'.kind \in Commands
    BY <1>2 DEF Answers, Reply
  <2>2. answer' \in AnswerRow
    BY <2>1 DEF AnswerRow, Commands, Kinds
  <2>3. AnswersAreTrue'
    BY <1>2, <2>1 DEF Answers, AnswersAreTrue, PromiseKept, Commands
  <2>4. VotersMeet'
    BY <1>2, <2>1 DEF Answers, VotersMeet
  <2> QED
    BY <2>2, <2>3, <2>4 DEF AnswersHold
<1> QED
  BY <1>1, <1>2 DEF AnswerStep

LEMMA RowsStayTyped ==
  ASSUME RoomAssumption, TypeOK, RowStep
  PROVE  seats' \in Seq(Users) /\ active' \in Nat /\ closed' \in BOOLEAN /\ rounds' \in Seq(RoundRow)
<1>1. CASE SameRows
  BY <1>1 DEF SameRows, TypeOK
<1>2. ASSUME NEW u \in Users, TakesSeat(u)
      PROVE  seats' \in Seq(Users) /\ active' \in Nat /\ closed' \in BOOLEAN /\ rounds' \in Seq(RoundRow)
  <2>1. seats \in Seq(Users)
    BY DEF TypeOK
  <2>2. Append(seats, u) \in Seq(Users)
    BY <2>1, AppendProperties
  <2> QED
    BY <1>2, <2>2 DEF TakesSeat, Writes, TypeOK
<1>3. ASSUME NEW r \in DOMAIN rounds, Cancels(r) \/ Begins(r) \/ Ends(r) \/ Closes(r)
      PROVE  seats' \in Seq(Users) /\ active' \in Nat /\ closed' \in BOOLEAN /\ rounds' \in Seq(RoundRow)
  BY <1>3 DEF Cancels, Begins, Ends, Closes, Writes, TypeOK
<1>4. ASSUME NEW r \in DOMAIN rounds, NEW u \in Users, Votes(u, r) \/ OpensNext(u, r)
      PROVE  seats' \in Seq(Users) /\ active' \in Nat /\ closed' \in BOOLEAN /\ rounds' \in Seq(RoundRow)
  <2>1. r + 1 \in Nat
    BY RoundsAreRows
  <2> QED
    BY <1>4, <2>1 DEF Votes, OpensNext, Writes, TypeOK
<1> QED
  BY <1>1, <1>2, <1>3, <1>4 DEF RowStep

LEMMA TheRoomBegins ==
  ASSUME RoomAssumption, Init
  PROVE  RowInv
<1>1. NewRound({Host}) \in RoundRow /\ Host \in Users
  BY DEF NewRound, RoundRow, RoundState, RoomAssumption
<1>2. <<Host>> \in Seq(Users) /\ Len(<<Host>>) = 1 /\ <<Host>>[1] = Host
  BY <1>1
<1>3. rounds \in Seq(RoundRow) /\ Len(rounds) = 1 /\ rounds[1] = NewRound({Host})
  BY <1>1 DEF Init
<1>4. DOMAIN rounds = {1} /\ DOMAIN seats = {1}
  <2>1. DOMAIN rounds = 1 .. 1
    BY <1>3, LenProperties
  <2>2. DOMAIN <<Host>> = 1 .. 1
    OBVIOUS
  <2>3. 1 .. 1 = {1}
    OBVIOUS
  <2> QED
    BY <2>1, <2>2, <2>3 DEF Init
<1>5. Seated = {Host} /\ IsFiniteSet(Seated) /\ Cardinality(Seated) = 1
  <2>1. seats[1] = Host
    BY <1>2 DEF Init
  <2>2. Seated = {Host}
    BY <1>4, <2>1 DEF Seated
  <2> QED
    BY <2>2, FS_Singleton
<1>6. TypeOK
  <2>1. tx \in [Tabs -> RequestRow]
    BY DEF Init, Idle, RequestRow
  <2>2. receipts \in [Users \X Keys -> ReceiptRow]
    BY DEF Init, ReceiptRow
  <2>3. left \in [Tabs -> Nat]
    BY DEF Init, RoomAssumption
  <2> QED
    BY <1>2, <1>3, <2>1, <2>2, <2>3 DEF TypeOK, Init, RequestRow, ReceiptRow
<1>7. RequestsMakeSense /\ ReceiptsAreTrue /\ AnswersHold
  <2>1. RequestsMakeSense
    BY DEF Init, RequestsMakeSense, Busy, Idle
  <2>2. ReceiptsAreTrue
    BY DEF Init, ReceiptsAreTrue, PromiseKept, Commands
  <2>3. AnswersHold
    BY DEF Init, AnswersHold, AnswersAreTrue, VotersMeet
  <2> QED
    BY <2>1, <2>2, <2>3
<1>8. SeatsAreFew /\ ChainHolds
  BY <1>2, <1>3, <1>4, <1>5 DEF SeatsAreFew, ChainHolds, RoundsAreOneChain, Init, NewRound
<1>9. ProblemsAreDrawn /\ CancelledIsClosed /\ NobodyEntersCancelledRound /\ ProblemsTakeTurns
  BY <1>3, <1>4 DEF ProblemsAreDrawn, CancelledIsClosed, NobodyEntersCancelledRound,
                    ProblemsTakeTurns, NewRound
<1> QED
  BY <1>6, <1>7, <1>8, <1>9 DEF RowInv

LEMMA TheRoomGoesOn ==
  ASSUME RoomAssumption, RowInv, [Next]_vars
  PROVE  RowInv'
<1>1. CASE UNCHANGED vars
  <2>1. Seated' = Seated
    BY <1>1 DEF vars, Seated
  <2>2. TypeOK' /\ RequestsMakeSense' /\ SeatsAreFew' /\ ReceiptsAreTrue'
    BY <1>1, <2>1 DEF vars, RowInv, TypeOK, RequestsMakeSense, Sensible, Busy, SeatsAreFew,
                      ReceiptsAreTrue, PromiseKept
  <2>3. ChainHolds' /\ ProblemsAreDrawn' /\ CancelledIsClosed' /\ NobodyEntersCancelledRound'
        /\ ProblemsTakeTurns'
    BY <1>1, <2>1 DEF vars, RowInv, ChainHolds, RoundsAreOneChain, ProblemsAreDrawn,
                      CancelledIsClosed, NobodyEntersCancelledRound, ProblemsTakeTurns
  <2>4. AnswersHold'
    BY <1>1, <2>1 DEF vars, RowInv, AnswersHold, AnswersAreTrue, VotersMeet
  <2> QED
    BY <2>2, <2>3, <2>4 DEF RowInv
<1>2. CASE Next
  <2> USE DEF RowInv
  <2>1. RowStep
    BY EveryStepIsARowStep
  <2>2. RequestStep /\ AnswerStep
    BY <1>2, EveryStepIsARequestStep
  <2>3. TypeOK'
    BY <2>1, <2>2, RowsStayTyped, ReceiptsStay, AnswersAreKept
       DEF TypeOK, RequestStep, RequestRow, ReceiptRow, AnswerRow
  <2>4. RequestsMakeSense' /\ ReceiptsAreTrue' /\ AnswersHold'
    BY <2>1, <2>2, RequestsStay, ReceiptsStay, AnswersAreKept
  <2>5. SeatsAreFew' /\ ChainHolds'
    BY <2>1, SeatsStayFew, ChainStays
  <2>6. ProblemsAreDrawn' /\ CancelledIsClosed' /\ NobodyEntersCancelledRound'
    BY <2>1, DrawnAndClosedStay, OutcomesStay
  <2>7. ProblemsTakeTurns'
    BY <2>1, <2>3, <2>5, <2>6, TurnsStay
  <2> QED
    BY <2>3, <2>4, <2>5, <2>6, <2>7
<1> QED
  BY <1>1, <1>2

(* The inductive invariant of the rows, receipts and answers of a room.    *)
THEOREM RoomIsSound == Spec => []RowInv
<1>1. Init => RowInv
  BY RoomAssumption, TheRoomBegins
<1>2. RowInv /\ [Next]_vars => RowInv'
  BY RoomAssumption, TheRoomGoesOn
<1> QED
  BY <1>1, <1>2, PTL DEF Spec

(* The rows stay well formed; whoever enters a round that is cancelled is  *)
(* cancelled with it (joinRoom and cancelLobby lock the room); and no      *)
(* problem is played again before its turn (chooseProblem).                *)
THEOREM RoomStaysInOrder == Spec => []RoomInv
<1>1. RowInv => RoomInv
  BY DEF RowInv, RoomInv
<1> QED
  BY <1>1, RoomIsSound, PTL

(* requestRematch makes one next round for a pair of votes, for exactly    *)
(* the two members, however votes, repetitions and deadlocks mix.          *)
THEOREM RematchesFormAChain == Spec => []RoundsAreOneChain
<1>1. RowInv => RoundsAreOneChain
  BY DEF RowInv, ChainHolds
<1> QED
  BY <1>1, RoomIsSound, PTL

(* A command that was answered, at first or on repetition, was carried     *)
(* out, and both voters are led to the same next round.                    *)
THEOREM AnswersAreHonest == Spec => []AnswersHold
<1>1. RowInv => AnswersHold
  BY DEF RowInv
<1> QED
  BY <1>1, RoomIsSound, PTL

-----------------------------------------------------------------------------
(* Row locks.                                                              *)

(* How many locks the request of t takes in all.                           *)
Size(t) ==
  CASE tx[t].kind = "JOIN"    -> IF Who[t] = Host \/ ~MayEnter(Who[t]) THEN 1 ELSE 2
    [] tx[t].kind = "CANCEL"  -> IF Who[t] = Host /\ rounds[tx[t].round].state = "LOBBY" THEN 2 ELSE 1
    [] tx[t].kind = "REMATCH" -> IF CompletesVote(Who[t], tx[t].round) THEN 2 ELSE 1
    [] tx[t].kind \in {"CONNECT", "TICKET"} -> 3
    [] OTHER -> 0

(* t holds the room's row for writing.                                     *)
WritesRoom(t) ==
  \/ tx[t].kind = "JOIN" /\ tx[t].got >= 1
  \/ tx[t].kind \in {"CANCEL", "REMATCH"} /\ tx[t].got >= 2

(* t holds the row of its round, FOR UPDATE.                               *)
OwnsMatch(t) == tx[t].kind \in {"CANCEL", "REMATCH", "CONNECT"} /\ tx[t].got >= 1

(* A request takes no more locks than it needs, which do not become fewer  *)
(* while it holds one; and what two requests would write has one holder.   *)
LockInv ==
  /\ \A t \in Tabs : tx[t].got <= Size(t)
  /\ \A t, v \in Tabs : t # v /\ WritesRoom(t) => ~WritesRoom(v)
  /\ \A t, v \in Tabs : t # v /\ OwnsMatch(t) /\ OwnsMatch(v) => tx[t].round # tx[v].round

LEMMA OneOrTwo ==
  ASSUME NEW a, NEW b
  PROVE  /\ Len(<<a>> \o <<>>) = 1 /\ (<<a>> \o <<>>)[1] = a
         /\ Len(<<a>> \o <<b>>) = 2 /\ (<<a>> \o <<b>>)[1] = a /\ (<<a>> \o <<b>>)[2] = b
<1>1. <<a>> \in Seq({a, b}) /\ <<b>> \in Seq({a, b}) /\ <<>> \in Seq({a, b})
  BY EmptySeq
<1>2. Len(<<a>>) = 1 /\ Len(<<b>>) = 1 /\ <<a>>[1] = a /\ <<b>>[1] = b
  OBVIOUS
<1>3. <<a>> \o <<>> = <<a>>
  BY <1>1, ConcatEmptySeq
<1>4. /\ Len(<<a>> \o <<b>>) = Len(<<a>>) + Len(<<b>>)
      /\ \A i \in 1 .. Len(<<a>>) + Len(<<b>>) : (<<a>> \o <<b>>)[i] =
           IF i <= Len(<<a>>) THEN <<a>>[i] ELSE <<b>>[i - Len(<<a>>)]
  BY <1>1, ConcatProperties
<1>5. 1 \in 1 .. Len(<<a>>) + Len(<<b>>) /\ 2 \in 1 .. Len(<<a>>) + Len(<<b>>)
      /\ 1 <= Len(<<a>>) /\ ~(2 <= Len(<<a>>)) /\ 2 - Len(<<a>>) = 1
  BY <1>2
<1>6. Len(<<a>> \o <<b>>) = 2 /\ (<<a>> \o <<b>>)[1] = a /\ (<<a>> \o <<b>>)[2] = b
  BY <1>2, <1>4, <1>5
<1> QED
  BY <1>2, <1>3, <1>6

(* The locks of each kind of request, in order.                            *)
LEMMA Scripts ==
  \A t \in Tabs :
    /\ Len(Script(t)) = Size(t)
    /\ tx[t].kind = "JOIN" =>
         /\ Script(t)[1] = Lock(RoomRow, "NKU")
         /\ Size(t) = 2 => Script(t)[2] = Lock(MatchRow(active), "NKU")
    /\ tx[t].kind \in {"CANCEL", "REMATCH"} =>
         /\ Script(t)[1] = Lock(MatchRow(tx[t].round), "FU")
         /\ Size(t) = 2 => Script(t)[2] = Lock(RoomRow, "NKU")
    /\ tx[t].kind = "CONNECT" =>
         /\ Script(t)[1] = Lock(MatchRow(tx[t].round), "FU")
         /\ Script(t)[2] = Lock(RoomRow, "KS") /\ Script(t)[3] = Lock(ProfileRow(Who[t]), "KS")
    /\ tx[t].kind = "TICKET" =>
         /\ Script(t)[1] = Lock(ProfileRow(Who[t]), "NKU")
         /\ Script(t)[2] = Lock(RoomRow, "SH") /\ Script(t)[3] = Lock(MatchRow(tx[t].round), "KS")
<1> TAKE t \in Tabs
<1>1. CASE tx[t].kind = "JOIN"
  BY <1>1, OneOrTwo DEF Script, Size, JoinMode
<1>2. CASE tx[t].kind = "CANCEL"
  BY <1>2, OneOrTwo DEF Script, Size
<1>3. CASE tx[t].kind = "REMATCH"
  BY <1>3, OneOrTwo DEF Script, Size
<1>4. CASE tx[t].kind = "CONNECT"
  BY <1>4 DEF Script, Size
<1>5. CASE tx[t].kind = "TICKET"
  BY <1>5 DEF Script, Size
<1>6. CASE tx[t].kind \notin {"JOIN", "CANCEL", "REMATCH", "CONNECT", "TICKET"}
  <2>1. Script(t) = <<>> /\ Size(t) = 0
    BY <1>6 DEF Script, Size
  <2> QED
    BY <1>6, <2>1
<1> QED
  BY <1>1, <1>2, <1>3, <1>4, <1>5, <1>6

LEMMA SizeIsNatural ==
  \A t \in Tabs : Size(t) \in 0 .. 3
  BY DEF Size

(* FOR UPDATE is taken on rounds only.                                     *)
LEMMA HeldModes ==
  ASSUME TypeOK, LockInv, NEW v \in Tabs, NEW h \in Held(v), h.mode = "FU"
  PROVE  h.row # RoomRow /\ \A u \in Users : h.row # ProfileRow(u)
<1>1. PICK i \in 1 .. tx[v].got : h = Script(v)[i]
  BY DEF Held
<1>2. tx[v].got \in Nat /\ tx[v].got <= Size(v) /\ Size(v) \in 0 .. 3
  BY SizeIsNatural DEF TypeOK, LockInv
<1>3. i \in 1 .. Size(v)
  BY <1>1, <1>2
<1>4. tx[v].kind \in {"JOIN", "CANCEL", "REMATCH", "CONNECT", "TICKET"}
  BY <1>3 DEF Size, TypeOK, Kinds
<1>5. \A r : MatchRow(r) # RoomRow /\ \A u \in Users : MatchRow(r) # ProfileRow(u)
  BY DEF MatchRow, RoomRow, ProfileRow
<1>6. \A row, mode : Lock(row, mode).row = row /\ Lock(row, mode).mode = mode
  BY DEF Lock
<1>7. CASE tx[v].kind = "JOIN"
  <2>1. Size(v) \in {1, 2}
    BY <1>7 DEF Size
  <2>2. i = 1 \/ (i = 2 /\ Size(v) = 2)
    BY <1>3, <2>1
  <2>3. /\ Script(v)[1] = Lock(RoomRow, "NKU")
        /\ Size(v) = 2 => Script(v)[2] = Lock(MatchRow(active), "NKU")
    BY <1>7, Scripts
  <2>4. h = Lock(RoomRow, "NKU") \/ h = Lock(MatchRow(active), "NKU")
    BY <1>1, <2>2, <2>3
  <2> QED
    BY <1>6, <2>4
<1>8. CASE tx[v].kind \in {"CANCEL", "REMATCH"}
  <2>1. Size(v) \in {1, 2}
    BY <1>8 DEF Size
  <2>2. i = 1 \/ (i = 2 /\ Size(v) = 2)
    BY <1>3, <2>1
  <2>3. /\ Script(v)[1] = Lock(MatchRow(tx[v].round), "FU")
        /\ Size(v) = 2 => Script(v)[2] = Lock(RoomRow, "NKU")
    BY <1>8, Scripts
  <2>4. h = Lock(MatchRow(tx[v].round), "FU") \/ h = Lock(RoomRow, "NKU")
    BY <1>1, <2>2, <2>3
  <2> QED
    BY <1>5, <1>6, <2>4
<1>9. CASE tx[v].kind = "CONNECT"
  <2>1. Size(v) = 3
    BY <1>9 DEF Size
  <2>2. i \in {1, 2, 3}
    BY <1>3, <2>1
  <2>3. h \in {Lock(MatchRow(tx[v].round), "FU"), Lock(RoomRow, "KS"), Lock(ProfileRow(Who[v]), "KS")}
    BY <1>1, <1>9, <2>2, Scripts
  <2> QED
    BY <1>5, <1>6, <2>3
<1>10. CASE tx[v].kind = "TICKET"
  <2>1. Size(v) = 3
    BY <1>10 DEF Size
  <2>2. i \in {1, 2, 3}
    BY <1>3, <2>1
  <2>3. h \in {Lock(ProfileRow(Who[v]), "NKU"), Lock(RoomRow, "SH"), Lock(MatchRow(tx[v].round), "KS")}
    BY <1>1, <1>10, <2>2, Scripts
  <2> QED
    BY <1>6, <2>3
<1> QED
  BY <1>4, <1>7, <1>8, <1>9, <1>10

LEMMA HolderBlocks ==
  ASSUME TypeOK, LockInv, NEW v \in Tabs
  PROVE  /\ WritesRoom(v) => Lock(RoomRow, "NKU") \in Held(v)
         /\ OwnsMatch(v) => Lock(MatchRow(tx[v].round), "FU") \in Held(v)
<1>1. tx[v].got \in Nat /\ tx[v].got <= Size(v) /\ Size(v) \in 0 .. 3
  BY SizeIsNatural DEF TypeOK, LockInv
<1>2. \A i \in 1 .. tx[v].got : Script(v)[i] \in Held(v)
  BY DEF Held
<1>3. ASSUME tx[v].kind = "JOIN", tx[v].got >= 1
      PROVE  Lock(RoomRow, "NKU") \in Held(v)
  <2>1. 1 \in 1 .. tx[v].got
    BY <1>1, <1>3
  <2> QED
    BY <1>2, <1>3, <2>1, Scripts
<1>4. ASSUME tx[v].kind \in {"CANCEL", "REMATCH"}, tx[v].got >= 2
      PROVE  Lock(RoomRow, "NKU") \in Held(v)
  <2>1. 2 \in 1 .. tx[v].got
    BY <1>1, <1>4
  <2>2. Size(v) = 2
    BY <1>1, <1>4 DEF Size
  <2> QED
    BY <1>2, <1>4, <2>1, <2>2, Scripts
<1>5. ASSUME OwnsMatch(v)
      PROVE  Lock(MatchRow(tx[v].round), "FU") \in Held(v)
  <2>1. 1 \in 1 .. tx[v].got
    BY <1>1, <1>5 DEF OwnsMatch
  <2> QED
    BY <1>2, <1>5, <2>1, Scripts DEF OwnsMatch
<1> QED
  BY <1>3, <1>4, <1>5 DEF WritesRoom

(* Who opens a session holds nothing while he waits for his round, and     *)
(* later waits for rows that nobody holds FOR UPDATE.                      *)
LEMMA ConnectIsNotWaitedForInACircle ==
  ASSUME RoomAssumption, TypeOK, LockInv
  PROVE  ConnectNeverDeadlocks
<1> SUFFICES ASSUME NEW t \in Tabs, InCircle(t), tx[t].kind = "CONNECT"
             PROVE  FALSE
  BY DEF ConnectNeverDeadlocks
<1>1. PICK v \in Tabs : WaitsFor(t, v)
  BY DEF InCircle
<1>2. PICK w \in Tabs : WaitsFor(w, t)
  BY DEF InCircle
<1>3. tx[t].got \in Nat /\ tx[t].got <= 3 /\ Len(Script(t)) = 3
  BY Scripts DEF TypeOK, LockInv, Size
<1>4. tx[t].got # 0
  <2>1. PICK h \in Held(t) : TRUE
    BY <1>2 DEF WaitsFor
  <2>2. \E i \in 1 .. tx[t].got : TRUE
    BY <2>1 DEF Held
  <2> QED
    BY <2>2
<1>5. tx[t].got \in {1, 2}
  BY <1>1, <1>3, <1>4 DEF WaitsFor, Granted
<1>6. PICK h \in Held(v) :
        LET want == Script(t)[tx[t].got + 1] IN h.row = want.row /\ Conflicts(want.mode, h.mode)
  BY <1>1 DEF WaitsFor
<1>7. Script(t)[tx[t].got + 1] \in {Lock(RoomRow, "KS"), Lock(ProfileRow(Who[t]), "KS")}
  BY <1>5, Scripts
<1>8. h.mode = "FU" /\ h.row \in {RoomRow, ProfileRow(Who[t])}
  BY <1>6, <1>7 DEF Conflicts, Lock
<1>9. Who[t] \in Users
  BY DEF RoomAssumption
<1> QED
  BY <1>8, <1>9, HeldModes

(* What a request needs does not shrink while what it reads stays.         *)
LEMMA SizeHolds ==
  ASSUME NEW v \in Tabs, tx'[v] = tx[v],
         tx[v].kind = "JOIN" => (MayEnter(Who[v]) => MayEnter(Who[v])'),
         tx[v].kind \in {"CANCEL", "REMATCH"} =>
           LET r == tx[v].round IN
           /\ rounds'[r].state = rounds[r].state /\ rounds'[r].next = rounds[r].next
           /\ rounds'[r].window = rounds[r].window /\ rounds'[r].votes = rounds[r].votes
  PROVE  Size(v) <= Size(v)'
<1>1. CASE tx[v].kind = "JOIN"
  BY <1>1 DEF Size
<1>2. CASE tx[v].kind = "CANCEL"
  BY <1>2 DEF Size
<1>3. CASE tx[v].kind = "REMATCH"
  BY <1>3 DEF Size, CompletesVote
<1>4. CASE tx[v].kind \notin {"JOIN", "CANCEL", "REMATCH"}
  BY <1>4 DEF Size
<1> QED
  BY <1>1, <1>2, <1>3, <1>4

(* Requests begin and end with no lock; the others keep theirs.            *)
LEMMA LocksStay ==
  ASSUME TypeOK, LockInv,
         \A v \in Tabs : tx'[v] = tx[v] \/ tx'[v].got = 0,
         \A v \in Tabs : tx[v].got >= 1 /\ tx'[v] = tx[v] => Size(v) <= Size(v)'
  PROVE  LockInv'
<1>1. \A v \in Tabs : Size(v)' \in 0 .. 3
  BY DEF Size
<1>2. ASSUME NEW v \in Tabs
      PROVE  tx'[v].got <= Size(v)'
  <2>1. Size(v)' \in 0 .. 3 /\ Size(v) \in 0 .. 3 /\ tx[v].got \in Nat /\ tx[v].got <= Size(v)
    BY <1>1, SizeIsNatural DEF TypeOK, LockInv
  <2>2. CASE tx'[v].got = 0
    BY <2>1, <2>2
  <2>3. CASE tx'[v] = tx[v] /\ tx[v].got >= 1
    BY <2>1, <2>3
  <2> QED
    BY <2>1, <2>2, <2>3
<1>3. ASSUME NEW v \in Tabs, WritesRoom(v)' \/ OwnsMatch(v)'
      PROVE  tx'[v] = tx[v]
  BY <1>3 DEF WritesRoom, OwnsMatch
<1>4. ASSUME NEW v \in Tabs
      PROVE  /\ WritesRoom(v)' => WritesRoom(v)
             /\ OwnsMatch(v)' => OwnsMatch(v) /\ tx'[v].round = tx[v].round
  BY <1>3 DEF WritesRoom, OwnsMatch
<1> QED
  BY <1>2, <1>4 DEF LockInv

LEMMA LocksAfterAcquire ==
  ASSUME RoomAssumption, TypeOK, LockInv, NEW t \in Tabs, Acquire(t)
  PROVE  LockInv'
<1> DEFINE n == tx[t].got + 1
           want == Script(t)[n]
<1>1. tx[t].got \in Nat /\ tx[t].got < Size(t) /\ Size(t) \in 0 .. 3
  BY Scripts, SizeIsNatural DEF TypeOK, LockInv, Acquire, Granted
<1>2. /\ \A v \in Tabs : v # t => tx'[v] = tx[v]
      /\ tx'[t].got = n /\ tx'[t].kind = tx[t].kind /\ tx'[t].round = tx[t].round
  BY DEF Acquire, TypeOK
<1>3. \A v \in Tabs : Size(v)' = Size(v)
  <2>1. Seated' = Seated
    BY DEF Seated, Acquire
  <2>2. ASSUME NEW v \in Tabs, tx'[v].kind = tx[v].kind, tx'[v].round = tx[v].round
        PROVE  Size(v)' = Size(v)
    BY <2>1, <2>2 DEF Size, MayEnter, CompletesVote, Acquire
  <2> QED
    BY <1>2, <2>2
<1>4. ASSUME NEW v \in Tabs, v # t, NEW h \in Held(v), h.row = want.row
      PROVE  ~Conflicts(want.mode, h.mode)
  BY <1>4 DEF Acquire, WaitsFor
<1>5. \A v \in Tabs : v # t =>
        /\ WritesRoom(v)' = WritesRoom(v) /\ OwnsMatch(v)' = OwnsMatch(v)
        /\ tx'[v].round = tx[v].round
  BY <1>2 DEF WritesRoom, OwnsMatch
<1>6. ASSUME WritesRoom(t)', ~WritesRoom(t), NEW v \in Tabs, v # t, WritesRoom(v)
      PROVE  FALSE
  <2>1. want = Lock(RoomRow, "NKU")
    <3>1. CASE tx[t].kind = "JOIN"
      <4>1. n = 1
        BY <1>1, <1>2, <1>6, <3>1 DEF WritesRoom
      <4> QED
        BY <3>1, <4>1, Scripts
    <3>2. CASE tx[t].kind \in {"CANCEL", "REMATCH"}
      <4>1. n = 2
        BY <1>1, <1>2, <1>6, <3>2 DEF WritesRoom
      <4>2. Size(t) = 2
        BY <1>1, <3>2, <4>1 DEF Size
      <4> QED
        BY <3>2, <4>1, <4>2, Scripts
    <3> QED
      BY <1>2, <1>6, <3>1, <3>2 DEF WritesRoom
  <2>2. Lock(RoomRow, "NKU") \in Held(v)
    BY <1>6, HolderBlocks
  <2> QED
    BY <1>4, <1>6, <2>1, <2>2 DEF Conflicts, Lock
<1>7. ASSUME OwnsMatch(t)', ~OwnsMatch(t), NEW v \in Tabs, v # t, OwnsMatch(v),
             tx[v].round = tx[t].round
      PROVE  FALSE
  <2>1. n = 1 /\ tx[t].kind \in {"CANCEL", "REMATCH", "CONNECT"}
    BY <1>1, <1>2, <1>7 DEF OwnsMatch
  <2>2. want = Lock(MatchRow(tx[t].round), "FU")
    BY <2>1, Scripts
  <2>3. Lock(MatchRow(tx[t].round), "FU") \in Held(v)
    BY <1>7, HolderBlocks
  <2> QED
    BY <1>4, <1>7, <2>2, <2>3 DEF Conflicts, Lock
<1>8. \A v \in Tabs : tx'[v].got <= Size(v)'
  BY <1>1, <1>2, <1>3 DEF LockInv
<1>9. ASSUME NEW v \in Tabs, NEW w \in Tabs, v # w
      PROVE  /\ ~(WritesRoom(v)' /\ WritesRoom(w)')
             /\ OwnsMatch(v)' /\ OwnsMatch(w)' => tx'[v].round # tx'[w].round
  BY <1>2, <1>5, <1>6, <1>7, <1>9 DEF LockInv
<1> HIDE DEF n, want
<1> QED
  BY <1>8, <1>9 DEF LockInv

LEMMA LocksAfterJoin ==
  ASSUME RoomAssumption, RowInv, LockInv, NEW t \in Tabs, CommitJoin(t)
  PROVE  LockInv'
<1>1. \A v \in Tabs : tx'[v] = tx[v] \/ tx'[v].got = 0
  BY DEF CommitJoin, Reject, AnswerRepeat, AnswerNew, Finish, Idle, RowInv, TypeOK
<1>2. closed' = closed
  BY DEF CommitJoin, Reject, AnswerRepeat
<1>3. RowStep /\ Seated \subseteq Seated'
  BY JoinIsARowStep, SeatsStayFew DEF RowInv
<1>4. ASSUME NEW r \in DOMAIN rounds
      PROVE  /\ rounds'[r].state = rounds[r].state /\ rounds'[r].next = rounds[r].next
             /\ rounds'[r].window = rounds[r].window /\ rounds'[r].votes = rounds[r].votes
  <2>1. CASE UNCHANGED rounds
    BY <2>1
  <2>2. CASE rounds' = [rounds EXCEPT ![active].players = @ \cup {Who[t]}]
    <3>1. rounds[r] \in RoundRow
      BY RoundsAreRows DEF RowInv
    <3>2. rounds'[r] = IF r = active THEN [rounds[r] EXCEPT !.players = @ \cup {Who[t]}]
                                     ELSE rounds[r]
      BY <2>2
    <3> QED
      BY <3>1, <3>2 DEF RoundRow
  <2> QED
    BY <2>1, <2>2 DEF CommitJoin, Reject, AnswerRepeat
<1>5. \A v \in Tabs : Busy(v) => tx[v].round \in DOMAIN rounds
  BY DEF RowInv, RequestsMakeSense, Sensible
<1>6. ASSUME NEW v \in Tabs, tx'[v] = tx[v]
      PROVE  Size(v) <= Size(v)'
  BY <1>2, <1>3, <1>4, <1>5, <1>6, SizeHolds DEF MayEnter, Busy
<1> QED
  BY <1>1, <1>6, LocksStay DEF RowInv

(* Who writes round r from its lock has it alone.                          *)
LEMMA LocksAfterOwner ==
  ASSUME RoomAssumption, RowInv, LockInv, NEW t \in Tabs, Finish(t), OwnsMatch(t),
         \A i \in DOMAIN rounds : i # tx[t].round => rounds'[i] = rounds[i],
         UNCHANGED seats,
         WritesRoom(t) \/ UNCHANGED closed
  PROVE  LockInv'
<1>1. \A v \in Tabs : v # t => tx'[v] = tx[v]
  BY DEF Finish, RowInv, TypeOK
<1>2. tx'[t].got = 0
  BY DEF Finish, Idle, RowInv, TypeOK
<1>3. Seated' = Seated
  BY DEF Seated
<1>4. ASSUME NEW v \in Tabs, v # t, tx[v].got >= 1
      PROVE  Size(v) <= Size(v)'
  <2>1. tx'[v] = tx[v]
    BY <1>1, <1>4
  <2>2. tx[v].kind = "JOIN" => (MayEnter(Who[v]) => MayEnter(Who[v])')
    <3>1. tx[v].kind = "JOIN" => UNCHANGED closed
      BY <1>4 DEF LockInv, WritesRoom
    <3> QED
      BY <1>3, <3>1 DEF MayEnter
  <2>3. tx[v].kind \in {"CANCEL", "REMATCH"} => rounds'[tx[v].round] = rounds[tx[v].round]
    <3>1. ASSUME tx[v].kind \in {"CANCEL", "REMATCH"}
          PROVE  tx[v].round \in DOMAIN rounds /\ tx[v].round # tx[t].round
      BY <1>4, <3>1 DEF LockInv, OwnsMatch, RowInv, RequestsMakeSense, Sensible, Busy
    <3> QED
      BY <3>1
  <2> QED
    BY <2>1, <2>2, <2>3, SizeHolds
<1>5. \A v \in Tabs : tx'[v] = tx[v] \/ tx'[v].got = 0
  BY <1>1, <1>2
<1>6. \A v \in Tabs : tx[v].got >= 1 /\ tx'[v] = tx[v] => Size(v) <= Size(v)'
  <2>1. tx[t].got >= 1 => tx'[t] # tx[t]
    BY <1>2
  <2> QED
    BY <1>4, <2>1
<1> QED
  BY <1>5, <1>6, LocksStay DEF RowInv

(* Nothing is written, and requests only begin or end.                     *)
LEMMA LocksWithSameRows ==
  ASSUME TypeOK, LockInv, SameRows, \A v \in Tabs : tx'[v] = tx[v] \/ tx'[v].got = 0
  PROVE  LockInv'
<1>1. Seated' = Seated
  BY DEF SameRows, Seated
<1>2. ASSUME NEW v \in Tabs, tx'[v] = tx[v]
      PROVE  Size(v) <= Size(v)'
  BY <1>1, <1>2, SizeHolds DEF SameRows, MayEnter
<1> QED
  BY <1>2, LocksStay

LEMMA LocksAfterCancel ==
  ASSUME RoomAssumption, RowInv, LockInv, NEW t \in Tabs, CommitCancel(t)
  PROVE  LockInv'
<1> DEFINE r == tx[t].round
<1>1. tx[t].kind = "CANCEL" /\ tx[t].got = Size(t) /\ r \in DOMAIN rounds
  BY Scripts DEF CommitCancel, Granted, RowInv, RequestsMakeSense, Sensible, Busy
<1>2. OwnsMatch(t)
  BY <1>1 DEF OwnsMatch, Size
<1>3. CASE Reject(t) \/ AnswerRepeat(t, r, r)
  BY <1>2, <1>3, LocksAfterOwner DEF Reject, AnswerRepeat
<1>4. CASE /\ Who[t] = Host /\ rounds[r].state = "LOBBY"
           /\ rounds' = [rounds EXCEPT ![r].state = "FINISHED", ![r].settled = rounds[r].players]
           /\ Finish(t) /\ UNCHANGED seats
  <2>1. WritesRoom(t)
    BY <1>1, <1>4 DEF WritesRoom, Size
  <2>2. \A i \in DOMAIN rounds : i # r => rounds'[i] = rounds[i]
    BY <1>4
  <2> QED
    BY <1>2, <1>4, <2>1, <2>2, LocksAfterOwner
<1> QED
  BY <1>3, <1>4 DEF CommitCancel, AnswerNew

LEMMA LocksAfterRematch ==
  ASSUME RoomAssumption, RowInv, LockInv, NEW t \in Tabs, CommitRematch(t)
  PROVE  LockInv'
<1> DEFINE r == tx[t].round
           u == Who[t]
<1>1. tx[t].kind = "REMATCH" /\ tx[t].got = Size(t) /\ r \in DOMAIN rounds
      /\ u \in Users /\ u \in rounds[r].players
  BY Scripts DEF CommitRematch, Granted, RowInv, RequestsMakeSense, Sensible, Busy, RoomAssumption
<1>2. OwnsMatch(t)
  BY <1>1 DEF OwnsMatch, Size
<1>3. CASE Reject(t) \/ AnswerRepeat(t, r, RepeatTarget(t, r))
  BY <1>2, <1>3, LocksAfterOwner DEF Reject, AnswerRepeat
<1>4. CASE UNCHANGED rounds /\ Finish(t) /\ UNCHANGED <<seats, closed>>
  BY <1>2, <1>4, LocksAfterOwner
<1>5. CASE /\ rounds' = [rounds EXCEPT ![r].votes = @ \cup {u}]
           /\ Finish(t) /\ UNCHANGED <<seats, closed>>
  <2>1. \A i \in DOMAIN rounds : i # r => rounds'[i] = rounds[i]
    BY <1>5
  <2> QED
    BY <1>2, <1>5, <2>1, LocksAfterOwner
<1>6. CASE /\ CompletesVote(u, r)
           /\ rounds' = Append([rounds EXCEPT ![r].votes = @ \cup {u}, ![r].next = r + 1],
                               NewRound(NextPlayers(r)))
           /\ active' = r + 1
           /\ Finish(t) /\ UNCHANGED <<seats, closed>>
  <2>1. OpensNext(u, r)
    BY <1>1, <1>6, PairOpensNext DEF RowInv
  <2>2. \A i \in DOMAIN rounds : i # r => rounds'[i] = rounds[i]
    BY <2>1 DEF OpensNext
  <2> QED
    BY <1>2, <1>6, <2>2, LocksAfterOwner
<1> QED
  BY <1>3, <1>4, <1>5, <1>6 DEF CommitRematch, AnswerNew

(* A round moves while nobody holds its row.                               *)
LEMMA LocksAfterRound ==
  ASSUME RoomAssumption, RowInv, LockInv, NEW r \in Rounds,
         BeginRound(r) \/ EndRound(r) \/ WindowCloses(r)
  PROVE  LockInv'
<1>1. /\ Unlocked(r) /\ UNCHANGED <<seats, closed, tx>>
      /\ \A i \in DOMAIN rounds : i # r => rounds'[i] = rounds[i]
  BY DEF BeginRound, EndRound, WindowCloses
<1>2. Seated' = Seated
  BY <1>1 DEF Seated
<1>3. ASSUME NEW v \in Tabs, tx[v].got >= 1
      PROVE  Size(v) <= Size(v)'
  <2>1. tx[v].kind \in {"CANCEL", "REMATCH"} => rounds'[tx[v].round] = rounds[tx[v].round]
    <3>1. ASSUME tx[v].kind \in {"CANCEL", "REMATCH"}
          PROVE  tx[v].round # r /\ tx[v].round \in DOMAIN rounds
      <4>1. Lock(MatchRow(tx[v].round), "FU") \in Held(v)
        BY <1>3, <3>1, HolderBlocks DEF OwnsMatch, RowInv
      <4>2. tx[v].round # r
        BY <1>1, <4>1 DEF Unlocked, Lock
      <4> QED
        BY <3>1, <4>2 DEF RowInv, RequestsMakeSense, Sensible, Busy
    <3> QED
      BY <1>1, <3>1
  <2> QED
    BY <1>1, <1>2, <2>1, SizeHolds DEF MayEnter
<1> QED
  BY <1>1, <1>3, LocksStay DEF RowInv

LEMMA LocksAfterBegin ==
  ASSUME TypeOK, LockInv, NEW t, NEW kind, NEW k, NEW r, Begin(t, kind, k, r)
  PROVE  LockInv'
<1>1. \A v \in Tabs : tx'[v] = tx[v] \/ tx'[v].got = 0
  BY DEF Begin, TypeOK
<1> QED
  BY <1>1, LocksWithSameRows DEF Begin, SameRows

LEMMA LocksGoOn ==
  ASSUME RoomAssumption, RowInv, LockInv, [Next]_vars
  PROVE  LockInv'
<1>1. TypeOK
  BY DEF RowInv
<1>2. CASE UNCHANGED vars
  BY <1>1, <1>2, LocksWithSameRows DEF vars, SameRows
<1>3. ASSUME NEW t \in Tabs, NEW k \in Keys,
             SendJoin(t, k) \/ \E r \in Rounds : SendRematch(t, k, r) \/ SendCancel(t, k, r)
      PROVE  LockInv'
  BY <1>1, <1>3, LocksAfterBegin DEF SendJoin, SendRematch, SendCancel
<1>4. ASSUME NEW t \in Tabs, SendConnect(t) \/ SendTicket(t)
      PROVE  LockInv'
  BY <1>1, <1>4, LocksAfterBegin DEF SendConnect, SendTicket
<1>5. ASSUME NEW t \in Tabs, AbortDeadlocked(t) \/ CommitLink(t)
      PROVE  LockInv'
  <2>1. \A v \in Tabs : tx'[v] = tx[v] \/ tx'[v].got = 0
    BY <1>1, <1>5 DEF AbortDeadlocked, CommitLink, Reject, Finish, Idle, TypeOK
  <2> QED
    BY <1>1, <1>5, <2>1, LocksWithSameRows DEF AbortDeadlocked, CommitLink, Reject, SameRows
<1>6. ASSUME NEW t \in Tabs, Work(t)
      PROVE  LockInv'
  BY <1>1, <1>5, <1>6, LocksAfterAcquire, LocksAfterJoin, LocksAfterCancel, LocksAfterRematch DEF Work
<1> QED
  BY <1>2, <1>3, <1>4, <1>6, LocksAfterRound DEF Next

(* The wait-for graph of the requests: opening a realtime session (connect *)
(* in presence) is never one of the requests of a deadlock, whatever is    *)
(* under way.                                                              *)
THEOREM ConnectIsSafe == Spec => []ConnectNeverDeadlocks
<1>1. Init => LockInv
  <2> SUFFICES ASSUME Init
               PROVE  LockInv
    OBVIOUS
  <2>1. \A t \in Tabs : tx[t].got = 0 /\ tx[t].kind = "NONE"
    BY DEF Init, Idle
  <2> QED
    BY <2>1, SizeIsNatural DEF LockInv, WritesRoom, OwnsMatch
<1>2. RowInv /\ LockInv /\ [Next]_vars => LockInv'
  BY RoomAssumption, LocksGoOn
<1>3. RowInv /\ LockInv => ConnectNeverDeadlocks
  BY RoomAssumption, ConnectIsNotWaitedForInACircle DEF RowInv
<1> QED
  BY <1>1, <1>2, <1>3, RoomIsSound, PTL DEF Spec

=============================================================================
