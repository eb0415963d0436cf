-------------------------------- MODULE Rooms --------------------------------
(***************************************************************************)
(* A duel room over its rounds: seats, commands with idempotency keys,     *)
(* rematch votes, the choice of problems, and the row locks that order     *)
(* the transactions.                                                       *)
(*                                                                         *)
(* A request handler is a transaction that takes its row locks one by one  *)
(* (Acquire) and then commits.  What it reads is protected by the locks it *)
(* holds until then, so its whole effect is the commit; what MatchEngine   *)
(* hides by making a transaction atomic is here: who waits for whom, and   *)
(* the transaction PostgreSQL aborts when the wait is a circle.            *)
(*                                                                         *)
(* Lock modes, weakest first: KS (KEY SHARE, taken by foreign keys), SH    *)
(* (SHARE), NKU (NO KEY UPDATE, also a plain UPDATE), FU (UPDATE).         *)
(*                                                                         *)
(* A round is abstract: it is begun by the last player who readies up and  *)
(* it ends; MatchEngine says how. One room; its host created it.           *)
(***************************************************************************)
EXTENDS Naturals, Sequences, FiniteSets

CONSTANTS
  Users,       \* accounts that know the invitation
  Tabs,        \* browser tabs, each with one request in progress at most
  Who,         \* the user signed in at a tab
  Host,        \* the one who created the room
  Keys,        \* idempotency keys a browser may draw
  Problems,    \* the catalogue, at the difficulty of the room
  MaxRounds,   \* BOUND: rounds of the room
  Sends,       \* BOUND: the kinds of requests a tab left,
  Budgets,     \*        and how many, one of these
  NoProblem,   \* SQL NULL
  NoReply      \* a command that has not been answered

Kinds == {"JOIN", "REMATCH", "CANCEL", "CONNECT", "TICKET"}

ASSUME RoomAssumption ==
  /\ Host \in Users
  /\ IsFiniteSet(Problems) /\ Problems # {} /\ NoProblem \notin Problems
  /\ Who \in [Tabs -> Users]
  /\ MaxRounds \in Nat \ {0} /\ Budgets \subseteq [Tabs -> Nat]
  /\ Sends \in [Tabs -> SUBSET Kinds]

VARIABLES
  seats,     \* room_members in slot order
  active,    \* rooms.active_match_id, as a round number
  closed,    \* rooms.closed_at is set
  rounds,    \* the matches of the room, by round number
  receipts,  \* command_receipts, by actor and key
  tx,        \* the request each tab has in progress
  left,      \* requests each tab may still send
  answer     \* the answer the step has sent, if it has sent one

vars == <<seats, active, closed, rounds, receipts, tx, left, answer>>

RoundState == {"LOBBY", "PLAYING", "REMATCH_PENDING", "FINISHED"}
Rounds == 1 .. MaxRounds
Modes == {"KS", "SH", "NKU", "FU"}

Idle == [kind |-> "NONE", key |-> NoReply, round |-> 0, got |-> 0]

NewRound(players) ==
  [state |-> "LOBBY", players |-> players, settled |-> {}, votes |-> {},
   next |-> 0, window |-> FALSE, problem |-> NoProblem]

RoundRow ==
  [state : RoundState, players : SUBSET Users, settled : SUBSET Users,
   votes : SUBSET Users, next : Nat, window : BOOLEAN,
   problem : Problems \cup {NoProblem}]

TypeOK ==
  /\ seats \in Seq(Users)
  /\ active \in Nat
  /\ closed \in BOOLEAN
  /\ rounds \in Seq(RoundRow)
  /\ receipts \in [Users \X Keys ->
       [kind : Kinds \cup {"NONE"}, round : Nat, reply : Nat \cup {NoReply}]]
  /\ tx \in [Tabs -> [kind : Kinds \cup {"NONE"}, key : Keys \cup {NoReply},
                      round : Nat, got : Nat]]
  /\ left \in [Tabs -> Nat]
  /\ answer \in [tab : Tabs, kind : Kinds, sent : Nat, round : Nat] \cup {NoReply}

(* What createRoom commits: the host on seat 1, round 1 in the lobby.      *)
Init ==
  /\ seats = <<Host>>
  /\ active = 1
  /\ closed = FALSE
  /\ rounds = <<NewRound({Host})>>
  /\ receipts = [r \in Users \X Keys |-> [kind |-> "NONE", round |-> 0, reply |-> NoReply]]
  /\ tx = [t \in Tabs |-> Idle]
  /\ left \in Budgets
  /\ answer = NoReply

Seated == {seats[i] : i \in DOMAIN seats}

-----------------------------------------------------------------------------
(* Row locks.                                                              *)

Lock(row, mode) == [row |-> row, mode |-> mode]
RoomRow         == <<"ROOM", 0>>
MatchRow(r)     == <<"MATCH", r>>
ProfileRow(u)   == <<"PROFILE", u>>

Conflicts(m, n) ==
  \/ m = "FU" \/ n = "FU"
  \/ m = "NKU" /\ n \in {"SH", "NKU"}
  \/ m = "SH" /\ n = "NKU"

(* Fault: the invitation is looked up with FOR UPDATE.                     *)
BadJoinMode == "FU"
JoinMode == "NKU"
(* Of two votes that differ, the second one writes the room.               *)
CompletesVote(u, r) ==
  /\ rounds[r].state = "REMATCH_PENDING" /\ rounds[r].next = 0
  /\ rounds[r].window
  /\ Cardinality(rounds[r].votes \cup {u}) = 2

(* Fault: an invitation admits to a closed room too.                       *)
BadMayEnter(u) == TRUE
MayEnter(u) == ~closed \/ u \in Seated

(* The locks a request takes, in its order. Left out are those that are    *)
(* weaker than one it holds, and the KEY SHARE on the actor's profile of   *)
(* the first three, which nothing here waits for or is waited for by.      *)
Script(t) ==
  LET kind == tx[t].kind
      r    == tx[t].round
      u    == Who[t]
  IN CASE kind = "JOIN" ->
            <<Lock(RoomRow, JoinMode)>>
              \o (IF u = Host \/ ~MayEnter(u) THEN <<>>
                  ELSE <<Lock(MatchRow(active), "NKU")>>)
       [] kind = "CANCEL" ->
            <<Lock(MatchRow(r), "FU")>>
              \o (IF u = Host /\ rounds[r].state = "LOBBY"
                    THEN <<Lock(RoomRow, "NKU")>> ELSE <<>>)
       [] kind = "REMATCH" ->
            <<Lock(MatchRow(r), "FU")>>
              \o (IF CompletesVote(u, r) THEN <<Lock(RoomRow, "NKU")>> ELSE <<>>)
       [] kind = "CONNECT" ->
            <<Lock(MatchRow(r), "FU"), Lock(RoomRow, "KS"), Lock(ProfileRow(u), "KS")>>
       [] kind = "TICKET" ->
            <<Lock(ProfileRow(u), "NKU"), Lock(RoomRow, "SH"), Lock(MatchRow(r), "KS")>>
       [] OTHER -> <<>>

Silent == answer' = NoReply

Busy(t)    == tx[t].kind # "NONE"
Held(t)    == LET locks == Script(t) IN {locks[i] : i \in 1 .. tx[t].got}
Granted(t) == tx[t].got = Len(Script(t))

WaitsFor(t, v) ==
  /\ t # v /\ Busy(t) /\ ~Granted(t)
  /\ LET want == Script(t)[tx[t].got + 1]
     IN \E h \in Held(v) : h.row = want.row /\ Conflicts(want.mode, h.mode)

(* Requests that wait for one another in a circle.                         *)
InCircle(t) ==
  LET busy  == {v \in Tabs : Busy(v)}
      waits == {e \in busy \X busy : WaitsFor(e[1], e[2])}
  IN /\ \E v \in busy : WaitsFor(t, v)
     /\ \E circle \in SUBSET {e[1] : e \in waits} :
       /\ t \in circle
       /\ \A v \in circle : /\ \E w \in circle : <<v, w>> \in waits
                            /\ \E w \in circle : <<w, v>> \in waits

Begin(t, kind, k, r) ==
  /\ ~Busy(t)
  /\ kind \in Sends[t] /\ left[t] > 0
  /\ tx' = [tx EXCEPT ![t] = [kind |-> kind, key |-> k, round |-> r, got |-> 0]]
  /\ left' = [left EXCEPT ![t] = @ - 1]
  /\ Silent /\ UNCHANGED <<seats, active, closed, rounds, receipts>>

(* Requests a browser may send: a vote once it has seen the round end, a   *)
(* cancellation while it shows the lobby. A repetition uses a key again.   *)
SendJoin(t, k) == Begin(t, "JOIN", k, active)
SendRematch(t, k, r) ==
  /\ r \in DOMAIN rounds /\ Who[t] \in rounds[r].players /\ r < MaxRounds
  /\ rounds[r].state = "REMATCH_PENDING"
  /\ Begin(t, "REMATCH", k, r)
SendCancel(t, k, r) ==
  /\ r \in DOMAIN rounds /\ Who[t] \in rounds[r].players
  /\ rounds[r].state = "LOBBY" \/ receipts[<<Who[t], k>>].kind = "CANCEL"
  /\ Begin(t, "CANCEL", k, r)
(* assertRoomMembership reads the active match before the transaction.     *)
SendConnect(t) == Who[t] \in Seated /\ Begin(t, "CONNECT", NoReply, active)
SendTicket(t)  == Who[t] \in Seated /\ Begin(t, "TICKET", NoReply, active)

Acquire(t) ==
  /\ Busy(t) /\ ~Granted(t)
  /\ \A v \in Tabs : ~WaitsFor(t, v)
  /\ tx' = [tx EXCEPT ![t].got = @ + 1]
  /\ Silent /\ UNCHANGED <<seats, active, closed, rounds, receipts, left>>

(* PostgreSQL aborts one transaction of a circle; its request fails.       *)
AbortDeadlocked(t) ==
  /\ Busy(t) /\ InCircle(t)
  /\ tx' = [tx EXCEPT ![t] = Idle]
  /\ Silent /\ UNCHANGED <<seats, active, closed, rounds, receipts, left>>

-----------------------------------------------------------------------------
(* Receipts.                                                               *)

Receipt(t) == receipts[<<Who[t], tx[t].key>>]

IsRepeat(t, kind, r) == Receipt(t).kind = kind /\ Receipt(t).round = r

IsNew(t) == Receipt(t).kind = "NONE"

(* The key was used for another command: IDEMPOTENCY_CONFLICT.             *)
KeyIsTaken(t, kind, r) == ~IsNew(t) /\ ~IsRepeat(t, kind, r)

Finish(t) == tx' = [tx EXCEPT ![t] = Idle]

Reject(t) ==
  /\ Finish(t)
  /\ Silent /\ UNCHANGED <<seats, active, closed, rounds, receipts, left>>

Reply(t, r, response) ==
  answer' = [tab |-> t, kind |-> tx[t].kind, sent |-> r, round |-> response]

AnswerRepeat(t, r, response) ==
  /\ Reply(t, r, response)
  /\ Finish(t)
  /\ UNCHANGED <<seats, active, closed, rounds, receipts, left>>

(* completeCommand: the receipt keeps the first response.                  *)
AnswerNew(t, r, response) ==
  /\ receipts' = [receipts EXCEPT ![<<Who[t], tx[t].key>>] =
                    [kind |-> tx[t].kind, round |-> r, reply |-> response]]
  /\ Reply(t, r, response)
  /\ Finish(t)

-----------------------------------------------------------------------------
(* Commits. Granted says that every lock of the request is held.           *)

CommitJoin(t) ==
  LET u == Who[t] IN
  /\ tx[t].kind = "JOIN" /\ Granted(t)
  /\ \/ /\ \/ u = Host \/ ~MayEnter(u) \/ KeyIsTaken(t, "JOIN", active)
           \/ IsNew(t) /\ u \notin Seated /\ Len(seats) = 2
        /\ Reject(t)
     \/ /\ u # Host /\ MayEnter(u) /\ IsRepeat(t, "JOIN", active)
        /\ AnswerRepeat(t, active, active)
     \/ /\ u # Host /\ MayEnter(u) /\ IsNew(t)
        /\ \/ u \in Seated /\ UNCHANGED <<seats, rounds>>
           \/ /\ u \notin Seated /\ Len(seats) < 2
              /\ seats' = Append(seats, u)
              /\ rounds' = [rounds EXCEPT ![active].players = @ \cup {u}]
        /\ AnswerNew(t, active, active)
        /\ UNCHANGED <<active, closed, left>>

CommitCancel(t) ==
  LET r == tx[t].round IN
  /\ tx[t].kind = "CANCEL" /\ Granted(t)
  /\ \/ /\ \/ Who[t] # Host \/ KeyIsTaken(t, "CANCEL", r)
           \/ IsNew(t) /\ rounds[r].state # "LOBBY"
        /\ Reject(t)
     \/ /\ Who[t] = Host /\ IsRepeat(t, "CANCEL", r)
        /\ AnswerRepeat(t, r, r)
     \/ /\ Who[t] = Host /\ IsNew(t) /\ rounds[r].state = "LOBBY"
        /\ rounds' = [rounds EXCEPT ![r].state = "FINISHED",
                                    ![r].settled = rounds[r].players]
        /\ closed' = TRUE
        /\ AnswerNew(t, r, r)
        /\ UNCHANGED <<seats, active, left>>

(* Fault: the next round is made for those who voted so far.               *)
BadNextPlayers(r) == rounds[r].votes
NextPlayers(r) == Seated

(* Fault: a repeated vote gets the answer it got before.                   *)
BadRepeatTarget(t, r) == Receipt(t).reply
(* The answer of a repeated vote: the next round once it exists.           *)
RepeatTarget(t, r) == IF rounds[r].next # 0 THEN rounds[r].next ELSE Receipt(t).reply

OpenForVotes(r) ==
  /\ rounds[r].state = "REMATCH_PENDING"
  /\ rounds[r].next # 0 \/ rounds[r].window

CommitRematch(t) ==
  LET r == tx[t].round
      u == Who[t]
  IN
  /\ tx[t].kind = "REMATCH" /\ Granted(t)
  /\ \/ /\ \/ KeyIsTaken(t, "REMATCH", r)
           \/ IsNew(t) /\ ~OpenForVotes(r)
        /\ Reject(t)
     \/ /\ IsRepeat(t, "REMATCH", r)
        /\ AnswerRepeat(t, r, RepeatTarget(t, r))
     \/ /\ IsNew(t) /\ OpenForVotes(r)
        /\ \/ /\ rounds[r].next # 0
              /\ AnswerNew(t, r, rounds[r].next)
              /\ UNCHANGED <<rounds, active>>
           \/ /\ rounds[r].next = 0 /\ ~CompletesVote(u, r)
              /\ rounds' = [rounds EXCEPT ![r].votes = @ \cup {u}]
              /\ AnswerNew(t, r, r)
              /\ UNCHANGED active
           \/ /\ CompletesVote(u, r)
              /\ rounds' = Append([rounds EXCEPT ![r].votes = @ \cup {u}, ![r].next = r + 1],
                                  NewRound(NextPlayers(r)))
              /\ active' = r + 1
              /\ AnswerNew(t, r, r + 1)
        /\ UNCHANGED <<seats, closed, left>>

(* Presence and tickets change no row of this module; MatchEngine and      *)
(* RealtimeTickets have what they do.                                      *)
CommitLink(t) ==
  /\ tx[t].kind \in {"CONNECT", "TICKET"} /\ Granted(t)
  /\ Reject(t)

-----------------------------------------------------------------------------
(* The rounds themselves, each step under the match lock.                  *)

Unlocked(r) ==
  \A t \in Tabs : \A h \in Held(t) : h.row # MatchRow(r)

Used == {rounds[i].problem : i \in DOMAIN rounds} \ {NoProblem}
(* The problem of the last round that had one.                             *)
LastUsed ==
  LET had == {i \in DOMAIN rounds : rounds[i].problem # NoProblem}
  IN IF had = {} THEN NoProblem
     ELSE rounds[CHOOSE i \in had : \A j \in had : j <= i].problem

(* chooseProblem: unseen ones, else any but the last, else any.            *)
Candidates ==
  IF Problems \ Used # {} THEN Problems \ Used
  ELSE IF Problems \ {LastUsed} # {} THEN Problems \ {LastUsed} ELSE Problems

(* The last player readies up; setReady chooses a problem.                 *)
BeginRound(r) ==
  /\ r \in DOMAIN rounds /\ Unlocked(r)
  /\ rounds[r].state = "LOBBY"
  /\ Cardinality(rounds[r].players) = 2
  /\ \E p \in Candidates :
       rounds' = [rounds EXCEPT ![r].state = "PLAYING", ![r].problem = p]
  /\ Silent /\ UNCHANGED <<seats, active, closed, receipts, tx, left>>

EndRound(r) ==
  /\ r \in DOMAIN rounds /\ Unlocked(r)
  /\ rounds[r].state = "PLAYING"
  /\ rounds' = [rounds EXCEPT ![r].state = "REMATCH_PENDING", ![r].window = TRUE,
                              ![r].settled = rounds[r].players]
  /\ Silent /\ UNCHANGED <<seats, active, closed, receipts, tx, left>>

(* Time passes rematch_deadline.                                           *)
WindowCloses(r) ==
  /\ r \in DOMAIN rounds /\ rounds[r].window /\ Unlocked(r)
  /\ rounds' = [rounds EXCEPT ![r].window = FALSE]
  /\ Silent /\ UNCHANGED <<seats, active, closed, receipts, tx, left>>

Work(t) ==
  \/ Acquire(t) \/ AbortDeadlocked(t)
  \/ CommitJoin(t) \/ CommitCancel(t) \/ CommitRematch(t) \/ CommitLink(t)

Next ==
  \/ \E t \in Tabs, k \in Keys :
       \/ SendJoin(t, k)
       \/ \E r \in Rounds : SendRematch(t, k, r) \/ SendCancel(t, k, r)
  \/ \E t \in Tabs : SendConnect(t) \/ SendTicket(t) \/ Work(t)
  \/ \E r \in Rounds : BeginRound(r) \/ EndRound(r) \/ WindowCloses(r)

Spec == Init /\ [][Next]_vars

-----------------------------------------------------------------------------
(* What must hold.                                                         *)

(* Nobody enters a cancelled round: a join that loses the race against the *)
(* cancellation finds the room closed, and one that wins it is cancelled   *)
(* with the others, so every player of a finished round has an outcome.    *)
NobodyEntersCancelledRound ==
  \A r \in DOMAIN rounds :
    rounds[r].state = "FINISHED" => rounds[r].settled = rounds[r].players

(* The rounds are one chain, however votes, repeats and deadlocks mix:     *)
(* each has at most one successor, the room plays the last one, and every  *)
(* round after the first seats both members of the room.                   *)
RoundsAreOneChain ==
  /\ active = Len(rounds)
  /\ \A r \in DOMAIN rounds :
       /\ rounds[r].next = (IF r < Len(rounds) THEN r + 1 ELSE 0)
       /\ rounds[r].next # 0 => rounds[r].votes = Seated
       /\ r > 1 => rounds[r].players = Seated /\ Cardinality(Seated) = 2

(* A command that was answered was carried out, also when its key had been *)
(* used before: an answered vote is counted or its pair was complete, an   *)
(* answered guest sits, an answered cancellation closed the room.          *)
AnswersAreTrue ==
  answer # NoReply =>
    CASE answer.kind = "REMATCH" -> Who[answer.tab] \in rounds[answer.sent].votes
      [] answer.kind = "JOIN"    -> Who[answer.tab] \in Seated
      [] answer.kind = "CANCEL"  -> closed

(* Both voters are led to the same next round: from its creation on, no    *)
(* answer to a vote, new or repeated, names the old one.                   *)
VotersMeet ==
  answer # NoReply /\ answer.kind = "REMATCH" =>
    (rounds[answer.sent].next # 0 => answer.round = answer.sent + 1)

(* So a command may be repeated with its key at any time.                  *)
AnswersHold == AnswersAreTrue /\ VotersMeet

(* A room plays every problem once before it plays one again, and never    *)
(* the same one twice in a row while there is another; all rounds but the  *)
(* last were played.                                                       *)
ProblemsTakeTurns ==
  \A i, j \in DOMAIN rounds : i < j =>
    /\ rounds[i].problem # NoProblem
    /\ rounds[j].problem # NoProblem =>
         /\ j <= Cardinality(Problems) => rounds[i].problem # rounds[j].problem
         /\ j = i + 1 /\ Cardinality(Problems) > 1 => rounds[i].problem # rounds[j].problem

(* The rows stay well formed, nobody slips into a cancelled round, and the *)
(* problems take turns.                                                    *)
RoomInv == TypeOK /\ NobodyEntersCancelledRound /\ ProblemsTakeTurns

(* A player who opens his realtime session is never caught in a deadlock,  *)
(* whatever joins, ticket requests, votes and cancellations overlap it.    *)
ConnectNeverDeadlocks == \A t \in Tabs : InCircle(t) => tx[t].kind # "CONNECT"
=============================================================================
