--------------------------- MODULE RealtimeTickets ---------------------------
(***************************************************************************)
(* The tickets with which one user opens realtime sockets: the web service *)
(* signs them, a realtime service verifies and consumes each once.  Issuers*)
(* of a user take turns by the lock on her profile, so that a transaction  *)
(* is one step; users do not meet.                                         *)
(*                                                                         *)
(* clock is the clock of the database.  Services stamp and verify with     *)
(* clocks of their own, and time passes between what they read and their   *)
(* transaction.                                                            *)
(***************************************************************************)
EXTENDS Integers, FiniteSets

CONSTANTS
  HomeRooms,       \* rooms the user is a member of
  Lifetime,        \* of a ticket
  Minute,          \* width of the window that is counted
  Tolerance,       \* clockTolerance of jwtVerify
  Skew,            \* how far the clock of a service is from clock, at most
  Stall,           \* how long a service takes to begin its transaction, at most
  PurgeAfter,      \* how long after its end a ticket is kept
  MaxOutstanding,  \* MAX_OUTSTANDING_TICKETS
  MaxPerMinute,    \* MAX_TICKETS_PER_MINUTE
  MaxChecks,       \* BOUND: verifications under way at a time
  MaxTickets,      \* BOUND: requests
  MaxClock,        \* BOUND: time
  MaxRound         \* BOUND: round that ends the rematches

ASSUME TicketAssumption ==
  /\ {Lifetime, Minute, Tolerance, Skew, Stall, PurgeAfter, MaxOutstanding, MaxPerMinute,
      MaxChecks, MaxTickets, MaxClock, MaxRound} \subseteq Nat
  /\ MaxOutstanding > 0 /\ MaxPerMinute > 0

(* A ticket outlives, in the tables, every verification that may still     *)
(* accept it, and the window it is counted in.                             *)
ASSUME PurgeAssumption ==
  /\ Tolerance + Skew + Stall <= PurgeAfter
  /\ Minute <= PurgeAfter

VARIABLES
  clock,     \* clock_timestamp()
  current,   \* active_match_id of a room: its round
  drawn,     \* number of jtis drawn
  asks,      \* requests between the membership check and the transaction
  tickets,   \* HISTORY: all tickets
  issues,    \* realtime_ticket_issues
  consumed,  \* rows of issues with consumed_at
  uses,      \* realtime_ticket_uses
  checks,    \* verified tickets whose transaction has not begun
  admitted,  \* HISTORY: how often a jti was admitted
  promise    \* HISTORY: the last retryAt, until a ticket is issued

ticketVars == <<clock, current, drawn, asks, tickets, issues, consumed, uses, checks, admitted, promise>>

Jtis == 1 .. MaxTickets
Ticket == [jti : Jtis, room : HomeRooms, match : Nat, at : Int, exp : Int]
NoPromise == [room |-> 0, at |-> 0]

TicketTypeOK ==
  /\ clock \in Nat
  /\ current \in [HomeRooms -> Nat]
  /\ drawn \in 0 .. MaxTickets
  /\ asks \subseteq [ticket : Ticket, since : Nat]
  /\ tickets \subseteq Ticket
  /\ issues \subseteq tickets /\ uses \subseteq tickets /\ consumed = issues \cap uses
  /\ checks \subseteq [n : 1 .. MaxChecks, ticket : tickets, since : Nat]
  /\ admitted \in [Jtis -> Nat]

TicketInit ==
  /\ clock = 0
  /\ current = [r \in HomeRooms |-> 1]
  /\ drawn = 0
  /\ asks = {} /\ tickets = {} /\ issues = {} /\ consumed = {} /\ uses = {} /\ checks = {}
  /\ admitted = [j \in Jtis |-> 0]
  /\ promise = NoPromise

-----------------------------------------------------------------------------
(* issue.                                                                  *)

(* The membership is read and the ticket stamped by the service's clock.   *)
Ask(r) ==
  /\ drawn < MaxTickets
  /\ drawn' = drawn + 1
  /\ \E d \in -Skew .. Skew :
       asks' = asks \cup {[ticket |-> [jti |-> drawn + 1, room |-> r, match |-> current[r],
                                       at |-> clock + d, exp |-> clock + d + Lifetime],
                           since |-> clock]}
  /\ UNCHANGED <<clock, current, tickets, issues, consumed, uses, checks, admitted, promise>>

Recent == {t \in issues : t.at > clock - Minute}
Outstanding(r) == {t \in issues \ consumed : t.room = r /\ t.exp > clock}
TooManyRecent == Cardinality(Recent) >= MaxPerMinute
TooManyOutstanding(r) == Cardinality(Outstanding(r)) >= MaxOutstanding

Latest(S) == CHOOSE x \in S : \A y \in S : y <= x
Earliest(S) == CHOOSE x \in S : \A y \in S : x <= y

(* Fault: the limit of the room alone decides.                             *)
BadRetryAt(r) ==
  Latest({clock + 1} \cup (IF TooManyOutstanding(r) THEN {Earliest({t.exp : t \in Outstanding(r)})} ELSE {}))
(* retryAt: both limits have passed, whichever of them refused.            *)
RetryAt(r) ==
  Latest({clock + 1}
         \cup (IF TooManyRecent THEN {Earliest({t.at : t \in Recent}) + Minute} ELSE {})
         \cup (IF TooManyOutstanding(r) THEN {Earliest({t.exp : t \in Outstanding(r)})} ELSE {}))

(* The transaction: membership again, the limits, the row.                 *)
Issue(a) ==
  LET t == a.ticket
  IN /\ asks' = asks \ {a}
     /\ \/ /\ t.match # current[t.room]
           /\ UNCHANGED <<tickets, issues, promise>>
        \/ /\ t.match = current[t.room]
           /\ TooManyRecent \/ TooManyOutstanding(t.room)
           /\ promise' = [room |-> t.room, at |-> RetryAt(t.room)]
           /\ UNCHANGED <<tickets, issues>>
        \/ /\ t.match = current[t.room]
           /\ ~TooManyRecent /\ ~TooManyOutstanding(t.room)
           /\ tickets' = tickets \cup {t} /\ issues' = issues \cup {t}
           /\ promise' = NoPromise
     /\ UNCHANGED <<clock, current, drawn, consumed, uses, checks, admitted>>

-----------------------------------------------------------------------------
(* verifyAndConsume.                                                       *)

(* jwtVerify, by the service's clock.  The n-th verification under way may *)
(* be of the same ticket as another.                                       *)
Verify(n, t) ==
  /\ {c.n : c \in checks} \cap 1 .. n = 1 .. n - 1
  /\ \E d \in -Skew .. Skew : clock + d < t.exp + Tolerance
  /\ checks' = checks \cup {[n |-> n, ticket |-> t, since |-> clock]}
  /\ UNCHANGED <<clock, current, drawn, asks, tickets, issues, consumed, uses, admitted, promise>>

Consume(t) == consumed \cup ({t} \cap issues)

(* The transaction: membership, the insertion that its key refuses to a    *)
(* jti that is there, the mark.                                            *)
Enter(c) ==
  LET t == c.ticket
  IN /\ checks' = checks \ {c}
     /\ \/ /\ t.match # current[t.room] \/ \E u \in uses : u.jti = t.jti
           /\ UNCHANGED <<uses, consumed, admitted>>
        \/ /\ t.match = current[t.room] /\ \A u \in uses : u.jti # t.jti
           /\ uses' = uses \cup {t}
           /\ consumed' = Consume(t)
           /\ admitted' = [admitted EXCEPT ![t.jti] = @ + 1]
     /\ UNCHANGED <<clock, current, drawn, asks, tickets, issues, promise>>

-----------------------------------------------------------------------------
(* Fault: the minute is forgotten.                                         *)
BadKept(S) == {t \in S : t.exp >= clock}
Kept(S) == {t \in S : t.exp >= clock - PurgeAfter}

(* purgeExpiredUses, at any time: the daily sweep of several services.     *)
PurgeExpiredUses ==
  /\ uses' = Kept(uses)
  /\ issues' = Kept(issues) /\ consumed' = Kept(consumed)
  /\ UNCHANGED <<clock, current, drawn, asks, tickets, checks, admitted, promise>>

(* A rematch gives the room its next match.                                *)
NextRound(r) ==
  /\ \A q \in HomeRooms : current[q] < MaxRound
  /\ current' = [current EXCEPT ![r] = @ + 1]
  /\ UNCHANGED <<clock, drawn, asks, tickets, issues, consumed, uses, checks, admitted, promise>>

TicketTick ==
  /\ clock < MaxClock
  /\ \A x \in asks \cup checks : clock < x.since + Stall
  /\ clock' = clock + 1
  /\ UNCHANGED <<current, drawn, asks, tickets, issues, consumed, uses, checks, admitted, promise>>

TicketNext ==
  \/ \E r \in HomeRooms : Ask(r) \/ NextRound(r)
  \/ \E a \in asks : Issue(a)
  \/ \E n \in 1 .. MaxChecks, t \in tickets : Verify(n, t)
  \/ \E c \in checks : Enter(c)
  \/ PurgeExpiredUses
  \/ TicketTick

TicketSpec == TicketInit /\ [][TicketNext]_ticketVars

-----------------------------------------------------------------------------
(* What must hold.                                                         *)

(* A ticket admits one socket, although the table that remembers its use is*)
(* purged, and two services may verify it at the same moment               *)
(* (tickets.ts:181, :273).                                                 *)
AtMostOnce == \A j \in Jtis : admitted[j] <= 1

(* The limits hold for all tickets there ever were, not only for the rows  *)
(* that are left (tickets.ts:104).                                         *)
MinuteHolds == Cardinality({t \in tickets : t.at > clock - Minute}) <= MaxPerMinute

OutstandingHolds ==
  \A r \in HomeRooms :
    Cardinality({t \in tickets : t.room = r /\ t.exp > clock /\ admitted[t.jti] = 0}) <= MaxOutstanding

(* A client that comes back when it was told to is not refused again by    *)
(* the limits, unless it was issued a ticket meanwhile (tickets.ts:128).   *)
RetryAtSuffices ==
  promise # NoPromise /\ clock >= promise.at
    => ~TooManyRecent /\ ~TooManyOutstanding(promise.room)

(* The rows stay well formed, and both limits are what a user meets.       *)
TicketInv == TicketTypeOK /\ MinuteHolds /\ OutstandingHolds /\ RetryAtSuffices
=============================================================================
