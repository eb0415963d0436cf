------------------------ MODULE RealtimeTicketsProofs ------------------------
(***************************************************************************)
(* A ticket admits one socket, and the limits on tickets are kept and      *)
(* refusals honest, for any number of tickets, services and rooms, any     *)
(* skew of the clocks and any pause within PurgeAssumption.                *)
(***************************************************************************)
EXTENDS RealtimeTickets, FiniteSetTheorems, WellFoundedInduction, TLAPS

LEMMA Parameters ==
  /\ Lifetime \in Nat /\ Minute \in Nat /\ Tolerance \in Nat /\ Skew \in Nat /\ Stall \in Nat
  /\ PurgeAfter \in Nat /\ MaxTickets \in Nat /\ MaxChecks \in Nat
  /\ Tolerance + Skew + Stall <= PurgeAfter
BY TicketAssumption, PurgeAssumption

(* No jti is drawn twice.                                                  *)
JtisAreUnique ==
  /\ \A a \in asks : a.ticket.jti <= drawn
  /\ \A t \in tickets : t.jti <= drawn
  /\ \A a, b \in asks : a.ticket.jti = b.ticket.jti => a = b
  /\ \A a \in asks, t \in tickets : a.ticket.jti # t.jti
  /\ \A t, u \in tickets : t.jti = u.jti => t = u

(* A verification under way is no older than Stall, and when it began the  *)
(* ticket had not been over for longer than the clocks may differ.         *)
ChecksAreRecent ==
  \A c \in checks : /\ clock <= c.since + Stall
                    /\ c.since < c.ticket.exp + Tolerance + Skew

(* A use is forgotten only when no verification can accept the ticket.     *)
UsesAreRemembered ==
  /\ \A j \in Jtis : admitted[j] > 0 => \E t \in tickets : t.jti = j
  /\ \A t \in tickets : admitted[t.jti] > 0 => t \in uses \/ t.exp < clock - PurgeAfter

TicketIInv == TicketTypeOK /\ JtisAreUnique /\ ChecksAreRecent /\ UsesAreRemembered /\ AtMostOnce

LEMMA TicketsInitially == TicketInit => TicketIInv
BY Parameters
DEF TicketInit, TicketIInv, TicketTypeOK, JtisAreUnique, ChecksAreRecent, UsesAreRemembered, AtMostOnce, Jtis

(* The membership is read and the ticket stamped: a jti that is new.       *)
LEMMA AskStep ==
  ASSUME TicketIInv, NEW r \in HomeRooms, Ask(r)
  PROVE  TicketIInv'
<1>1. PICK d \in -Skew .. Skew :
        asks' = asks \cup {[ticket |-> [jti |-> drawn + 1, room |-> r, match |-> current[r],
                                        at |-> clock + d, exp |-> clock + d + Lifetime],
                            since |-> clock]}
  BY DEF Ask
<1>2. drawn \in 0 .. MaxTickets /\ drawn < MaxTickets /\ drawn' = drawn + 1
      /\ UNCHANGED <<clock, current, tickets, issues, consumed, uses, checks, admitted>>
  BY DEF Ask, TicketIInv, TicketTypeOK
<1>3. clock \in Nat /\ current[r] \in Nat
  BY DEF TicketIInv, TicketTypeOK
<1> DEFINE t == [jti |-> drawn + 1, room |-> r, match |-> current[r],
                 at |-> clock + d, exp |-> clock + d + Lifetime]
           a == [ticket |-> t, since |-> clock]
<1>4. t \in Ticket
  BY <1>2, <1>3, Parameters DEF Ticket, Jtis
<1>5. a \in [ticket : Ticket, since : Nat] /\ a.ticket.jti = drawn + 1
  BY <1>3, <1>4
<1>6. asks' = asks \cup {a}
  BY <1>1
<1> HIDE DEF a, t
<1>7. TicketTypeOK'
  BY <1>2, <1>5, <1>6, Parameters DEF TicketIInv, TicketTypeOK
<1>8. \A b \in asks : b.ticket.jti \in Nat /\ b.ticket.jti <= drawn
  BY Parameters DEF TicketIInv, TicketTypeOK, JtisAreUnique, Ticket, Jtis
<1>9. \A u \in tickets : u.jti \in Nat /\ u.jti <= drawn
  BY Parameters DEF TicketIInv, TicketTypeOK, JtisAreUnique, Ticket, Jtis
<1>10. JtisAreUnique'
  BY <1>2, <1>5, <1>6, <1>8, <1>9 DEF TicketIInv, JtisAreUnique
<1>11. ChecksAreRecent' /\ UsesAreRemembered' /\ AtMostOnce'
  BY <1>2 DEF TicketIInv, ChecksAreRecent, UsesAreRemembered, AtMostOnce
<1> QED BY <1>7, <1>10, <1>11 DEF TicketIInv

(* A ticket is issued, or refused: nobody was admitted with it before.     *)
LEMMA IssueStep ==
  ASSUME TicketIInv, NEW a \in asks, Issue(a)
  PROVE  TicketIInv'
<1> DEFINE t == a.ticket
<1>1. t \in Ticket /\ \A u \in tickets : u.jti # t.jti
  BY DEF TicketIInv, TicketTypeOK, JtisAreUnique
<1>2. /\ asks' = asks \ {a} /\ UNCHANGED <<clock, current, drawn, consumed, uses, checks, admitted>>
      /\ \/ UNCHANGED <<tickets, issues>>
         \/ tickets' = tickets \cup {t} /\ issues' = issues \cup {t}
  BY DEF Issue
<1>3. t \notin uses /\ t \notin tickets
  BY <1>1 DEF TicketIInv, TicketTypeOK
<1>4. t.jti \in Jtis /\ ~ (admitted[t.jti] > 0)
  BY <1>1 DEF TicketIInv, UsesAreRemembered, Ticket
<1>5. TicketTypeOK'
  <2>1. consumed' = issues' \cap uses'
    BY <1>2, <1>3 DEF TicketIInv, TicketTypeOK
  <2>2. tickets' \subseteq Ticket /\ issues' \subseteq tickets' /\ uses' \subseteq tickets'
    BY <1>1, <1>2 DEF TicketIInv, TicketTypeOK
  <2>3. checks' \subseteq [n : 1 .. MaxChecks, ticket : tickets', since : Nat]
    BY <1>2 DEF TicketIInv, TicketTypeOK
  <2> QED BY <1>2, <2>1, <2>2, <2>3 DEF TicketIInv, TicketTypeOK
<1>6. JtisAreUnique'
  <2>1. \A b \in asks' : b \in asks /\ b.ticket.jti # t.jti
    BY <1>2 DEF TicketIInv, JtisAreUnique
  <2>2. t.jti <= drawn
    BY DEF TicketIInv, JtisAreUnique
  <2> QED BY <1>1, <1>2, <2>1, <2>2 DEF TicketIInv, JtisAreUnique
<1>7. ChecksAreRecent' /\ AtMostOnce'
  BY <1>2 DEF TicketIInv, ChecksAreRecent, AtMostOnce
<1>8. UsesAreRemembered'
  BY <1>2, <1>4 DEF TicketIInv, UsesAreRemembered
<1> QED BY <1>5, <1>6, <1>7, <1>8 DEF TicketIInv

(* A verification accepts the ticket by the clock of its service.          *)
LEMMA VerifyStep ==
  ASSUME TicketIInv, NEW n \in 1 .. MaxChecks, NEW t \in tickets, Verify(n, t)
  PROVE  TicketIInv'
<1>1. PICK d \in -Skew .. Skew : clock + d < t.exp + Tolerance
  BY DEF Verify
<1>2. /\ checks' = checks \cup {[n |-> n, ticket |-> t, since |-> clock]}
      /\ UNCHANGED <<clock, current, drawn, asks, tickets, issues, consumed, uses, admitted>>
  BY DEF Verify
<1>3. clock \in Nat /\ t.exp \in Int
  BY DEF TicketIInv, TicketTypeOK, Ticket
<1>4. clock <= clock + Stall /\ clock < t.exp + Tolerance + Skew
  BY <1>1, <1>3, Parameters
<1>5. TicketTypeOK'
  BY <1>2, <1>3 DEF TicketIInv, TicketTypeOK
<1>6. ChecksAreRecent'
  BY <1>2, <1>4 DEF TicketIInv, ChecksAreRecent
<1>7. JtisAreUnique' /\ UsesAreRemembered' /\ AtMostOnce'
  BY <1>2 DEF TicketIInv, JtisAreUnique, UsesAreRemembered, AtMostOnce
<1> QED BY <1>5, <1>6, <1>7 DEF TicketIInv

(* The transaction of a verification.  If the use of the ticket is not     *)
(* there, it was never used: had it been purged, the verification would be *)
(* too old.                                                                *)
LEMMA EnterStep ==
  ASSUME TicketIInv, NEW c \in checks, Enter(c)
  PROVE  TicketIInv'
<1> DEFINE t == c.ticket
<1>1. t \in tickets /\ t \in Ticket /\ t.jti \in Jtis
  BY DEF TicketIInv, TicketTypeOK, Ticket
<1>2. checks' = checks \ {c} /\ UNCHANGED <<clock, current, drawn, asks, tickets, issues>>
  BY DEF Enter
<1>3. ChecksAreRecent'
  BY <1>2 DEF TicketIInv, ChecksAreRecent
<1>4. JtisAreUnique'
  BY <1>2 DEF TicketIInv, JtisAreUnique
<1>5. CASE UNCHANGED <<uses, consumed, admitted>>
  <2>1. TicketTypeOK' BY <1>2, <1>5 DEF TicketIInv, TicketTypeOK
  <2>2. UsesAreRemembered' /\ AtMostOnce'
    BY <1>2, <1>5 DEF TicketIInv, UsesAreRemembered, AtMostOnce
  <2> QED BY <1>3, <1>4, <2>1, <2>2 DEF TicketIInv
<1>6. CASE /\ \A u \in uses : u.jti # t.jti
           /\ uses' = uses \cup {t} /\ consumed' = Consume(t)
           /\ admitted' = [admitted EXCEPT ![t.jti] = @ + 1]
  <2>1. clock \in Nat /\ c.since \in Nat /\ t.exp \in Int /\ admitted \in [Jtis -> Nat]
    BY <1>1 DEF TicketIInv, TicketTypeOK, Ticket
  <2>2. clock < t.exp + Tolerance + Skew + Stall
    BY <2>1, Parameters DEF TicketIInv, ChecksAreRecent
  <2>3. ~ (t.exp < clock - PurgeAfter)
    BY <2>1, <2>2, Parameters
  <2>4. t \notin uses
    BY <1>6
  <2>5. admitted[t.jti] = 0
    BY <1>1, <2>1, <2>3, <2>4 DEF TicketIInv, UsesAreRemembered
  <2>6. \A j \in Jtis : admitted'[j] = IF j = t.jti THEN 1 ELSE admitted[j]
    BY <1>6, <2>1, <2>5
  <2>7. AtMostOnce'
    BY <2>6 DEF TicketIInv, AtMostOnce
  <2>8. UsesAreRemembered'
    <3>1. \A j \in Jtis : admitted'[j] > 0 => \E u \in tickets : u.jti = j
      BY <1>1, <2>6 DEF TicketIInv, UsesAreRemembered
    <3>2. ASSUME NEW u \in tickets, admitted'[u.jti] > 0
          PROVE  u \in uses' \/ u.exp < clock - PurgeAfter
      <4>1. u.jti \in Jtis BY DEF TicketIInv, TicketTypeOK, Ticket
      <4>2. CASE u.jti = t.jti
        BY <1>1, <1>6, <4>2 DEF TicketIInv, JtisAreUnique
      <4>3. CASE u.jti # t.jti
        BY <1>6, <2>6, <3>2, <4>1, <4>3 DEF TicketIInv, UsesAreRemembered
      <4> QED BY <4>2, <4>3
    <3> QED BY <1>2, <3>1, <3>2 DEF UsesAreRemembered
  <2>9. TicketTypeOK'
    <3>1. uses' \subseteq tickets' /\ consumed' = issues' \cap uses'
      BY <1>1, <1>2, <1>6 DEF TicketIInv, TicketTypeOK, Consume
    <3>2. admitted' \in [Jtis -> Nat]
      BY <1>1, <1>6, <2>1
    <3> QED BY <1>2, <3>1, <3>2 DEF TicketIInv, TicketTypeOK
  <2> QED BY <1>3, <1>4, <2>7, <2>8, <2>9 DEF TicketIInv
<1> QED BY <1>5, <1>6 DEF Enter

LEMMA PurgeStep ==
  ASSUME TicketIInv, PurgeExpiredUses
  PROVE  TicketIInv'
<1>1. /\ uses' = Kept(uses) /\ issues' = Kept(issues) /\ consumed' = Kept(consumed)
      /\ UNCHANGED <<clock, current, drawn, asks, tickets, checks, admitted>>
  BY DEF PurgeExpiredUses
<1>2. TicketTypeOK'
  BY <1>1 DEF TicketIInv, TicketTypeOK, Kept
<1>3. UsesAreRemembered'
  <2>1. ASSUME NEW t \in tickets, admitted[t.jti] > 0
        PROVE  t \in Kept(uses) \/ t.exp < clock - PurgeAfter
    <3>1. t \in uses \/ t.exp < clock - PurgeAfter
      BY <2>1 DEF TicketIInv, UsesAreRemembered
    <3>2. t.exp \in Int /\ clock \in Nat
      BY DEF TicketIInv, TicketTypeOK, Ticket
    <3> QED BY <3>1, <3>2, Parameters DEF Kept
  <2> QED BY <1>1, <2>1 DEF TicketIInv, UsesAreRemembered
<1>4. JtisAreUnique' /\ ChecksAreRecent' /\ AtMostOnce'
  BY <1>1 DEF TicketIInv, JtisAreUnique, ChecksAreRecent, AtMostOnce
<1> QED BY <1>2, <1>3, <1>4 DEF TicketIInv

LEMMA ClockStep ==
  ASSUME TicketIInv, TicketTick
  PROVE  TicketIInv'
<1>1. /\ clock' = clock + 1 /\ \A c \in checks : clock < c.since + Stall
      /\ UNCHANGED <<current, drawn, asks, tickets, issues, consumed, uses, checks, admitted>>
  BY DEF TicketTick
<1>2. clock \in Nat
  BY DEF TicketIInv, TicketTypeOK
<1>3. TicketTypeOK'
  BY <1>1, <1>2 DEF TicketIInv, TicketTypeOK
<1>4. ChecksAreRecent'
  <2>1. \A c \in checks : c.since \in Nat
    BY DEF TicketIInv, TicketTypeOK
  <2> QED BY <1>1, <1>2, <2>1, Parameters DEF TicketIInv, ChecksAreRecent
<1>5. UsesAreRemembered'
  <2>1. \A t \in tickets : t.exp \in Int
    BY DEF TicketIInv, TicketTypeOK, Ticket
  <2> QED BY <1>1, <1>2, <2>1, Parameters DEF TicketIInv, UsesAreRemembered
<1>6. JtisAreUnique' /\ AtMostOnce'
  BY <1>1 DEF TicketIInv, JtisAreUnique, AtMostOnce
<1> QED BY <1>3, <1>4, <1>5, <1>6 DEF TicketIInv

LEMMA RoundStep ==
  ASSUME TicketIInv, NEW r \in HomeRooms, NextRound(r)
  PROVE  TicketIInv'
<1>1. /\ current' = [current EXCEPT ![r] = @ + 1]
      /\ UNCHANGED <<clock, drawn, asks, tickets, issues, consumed, uses, checks, admitted>>
  BY DEF NextRound
<1>2. TicketTypeOK'
  BY <1>1 DEF TicketIInv, TicketTypeOK
<1>3. JtisAreUnique' /\ ChecksAreRecent' /\ UsesAreRemembered' /\ AtMostOnce'
  BY <1>1 DEF TicketIInv, JtisAreUnique, ChecksAreRecent, UsesAreRemembered, AtMostOnce
<1> QED BY <1>2, <1>3 DEF TicketIInv

LEMMA TicketsPreserved == TicketIInv /\ [TicketNext]_ticketVars => TicketIInv'
<1> SUFFICES ASSUME TicketIInv, [TicketNext]_ticketVars PROVE TicketIInv'
  OBVIOUS
<1>1. CASE \E r \in HomeRooms : Ask(r) BY <1>1, AskStep
<1>2. CASE \E r \in HomeRooms : NextRound(r) BY <1>2, RoundStep
<1>3. CASE \E a \in asks : Issue(a) BY <1>3, IssueStep
<1>4. CASE \E n \in 1 .. MaxChecks, t \in tickets : Verify(n, t) BY <1>4, VerifyStep
<1>5. CASE \E c \in checks : Enter(c) BY <1>5, EnterStep
<1>6. CASE PurgeExpiredUses BY <1>6, PurgeStep
<1>7. CASE TicketTick BY <1>7, ClockStep
<1>8. CASE UNCHANGED ticketVars
  BY <1>8 DEF ticketVars, TicketIInv, TicketTypeOK, JtisAreUnique, ChecksAreRecent,
              UsesAreRemembered, AtMostOnce
<1> QED BY <1>1, <1>2, <1>3, <1>4, <1>5, <1>6, <1>7, <1>8 DEF TicketNext

LEMMA TicketsAlways == TicketSpec => []TicketIInv
BY TicketsInitially, TicketsPreserved, PTL DEF TicketSpec

(* The rows of the tickets are well formed: in particular a row is marked  *)
(* as consumed if and only if its use is recorded (tickets.ts:239).        *)
THEOREM TicketTypesAlways == TicketSpec => []TicketTypeOK
BY TicketsAlways, PTL DEF TicketIInv

(* A ticket admits one socket, although the table that remembers its use is*)
(* purged, and two services may verify it at the same moment               *)
(* (tickets.ts:181, :273).                                                 *)
THEOREM AtMostOnceAlways == TicketSpec => []AtMostOnce
BY TicketsAlways, PTL DEF TicketIInv

-----------------------------------------------------------------------------
(* The limits.  What they count is what is left of the rows; the lemmas    *)
(* below say that nothing they should count is gone.                       *)

LEMMA Limits == /\ MaxPerMinute \in Nat /\ MaxOutstanding \in Nat
                /\ MaxPerMinute > 0 /\ MaxOutstanding > 0 /\ Minute <= PurgeAfter
BY TicketAssumption, PurgeAssumption

(* A ticket is in the table until long after its end, and a use is of a    *)
(* ticket that was admitted.                                               *)
Ledger ==
  /\ IsFiniteSet(tickets)
  /\ \A a \in asks : a.ticket.exp = a.ticket.at + Lifetime
  /\ \A t \in tickets : t.exp = t.at + Lifetime
  /\ \A t \in tickets : t \in issues \/ t.exp < clock - PurgeAfter
  /\ \A t \in uses : admitted[t.jti] > 0

RecentEver         == {t \in tickets : t.at > clock - Minute}
OutstandingEver(r) == {t \in tickets : t.room = r /\ t.exp > clock /\ admitted[t.jti] = 0}

(* One of those that stand in the way of a client ends by the time it was  *)
(* told to come back.                                                      *)
PromiseHolds ==
  promise # NoPromise =>
    /\ promise.at \in Int
    /\ TooManyRecent => \E t \in Recent : t.at + Minute <= promise.at
    /\ \A r \in HomeRooms : r = promise.room /\ TooManyOutstanding(r) =>
         \E t \in Outstanding(r) : t.exp <= promise.at
    /\ promise.room \in HomeRooms

LimitInv == TicketIInv /\ Ledger /\ MinuteHolds /\ OutstandingHolds /\ PromiseHolds

(* The rows count all there ever were.                                     *)
LEMMA RowsTellAll ==
  ASSUME TicketIInv, Ledger
  PROVE  Recent = RecentEver /\ \A r \in HomeRooms : Outstanding(r) = OutstandingEver(r)
<1>1. ASSUME NEW t \in tickets
      PROVE  /\ t.at \in Int /\ t.exp \in Int /\ clock \in Nat /\ t.jti \in Jtis
             /\ admitted[t.jti] \in Nat
  BY DEF TicketIInv, TicketTypeOK, Ticket
<1>2. issues \subseteq tickets /\ uses \subseteq tickets /\ consumed = issues \cap uses
  BY DEF TicketIInv, TicketTypeOK
<1>3. \A t \in tickets : t.at > clock - Minute => t \in issues
  BY <1>1, Parameters, Limits DEF Ledger
<1>4. \A t \in tickets : t.exp > clock => t \in issues /\ (admitted[t.jti] = 0 <=> t \notin uses)
  BY <1>1, <1>2, Parameters DEF Ledger, TicketIInv, UsesAreRemembered
<1>5. Recent = RecentEver
  BY <1>2, <1>3 DEF Recent, RecentEver
<1>6. \A r \in HomeRooms : Outstanding(r) = OutstandingEver(r)
  BY <1>2, <1>4 DEF Outstanding, OutstandingEver
<1> QED
  BY <1>5, <1>6

LEMMA Dwindles ==
  ASSUME NEW S, IsFiniteSet(S), NEW T, T \subseteq S, NEW m \in Nat, Cardinality(S) <= m
  PROVE  Cardinality(T) <= m /\ (T # S => ~(Cardinality(T) >= m))
<1>1. Cardinality(S) \in Nat
  BY FS_CardinalityType
<1>2. IsFiniteSet(T) /\ Cardinality(T) <= Cardinality(S) /\ (Cardinality(S) = Cardinality(T) => S = T)
  BY FS_Subset
<1>3. Cardinality(T) \in Nat
  BY <1>2, FS_CardinalityType
<1> QED
  BY <1>1, <1>2, <1>3

(* While no ticket is issued, what the limits count only goes down.        *)
LEMMA NothingIssued ==
  ASSUME LimitInv, TicketIInv', Ledger', UNCHANGED <<tickets, promise>>, clock <= clock',
         \A j \in Jtis : admitted'[j] = 0 => admitted[j] = 0
  PROVE  LimitInv'
<1>1. /\ Recent = RecentEver /\ Recent' = RecentEver'
      /\ \A r \in HomeRooms : Outstanding(r) = OutstandingEver(r)
      /\ \A r \in HomeRooms : Outstanding(r)' = OutstandingEver(r)'
  <2>1. Recent' = RecentEver' /\ \A r \in HomeRooms : Outstanding(r)' = OutstandingEver(r)'
    <3>1. /\ tickets' = tickets /\ clock' \in Nat
          /\ \A t \in tickets : t.at \in Int /\ t.exp \in Int /\ t.jti \in Jtis
          /\ \A t \in tickets : admitted'[t.jti] \in Nat
          /\ issues' \subseteq tickets /\ uses' \subseteq tickets /\ consumed' = issues' \cap uses'
      BY DEF TicketIInv, TicketTypeOK, Ticket
    <3>2. \A t \in tickets : t.at > clock' - Minute => t \in issues'
      BY <3>1, Parameters, Limits DEF Ledger
    <3>3. \A t \in tickets : t.exp > clock' => t \in issues' /\ (admitted'[t.jti] = 0 <=> t \notin uses')
      BY <3>1, Parameters DEF Ledger, TicketIInv, UsesAreRemembered
    <3>4. Recent' = RecentEver'
      BY <3>1, <3>2 DEF Recent, RecentEver
    <3>5. \A r \in HomeRooms : Outstanding(r)' = OutstandingEver(r)'
      BY <3>1, <3>3 DEF Outstanding, OutstandingEver
    <3> QED
      BY <3>4, <3>5
  <2> QED
    BY <2>1, RowsTellAll DEF LimitInv
<1>2. /\ clock \in Nat /\ clock' \in Nat
      /\ \A t \in tickets : t.at \in Int /\ t.exp \in Int /\ t.jti \in Jtis
  BY DEF LimitInv, TicketIInv, TicketTypeOK, Ticket
<1>3. RecentEver' \subseteq RecentEver
  BY <1>2, Parameters DEF RecentEver
<1>4. \A r \in HomeRooms : OutstandingEver(r)' \subseteq OutstandingEver(r)
  BY <1>2 DEF OutstandingEver
<1>5. IsFiniteSet(RecentEver) /\ Cardinality(RecentEver) <= MaxPerMinute
  BY FS_Subset DEF LimitInv, Ledger, RecentEver, MinuteHolds
<1>6. ASSUME NEW r \in HomeRooms
      PROVE  IsFiniteSet(OutstandingEver(r)) /\ Cardinality(OutstandingEver(r)) <= MaxOutstanding
  <2>1. OutstandingEver(r) \in SUBSET tickets
    BY DEF OutstandingEver
  <2>2. IsFiniteSet(OutstandingEver(r))
    BY <2>1, FS_Subset DEF LimitInv, Ledger
  <2> QED
    BY <2>2 DEF LimitInv, OutstandingEver, OutstandingHolds
<1>7. /\ Cardinality(RecentEver') <= MaxPerMinute
      /\ RecentEver' # RecentEver => ~(Cardinality(RecentEver') >= MaxPerMinute)
  BY <1>3, <1>5, Limits, Dwindles
<1>8. \A r \in HomeRooms :
        /\ Cardinality(OutstandingEver(r)') <= MaxOutstanding
        /\ OutstandingEver(r)' # OutstandingEver(r) => ~(Cardinality(OutstandingEver(r)') >= MaxOutstanding)
  BY <1>4, <1>6, Limits, Dwindles
<1>9. MinuteHolds'
  BY <1>7 DEF MinuteHolds, RecentEver
<1>10. OutstandingHolds'
  BY <1>8 DEF OutstandingHolds, OutstandingEver
<1>11. PromiseHolds'
  <2> SUFFICES ASSUME promise # NoPromise
               PROVE  /\ promise.at \in Int
                      /\ TooManyRecent' => \E t \in Recent' : t.at + Minute <= promise.at
                      /\ \A r \in HomeRooms : r = promise.room /\ TooManyOutstanding(r)' =>
                           \E t \in Outstanding(r)' : t.exp <= promise.at
                      /\ promise.room \in HomeRooms
    BY DEF PromiseHolds
  <2>1. /\ promise.at \in Int /\ promise.room \in HomeRooms
        /\ TooManyRecent => \E t \in Recent : t.at + Minute <= promise.at
        /\ \A r \in HomeRooms : r = promise.room /\ TooManyOutstanding(r) =>
             \E t \in Outstanding(r) : t.exp <= promise.at
    BY DEF LimitInv, PromiseHolds
  <2>2. TooManyRecent' => Recent' = Recent
    BY <1>1, <1>7 DEF TooManyRecent
  <2>3. ASSUME NEW r \in HomeRooms PROVE TooManyOutstanding(r)' => Outstanding(r)' = Outstanding(r)
    BY <1>1, <1>8 DEF TooManyOutstanding
  <2>4. TooManyRecent' => TooManyRecent
    BY <2>2 DEF TooManyRecent
  <2>5. ASSUME NEW r \in HomeRooms PROVE TooManyOutstanding(r)' => TooManyOutstanding(r)
    BY <2>3 DEF TooManyOutstanding
  <2> QED
    BY <2>1, <2>2, <2>3, <2>4, <2>5
<1> QED
  BY <1>9, <1>10, <1>11 DEF LimitInv

(* The earliest of a set of moments after some moment, and the latest of a *)
(* few, are there.                                                         *)
LEMMA EarliestIsThere ==
  ASSUME NEW S, S \subseteq Int, S # {}, NEW b \in Int, \A x \in S : x > b
  PROVE  Earliest(S) \in S
<1> DEFINE N == {x - b : x \in S}
<1>1. N \subseteq Nat /\ N # {}
  <2>1. \A x \in S : x - b \in Nat
    OBVIOUS
  <2> QED
    BY <2>1
<1>2. PICK n \in N : \A k \in N : ~(<<k, n>> \in OpToRel(<, Nat))
  BY <1>1, WFMin, NatLessThanWellFounded
<1>3. \A k \in N : ~(k < n)
  BY <1>1, <1>2 DEF OpToRel
<1>4. PICK x \in S : n = x - b
  OBVIOUS
<1>5. \A y \in S : y - b \in N
  OBVIOUS
<1> HIDE DEF N
<1>6. ASSUME NEW y \in S PROVE x <= y
  <2>1. y - b \in N /\ y \in Int /\ x \in Int
    BY <1>5
  <2>2. ~(y - b < x - b)
    BY <1>3, <1>4, <2>1
  <2> QED
    BY <2>1, <2>2
<1>7. \E z \in S : \A y \in S : z <= y
  BY <1>6
<1> QED
  BY <1>7 DEF Earliest

LEMMA LatestIsThere ==
  ASSUME NEW a \in Int, NEW x \in Int, NEW y \in Int,
         NEW A \in {{}, {x}}, NEW B \in {{}, {y}}
  PROVE  /\ Latest({a} \cup A \cup B) \in Int
         /\ \A z \in {a} \cup A \cup B : z <= Latest({a} \cup A \cup B)
<1> DEFINE S == {a} \cup A \cup B
<1>1. S \subseteq Int
  OBVIOUS
<1>2. \E m \in S : \A z \in S : z <= m
  <2>1. CASE A = {} /\ B = {}
    BY <2>1
  <2>2. CASE A = {x} /\ B = {}
    <3>1. S = {a, x}
      BY <2>2
    <3> QED
      BY <3>1
  <2>3. CASE A = {} /\ B = {y}
    <3>1. S = {a, y}
      BY <2>3
    <3> QED
      BY <3>1
  <2>4. CASE A = {x} /\ B = {y}
    <3>1. S = {a, x, y}
      BY <2>4
    <3>2. \E m \in {a, x, y} : a <= m /\ x <= m /\ y <= m
      OBVIOUS
    <3> QED
      BY <3>1, <3>2
  <2> QED
    BY <2>1, <2>2, <2>3, <2>4
<1> HIDE DEF S
<1>3. Latest(S) \in S /\ \A z \in S : z <= Latest(S)
  BY <1>2 DEF Latest
<1> QED
  BY <1>1, <1>3 DEF S

(* When a client is refused, each limit that refuses it has a ticket that  *)
(* is out of the way by retryAt.                                           *)
LEMMA RetryAtIsLate ==
  ASSUME TicketIInv, NEW r \in HomeRooms
  PROVE  /\ RetryAt(r) \in Int
         /\ TooManyRecent => \E t \in Recent : t.at + Minute <= RetryAt(r)
         /\ TooManyOutstanding(r) => \E t \in Outstanding(r) : t.exp <= RetryAt(r)
<1> DEFINE ats  == {t.at : t \in Recent}
           exps == {t.exp : t \in Outstanding(r)}
           A == IF TooManyRecent THEN {Earliest(ats) + Minute} ELSE {}
           B == IF TooManyOutstanding(r) THEN {Earliest(exps)} ELSE {}
<1>1. clock \in Nat /\ \A t \in tickets : t.at \in Int /\ t.exp \in Int
  BY DEF TicketIInv, TicketTypeOK, Ticket
<1>2. Recent \subseteq tickets /\ Outstanding(r) \subseteq tickets
  BY DEF TicketIInv, TicketTypeOK, Recent, Outstanding
<1>3. Cardinality({}) = 0
  BY FS_EmptySet
<1>4. TooManyRecent => Earliest(ats) \in ats
  <2>1. TooManyRecent => Recent # {}
    BY <1>3, Limits DEF TooManyRecent
  <2>2. ats \subseteq Int /\ \A x \in ats : x > clock - Minute
    BY <1>1, <1>2 DEF Recent
  <2>3. clock - Minute \in Int
    BY <1>1, Parameters
  <2>4. TooManyRecent => ats # {}
    BY <2>1
  <2> HIDE DEF ats
  <2> QED
    BY <2>2, <2>3, <2>4, EarliestIsThere
<1>5. TooManyOutstanding(r) => Earliest(exps) \in exps
  <2>1. TooManyOutstanding(r) => Outstanding(r) # {}
    BY <1>3, Limits DEF TooManyOutstanding
  <2>2. exps \subseteq Int /\ \A x \in exps : x > clock
    BY <1>1, <1>2 DEF Outstanding
  <2>3. TooManyOutstanding(r) => exps # {}
    BY <2>1
  <2>4. clock \in Int
    BY <1>1
  <2> HIDE DEF exps
  <2> QED
    BY <2>2, <2>3, <2>4, EarliestIsThere
<1>6. TooManyRecent => \E t \in Recent : t.at = Earliest(ats)
  BY <1>4
<1>7. TooManyOutstanding(r) => \E t \in Outstanding(r) : t.exp = Earliest(exps)
  BY <1>5
<1>8. PICK x \in Int : A \in {{}, {x}} /\ (TooManyRecent => A = {x} /\ x = Earliest(ats) + Minute)
  <2>1. CASE TooManyRecent
    <3>1. Earliest(ats) + Minute \in Int
      BY <1>1, <1>2, <1>6, <2>1, Parameters
    <3> QED
      BY <2>1, <3>1
  <2>2. CASE ~TooManyRecent
    BY <2>2
  <2> QED
    BY <2>1, <2>2
<1>9. PICK y \in Int : B \in {{}, {y}} /\ (TooManyOutstanding(r) => B = {y} /\ y = Earliest(exps))
  <2>1. CASE TooManyOutstanding(r)
    <3>1. Earliest(exps) \in Int
      BY <1>1, <1>2, <1>7, <2>1
    <3> QED
      BY <2>1, <3>1
  <2>2. CASE ~TooManyOutstanding(r)
    BY <2>2
  <2> QED
    BY <2>1, <2>2
<1>10. RetryAt(r) = Latest({clock + 1} \cup A \cup B)
  BY DEF RetryAt
<1> HIDE DEF A, B, ats, exps
<1>11. RetryAt(r) \in Int /\ \A z \in {clock + 1} \cup A \cup B : z <= RetryAt(r)
  <2>1. clock + 1 \in Int
    BY <1>1
  <2>2. A \in {{}, {x}} /\ B \in {{}, {y}}
    BY <1>8, <1>9
  <2>3. /\ Latest({clock + 1} \cup A \cup B) \in Int
        /\ \A z \in {clock + 1} \cup A \cup B : z <= Latest({clock + 1} \cup A \cup B)
    BY <2>1, <2>2, LatestIsThere
  <2> QED
    BY <1>10, <2>3
<1>12. TooManyRecent => \E t \in Recent : t.at + Minute <= RetryAt(r)
  BY <1>6, <1>8, <1>11
<1>13. TooManyOutstanding(r) => \E t \in Outstanding(r) : t.exp <= RetryAt(r)
  BY <1>7, <1>9, <1>11
<1> QED
  BY <1>11, <1>12, <1>13

(* A refusal changes no row and makes a promise.                           *)
LEMMA RefusalKeeps ==
  ASSUME LimitInv, TicketIInv', Ledger', NEW r \in HomeRooms,
         UNCHANGED <<clock, tickets, issues, consumed, admitted>>,
         promise' = [room |-> r, at |-> RetryAt(r)]
  PROVE  LimitInv'
<1>1. /\ Recent' = Recent /\ TooManyRecent' = TooManyRecent
      /\ \A q \in HomeRooms : /\ Outstanding(q)' = Outstanding(q)
                              /\ TooManyOutstanding(q)' = TooManyOutstanding(q)
  BY DEF Recent, TooManyRecent, Outstanding, TooManyOutstanding
<1>2. MinuteHolds' /\ OutstandingHolds'
  BY DEF LimitInv, MinuteHolds, OutstandingHolds
<1>3. promise'.room = r /\ promise'.at = RetryAt(r)
  OBVIOUS
<1>4. /\ RetryAt(r) \in Int
      /\ TooManyRecent => \E t \in Recent : t.at + Minute <= RetryAt(r)
      /\ TooManyOutstanding(r) => \E t \in Outstanding(r) : t.exp <= RetryAt(r)
  BY RetryAtIsLate DEF LimitInv
<1>5. PromiseHolds'
  BY <1>1, <1>3, <1>4 DEF PromiseHolds
<1> QED
  BY <1>2, <1>5 DEF LimitInv

(* A ticket is issued while both limits have room for one more.            *)
LEMMA IssueKeepsLimits ==
  ASSUME LimitInv, TicketIInv', Ledger', NEW t \in Ticket,
         ~TooManyRecent, ~TooManyOutstanding(t.room),
         UNCHANGED <<clock, admitted>>, tickets' = tickets \cup {t}, promise' = NoPromise
  PROVE  LimitInv'
<1>1. Recent = RecentEver /\ \A r \in HomeRooms : Outstanding(r) = OutstandingEver(r)
  BY RowsTellAll DEF LimitInv
<1>2. RecentEver \in SUBSET tickets /\ IsFiniteSet(tickets)
  BY DEF RecentEver, LimitInv, Ledger
<1>3. IsFiniteSet(RecentEver) /\ Cardinality(RecentEver) \in Nat
  BY <1>2, FS_Subset, FS_CardinalityType
<1>4. MinuteHolds'
  <2>1. ~(Cardinality(RecentEver) >= MaxPerMinute)
    BY <1>1 DEF TooManyRecent
  <2>2. RecentEver' \subseteq RecentEver \cup {t}
    BY DEF RecentEver
  <2>3. /\ IsFiniteSet(RecentEver \cup {t})
        /\ Cardinality(RecentEver \cup {t}) \in {Cardinality(RecentEver), Cardinality(RecentEver) + 1}
    BY <1>3, FS_AddElement
  <2>4. Cardinality(RecentEver') <= Cardinality(RecentEver \cup {t}) /\ IsFiniteSet(RecentEver')
    BY <2>2, <2>3, FS_Subset
  <2>5. Cardinality(RecentEver') \in Nat
    BY <2>4, FS_CardinalityType
  <2>6. Cardinality(RecentEver') <= MaxPerMinute
    BY <1>3, <2>1, <2>3, <2>4, <2>5, Limits
  <2> QED
    BY <2>6 DEF MinuteHolds, RecentEver
<1>5. ASSUME NEW r \in HomeRooms
      PROVE  Cardinality(OutstandingEver(r)') <= MaxOutstanding
  <2>1. OutstandingEver(r) \in SUBSET tickets
    BY DEF OutstandingEver
  <2>2. IsFiniteSet(OutstandingEver(r)) /\ Cardinality(OutstandingEver(r)) \in Nat
    BY <1>2, <2>1, FS_Subset, FS_CardinalityType
  <2>3. Cardinality(OutstandingEver(r)) <= MaxOutstanding
    BY DEF LimitInv, OutstandingHolds, OutstandingEver
  <2>4. CASE r # t.room
    <3>1. OutstandingEver(r)' = OutstandingEver(r)
      BY <2>4 DEF OutstandingEver
    <3> QED
      BY <2>3, <3>1
  <2>5. CASE r = t.room
    <3>1. ~(Cardinality(OutstandingEver(r)) >= MaxOutstanding)
      BY <1>1, <2>5 DEF TooManyOutstanding
    <3>2. OutstandingEver(r)' \subseteq OutstandingEver(r) \cup {t}
      BY DEF OutstandingEver
    <3>3. /\ IsFiniteSet(OutstandingEver(r) \cup {t})
          /\ Cardinality(OutstandingEver(r) \cup {t})
               \in {Cardinality(OutstandingEver(r)), Cardinality(OutstandingEver(r)) + 1}
      BY <2>2, FS_AddElement
    <3>4. /\ Cardinality(OutstandingEver(r)') <= Cardinality(OutstandingEver(r) \cup {t})
          /\ IsFiniteSet(OutstandingEver(r)')
      BY <3>2, <3>3, FS_Subset
    <3>5. Cardinality(OutstandingEver(r)') \in Nat
      BY <3>4, FS_CardinalityType
    <3> QED
      BY <2>2, <3>1, <3>3, <3>4, <3>5, Limits
  <2> QED
    BY <2>4, <2>5
<1>6. OutstandingHolds'
  BY <1>5 DEF OutstandingHolds, OutstandingEver
<1>7. PromiseHolds'
  BY DEF PromiseHolds
<1> QED
  BY <1>4, <1>6, <1>7 DEF LimitInv

(* What the ledger says of each ticket and its numbers.                    *)
LEMMA TicketNumbers ==
  ASSUME TicketIInv
  PROVE  /\ clock \in Nat
         /\ \A t \in tickets : t.at \in Int /\ t.exp \in Int /\ t.jti \in Jtis /\ t.room \in HomeRooms
         /\ issues \subseteq tickets /\ uses \subseteq tickets
         /\ admitted \in [Jtis -> Nat]
  BY DEF TicketIInv, TicketTypeOK, Ticket

LEMMA LimitsInitially == TicketInit => LimitInv
<1> SUFFICES ASSUME TicketInit PROVE LimitInv
  OBVIOUS
<1>1. /\ tickets = {} /\ asks = {} /\ uses = {} /\ promise = NoPromise
  BY DEF TicketInit
<1>2. IsFiniteSet({}) /\ Cardinality({}) = 0
  BY FS_EmptySet
<1>3. TicketIInv
  BY TicketsInitially
<1>4. Ledger
  BY <1>1, <1>2 DEF Ledger
<1>5. {t \in tickets : t.at > clock - Minute} = {}
      /\ \A r \in HomeRooms : {t \in tickets : t.room = r /\ t.exp > clock /\ admitted[t.jti] = 0} = {}
  BY <1>1
<1>6. MinuteHolds
  <2>1. Cardinality({t \in tickets : t.at > clock - Minute}) = 0
    BY <1>2, <1>5
  <2> QED
    BY <2>1, Limits DEF MinuteHolds
<1>7. OutstandingHolds
  <2>1. \A r \in HomeRooms :
          Cardinality({t \in tickets : t.room = r /\ t.exp > clock /\ admitted[t.jti] = 0}) = 0
    <3> TAKE r \in HomeRooms
    <3> DEFINE S == {t \in tickets : t.room = r /\ t.exp > clock /\ admitted[t.jti] = 0}
    <3>1. S = {}
      BY <1>5
    <3> HIDE DEF S
    <3>2. Cardinality(S) = 0
      BY <1>2, <3>1
    <3> QED
      BY <3>2 DEF S
  <2> QED
    BY <2>1, Limits DEF OutstandingHolds
<1> QED
  BY <1>1, <1>3, <1>4, <1>6, <1>7 DEF LimitInv, PromiseHolds

LEMMA LimitsPreserved == LimitInv /\ [TicketNext]_ticketVars => LimitInv'
<1> SUFFICES ASSUME LimitInv, [TicketNext]_ticketVars PROVE LimitInv'
  OBVIOUS
<1>1. TicketIInv /\ TicketIInv' /\ Ledger
  BY TicketsPreserved DEF LimitInv
<1>2. CASE \E r \in HomeRooms : Ask(r)
  <2>1. PICK r \in HomeRooms, d \in -Skew .. Skew :
          /\ asks' = asks \cup {[ticket |-> [jti |-> drawn + 1, room |-> r, match |-> current[r],
                                             at |-> clock + d, exp |-> clock + d + Lifetime],
                                 since |-> clock]}
          /\ UNCHANGED <<clock, tickets, issues, uses, admitted, promise>>
    BY <1>2 DEF Ask
  <2>2. Ledger'
    BY <1>1, <2>1 DEF Ledger
  <2> QED
    BY <1>1, <2>1, <2>2, TicketNumbers, NothingIssued
<1>3. CASE \E a \in asks : Issue(a)
  <2>1. PICK a \in asks : Issue(a)
    BY <1>3
  <2> DEFINE t == a.ticket
  <2>2. t \in Ticket /\ t.room \in HomeRooms /\ t.exp = t.at + Lifetime
    BY <1>1 DEF TicketIInv, TicketTypeOK, Ledger, Ticket
  <2>3. asks' \subseteq asks /\ UNCHANGED <<clock, uses, consumed, admitted>>
    BY <2>1 DEF Issue
  <2>4. \/ UNCHANGED <<tickets, issues, promise>>
        \/ UNCHANGED <<tickets, issues>> /\ promise' = [room |-> t.room, at |-> RetryAt(t.room)]
        \/ /\ ~TooManyRecent /\ ~TooManyOutstanding(t.room) /\ promise' = NoPromise
           /\ tickets' = tickets \cup {t} /\ issues' = issues \cup {t}
    BY <2>1 DEF Issue
  <2> HIDE DEF t
  <2>5. CASE UNCHANGED <<tickets, issues, promise>>
    <3>1. Ledger'
      BY <1>1, <2>3, <2>5 DEF Ledger
    <3> QED
      BY <1>1, <2>3, <2>5, <3>1, TicketNumbers, NothingIssued
  <2>6. CASE UNCHANGED <<tickets, issues>> /\ promise' = [room |-> t.room, at |-> RetryAt(t.room)]
    <3>1. Ledger'
      BY <1>1, <2>3, <2>6 DEF Ledger
    <3>2. PICK r \in HomeRooms : r = t.room
      BY <2>2
    <3> QED
      BY <1>1, <2>3, <2>6, <3>1, <3>2, RefusalKeeps
  <2>7. CASE /\ ~TooManyRecent /\ ~TooManyOutstanding(t.room) /\ promise' = NoPromise
             /\ tickets' = tickets \cup {t} /\ issues' = issues \cup {t}
    <3>1. IsFiniteSet(tickets')
      BY <1>1, <2>7, FS_AddElement DEF Ledger
    <3>2. Ledger'
      BY <1>1, <2>2, <2>3, <2>7, <3>1 DEF Ledger
    <3> QED
      BY <1>1, <2>2, <2>3, <2>7, <3>2, IssueKeepsLimits
  <2> QED
    BY <2>4, <2>5, <2>6, <2>7
<1>4. CASE \E n \in 1 .. MaxChecks, t \in tickets : Verify(n, t)
  <2>1. UNCHANGED <<clock, asks, tickets, issues, uses, admitted, promise>>
    BY <1>4 DEF Verify
  <2>2. Ledger'
    BY <1>1, <2>1 DEF Ledger
  <2> QED
    BY <1>1, <2>1, <2>2, TicketNumbers, NothingIssued
<1>5. CASE \E c \in checks : Enter(c)
  <2>1. PICK c \in checks : Enter(c)
    BY <1>5
  <2>2. c.ticket \in tickets /\ c.ticket.jti \in Jtis
    BY <1>1, TicketNumbers DEF TicketIInv, TicketTypeOK
  <2>3. UNCHANGED <<clock, asks, tickets, issues, promise>>
    BY <2>1 DEF Enter
  <2>4. \A j \in Jtis : admitted[j] <= admitted'[j] /\ admitted[j] \in Nat /\ admitted'[j] \in Nat
    <3>1. \/ UNCHANGED admitted
          \/ admitted' = [admitted EXCEPT ![c.ticket.jti] = @ + 1]
      BY <2>1 DEF Enter
    <3> QED
      BY <1>1, <2>2, <3>1, TicketNumbers
  <2>5. \A t \in uses' : admitted'[t.jti] > 0
    <3>1. CASE UNCHANGED <<uses, admitted>>
      BY <1>1, <3>1 DEF Ledger
    <3>2. CASE uses' = uses \cup {c.ticket} /\ admitted' = [admitted EXCEPT ![c.ticket.jti] = @ + 1]
      <4>1. admitted'[c.ticket.jti] > 0
        BY <1>1, <2>2, <3>2, TicketNumbers
      <4>2. \A t \in uses : t.jti \in Jtis /\ admitted[t.jti] > 0
        BY <1>1, TicketNumbers DEF Ledger
      <4> QED
        BY <2>4, <3>2, <4>1, <4>2
    <3> QED
      BY <2>1, <3>1, <3>2 DEF Enter
  <2>6. Ledger'
    BY <1>1, <2>3, <2>5 DEF Ledger
  <2>7. clock <= clock' /\ \A j \in Jtis : admitted'[j] = 0 => admitted[j] = 0
    BY <1>1, <2>3, <2>4, TicketNumbers
  <2> QED
    BY <1>1, <2>3, <2>6, <2>7, NothingIssued
<1>6. CASE PurgeExpiredUses
  <2>1. /\ uses' = Kept(uses) /\ issues' = Kept(issues)
        /\ UNCHANGED <<clock, asks, tickets, admitted, promise>>
    BY <1>6 DEF PurgeExpiredUses
  <2>2. \A t \in tickets : t \in issues' \/ t.exp < clock - PurgeAfter
    BY <1>1, <2>1, Parameters, TicketNumbers DEF Ledger, Kept
  <2>3. uses' \subseteq uses
    BY <2>1 DEF Kept
  <2>4. Ledger'
    BY <1>1, <2>1, <2>2, <2>3 DEF Ledger
  <2> QED
    BY <1>1, <2>1, <2>4, TicketNumbers, NothingIssued
<1>7. CASE TicketTick
  <2>1. clock' = clock + 1 /\ UNCHANGED <<asks, tickets, issues, uses, admitted, promise>>
    BY <1>7 DEF TicketTick
  <2>2. \A t \in tickets : t \in issues \/ t.exp < clock' - PurgeAfter
    BY <1>1, <2>1, Parameters, TicketNumbers DEF Ledger
  <2>3. Ledger'
    BY <1>1, <2>1, <2>2 DEF Ledger
  <2> QED
    BY <1>1, <2>1, <2>3, TicketNumbers, NothingIssued
<1>8. CASE (\E r \in HomeRooms : NextRound(r)) \/ UNCHANGED ticketVars
  <2>1. UNCHANGED <<clock, asks, tickets, issues, uses, admitted, promise>>
    BY <1>8 DEF NextRound, ticketVars
  <2>2. Ledger'
    BY <1>1, <2>1 DEF Ledger
  <2> QED
    BY <1>1, <2>1, <2>2, TicketNumbers, NothingIssued
<1> QED
  BY <1>2, <1>3, <1>4, <1>5, <1>6, <1>7, <1>8 DEF TicketNext

(* Both limits hold for all the tickets a user was ever issued, although   *)
(* the rows they are counted in are purged (tickets.ts:104); and a client  *)
(* that comes back when retryAt says is not refused again by the limits,   *)
(* unless it was issued a ticket meanwhile (tickets.ts:128).               *)
THEOREM LimitsHoldForAll == TicketSpec => []TicketInv
<1>1. LimitInv => TicketInv
  <2> SUFFICES ASSUME LimitInv PROVE TicketInv
    OBVIOUS
  <2>1. RetryAtSuffices
    <3> SUFFICES ASSUME promise # NoPromise, clock >= promise.at
                 PROVE  ~TooManyRecent /\ ~TooManyOutstanding(promise.room)
      BY DEF RetryAtSuffices
    <3>1. /\ promise.at \in Int /\ promise.room \in HomeRooms
          /\ TooManyRecent => \E t \in Recent : t.at + Minute <= promise.at
          /\ TooManyOutstanding(promise.room) =>
               \E t \in Outstanding(promise.room) : t.exp <= promise.at
      BY DEF LimitInv, PromiseHolds
    <3>2. clock \in Nat /\ \A t \in issues : t.at \in Int /\ t.exp \in Int
      BY TicketNumbers DEF LimitInv
    <3>3. ~ \E t \in Recent : t.at + Minute <= promise.at
      BY <3>1, <3>2, Parameters DEF Recent
    <3>4. ~ \E t \in Outstanding(promise.room) : t.exp <= promise.at
      BY <3>1, <3>2 DEF Outstanding
    <3> QED
      BY <3>1, <3>3, <3>4
  <2> QED
    BY <2>1 DEF LimitInv, TicketIInv, TicketInv
<1> QED
  BY <1>1, LimitsInitially, LimitsPreserved, PTL DEF TicketSpec

==============================================================================
