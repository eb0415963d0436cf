------------------------------ MODULE MCLimits ------------------------------
(* Realtime tickets, the judge's requests and the judge's scoring do not   *)
(* meet: part says which of them a behaviour is of.                        *)
EXTENDS RealtimeTickets, JudgeRequests, JudgeScoring

VARIABLE part

Pairs == [e \in Evaluations |-> {e, e + 1}]
Points == [c \in Criteria |-> 1]
Order == [c \in Criteria |-> c]

Init ==
  /\ TicketInit /\ JudgeInit
  /\ part \in {"TICKETS", "REQUESTS", "SCORING"}
  /\ IF part = "SCORING" THEN ScoringInit
     ELSE snapshot = "ALONE" /\ output = (CHOOSE o \in Outputs : TRUE) /\ verdict = Rejected

Next ==
  /\ part' = part
  /\ \/ part = "TICKETS" /\ TicketNext /\ UNCHANGED <<judgeVars, scoringVars>>
     \/ part = "REQUESTS" /\ JudgeNext /\ UNCHANGED <<ticketVars, scoringVars>>
     \/ part = "SCORING" /\ Validate /\ UNCHANGED <<ticketVars, judgeVars>>

Spec == Init /\ [][Next]_<<ticketVars, judgeVars, scoringVars, part>>
=============================================================================
