------------------------------ MODULE Realtime ------------------------------
(***************************************************************************)
(* A player's sockets on one of the two realtime transports, the Durable   *)
(* Object of Cloudflare or the Node service, with the database behind it,  *)
(* the match going on, and time passing.                                   *)
(***************************************************************************)
EXTENDS RoomHub, NodeRealtime

CONSTANTS
  Transports,  \* transports in use
  Budgets      \* BOUND: how much of each event happens; one of these

ASSUME RealtimeAssumption == Transports \subseteq {"HUB", "NODE"} /\ Budgets \subseteq [Events -> Nat]

VARIABLE transport  \* the one this deployment uses

allVars == <<realtimeVars, hubVars, nodeVars, transport>>

TypeOK == StoreTypeOK /\ HubTypeOK /\ NodeTypeOK /\ transport \in Transports

Init ==
  /\ StoreInit /\ HubInit /\ NodeInit
  /\ transport \in Transports
  /\ left \in Budgets

Hub(A) == transport = "HUB" /\ A /\ UNCHANGED <<nodeVars, transport>>
Node(A) == transport = "NODE" /\ A /\ UNCHANGED <<hubVars, transport>>

Handler(kinds) ==
  \E t \in {u \in tasks : u.kind \in kinds} :
    Hub(HubStatement(t) \/ HubResumes(t)) \/ Node(NodeStatement(t) \/ NodeResumes(t))

Surroundings ==
  /\ Append \/ MatchEnds \/ GlobalSweep \/ \E s \in Socks : PeerCloses(s)
  /\ UNCHANGED <<hubVars, nodeVars, transport>>

Tick == Hub(HubTick) \/ Node(NodeTick)

Next == Handler(Kinds) \/ Hub(HubEvent) \/ Node(NodeEvent) \/ Surroundings \/ Tick

(* Handlers go on, reported closes are handled, and time passes; the sweep *)
(* and the timers run again and again.                                     *)
Fairness ==
  /\ WF_allVars(Handler(Kinds \ {"POLL"})) /\ WF_allVars(Handler({"POLL"})) /\ WF_allVars(Tick)
  /\ WF_allVars(GlobalSweep /\ UNCHANGED <<hubVars, nodeVars, transport>>)
  /\ WF_allVars(Hub(AlarmFires)) /\ WF_allVars(Node(Ping))
  /\ \A s \in Socks : /\ WF_allVars(Hub(SocketCloses(s))) /\ WF_allVars(Node(ClientCloses(s)))
                      /\ WF_allVars(Node(PollTimer(s)))

Spec == Init /\ [][Next]_allVars /\ Fairness

-----------------------------------------------------------------------------
(* What must hold.                                                         *)

(* A transport that is gone stays gone: once the close of a socket has been*)
(* handled, no heartbeat, command or lease that was on its way leaves its  *)
(* session open (index.ts:552, connection-lifecycle.ts:26).                *)
GoneStaysGone ==
  \A s \in Socks : ws[s] = "CLOSED" /\ SockTasks(s) = {} /\ ~faulted /\ server # "ENDED"
                     => session[s] # "OPEN"

(* An open socket keeps its session although the tab may be asleep: no     *)
(* sweep declares the player absent (index.ts:663).                        *)
Attached(s) == IF transport = "HUB" THEN Current(s) ELSE Ready(s)
OpenSocketKeepsSession ==
  \A s \in Socks : Attached(s) /\ ~faulted /\ phase # "LEFT" => session[s] = "OPEN"

(* An orderly shutdown leaves no session of its clients open.              *)
ShutdownLeavesNoSession ==
  server = "ENDED" /\ ~faulted => \A s \in active : session[s] # "OPEN"

(* Sessions are open and closed as their sockets are.                      *)
SessionsFollowSockets == GoneStaysGone /\ OpenSocketKeepsSession /\ ShutdownLeavesNoSession

(* Sockets beyond the limit are never open together, however their setups  *)
(* overlap.                                                                *)
CapHolds == Cardinality(OpenSockets) <= SocketCap

(* Nothing is skipped: all events up to a socket's cursor were sent, or    *)
(* covered by a snapshot.                                                  *)
NothingMissed == \A s \in Socks : ws[s] = "OPEN" => cursor[s] <= known[s]

(* While anything of the match will be due, an alarm is set that comes no  *)
(* later, unless a handler is about to set it or a notification to arrive. *)
AlarmCoversDeadlines ==
  transport = "HUB" /\ tasks = {} /\ ~notice /\ ~faulted /\ Deadlines # {}
    /\ (\A s \in Socks : ws[s] # "CLOSING")
    => alarm # None /\ alarm <= NextWake

(* What services keep in memory is well formed, and within its bounds.     *)
RealtimeInv == TypeOK /\ CapHolds /\ AlarmCoversDeadlines

(* A session whose socket is gone does not stay open for ever, whatever    *)
(* has failed.                                                             *)
OrphansExpire ==
  \A s \in Socks : (session[s] = "OPEN" /\ ws[s] = "CLOSED") ~> session[s] # "OPEN"

(* On Node a client that stays hears of every event, although a poll that  *)
(* fails takes the request for another with it.                            *)
ClientsCatchUp ==
  \A s \in Socks : transport = "NODE" /\ Ready(s) ~> known[s] = version \/ ~Ready(s)

(* docs/architecture.md:71: "subsequent durable events are delivered in    *)
(* version order".                                                         *)
DeliveredInOrder == repeated = {}
=============================================================================
