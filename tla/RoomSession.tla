----------------------------- MODULE RoomSession -----------------------------
(***************************************************************************)
(* The session of a player's browser with a room (useRoomSession): what is *)
(* shown, the link that says when to look again, and the player moving     *)
(* between pages and rooms while rounds go on.                             *)
(***************************************************************************)
EXTENDS RoomSocket

CONSTANT Budgets  \* BOUND: how much of each event happens; one of these

ASSUME SessionAssumption == Budgets \subseteq [Events -> Nat]

sessionVars == <<refreshVars, socketVars>>

TypeOK == RefreshTypeOK /\ SocketTypeOK

Init == RefreshInit /\ SocketInit /\ left \in Budgets

RefreshOnly(A) == A /\ UNCHANGED socketVars

Handler ==
  \/ RefreshOnly(RefreshStep)
  \/ TokenArrives \/ Pong \/ TimesOut \/ EffectRuns
  \/ \E s \in Socks : SocketOpens(s) \/ SocketClosed(s)

Timer == RefreshOnly(PollFires) \/ ReconnectFires \/ Heartbeat \/ Stable \/ \E k \in Keys : HandoffTimer(k)

Surroundings ==
  \/ RefreshOnly(Reply) \/ \E r \in Rooms : RefreshOnly(News(r)) \/ Moves(r)
  \/ TokenFails \/ PingError \/ Unreadable \/ GoesOffline \/ Wakes
  \/ \E s \in Socks : PeerLost(s)
  \/ \E v \in 0 .. MaxVersion : Invalidation(v)

Next == Handler \/ Timer \/ Surroundings

(* Requests are answered or time out, and timers fire.                     *)
Fairness ==
  /\ WF_sessionVars(Handler)
  /\ WF_sessionVars(RefreshOnly(Serve)) /\ WF_sessionVars(RefreshOnly(Fetched))
  /\ WF_sessionVars(RefreshOnly(PollFires)) /\ WF_sessionVars(EffectRuns)
  /\ WF_sessionVars(TokenArrives) /\ WF_sessionVars(ReconnectFires) /\ WF_sessionVars(Heartbeat)
  /\ WF_sessionVars(Pong) /\ WF_sessionVars(TimesOut)
  /\ \A s \in Socks : WF_sessionVars(SocketOpens(s)) /\ WF_sessionVars(SocketClosed(s))

Spec == Init /\ [][Next]_sessionVars /\ Fairness

-----------------------------------------------------------------------------
(* What must hold.                                                         *)

(* While the player stays, what is shown never goes back to an older round *)
(* or version, in whatever order answers arrive; and it is never of another*)
(* room (useRoomSession.ts:143).                                           *)
ShownGoesForward ==
  [][/\ shown' # Nothing => shown'.room = room'
     /\ shown # Nothing /\ shown' # Nothing => NotOlder(shown', shown)]_sessionVars

(* What a message of the link has announced is shown, or will be asked for *)
(* or read after the message, unless the request failed                    *)
(* (useRoomSession.ts:163).                                                *)
AnnouncedIsFetched ==
  wanted # Nothing /\ ~(shown # Nothing /\ NotOlder(shown, wanted)) =>
    debounce \/ queued \/ answer \in {Nothing, Failed} \/ (answer # Idle /\ NotOlder(answer, wanted))

(* No socket is left open by accident: it is the link's, or waits for its  *)
(* successor, one for each match (useRoomSession.ts:76).                   *)
NoSocketLeaks == \A s \in Socks : Live(s) => s = current \/ \E k \in Keys : deferred[k] = s

(* While online, the page of a match has a link, makes one, or will try.   *)
NeverStranded ==
  linked # NoKey /\ online => token \/ reconnect \/ current # 0

(* The link is well formed: closed sockets, timers and what is shown agree.*)
LinkInv == TypeOK /\ NoSocketLeaks /\ NeverStranded

(* Whatever was lost, the page shows the room as it is, again and again.   *)
CatchesUp == []<>(shown = server[room])

(* A page that stays online gets its link back.                            *)
LinkComesBack == []<>(realtime = "LIVE" \/ ~online)

(* After any disturbance the session is as good as new.                    *)
SessionRecovers == CatchesUp /\ LinkComesBack
=============================================================================
