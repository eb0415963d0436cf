-------------------------- MODULE RoomSessionProofs --------------------------
(***************************************************************************)
(* What a page shows of a room, for any rooms, rounds and versions, in     *)
(* whatever order answers, messages and timers come: it goes forward, and  *)
(* nothing that was announced is forgotten; and its link, for any number   *)
(* of sockets: none is left open, and no page is left without one.         *)
(***************************************************************************)
EXTENDS RoomSession, TLAPS

-----------------------------------------------------------------------------
(* Snapshots of a room are ordered by round and version.                   *)

LEMMA SnapshotsAreNumbers ==
  ASSUME NEW s \in Snapshot
  PROVE  s.round \in Int /\ s.version \in Int /\ s.version >= 0 /\ s.room \in Rooms /\ s.room # 0
BY RefreshAssumption DEF Snapshot

LEMMA NothingIsNoSnapshot ==
  /\ Nothing \notin Snapshot /\ Idle \notin Snapshot /\ Failed \notin Snapshot
  /\ Nothing # Idle /\ Nothing # Failed /\ Idle # Failed
<1>1. Nothing.room = 0 /\ Idle.room = 0 /\ Failed.room = 0
  BY DEF Nothing, Idle, Failed
<1>2. Nothing.version = 0 /\ Idle.version = -1 /\ Failed.version = -2
  BY DEF Nothing, Idle, Failed
<1> QED BY <1>1, <1>2, SnapshotsAreNumbers

LEMMA NotOlderIsAnOrder ==
  ASSUME NEW a \in Snapshot, NEW b \in Snapshot, NEW c \in Snapshot
  PROVE  /\ NotOlder(a, a)
         /\ NotOlder(a, b) \/ NotOlder(b, a)
         /\ NotOlder(a, b) /\ NotOlder(b, c) => NotOlder(a, c)
BY SnapshotsAreNumbers DEF NotOlder

-----------------------------------------------------------------------------
(* Every answer is a snapshot the server had, of the room it was asked for;*)
(* the page shows the room it is at; and the server has all that it has    *)
(* announced.                                                              *)
ServerRows ==
  /\ server \in [Rooms -> Snapshot]
  /\ \A r \in Rooms : server[r].room = r
PageRows ==
  /\ room \in Rooms
  /\ shown \in Snapshot \cup {Nothing}
  /\ answer \in Snapshot \cup {Nothing, Idle, Failed}
  /\ replies \subseteq Snapshot
  /\ queued \in BOOLEAN /\ debounce \in BOOLEAN
OfThisRoom ==
  /\ shown # Nothing => shown.room = room
  /\ answer \in Snapshot => answer.room = room
AnnouncedIsThere ==
  /\ wanted \in Snapshot \cup {Nothing}
  /\ wanted # Nothing => wanted.room = room /\ NotOlder(server[room], wanted)

PageInv == ServerRows /\ PageRows /\ OfThisRoom
ShownInv == PageInv /\ AnnouncedIsThere /\ AnnouncedIsFetched

LEMMA ShownInitially == Init => ShownInv
<1> SUFFICES ASSUME Init PROVE ShownInv
  OBVIOUS
<1>1. ServerRows
  BY RefreshAssumption DEF Init, RefreshInit, ServerRows, Snapshot
<1>2. PageRows /\ OfThisRoom /\ AnnouncedIsThere /\ AnnouncedIsFetched
  BY NothingIsNoSnapshot
  DEF Init, RefreshInit, PageRows, OfThisRoom, AnnouncedIsThere, AnnouncedIsFetched
<1> QED BY <1>1, <1>2 DEF ShownInv, PageInv

(* A snapshot that arrives is shown or is older: what is shown goes        *)
(* forward, and afterwards it is as new as the snapshot.                   *)
LEMMA ApplyGoesForward ==
  ASSUME PageInv, NEW s \in Snapshot, Apply(s), room' = room
  PROVE  /\ shown' \in Snapshot \cup {Nothing}
         /\ shown' # Nothing => shown'.room = room
         /\ shown # Nothing => shown' # Nothing /\ NotOlder(shown', shown)
         /\ s.room = room => shown' # Nothing /\ NotOlder(shown', s)
<1>1. shown \in Snapshot \cup {Nothing} /\ (shown # Nothing => shown.room = room)
  BY DEF PageInv, PageRows, OfThisRoom
<1>2. CASE Accepts(s)
  <2>1. shown' = s /\ s.room = room BY <1>2 DEF Apply, Accepts
  <2>2. s # Nothing /\ NotOlder(s, s) BY NotOlderIsAnOrder, NothingIsNoSnapshot
  <2>3. shown # Nothing => NotOlder(s, shown) BY <1>2 DEF Accepts
  <2> QED BY <2>1, <2>2, <2>3
<1>3. CASE ~Accepts(s)
  <2>1. shown' = shown BY <1>3 DEF Apply
  <2>2. shown # Nothing => NotOlder(shown, shown) BY <1>1, NotOlderIsAnOrder
  <2>3. s.room = room => shown # Nothing /\ ~NotOlder(s, shown) BY <1>3 DEF Accepts
  <2>4. s.room = room => NotOlder(shown, s) BY <1>1, <2>3, NotOlderIsAnOrder
  <2> QED BY <1>1, <2>1, <2>2, <2>3, <2>4
<1> QED BY <1>2, <1>3

-----------------------------------------------------------------------------
(* Steps of the refresh.                                                   *)

LEMMA ServeStep ==
  ASSUME ShownInv, Serve
  PROVE  ShownInv'
<1>1. /\ answer = Nothing
      /\ answer' = server[room] \/ answer' = Failed
      /\ UNCHANGED <<server, room, shown, queued, debounce, replies, wanted>>
  BY DEF Serve
<1>2. server[room] \in Snapshot /\ server[room].room = room
  BY DEF ShownInv, PageInv, ServerRows, PageRows
<1>3. PageInv'
  BY <1>1, <1>2, NothingIsNoSnapshot DEF ShownInv, PageInv, ServerRows, PageRows, OfThisRoom
<1>4. AnnouncedIsThere'
  BY <1>1 DEF ShownInv, AnnouncedIsThere
<1>5. AnnouncedIsFetched'
  <2>1. CASE answer' = Failed BY <2>1 DEF AnnouncedIsFetched
  <2>2. CASE answer' = server[room]
    <3>1. answer' # Idle BY <1>2, <2>2, NothingIsNoSnapshot
    <3>2. wanted # Nothing => NotOlder(answer', wanted)
      BY <2>2 DEF ShownInv, AnnouncedIsThere
    <3> QED BY <1>1, <3>1, <3>2 DEF AnnouncedIsFetched
  <2> QED BY <1>1, <2>1, <2>2
<1> QED BY <1>3, <1>4, <1>5 DEF ShownInv

(* The answer arrives.  If it does not show what was announced, it left    *)
(* before, and one more refresh is due.                                    *)
LEMMA FetchedStep ==
  ASSUME ShownInv, Fetched
  PROVE  /\ ShownInv'
         /\ shown # Nothing => shown' # Nothing /\ NotOlder(shown', shown)
<1>1. /\ answer \notin {Nothing, Idle} /\ answer' = IF queued THEN Nothing ELSE Idle
      /\ queued' = FALSE
      /\ wanted' = IF answer = Failed /\ ~queued THEN Nothing ELSE wanted
      /\ UNCHANGED <<server, room, debounce, replies>>
  BY DEF Fetched
<1>2. shown \in Snapshot \cup {Nothing} /\ answer \in Snapshot \cup {Failed}
  BY <1>1 DEF ShownInv, PageInv, PageRows
<1>3. /\ shown' \in Snapshot \cup {Nothing}
      /\ shown' # Nothing => shown'.room = room
      /\ shown # Nothing => shown' # Nothing /\ NotOlder(shown', shown)
      /\ answer # Failed => shown' # Nothing /\ NotOlder(shown', answer)
  <2>1. CASE answer = Failed
    <3>1. shown' = shown BY <2>1 DEF Fetched
    <3> QED BY <1>2, <2>1, <3>1, NotOlderIsAnOrder DEF ShownInv, PageInv, OfThisRoom
  <2>2. CASE answer # Failed
    <3>1. Apply(answer) /\ answer \in Snapshot BY <1>2, <2>2 DEF Fetched
    <3>2. answer.room = room BY <3>1 DEF ShownInv, PageInv, OfThisRoom
    <3> QED BY <1>1, <3>1, <3>2, ApplyGoesForward DEF ShownInv
  <2> QED BY <2>1, <2>2
<1>4. answer' \in {Nothing, Idle}
  BY <1>1
<1>5. PageInv'
  BY <1>1, <1>3, <1>4, NothingIsNoSnapshot DEF ShownInv, PageInv, ServerRows, PageRows, OfThisRoom
<1>6. AnnouncedIsThere'
  BY <1>1 DEF ShownInv, AnnouncedIsThere
<1>7. AnnouncedIsFetched'
  <2>1. CASE queued
    BY <1>1, <2>1 DEF AnnouncedIsFetched
  <2>2. CASE ~queued /\ answer = Failed
    BY <1>1, <2>2 DEF AnnouncedIsFetched
  <2>3. CASE ~queued /\ answer # Failed /\ wanted # Nothing
    <3>1. wanted' = wanted /\ wanted \in Snapshot /\ answer \in Snapshot
      BY <1>1, <1>2, <2>3 DEF ShownInv, AnnouncedIsThere
    <3>2. shown' # Nothing /\ NotOlder(shown', answer) /\ shown' \in Snapshot
      BY <1>3, <2>3
    <3>3. CASE NotOlder(answer, wanted)
      <4>1. NotOlder(shown', wanted) BY <3>1, <3>2, <3>3, NotOlderIsAnOrder
      <4> QED BY <3>1, <3>2, <4>1 DEF AnnouncedIsFetched
    <3>4. CASE shown # Nothing /\ NotOlder(shown, wanted)
      <4>1. NotOlder(shown', wanted) BY <1>2, <1>3, <3>1, <3>2, <3>4, NotOlderIsAnOrder
      <4> QED BY <3>1, <3>2, <4>1 DEF AnnouncedIsFetched
    <3>5. CASE debounce
      BY <1>1, <3>5 DEF AnnouncedIsFetched
    <3> QED BY <1>1, <2>3, <3>3, <3>4, <3>5 DEF ShownInv, AnnouncedIsFetched
  <2>4. CASE wanted = Nothing
    BY <1>1, <2>4 DEF AnnouncedIsFetched
  <2> QED BY <2>1, <2>2, <2>3, <2>4
<1> QED BY <1>3, <1>5, <1>6, <1>7 DEF ShownInv

(* A refresh is in flight afterwards; one that was is followed by another. *)
LEMMA RefreshStepKeeps ==
  ASSUME ShownInv, Refresh, debounce' \in BOOLEAN,
         UNCHANGED <<server, room, shown, replies, wanted>>
  PROVE  ShownInv'
<1>1. \/ answer = Idle /\ answer' = Nothing /\ queued' = FALSE
      \/ answer # Idle /\ answer' = answer /\ queued' = TRUE
  BY DEF Refresh, OneMore
<1>2. PageInv'
  BY <1>1, NothingIsNoSnapshot DEF ShownInv, PageInv, ServerRows, PageRows, OfThisRoom
<1>3. AnnouncedIsThere'
  BY DEF ShownInv, AnnouncedIsThere
<1>4. AnnouncedIsFetched'
  BY <1>1 DEF AnnouncedIsFetched
<1> QED BY <1>2, <1>3, <1>4 DEF ShownInv

LEMMA ReplyArrivesStep ==
  ASSUME ShownInv, NEW s \in replies, ReplyArrives(s)
  PROVE  /\ ShownInv'
         /\ shown # Nothing => shown' # Nothing /\ NotOlder(shown', shown)
<1>1. /\ replies' = replies \ {s} /\ Apply(s)
      /\ UNCHANGED <<server, room, answer, queued, debounce, wanted>>
  BY DEF ReplyArrives
<1>2. s \in Snapshot /\ shown \in Snapshot \cup {Nothing}
  BY DEF ShownInv, PageInv, PageRows
<1>3. /\ shown' \in Snapshot \cup {Nothing}
      /\ shown' # Nothing => shown'.room = room
      /\ shown # Nothing => shown' # Nothing /\ NotOlder(shown', shown)
  BY <1>1, <1>2, ApplyGoesForward DEF ShownInv
<1>4. PageInv'
  BY <1>1, <1>3 DEF ShownInv, PageInv, ServerRows, PageRows, OfThisRoom
<1>5. AnnouncedIsThere'
  BY <1>1 DEF ShownInv, AnnouncedIsThere
<1>6. AnnouncedIsFetched'
  <2>1. CASE wanted # Nothing /\ shown # Nothing /\ NotOlder(shown, wanted)
    <3>1. NotOlder(shown', wanted) /\ shown' # Nothing
      BY <1>2, <1>3, <2>1, NotOlderIsAnOrder DEF ShownInv, AnnouncedIsThere
    <3> QED BY <1>1, <3>1 DEF AnnouncedIsFetched
  <2>2. CASE ~ (wanted # Nothing /\ shown # Nothing /\ NotOlder(shown, wanted))
    BY <1>1, <2>2 DEF ShownInv, AnnouncedIsFetched
  <2> QED BY <2>1, <2>2
<1> QED BY <1>3, <1>4, <1>5, <1>6 DEF ShownInv

-----------------------------------------------------------------------------
(* Steps of the server, of the player and of the link.                     *)

LEMMA NewsStep ==
  ASSUME ShownInv, NEW r \in Rooms, News(r)
  PROVE  ShownInv'
<1>1. UNCHANGED <<room, shown, answer, queued, debounce, replies, wanted>>
  BY DEF News
<1>2. server[r] \in Snapshot /\ server \in [Rooms -> Snapshot]
  BY DEF ShownInv, PageInv, ServerRows
<1> DEFINE v == [server[r] EXCEPT !.version = @ + 1]
           n == [room |-> r, round |-> server[r].round + 1, version |-> 0]
<1>3. \/ server[r].version < MaxVersion /\ server' = [server EXCEPT ![r] = v]
      \/ server[r].round < MaxRound /\ server' = [server EXCEPT ![r] = n]
  BY <1>2 DEF News
<1>4. \A q \in Rooms : /\ server'[q] \in Snapshot /\ NotOlder(server'[q], server[q])
                       /\ server'[q].room = server[q].room
  <2>1. server[r].version < MaxVersion =>
          v \in Snapshot /\ NotOlder(v, server[r]) /\ v.room = server[r].room
    <3>1. /\ v = [room |-> server[r].room, round |-> server[r].round, version |-> server[r].version + 1]
          /\ server[r].room \in Rooms /\ server[r].round \in 1 .. MaxRound
          /\ server[r].version \in 0 .. MaxVersion
      BY <1>2 DEF Snapshot
    <3> QED BY <3>1, RefreshAssumption DEF Snapshot, NotOlder
  <2>2. server[r].round < MaxRound =>
          n \in Snapshot /\ NotOlder(n, server[r]) /\ n.room = server[r].room
    <3>1. server[r].round \in 1 .. MaxRound /\ server[r].room = r
      BY <1>2 DEF Snapshot, ShownInv, PageInv, ServerRows
    <3> QED BY <3>1, RefreshAssumption DEF Snapshot, NotOlder
  <2>3. \A q \in Rooms : server[q] \in Snapshot /\ NotOlder(server[q], server[q])
    BY <1>2, NotOlderIsAnOrder
  <2> HIDE DEF v, n
  <2> QED BY <1>2, <1>3, <2>1, <2>2, <2>3
<1>5. server' \in [Rooms -> Snapshot]
  <2>1. server' = [q \in Rooms |-> server'[q]] BY <1>2, <1>3
  <2> QED BY <1>4, <2>1
<1>6. PageInv'
  BY <1>1, <1>4, <1>5 DEF ShownInv, PageInv, ServerRows, PageRows, OfThisRoom
<1>7. AnnouncedIsThere'
  <2>1. room \in Rooms /\ wanted \in Snapshot \cup {Nothing} /\ server[room] \in Snapshot
        /\ (wanted # Nothing => wanted.room = room /\ NotOlder(server[room], wanted))
    BY <1>2 DEF ShownInv, PageInv, PageRows, AnnouncedIsThere
  <2>2. wanted # Nothing => NotOlder(server'[room], wanted)
    BY <1>4, <2>1, NotOlderIsAnOrder
  <2> QED BY <1>1, <2>1, <2>2 DEF AnnouncedIsThere
<1>8. AnnouncedIsFetched'
  BY <1>1 DEF ShownInv, AnnouncedIsFetched
<1> QED BY <1>6, <1>7, <1>8 DEF ShownInv

LEMMA ReplyStep ==
  ASSUME ShownInv, Reply
  PROVE  ShownInv'
<1>1. /\ replies' = replies \cup {server[room]}
      /\ UNCHANGED <<server, room, shown, answer, queued, debounce, wanted>>
  BY DEF Reply
<1>2. server[room] \in Snapshot
  BY DEF ShownInv, PageInv, ServerRows, PageRows
<1>3. PageInv'
  BY <1>1, <1>2 DEF ShownInv, PageInv, ServerRows, PageRows, OfThisRoom
<1> QED BY <1>1, <1>3 DEF ShownInv, AnnouncedIsThere, AnnouncedIsFetched

LEMMA MovesStep ==
  ASSUME ShownInv, NEW r \in Rooms, Moves(r)
  PROVE  ShownInv' /\ shown' = Nothing
<1>1. /\ room' = r /\ shown' = Nothing /\ wanted' = Nothing /\ answer' = Nothing
      /\ queued' = FALSE /\ debounce' = FALSE /\ UNCHANGED <<server, replies>>
  BY DEF Moves, MoveTo
<1>2. PageInv'
  BY <1>1, NothingIsNoSnapshot DEF ShownInv, PageInv, ServerRows, PageRows, OfThisRoom
<1> QED BY <1>1, <1>2 DEF ShownInv, AnnouncedIsThere, AnnouncedIsFetched

(* The link only ever asks for a refresh.                                  *)
LinkStep ==
  /\ UNCHANGED <<server, room, shown, answer, queued, replies, wanted>>
  /\ debounce' \in {debounce, TRUE}

LEMMA LinkStepKeeps ==
  ASSUME ShownInv, LinkStep
  PROVE  ShownInv'
BY DEF LinkStep, ShownInv, PageInv, ServerRows, PageRows, OfThisRoom, AnnouncedIsThere, AnnouncedIsFetched

(* What a message announces the server has, and a refresh is scheduled.    *)
LEMMA InvalidationStep ==
  ASSUME ShownInv, NEW v \in 0 .. MaxVersion, Invalidation(v)
  PROVE  ShownInv' /\ shown' = shown
<1> DEFINE s == [room |-> room, round |-> linked[2], version |-> v]
<1>1. /\ linked \in {room} \X (1 .. server[room].round)
      /\ linked[2] = server[room].round => v <= server[room].version
      /\ debounce' = TRUE /\ wanted' = IF wanted = Nothing \/ NotOlder(s, wanted) THEN s ELSE wanted
      /\ UNCHANGED <<server, room, shown, answer, queued, replies>>
  BY DEF Invalidation, WasThere, RoomKeeps
<1>2. room \in Rooms /\ server[room] \in Snapshot
  BY DEF ShownInv, PageInv, ServerRows, PageRows
<1>3. /\ linked[2] \in 1 .. server[room].round
      /\ server[room].round \in 1 .. MaxRound /\ server[room].version \in 0 .. MaxVersion
      /\ server[room].room = room
  BY <1>1, <1>2 DEF Snapshot, ShownInv, PageInv, ServerRows
<1>4. s \in Snapshot /\ s.room = room /\ NotOlder(server[room], s)
  BY <1>1, <1>2, <1>3, RefreshAssumption DEF Snapshot, NotOlder
<1> HIDE DEF s
<1>5. PageInv'
  BY <1>1 DEF ShownInv, PageInv, ServerRows, PageRows, OfThisRoom
<1>6. AnnouncedIsThere'
  BY <1>1, <1>4 DEF ShownInv, AnnouncedIsThere
<1>7. AnnouncedIsFetched'
  BY <1>1 DEF AnnouncedIsFetched
<1> QED BY <1>1, <1>5, <1>6, <1>7 DEF ShownInv

-----------------------------------------------------------------------------
(* All steps.                                                              *)

Forward ==
  /\ shown' # Nothing => shown'.room = room'
  /\ shown # Nothing /\ shown' # Nothing => NotOlder(shown', shown)

LEMMA StandingStill ==
  ASSUME ShownInv, ShownInv', shown' = shown
  PROVE  Forward
BY NotOlderIsAnOrder DEF ShownInv, PageInv, PageRows, OfThisRoom, Forward

LEMMA EveryStep ==
  ASSUME ShownInv, [Next]_sessionVars
  PROVE  ShownInv' /\ Forward
<1>1. CASE Serve BY <1>1, ServeStep, StandingStill DEF Serve
<1>2. CASE Fetched
  <2>1. ShownInv' /\ (shown # Nothing => shown' # Nothing /\ NotOlder(shown', shown))
    BY <1>2, FetchedStep
  <2> QED BY <2>1 DEF Forward, ShownInv, PageInv, OfThisRoom
<1>3. CASE DebounceFires \/ PollFires
  <2>1. debounce' \in BOOLEAN
    BY <1>3 DEF DebounceFires, PollFires, ShownInv, PageInv, PageRows
  <2>2. Refresh /\ UNCHANGED <<server, room, shown, replies, wanted>>
    BY <1>3 DEF DebounceFires, PollFires
  <2> QED BY <2>1, <2>2, RefreshStepKeeps, StandingStill
<1>4. CASE \E s \in replies : ReplyArrives(s)
  <2>1. ShownInv' /\ (shown # Nothing => shown' # Nothing /\ NotOlder(shown', shown))
    BY <1>4, ReplyArrivesStep
  <2> QED BY <2>1 DEF Forward, ShownInv, PageInv, OfThisRoom
<1>5. CASE Reply BY <1>5, ReplyStep, StandingStill DEF Reply
<1>6. CASE \E r \in Rooms : News(r)
  <2>1. PICK r \in Rooms : News(r) BY <1>6
  <2> QED BY <2>1, NewsStep, StandingStill DEF News
<1>7. CASE \E r \in Rooms : Moves(r) BY <1>7, MovesStep DEF Forward
<1>8. CASE \E v \in 0 .. MaxVersion : Invalidation(v)
  BY <1>8, InvalidationStep, StandingStill
<1>9. CASE LinkStep
  <2>1. ShownInv' /\ shown' = shown BY <1>9, LinkStepKeeps DEF LinkStep
  <2> QED BY <2>1, StandingStill
<1>10. TokenArrives \/ Pong \/ TimesOut \/ EffectRuns \/ Stable \/ Heartbeat \/ ReconnectFires => LinkStep
  BY DEF LinkStep, RoomKeeps, TokenArrives, Pong, TimesOut, EffectRuns, Stable, Heartbeat, ReconnectFires
<1>11. TokenFails \/ PingError \/ Unreadable \/ GoesOffline \/ Wakes => LinkStep
  BY DEF LinkStep, RoomKeeps, TokenFails, PingError, Unreadable, GoesOffline, Wakes
<1>12. ASSUME NEW s \in Socks
       PROVE  SocketOpens(s) \/ SocketClosed(s) \/ PeerLost(s) => LinkStep
  BY DEF LinkStep, RoomKeeps, SocketOpens, SocketClosed, PeerLost
<1>13. ASSUME NEW k \in Keys
       PROVE  HandoffTimer(k) => LinkStep
  BY DEF LinkStep, RoomKeeps, HandoffTimer
<1>14. UNCHANGED sessionVars => LinkStep
  BY DEF LinkStep, sessionVars, refreshVars
<1>15. Handler => Serve \/ Fetched \/ DebounceFires \/ (\E s \in replies : ReplyArrives(s)) \/ LinkStep
  BY <1>10, <1>12 DEF Handler, RefreshOnly, RefreshStep
<1>16. Timer => PollFires \/ LinkStep
  BY <1>10, <1>13 DEF Timer, RefreshOnly
<1>17. Surroundings => \/ Reply \/ (\E r \in Rooms : News(r)) \/ (\E r \in Rooms : Moves(r))
                       \/ (\E v \in 0 .. MaxVersion : Invalidation(v)) \/ LinkStep
  BY <1>11, <1>12 DEF Surroundings, RefreshOnly
<1> QED
  BY <1>1, <1>2, <1>3, <1>4, <1>5, <1>6, <1>7, <1>8, <1>9, <1>14, <1>15, <1>16, <1>17 DEF Next

LEMMA ShownInvAlways == Init /\ [][Next]_sessionVars => []ShownInv
<1>1. ShownInv /\ [Next]_sessionVars => ShownInv' BY EveryStep
<1> QED BY <1>1, ShownInitially, PTL

(* While the player stays, what is shown never goes back to an older round *)
(* or version, in whatever order answers arrive; and it is never of another*)
(* room (useRoomSession.ts:143).                                           *)
THEOREM ShownGoesForwardAlways == Spec => ShownGoesForward
<1>1. ShownInv /\ [Next]_sessionVars =>
        [/\ shown' # Nothing => shown'.room = room'
         /\ shown # Nothing /\ shown' # Nothing => NotOlder(shown', shown)]_sessionVars
  BY EveryStep DEF Forward
<1> QED BY <1>1, ShownInvAlways, PTL DEF Spec, ShownGoesForward

(* What a message of the link has announced is shown, or will be asked for *)
(* or read after the message, unless the request failed                    *)
(* (useRoomSession.ts:163).                                                *)
THEOREM AnnouncedIsFetchedAlways == Spec => []AnnouncedIsFetched
BY ShownInvAlways, PTL DEF Spec, ShownInv

-----------------------------------------------------------------------------
(* The link.  What the page shows is of types that ShownInv gives; what is *)
(* left of them is here.                                                   *)
RestOK ==
  /\ status \in {"LOADING", "READY", "ERROR"}
  /\ poll \in {"TIMER", "WAIT"}
  /\ left \in [Events -> Nat]

(* A token is fetched only while there is nothing to replace.              *)
OneAttempt ==
  /\ token => linked # NoKey /\ ~reconnect
  /\ current # 0 => linked # NoKey

Links == SocketTypeOK /\ OneAttempt /\ NoSocketLeaks /\ NeverStranded

Alive == {s \in Socks : ready[s] \in {"CONNECTING", "OPEN"}}
Waiting == {deferred[k] : k \in Keys}
States == {"NONE", "CONNECTING", "OPEN", "CLOSING", "CLOSED"}

LEMMA NoKeyIsNone == NoKey \notin Keys
BY RefreshAssumption DEF NoKey, Keys

LEMMA NoSocketIsZero == Socks \subseteq 0 .. MaxSockets /\ 0 \notin Socks /\ \A n \in 0 .. MaxSockets : n # 0 => n \in Socks
BY SocketAssumption DEF Socks

(* The same, over the sets of the sockets that live and that wait.         *)
Types ==
  /\ linked \in Keys \cup {NoKey} /\ ready \in [Socks -> States] /\ current \in 0 .. MaxSockets
  /\ token \in BOOLEAN /\ reconnect \in BOOLEAN /\ tried \in BOOLEAN
  /\ awaiting \in BOOLEAN /\ rejected \in BOOLEAN /\ online \in BOOLEAN
  /\ silent \subseteq Socks /\ realtime \in {"CONNECTING", "LIVE", "POLLING"}
  /\ deferred \in [Keys -> 0 .. MaxSockets]
Flags ==
  /\ reconnect => linked # NoKey /\ tried /\ current \notin Alive
  /\ awaiting => current # 0
  /\ token => linked # NoKey /\ current = 0 /\ ~reconnect
  /\ current # 0 => linked # NoKey
  /\ linked # NoKey /\ online => token \/ reconnect \/ current # 0
NoLeaks == Alive \subseteq {current} \cup Waiting
LinkParts == Types /\ Flags /\ NoLeaks

LEMMA LiveIsAlive ==
  ASSUME NEW s \in 0 .. MaxSockets
  PROVE  Live(s) <=> s \in Alive
BY NoSocketIsZero DEF Live, Alive

LEMMA LinkPartsTell == LinkParts <=> Links
<1>1. ASSUME Types
      PROVE  /\ Live(current) <=> current \in Alive
             /\ \A s \in Socks : Live(s) <=> s \in Alive
             /\ \A s : s \in Alive => s \in Socks
  BY <1>1, LiveIsAlive, NoSocketIsZero DEF Types, Alive
<1>2. SocketTypeOK => Types
  BY DEF SocketTypeOK, Types, States
<1>3. Types => (NoSocketLeaks <=> NoLeaks)
  BY <1>1 DEF NoSocketLeaks, NoLeaks, Waiting
<1>4. Types => (SocketTypeOK /\ OneAttempt /\ NeverStranded <=> Flags)
  BY <1>1 DEF SocketTypeOK, Types, States, OneAttempt, NeverStranded, Flags
<1> QED
  BY <1>2, <1>3, <1>4 DEF LinkParts, Links

LEMMA LinkInitially == Init => LinkParts
<1> SUFFICES ASSUME Init PROVE LinkParts
  OBVIOUS
<1>1. Types
  <2>1. 0 \in 0 .. MaxSockets
    BY SocketAssumption
  <2>2. ready = [s \in Socks |-> "NONE"] /\ deferred = [k \in Keys |-> 0]
    BY DEF Init, SocketInit
  <2>3. ready \in [Socks -> States] /\ deferred \in [Keys -> 0 .. MaxSockets]
    BY <2>1, <2>2 DEF States
  <2> QED
    BY <2>1, <2>3 DEF Init, SocketInit, Types
<1>2. Alive = {}
  BY DEF Init, SocketInit, Alive
<1> QED
  BY <1>1, <1>2 DEF Init, SocketInit, LinkParts, Flags, NoLeaks

(* closeSocket: the ones of S are gone, the others as they were.           *)
LEMMA ClosingCloses ==
  ASSUME Types, NEW S, ready' = Closing(S)
  PROVE  ready' \in [Socks -> States] /\ Alive' = Alive \ S
<1>1. \A s \in Socks : Live(s) <=> ready[s] \in {"CONNECTING", "OPEN"}
  BY NoSocketIsZero DEF Live
<1>2. ready' = [s \in Socks |-> IF s \in S /\ ready[s] \in {"CONNECTING", "OPEN"}
                                  THEN "CLOSING" ELSE ready[s]]
  BY <1>1 DEF Closing
<1>3. ready' \in [Socks -> States]
  BY <1>2 DEF Types, States
<1>4. Alive' = Alive \ S
  BY <1>2 DEF Alive
<1> QED
  BY <1>3, <1>4

LEMMA CurrentLives == Types => (Live(current) <=> current \in Alive) /\ (IsOpen(current) => current \in Alive)
<1> SUFFICES ASSUME Types PROVE (Live(current) <=> current \in Alive) /\ (IsOpen(current) => current \in Alive)
  OBVIOUS
<1>1. current \in 0 .. MaxSockets
  BY DEF Types
<1> QED
  BY <1>1, LiveIsAlive DEF IsOpen, Live

LEMMA LinkUntouched == LinkParts /\ UNCHANGED socketVars => LinkParts'
BY DEF LinkParts, Types, Flags, NoLeaks, Alive, Waiting, socketVars

(* The timers and flags of a link whose sockets, if anything, close; one   *)
(* that is no longer alive may be forgotten.                               *)
Fading ==
  /\ UNCHANGED <<linked, deferred>>
  /\ current' = current \/ (current' = 0 /\ current \notin Alive)
  /\ ready' \in [Socks -> States] /\ Alive' \subseteq Alive
  /\ UNCHANGED silent \/ \E s \in Socks : silent' = silent \cup {s}

LEMMA FadingKeeps ==
  ASSUME LinkParts, Fading,
         token' \in BOOLEAN, reconnect' \in BOOLEAN, tried' \in BOOLEAN, awaiting' \in BOOLEAN,
         rejected' \in BOOLEAN, online' \in BOOLEAN, realtime' \in {"CONNECTING", "LIVE", "POLLING"},
         Flags'
  PROVE  LinkParts'
<1>1. Types'
  BY SocketAssumption DEF LinkParts, Types, Fading
<1>2. NoLeaks'
  <2>1. Waiting' = Waiting
    BY DEF Fading, Waiting
  <2> QED
    BY <2>1 DEF LinkParts, NoLeaks, Fading
<1> QED
  BY <1>1, <1>2 DEF LinkParts

LEMMA SameReady == LinkParts /\ ready' = ready => ready' \in [Socks -> States] /\ Alive' = Alive
BY DEF LinkParts, Types, Alive

LEMMA ReconnectFiresLinks == LinkParts /\ ReconnectFires => LinkParts'
<1> SUFFICES ASSUME LinkParts, ReconnectFires PROVE LinkParts'
  OBVIOUS
<1>1. /\ reconnect /\ reconnect' = FALSE
      /\ IF ~token /\ online /\ ~Live(current)
           THEN /\ token' = TRUE /\ current' = 0 /\ awaiting' = FALSE
                /\ realtime' = IF tried THEN realtime ELSE "CONNECTING"
           ELSE UNCHANGED <<token, current, awaiting, realtime>>
      /\ UNCHANGED <<linked, ready, tried, rejected, silent, deferred, online>>
  BY DEF ReconnectFires, Connect, Shows
<1>2. (Live(current) <=> current \in Alive) /\ 0 \notin Alive
  BY CurrentLives, NoSocketIsZero DEF LinkParts, Alive
<1>3. Fading /\ Alive' = Alive
  BY <1>1, <1>2, SameReady DEF Fading
<1>4. Flags'
  BY <1>1, <1>2, <1>3 DEF LinkParts, Flags
<1> QED
  BY <1>1, <1>3, <1>4, FadingKeeps DEF LinkParts, Types

LEMMA TokenFailsLinks == LinkParts /\ TokenFails => LinkParts'
<1> SUFFICES ASSUME LinkParts, TokenFails PROVE LinkParts'
  OBVIOUS
<1>1. /\ token /\ token' = FALSE /\ realtime' = "POLLING"
      /\ IF online /\ ~reconnect /\ ~Live(current) THEN reconnect' = TRUE /\ tried' = TRUE
         ELSE UNCHANGED <<reconnect, tried>>
      /\ UNCHANGED <<linked, ready, current, awaiting, rejected, silent, deferred, online>>
  BY DEF TokenFails, ScheduleReconnect, Shows
<1>2. (Live(current) <=> current \in Alive) /\ 0 \notin Alive
  BY CurrentLives, NoSocketIsZero DEF LinkParts, Alive
<1>3. Fading /\ Alive' = Alive
  BY <1>1, SameReady DEF Fading
<1>4. Flags'
  BY <1>1, <1>2, <1>3 DEF LinkParts, Flags
<1> QED
  BY <1>1, <1>3, <1>4, FadingKeeps DEF LinkParts, Types

LEMMA SocketOpensLinks == ASSUME LinkParts, NEW s \in Socks, SocketOpens(s) PROVE LinkParts'
<1>1. /\ ready[s] = "CONNECTING" /\ ready' = [ready EXCEPT ![s] = "OPEN"]
      /\ awaiting' = IF s = current THEN TRUE ELSE awaiting
      /\ UNCHANGED <<linked, current, token, reconnect, tried, rejected, silent, realtime, deferred, online>>
  BY DEF SocketOpens
<1>2. ready' \in [Socks -> States] /\ Alive' = Alive
  BY <1>1 DEF LinkParts, Types, States, Alive
<1>3. Fading
  BY <1>1, <1>2 DEF Fading
<1>4. Flags'
  BY <1>1, <1>2, NoSocketIsZero DEF LinkParts, Flags
<1> QED
  BY <1>1, <1>3, <1>4, FadingKeeps DEF LinkParts, Types

LEMMA PingLinks == LinkParts /\ (Heartbeat \/ Stable) => LinkParts'
<1> SUFFICES ASSUME LinkParts, Heartbeat \/ Stable PROVE LinkParts'
  OBVIOUS
<1>1. /\ IsOpen(current) /\ current \in Alive
      /\ UNCHANGED <<linked, ready, current, token, reconnect, rejected, silent, realtime, deferred, online>>
      /\ (awaiting' = TRUE /\ tried' = tried) \/ (awaiting' = awaiting /\ tried' = FALSE)
  BY CurrentLives DEF Heartbeat, Stable, LinkParts
<1>2. current # 0
  BY <1>1 DEF IsOpen
<1>3. Fading /\ Alive' = Alive
  BY <1>1, SameReady DEF Fading
<1>4. Flags'
  BY <1>1, <1>2, <1>3 DEF LinkParts, Flags
<1> QED
  BY <1>1, <1>3, <1>4, FadingKeeps DEF LinkParts, Types

LEMMA EndsLinks == LinkParts /\ (PingError \/ TimesOut) => LinkParts'
<1> SUFFICES ASSUME LinkParts, PingError \/ TimesOut PROVE LinkParts'
  OBVIOUS
<1>1. /\ ready' = ready \/ ready' = Closing({current})
      /\ UNCHANGED <<linked, current, token, reconnect, tried, silent, realtime, deferred, online>>
      /\ awaiting' = FALSE \/ awaiting' = awaiting
      /\ rejected' = TRUE \/ rejected' = rejected
  BY DEF PingError, TimesOut
<1>2. ready' \in [Socks -> States] /\ Alive' \subseteq Alive
  BY <1>1, SameReady, ClosingCloses DEF LinkParts
<1>3. Fading
  BY <1>1, <1>2 DEF Fading
<1>4. Flags'
  BY <1>1, <1>2 DEF LinkParts, Flags
<1> QED
  BY <1>1, <1>3, <1>4, FadingKeeps DEF LinkParts, Types

LEMMA GoesOfflineLinks == LinkParts /\ GoesOffline => LinkParts'
<1> SUFFICES ASSUME LinkParts, GoesOffline PROVE LinkParts'
  OBVIOUS
<1>1. /\ online' = FALSE /\ (reconnect' = FALSE \/ reconnect' = reconnect)
      /\ realtime' \in {"POLLING", realtime}
      /\ UNCHANGED <<linked, ready, current, token, tried, awaiting, rejected, silent, deferred>>
  BY DEF GoesOffline, Shows
<1>2. Fading /\ Alive' = Alive
  BY <1>1, SameReady DEF Fading
<1>3. Flags'
  BY <1>1, <1>2 DEF LinkParts, Flags, Types
<1> QED
  BY <1>1, <1>2, <1>3, FadingKeeps DEF LinkParts, Types

LEMMA WakesLinks == LinkParts /\ Wakes => LinkParts'
<1> SUFFICES ASSUME LinkParts, Wakes PROVE LinkParts'
  OBVIOUS
<1>1. /\ online' = TRUE
      /\ UNCHANGED <<linked, ready, tried, rejected, silent, deferred>>
      /\ \/ linked = NoKey /\ UNCHANGED <<current, awaiting, reconnect, token, realtime>>
         \/ /\ linked # NoKey /\ IsOpen(current) /\ awaiting' = TRUE
            /\ UNCHANGED <<current, reconnect, token, realtime>>
         \/ /\ linked # NoKey /\ reconnect' = FALSE
            /\ IF ~token /\ ~Live(current)
                 THEN /\ token' = TRUE /\ current' = 0 /\ awaiting' = FALSE
                      /\ realtime' = IF tried THEN realtime ELSE "CONNECTING"
                 ELSE UNCHANGED <<token, current, awaiting, realtime>>
  BY DEF Wakes, Connect, Shows
<1>2. /\ Live(current) <=> current \in Alive
      /\ IsOpen(current) => current # 0
      /\ Live(current) => current # 0
      /\ 0 \notin Alive
  BY CurrentLives, NoSocketIsZero DEF LinkParts, IsOpen, Live, Alive
<1>3. Fading /\ Alive' = Alive
  BY <1>1, <1>2, SameReady DEF Fading
<1>4. Flags'
  BY <1>1, <1>2, <1>3 DEF LinkParts, Flags, Types
<1> QED
  BY <1>1, <1>3, <1>4, FadingKeeps DEF LinkParts, Types

LEMMA PeerLostLinks == ASSUME LinkParts, NEW s \in Socks, PeerLost(s) PROVE LinkParts'
<1>1. /\ \/ ready' = Closing({s}) /\ silent' = silent
         \/ silent' = silent \cup {s} /\ ready' = ready
      /\ UNCHANGED <<linked, current, token, reconnect, tried, awaiting, rejected, realtime, deferred, online>>
  BY DEF PeerLost
<1>2. ready' \in [Socks -> States] /\ Alive' \subseteq Alive
  BY <1>1, SameReady, ClosingCloses DEF LinkParts
<1>3. Fading
  BY <1>1, <1>2 DEF Fading
<1>4. Flags'
  BY <1>1, <1>2 DEF LinkParts, Flags
<1> QED
  BY <1>1, <1>3, <1>4, FadingKeeps DEF LinkParts, Types

LEMMA SocketClosedLinks == ASSUME LinkParts, NEW s \in Socks, SocketClosed(s) PROVE LinkParts'
<1>1. /\ ready[s] = "CLOSING" /\ ready' = [ready EXCEPT ![s] = "CLOSED"]
      /\ \/ /\ s = current
            /\ current' = 0 /\ awaiting' = FALSE /\ realtime' = "POLLING"
            /\ IF online /\ ~reconnect /\ ~Live(0) THEN reconnect' = TRUE /\ tried' = TRUE
               ELSE UNCHANGED <<reconnect, tried>>
         \/ UNCHANGED <<current, awaiting, realtime, reconnect, tried>>
      /\ UNCHANGED <<linked, token, rejected, silent, deferred, online>>
  BY DEF SocketClosed, Retries, ScheduleReconnect, Shows
<1>2. ready' \in [Socks -> States] /\ Alive' = Alive /\ s \notin Alive
  BY <1>1 DEF LinkParts, Types, States, Alive
<1>3. Waiting' = Waiting
  BY <1>1 DEF Waiting
<1>4. CASE UNCHANGED <<current, awaiting, realtime, reconnect, tried>>
  <2>1. Fading
    BY <1>1, <1>2, <1>4 DEF Fading
  <2>2. Flags'
    BY <1>1, <1>2, <1>4 DEF LinkParts, Flags
  <2> QED
    BY <1>1, <1>4, <2>1, <2>2, FadingKeeps DEF LinkParts, Types
<1>5. CASE /\ s = current
           /\ current' = 0 /\ awaiting' = FALSE /\ realtime' = "POLLING"
           /\ IF online /\ ~reconnect /\ ~Live(0) THEN reconnect' = TRUE /\ tried' = TRUE
              ELSE UNCHANGED <<reconnect, tried>>
  <2>1. ~Live(0) /\ 0 \notin Alive /\ 0 \in 0 .. MaxSockets
    BY SocketAssumption, NoSocketIsZero DEF Live, Alive
  <2>2. Types'
    BY <1>1, <1>2, <1>5, <2>1 DEF LinkParts, Types
  <2>3. current # 0
    BY <1>5, NoSocketIsZero
  <2>4. Flags'
    BY <1>1, <1>2, <1>5, <2>1, <2>3 DEF LinkParts, Flags
  <2>5. NoLeaks'
    BY <1>2, <1>3, <1>5 DEF LinkParts, NoLeaks
  <2> QED
    BY <2>2, <2>4, <2>5 DEF LinkParts
<1> QED
  BY <1>1, <1>4, <1>5

(* A socket that waits is closed when it is forgotten.                     *)
LEMMA ForgetLinks ==
  ASSUME LinkParts, NEW k \in Keys,
         deferred' = [deferred EXCEPT ![k] = 0], ready' = Closing({deferred[k]}),
         UNCHANGED <<linked, current, token, reconnect, tried, silent, online>>,
         awaiting' \in BOOLEAN, rejected' \in BOOLEAN, realtime' \in {"CONNECTING", "LIVE", "POLLING"},
         awaiting' => awaiting
  PROVE  LinkParts'
<1>1. ready' \in [Socks -> States] /\ Alive' = Alive \ {deferred[k]}
  BY ClosingCloses DEF LinkParts
<1>2. deferred \in [Keys -> 0 .. MaxSockets] /\ 0 \in 0 .. MaxSockets
  BY SocketAssumption DEF LinkParts, Types
<1>3. deferred' \in [Keys -> 0 .. MaxSockets]
  BY <1>2
<1>4. Waiting \subseteq Waiting' \cup {deferred[k]}
  BY <1>2 DEF Waiting
<1>5. Types'
  BY <1>1, <1>3 DEF LinkParts, Types
<1>6. Flags'
  BY <1>1 DEF LinkParts, Flags
<1>7. NoLeaks'
  BY <1>1, <1>4 DEF LinkParts, NoLeaks
<1> QED
  BY <1>5, <1>6, <1>7 DEF LinkParts

LEMMA PongLinks == LinkParts /\ Pong => LinkParts'
<1> SUFFICES ASSUME LinkParts, Pong PROVE LinkParts'
  OBVIOUS
<1>1. /\ IsOpen(current) /\ awaiting' = FALSE /\ rejected' = FALSE /\ realtime' = "LIVE"
      /\ ready' = Closing({deferred[linked]})
      /\ deferred' = [deferred EXCEPT ![linked] = 0]
      /\ UNCHANGED <<linked, current, token, reconnect, tried, silent, online>>
  BY DEF Pong, Shows
<1>2. linked \in Keys
  BY <1>1 DEF LinkParts, Flags, Types, IsOpen
<1> QED
  BY <1>1, <1>2, ForgetLinks

LEMMA HandoffLinks == ASSUME LinkParts, NEW k \in Keys, HandoffTimer(k) PROVE LinkParts'
<1>1. /\ deferred' = [deferred EXCEPT ![k] = 0] /\ ready' = Closing({deferred[k]})
      /\ UNCHANGED <<linked, current, token, reconnect, tried, awaiting, rejected, silent, realtime, online>>
  BY DEF HandoffTimer
<1> QED
  BY <1>1, ForgetLinks DEF LinkParts, Types

LEMMA TokenArrivesLinks == LinkParts /\ TokenArrives => LinkParts'
<1> SUFFICES ASSUME LinkParts, TokenArrives PROVE LinkParts'
  OBVIOUS
<1>1. PICK s \in Unused : /\ ready' = [ready EXCEPT ![s] = "CONNECTING"]
                          /\ current' = s /\ silent' = silent \ {s}
  BY DEF TokenArrives
<1>2. /\ token /\ token' = FALSE /\ awaiting' = FALSE /\ rejected' = FALSE
      /\ UNCHANGED <<linked, reconnect, tried, realtime, deferred, online>>
  BY DEF TokenArrives
<1>3. s \in Socks /\ s # 0 /\ s \in 0 .. MaxSockets
  BY <1>1, NoSocketIsZero DEF Unused
<1>4. ready' \in [Socks -> States] /\ Alive' = Alive \cup {s}
  BY <1>1, <1>3 DEF LinkParts, Types, States, Alive
<1>5. Waiting' = Waiting
  BY <1>2 DEF Waiting
<1>6. Types'
  BY <1>1, <1>2, <1>3, <1>4 DEF LinkParts, Types
<1>7. Flags'
  BY <1>1, <1>2, <1>3 DEF LinkParts, Flags
<1>8. NoLeaks'
  <2>1. 0 \notin Alive
    BY NoSocketIsZero DEF Alive
  <2>2. Alive \subseteq Waiting
    BY <1>2, <2>1 DEF LinkParts, NoLeaks, Flags
  <2> QED
    BY <1>1, <1>4, <1>5, <2>2 DEF NoLeaks
<1> QED
  BY <1>6, <1>7, <1>8 DEF LinkParts

(* The page is left: its socket waits, and the one that waited is closed.  *)
LEMMA LeaveLinks ==
  ASSUME LinkParts, Leave, linked' \in Keys \cup {NoKey}, UNCHANGED <<silent, online>>,
         token' \in BOOLEAN, realtime' \in {"CONNECTING", "LIVE", "POLLING"},
         token' => linked' # NoKey, linked' # NoKey /\ online => token'
  PROVE  LinkParts'
<1>1. /\ deferred' = IF linked = NoKey \/ ~Live(current) THEN deferred
                     ELSE [deferred EXCEPT ![linked] = current]
      /\ ready' = IF linked # NoKey /\ Live(current) THEN Closing({deferred[linked]}) ELSE ready
      /\ current' = 0 /\ reconnect' = FALSE /\ tried' = FALSE
      /\ awaiting' = FALSE /\ rejected' = FALSE
  BY DEF Leave, Deferred
<1>2. 0 \in 0 .. MaxSockets /\ 0 \notin Socks
  BY SocketAssumption, NoSocketIsZero
<1>3. /\ ready' \in [Socks -> States] /\ deferred' \in [Keys -> 0 .. MaxSockets]
      /\ Alive' \subseteq Waiting'
  <2>1. CASE linked # NoKey /\ Live(current)
    <3>1. /\ linked \in Keys /\ current \in 0 .. MaxSockets
          /\ deferred \in [Keys -> 0 .. MaxSockets]
          /\ deferred' = [deferred EXCEPT ![linked] = current]
      BY <1>1, <2>1 DEF LinkParts, Types
    <3>2. ready' \in [Socks -> States] /\ Alive' = Alive \ {deferred[linked]}
      BY <1>1, <2>1, ClosingCloses DEF LinkParts
    <3>3. deferred' \in [Keys -> 0 .. MaxSockets]
      BY <3>1
    <3>4. Waiting \subseteq Waiting' \cup {deferred[linked]} /\ current \in Waiting'
      BY <3>1 DEF Waiting
    <3> QED
      BY <3>2, <3>3, <3>4 DEF LinkParts, NoLeaks
  <2>2. CASE ~(linked # NoKey /\ Live(current))
    <3>1. UNCHANGED <<ready, deferred>>
      BY <1>1, <2>2
    <3>2. current \notin Alive
      <4>1. Live(current) <=> current \in Alive
        BY CurrentLives DEF LinkParts
      <4>2. linked = NoKey => current = 0
        BY DEF LinkParts, Flags
      <4>3. 0 \notin Alive
        BY <1>2 DEF Alive
      <4> QED
        BY <2>2, <4>1, <4>2, <4>3
    <3>3. Alive' = Alive /\ Waiting' = Waiting
      BY <3>1 DEF Alive, Waiting
    <3> QED
      BY <3>1, <3>2, <3>3 DEF LinkParts, NoLeaks, Types
  <2> QED
    BY <2>1, <2>2
<1>4. Types'
  BY <1>1, <1>2, <1>3 DEF LinkParts, Types
<1>5. Flags'
  <2>1. 0 \notin Alive'
    BY <1>2 DEF Alive
  <2> QED
    BY <1>1, <2>1 DEF Flags
<1>6. NoLeaks'
  BY <1>3 DEF NoLeaks
<1> QED
  BY <1>4, <1>5, <1>6 DEF LinkParts

LEMMA EffectRunsLinks == ASSUME LinkParts, ShownInv, EffectRuns PROVE LinkParts'
<1>1. /\ shown # Nothing /\ linked' = <<shown.room, shown.round>> /\ token' = online
      /\ realtime' \in {"CONNECTING", realtime} /\ Leave /\ UNCHANGED <<silent, online>>
  BY DEF EffectRuns, Shows
<1>2. shown \in Snapshot
  BY <1>1 DEF ShownInv, PageInv, PageRows
<1>3. shown.room \in Rooms /\ shown.round \in 1 .. MaxRound
  BY <1>2 DEF Snapshot
<1>4. linked' \in Keys
  BY <1>1, <1>3 DEF Keys
<1>5. linked' # NoKey /\ linked' \in Keys \cup {NoKey}
  BY <1>4, NoKeyIsNone
<1>6. token' \in BOOLEAN /\ realtime' \in {"CONNECTING", "LIVE", "POLLING"} /\ (online => token')
  BY <1>1 DEF LinkParts, Types
<1> QED
  BY <1>1, <1>5, <1>6, LeaveLinks

LEMMA MovesLinks == ASSUME LinkParts, NEW r \in Rooms, Moves(r) PROVE LinkParts'
<1>1. /\ linked' = NoKey /\ token' = FALSE /\ realtime' = "CONNECTING"
      /\ Leave /\ UNCHANGED <<silent, online>>
  BY DEF Moves
<1> QED
  BY <1>1, LeaveLinks

LEMMA SpendKeeps ==
  ASSUME RestOK, NEW e \in Events, Spend(e)
  PROVE  left' \in [Events -> Nat]
<1>1. left \in [Events -> Nat] /\ left[e] > 0 /\ left' = [left EXCEPT ![e] = left[e] - 1]
  BY DEF RestOK, Spend
<1>2. left[e] - 1 \in Nat
  BY <1>1
<1> QED
  BY <1>1, <1>2

(* The budget, the error that is shown and the polling loop.               *)
LEMMA RestKeeps ==
  ASSUME RestOK, [Next]_sessionVars
  PROVE  RestOK'
<1> DEFINE Budget == left' = left \/ \E e \in Events : Spend(e)
           Shown == status' = status \/ status' \in {"LOADING", "READY", "ERROR"}
           Loop == poll' = poll \/ poll' \in {"TIMER", "WAIT"}
<1>1. Events = {"faults", "moves", "news", "replies", "closes", "offline"}
  BY DEF Events
<1>2. ASSUME RefreshStep
      PROVE  Budget /\ Shown /\ Loop
  <2>1. CASE Serve
    BY <1>1, <2>1 DEF Serve
  <2>2. CASE Fetched
    BY <2>2 DEF Fetched, Apply
  <2>3. CASE DebounceFires
    BY <2>3 DEF DebounceFires
  <2>4. CASE \E s \in replies : ReplyArrives(s)
    BY <2>4 DEF ReplyArrives, Apply
  <2> QED
    BY <1>2, <2>1, <2>2, <2>3, <2>4 DEF RefreshStep
<1>3. PollFires => Budget /\ Shown /\ Loop
  BY DEF PollFires
<1>4. Reply => Budget /\ Shown /\ Loop
  BY <1>1 DEF Reply
<1>5. ASSUME NEW r \in Rooms
      PROVE  (News(r) => Budget /\ Shown /\ Loop) /\ (Moves(r) => Budget /\ Shown /\ Loop)
  BY <1>1 DEF News, Moves, MoveTo
<1>6. TokenArrives \/ TokenFails \/ ReconnectFires \/ Unreadable => Budget /\ Shown /\ Loop
  BY <1>1 DEF TokenArrives, TokenFails, ReconnectFires, Unreadable, Connect, Shows, RoomKeeps
<1>7. Pong \/ PingError \/ TimesOut \/ Heartbeat \/ Stable => Budget /\ Shown /\ Loop
  BY <1>1 DEF Pong, PingError, TimesOut, Heartbeat, Stable, Shows, RoomKeeps
<1>8. EffectRuns \/ GoesOffline \/ Wakes => Budget /\ Shown /\ Loop
  BY <1>1 DEF EffectRuns, GoesOffline, Wakes, Connect, Shows, RoomKeeps
<1>9. ASSUME NEW s \in Socks
      PROVE  SocketOpens(s) \/ SocketClosed(s) \/ PeerLost(s) => Budget /\ Shown /\ Loop
  BY <1>1 DEF SocketOpens, SocketClosed, PeerLost, Shows, RoomKeeps
<1>10. ASSUME NEW k \in Keys
       PROVE  HandoffTimer(k) => Budget /\ Shown /\ Loop
  BY DEF HandoffTimer, RoomKeeps
<1>11. ASSUME NEW v \in 0 .. MaxVersion
       PROVE  Invalidation(v) => Budget /\ Shown /\ Loop
  BY DEF Invalidation, RoomKeeps
<1>12. UNCHANGED sessionVars => Budget /\ Shown /\ Loop
  BY DEF sessionVars, refreshVars
<1>13. Budget /\ Shown /\ Loop
  <2> HIDE DEF Budget, Shown, Loop
  <2>1. Handler => Budget /\ Shown /\ Loop
    BY <1>2, <1>6, <1>7, <1>8, <1>9 DEF Handler, RefreshOnly
  <2>2. Timer => Budget /\ Shown /\ Loop
    BY <1>3, <1>6, <1>7, <1>10 DEF Timer, RefreshOnly
  <2>3. Surroundings => Budget /\ Shown /\ Loop
    BY <1>4, <1>5, <1>6, <1>7, <1>8, <1>9, <1>11 DEF Surroundings, RefreshOnly
  <2> QED
    BY <1>12, <2>1, <2>2, <2>3 DEF Next
<1>14. left' \in [Events -> Nat]
  BY <1>13, SpendKeeps DEF RestOK
<1> QED
  BY <1>13, <1>14 DEF RestOK

LEMMA UnreadableRests == Unreadable => UNCHANGED socketVars
BY DEF Unreadable

LEMMA LinksKept ==
  ASSUME LinkParts, ShownInv, [Next]_sessionVars
  PROVE  LinkParts'
<1>1. UNCHANGED socketVars => LinkParts'
  BY LinkUntouched
<1>2. \A s \in Socks : SocketOpens(s) \/ SocketClosed(s) \/ PeerLost(s) => LinkParts'
  BY SocketOpensLinks, SocketClosedLinks, PeerLostLinks
<1>3. Handler => LinkParts'
  BY <1>1, <1>2, TokenArrivesLinks, PongLinks, EndsLinks, EffectRunsLinks DEF Handler, RefreshOnly
<1>4. Timer => LinkParts'
  BY <1>1, ReconnectFiresLinks, PingLinks, HandoffLinks DEF Timer, RefreshOnly
<1>5. \A v \in 0 .. MaxVersion : Invalidation(v) => UNCHANGED socketVars
  BY DEF Invalidation
<1>6. Surroundings => LinkParts'
  BY <1>1, <1>2, <1>5, UnreadableRests, MovesLinks, TokenFailsLinks, EndsLinks, GoesOfflineLinks, WakesLinks
  DEF Surroundings, RefreshOnly
<1>7. UNCHANGED sessionVars => UNCHANGED socketVars
  BY DEF sessionVars
<1> QED
  BY <1>1, <1>3, <1>4, <1>6, <1>7 DEF Next

(* The link is well formed: what is set is of the running effect, no socket*)
(* is left open by accident (useRoomSession.ts:76), and while online the   *)
(* page of a match has a link, makes one, or will try.                     *)
THEOREM LinkIsKept == Spec => []LinkInv
<1> DEFINE I == ShownInv /\ RestOK /\ LinkParts
<1>1. Init => I
  <2>1. Init => RestOK
    BY SessionAssumption DEF Init, RefreshInit, RestOK
  <2> QED
    BY <2>1, ShownInitially, LinkInitially
<1>2. I /\ [Next]_sessionVars => I'
  BY EveryStep, RestKeeps, LinksKept
<1>3. I => LinkInv
  <2> SUFFICES ASSUME I PROVE LinkInv
    OBVIOUS
  <2>1. Links
    BY LinkPartsTell
  <2>2. RefreshTypeOK
    BY DEF ShownInv, PageInv, ServerRows, PageRows, AnnouncedIsThere, RestOK, RefreshTypeOK
  <2> QED
    BY <2>1, <2>2 DEF Links, LinkInv, TypeOK
<1> QED
  BY <1>1, <1>2, <1>3, PTL DEF Spec

==============================================================================
