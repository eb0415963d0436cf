---------------------------- MODULE MCRoomSession ----------------------------
(* Instances of RoomSession for TLC.                                       *)
EXTENDS RoomSession

Budget(faults, moves, news, rs, closes, offline) ==
  [faults |-> faults, moves |-> moves, news |-> news, replies |-> rs, closes |-> closes, offline |-> offline]
Bounds == {Budget(1, 0, 2, 1, 0, 0), Budget(0, 1, 1, 1, 0, 0), Budget(2, 0, 0, 0, 1, 0),
           Budget(1, 0, 0, 0, 0, 1), Budget(0, 2, 0, 0, 0, 0), Budget(0, 0, 0, 0, 1, 1)}
=============================================================================
