------------------------------ MODULE MCRealtime ------------------------------
(* Instances of Realtime for TLC.                                          *)
EXTENDS Realtime

Budget(upgrades, commands, closes, faults, appends, stops, ends) ==
  [upgrades |-> upgrades, commands |-> commands, closes |-> closes, faults |-> faults,
   appends |-> appends, stops |-> stops, ends |-> ends]
Bounds ==
  {Budget(1, 1, 0, 0, 1, 0, 0), Budget(1, 0, 0, 1, 1, 0, 0),
   Budget(2, 0, 1, 0, 0, 0, 0), Budget(1, 0, 1, 1, 0, 0, 1),
   Budget(1, 1, 1, 0, 0, 1, 0), Budget(1, 0, 1, 0, 0, 0, 2)}

TwoPings == {Budget(1, 2, 0, 0, 1, 0, 0)}
=============================================================================
