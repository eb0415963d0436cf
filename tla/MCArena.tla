------------------------------- MODULE MCArena -------------------------------
(* Instances of Arena for TLC: the players and the workers by name.        *)
EXTENDS Arena

CONSTANTS p1, p2, w1, w2
=============================================================================
