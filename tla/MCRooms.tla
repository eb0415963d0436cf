------------------------------- MODULE MCRooms -------------------------------
(* Instances of Rooms for TLC.                                             *)
EXTENDS Rooms, TLC

CONSTANTS host, guest, other, h1, h2, g1, o1

SignedIn == (h1 :> host) @@ (h2 :> host) @@ (g1 :> guest) @@ (o1 :> other)
(* All of them over two rounds, or the two players over three.             *)
Bounds   == {(h1 :> 1) @@ (h2 :> 1) @@ (g1 :> 2) @@ (o1 :> 1),
             (h1 :> 2) @@ (h2 :> 0) @@ (g1 :> 3) @@ (o1 :> 0)}
Doings   == (h1 :> {"REMATCH", "CONNECT"}) @@ (h2 :> {"CONNECT", "CANCEL", "TICKET"})
              @@ (g1 :> {"JOIN", "REMATCH"}) @@ (o1 :> {"JOIN"})

Symmetric == Permutations(Keys) \cup Permutations(Problems)
=============================================================================
