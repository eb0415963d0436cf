---------------------------- MODULE MCMatchEngine ----------------------------
(* Instances of MatchEngine for TLC.                                       *)
EXTENDS MatchEngine, TLC

CONSTANTS p1, p2, s1, s2, s3

(* One session per player; with a third one, p1 has two; p1's alone.       *)
OneEach    == (s1 :> p1) @@ (s2 :> p2)
HostHasTwo == (s1 :> p1) @@ (s2 :> p2) @@ (s3 :> p1)
HostAlone  == (s1 :> p1)
=============================================================================
