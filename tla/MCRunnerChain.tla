---------------------------- MODULE MCRunnerChain ----------------------------
(* Instances of RunnerChain for TLC.                                       *)
EXTENDS RunnerChain

Budget(sweeps, losses) == [sweeps |-> sweeps, losses |-> losses]
Bounds == {Budget(1, 0), Budget(0, 1)}
=============================================================================
