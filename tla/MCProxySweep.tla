---------------------------- MODULE MCProxySweep ----------------------------
(* Instances of ProxySweep for TLC.                                         *)
EXTENDS ProxySweep

CONSTANTS p1, p2

MCPasses == {1, 2}
MCProcs == {p1, p2}
=============================================================================
