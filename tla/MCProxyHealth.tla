---------------------------- MODULE MCProxyHealth ---------------------------
(* Instances of ProxyHealth for TLC.                                        *)
EXTENDS ProxyHealth

CONSTANTS w1, w2

MCWorkers == {w1, w2}
=============================================================================
