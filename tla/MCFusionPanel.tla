---------------------------- MODULE MCFusionPanel ---------------------------
(* Instances of FusionPanel for TLC.                                        *)
EXTENDS FusionPanel
=============================================================================
