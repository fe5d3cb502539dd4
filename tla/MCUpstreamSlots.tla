-------------------------- MODULE MCUpstreamSlots --------------------------
(* Instance of UpstreamSlots for TLC: three attempts, of which two can be   *)
(* aborted from outside.                                                    *)
EXTENDS UpstreamSlots

CONSTANTS r1, r2, r3

MCRequests == {r1, r2, r3}
MCAbortable == {r1, r2}
=============================================================================
