--------------------------- MODULE MCTokenRefresh ---------------------------
(* Instances of TokenRefresh for TLC.                                       *)
EXTENDS TokenRefresh, TLC

CONSTANTS c1, c2, c3, c4, w1, w2

MCWorkers == {w1, w2}

\* Two requests of one worker and the tick of another.
MCCalls == {c1, c2, c3}
MCWorkerOf == (c1 :> w1) @@ (c2 :> w1) @@ (c3 :> w2)
MCTick == {c3}
MCNone == {}
MCDirect == {c1}
MCForced == {c1}

\* Two requests of one worker, one of them on the 401 path, and a bare refresh of
\* the 401 path in another worker.
MCTrio == {c1, c2, c4}
MCTrioWorkerOf == (c1 :> w1) @@ (c2 :> w1) @@ (c4 :> w2)
MCTrioDirect == {c1, c4}
MCBare == {c4}

\* A bare refresh in the worker of a request.
MCTwins == {c1, c4}
MCTwinsWorkerOf == (c1 :> w1) @@ (c4 :> w1)

\* One request and one tick, in two workers.
MCPair == {c1, c3}
MCPairWorkerOf == (c1 :> w1) @@ (c3 :> w2)
=============================================================================
