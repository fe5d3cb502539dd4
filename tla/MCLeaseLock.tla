---------------------------- MODULE MCLeaseLock ----------------------------
(* Instances of LeaseLock for TLC.                                          *)
EXTENDS LeaseLock, TLC

CONSTANTS t1, t2, t3, w1, w2

MCTasks == {t1, t2, t3}
MCWorkers == {w1, w2}
\* Two tasks share a process, so that both stores see contention.
MCWorkerOf == (t1 :> w1) @@ (t2 :> w1) @@ (t3 :> w2)

\* Three tasks of one process, for the fallback alone.
MCOneWorker == {w1}
MCAlone == [t \in MCTasks |-> w1]

\* The two tasks of one process are interchangeable.
MCSymmetry == Permutations({t1, t2})
=============================================================================
