----------------------------- MODULE LeaseLock -----------------------------
(***************************************************************************)
(* acquireLock and releaseLock of src/lib/cache/client.js for one key: a   *)
(* Valkey key set with NX EX and deleted by compare-and-delete, and the    *)
(* per-process map `_memLocks` each call falls open to while Valkey is out *)
(* of reach.  A task is one critical section: acquire, work, release; its  *)
(* name stands for the random token of its acquire.                        *)
(*                                                                         *)
(* Valkey answers late, the connection drops before or after the server    *)
(* ran the command, ioredis sends the command again after a reconnect, and *)
(* processes crash.                                                        *)
(***************************************************************************)
EXTENDS Naturals, Sequences, FiniteSets

CONSTANTS
  Tasks,       \* critical sections, at most one run each
  Workers,     \* gateway processes
  WorkerOf,    \* the process a task runs in
  NoTask,      \* the key is not set
  MaxResends   \* how often ioredis sends a SET again (maxRetriesPerRequest is 3)

ASSUME TasksAssumption == NoTask \notin Tasks
ASSUME WorkersAssumption == WorkerOf \in [Tasks -> Workers]
ASSUME ResendsAssumption == MaxResends \in Nat

VARIABLES
  shared,     \* the Valkey key
  local,      \* _memLocks of each process
  timers,     \* setTimeout callbacks of each process that delete its entry, oldest first
  reachable,  \* state.isAvailable of each process
  stage,      \* where each task is
  lease,      \* which store gave the task its token
  resends,    \* how often the task's SET was sent again
  overran,    \* history: the tasks whose Valkey key reached its TTL
  outlived    \* history: the tasks whose local entry went with their own timer

vars == <<shared, local, timers, reachable, stage, lease, resends, overran, outlived>>
histVars == <<overran, outlived>>

Stages == {"idle", "asking", "granted", "refused", "holding", "unlocking", "done", "dead"}

Init ==
  /\ shared = NoTask
  /\ local = [w \in Workers |-> NoTask]
  /\ timers = [w \in Workers |-> <<>>]
  /\ reachable = [w \in Workers |-> TRUE]
  /\ stage = [t \in Tasks |-> "idle"]
  /\ lease = [t \in Tasks |-> "none"]
  /\ resends = [t \in Tasks |-> 0]
  /\ overran = {} /\ outlived = {}

Goto(t, s) == stage' = [stage EXCEPT ![t] = s]

----------------------------------------------------------------------------
(* acquireLock.                                                            *)

\* The command is sent when getValkey() returns a client.
Ask(t) ==
  /\ stage[t] = "idle" /\ reachable[WorkerOf[t]]
  /\ Goto(t, "asking")
  /\ UNCHANGED <<shared, local, timers, reachable, lease, resends, histVars>>

\* Variant for the mutation runs: SET without NX.
ServerSetsAlways(t) ==
  /\ stage[t] = "asking"
  /\ shared' = t /\ Goto(t, "granted")
  /\ UNCHANGED <<local, timers, reachable, lease, resends, histVars>>

\* The server runs SET NX EX.
ServerSets(t) ==
  /\ stage[t] = "asking"
  /\ \/ shared = NoTask /\ shared' = t /\ Goto(t, "granted")
     \/ shared # NoTask /\ UNCHANGED shared /\ Goto(t, "refused")
  /\ UNCHANGED <<local, timers, reachable, lease, resends, histVars>>

\* "OK" arrives: the token is the caller's.
AnswerOk(t) ==
  /\ stage[t] = "granted"
  /\ Goto(t, "holding")
  /\ lease' = [lease EXCEPT ![t] = "shared"]
  /\ UNCHANGED <<shared, local, timers, reachable, resends, histVars>>

\* null arrives: acquireLock returns null.
AnswerNull(t) ==
  /\ stage[t] = "refused"
  /\ Goto(t, "done")
  /\ UNCHANGED <<shared, local, timers, reachable, lease, resends, histVars>>

\* Variant for the mutation runs: no limit to the repeats.
ResendForever(t) ==
  /\ stage[t] \in {"asking", "granted", "refused"}
  /\ resends' = [resends EXCEPT ![t] = @ + 1]
  /\ Goto(t, "asking")
  /\ UNCHANGED <<shared, local, timers, reachable, lease, histVars>>

\* The connection drops before the answer; ioredis repeats the command, whose
\* first run may already have set the key.
Resend(t) ==
  /\ stage[t] \in {"asking", "granted", "refused"}
  /\ resends[t] < MaxResends
  /\ resends' = [resends EXCEPT ![t] = @ + 1]
  /\ Goto(t, "asking")
  /\ UNCHANGED <<shared, local, timers, reachable, lease, histVars>>

\* The process-local fallback: an entry and a timer that deletes it.
MemoryLock(t) ==
  LET w == WorkerOf[t] IN
  \/ /\ local[w] = NoTask
     /\ local' = [local EXCEPT ![w] = t]
     /\ timers' = [timers EXCEPT ![w] = Append(@, t)]
     /\ lease' = [lease EXCEPT ![t] = "local"]
     /\ Goto(t, "holding")
  \/ /\ local[w] # NoTask
     /\ Goto(t, "done")
     /\ UNCHANGED <<local, timers, lease>>

\* Valkey is unavailable, or the SET threw, whether or not the server ran it.
FallOpen(t) ==
  /\ \/ stage[t] = "idle" /\ ~reachable[WorkerOf[t]]
     \/ stage[t] \in {"asking", "granted", "refused"} /\ resends[t] = MaxResends
  /\ MemoryLock(t)
  /\ UNCHANGED <<shared, reachable, resends, histVars>>

----------------------------------------------------------------------------
(* releaseLock: compare-and-delete in Valkey, then in the process.         *)

\* Variant for the mutation runs: delete without comparing the token.
ReleaseSharedAny(t) ==
  /\ stage[t] = "holding" /\ reachable[WorkerOf[t]]
  /\ shared' = NoTask
  /\ Goto(t, "unlocking")
  /\ UNCHANGED <<local, timers, reachable, lease, resends, histVars>>

ReleaseShared(t) ==
  /\ stage[t] = "holding" /\ reachable[WorkerOf[t]]
  /\ shared' = IF shared = t THEN NoTask ELSE shared
  /\ Goto(t, "unlocking")
  /\ UNCHANGED <<local, timers, reachable, lease, resends, histVars>>

\* No client, or eval threw: the Valkey key is left to its TTL.
ReleaseSharedFails(t) ==
  /\ stage[t] = "holding"
  /\ Goto(t, "unlocking")
  /\ UNCHANGED <<shared, local, timers, reachable, lease, resends, histVars>>

\* Variant for the mutation runs: the local entry goes whoever set it.
ReleaseLocalAny(t) ==
  /\ stage[t] = "unlocking"
  /\ local' = [local EXCEPT ![WorkerOf[t]] = NoTask]
  /\ Goto(t, "done")
  /\ UNCHANGED <<shared, timers, reachable, lease, resends, histVars>>

\* The timer of a released entry is not cleared.
ReleaseLocal(t) ==
  /\ stage[t] = "unlocking"
  /\ local' = [local EXCEPT ![WorkerOf[t]] = IF @ = t THEN NoTask ELSE @]
  /\ Goto(t, "done")
  /\ UNCHANGED <<shared, timers, reachable, lease, resends, histVars>>

----------------------------------------------------------------------------
(* TTLs, connectivity, crashes.                                            *)

\* EX: the server drops the key.
SharedExpires ==
  /\ shared # NoTask
  /\ shared' = NoTask
  /\ overran' = overran \cup {shared}
  /\ UNCHANGED <<local, timers, reachable, stage, lease, resends, outlived>>

\* The oldest timer deletes the process's entry, whoever set it since.
TimerFires(w) ==
  /\ timers[w] # <<>>
  /\ timers' = [timers EXCEPT ![w] = Tail(@)]
  /\ local' = [local EXCEPT ![w] = NoTask]
  /\ outlived' = outlived \cup ({local[w]} \cap {Head(timers[w])})
  /\ UNCHANGED <<shared, reachable, stage, lease, resends, overran>>

\* "close" / "error" and "connect" events of the client.
ConnectionFlips(w) ==
  /\ reachable' = [reachable EXCEPT ![w] = ~@]
  /\ UNCHANGED <<shared, local, timers, stage, lease, resends, histVars>>

\* The process dies with its tasks, its map and its timers.
Crash(w) ==
  /\ \E t \in Tasks : WorkerOf[t] = w /\ stage[t] \notin {"idle", "done", "dead"}
  /\ stage' = [t \in Tasks |->
       IF WorkerOf[t] = w /\ stage[t] \notin {"idle", "done"} THEN "dead" ELSE stage[t]]
  /\ local' = [local EXCEPT ![w] = NoTask]
  /\ timers' = [timers EXCEPT ![w] = <<>>]
  /\ UNCHANGED <<shared, reachable, lease, resends, histVars>>

----------------------------------------------------------------------------
Step(t) ==
  \/ Ask(t) \/ ServerSets(t) \/ AnswerOk(t) \/ AnswerNull(t) \/ Resend(t) \/ FallOpen(t)
  \/ ReleaseShared(t) \/ ReleaseSharedFails(t) \/ ReleaseLocal(t)

Next ==
  \/ \E t \in Tasks : Step(t)
  \/ SharedExpires
  \/ \E w \in Workers : TimerFires(w) \/ ConnectionFlips(w) \/ Crash(w)

Spec == Init /\ [][Next]_vars

----------------------------------------------------------------------------
(* Properties.                                                             *)

TypeOK ==
  /\ shared \in Tasks \cup {NoTask}
  /\ local \in [Workers -> Tasks \cup {NoTask}]
  /\ timers \in [Workers -> Seq(Tasks)]
  /\ reachable \in [Workers -> BOOLEAN]
  /\ stage \in [Tasks -> Stages]
  /\ lease \in [Tasks -> {"none", "shared", "local"}]
  /\ resends \in [Tasks -> 0..MaxResends]
  /\ overran \subseteq Tasks /\ outlived \subseteq Tasks

Holding(t) == stage[t] = "holding"

\* The tasks that act on a token of the server, for the abstract lease.
Inside == {t \in Tasks : Holding(t) /\ lease[t] = "shared"}

AbstractLease == INSTANCE Lease WITH
  Clients <- Tasks, NoClient <- NoTask, owner <- shared, inside <- Inside, late <- overran

\* The mutex of Valkey: of two tasks of the cluster in the section at once,
\* both with tokens of the server, one has outlived its TTL, through lost
\* answers, repeated commands, failed releases and crashes.
SharedExclusion == AbstractLease!Exclusion

\* A release takes the lease from nobody else: a Valkey key that still is
\* another task's, and another task's local entry, survive it.
ReleasesOnlyOwn ==
  [][\A t, u \in Tasks :
       t # u /\ stage[t] \in {"holding", "unlocking"} /\ stage'[t] # stage[t]
         /\ stage'[t] # "dead"
       => /\ shared = u => shared' = u
          /\ local[WorkerOf[t]] = u => local'[WorkerOf[t]] = u]_vars

\* client.js:672: "Fails open to process-local mutex if Valkey is unavailable":
\* of two tasks of one process in the section by local entries, one outlived
\* its TTL.
LocalExclusion ==
  \A t, u \in Tasks :
    /\ Holding(t) /\ Holding(u) /\ WorkerOf[t] = WorkerOf[u]
    /\ lease[t] = "local" /\ lease[u] = "local"
    => t = u \/ t \in outlived \/ u \in outlived

\* The Valkey half implements the lease the gateway expects.
ImplementsLease == AbstractLease!Spec
=============================================================================
