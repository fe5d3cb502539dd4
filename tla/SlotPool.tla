------------------------------ MODULE SlotPool ------------------------------
(***************************************************************************)
(* What the gateway expects of its upstream concurrency gate               *)
(* (open-sse/utils/upstreamSemaphore.js and the holder of chatCore.js): a  *)
(* pool of Limit slots that serves the attempts first come, first served.  *)
(* An attempt takes at most one slot, and returns it at most once.         *)
(***************************************************************************)
EXTENDS Naturals, Sequences

CONSTANTS Requests, Limit

VARIABLES
  free,       \* the slots that nobody owns
  holders,    \* the attempts that own a slot
  queue,      \* the attempts that wait for one, in the order of arrival
  returned    \* the attempts that have given theirs back

poolVars == <<free, holders, queue, returned>>

Init == free = Limit /\ holders = {} /\ queue = <<>> /\ returned = {}

Fresh(r) == r \notin holders \cup returned /\ \A i \in 1..Len(queue) : queue[i] # r

\* A slot is free, which it is not while anybody waits.
Grant(r) ==
  /\ Fresh(r) /\ queue = <<>> /\ free > 0
  /\ free' = free - 1
  /\ holders' = holders \cup {r}
  /\ UNCHANGED <<queue, returned>>

Wait(r) ==
  /\ Fresh(r) /\ free = 0
  /\ queue' = Append(queue, r)
  /\ UNCHANGED <<free, holders, returned>>

\* An attempt waits no longer; those behind it keep their order.
GiveUp(r) ==
  /\ \E i \in 1..Len(queue) :
       /\ queue[i] = r
       /\ queue' = [j \in 1..(Len(queue) - 1) |-> IF j < i THEN queue[j] ELSE queue[j + 1]]
  /\ UNCHANGED <<free, holders, returned>>

\* The slot passes to the attempt that has waited longest, if any.
Return(r) ==
  /\ r \in holders
  /\ returned' = returned \cup {r}
  /\ \/ /\ queue = <<>>
        /\ free' = free + 1 /\ holders' = holders \ {r}
        /\ UNCHANGED queue
     \/ /\ queue # <<>>
        /\ holders' = (holders \ {r}) \cup {Head(queue)}
        /\ queue' = Tail(queue)
        /\ UNCHANGED free

Next == \E r \in Requests : Grant(r) \/ Wait(r) \/ GiveUp(r) \/ Return(r)

Spec == Init /\ [][Next]_poolVars
=============================================================================
