--------------------------- MODULE UpstreamSlots ---------------------------
(***************************************************************************)
(* The upstream concurrency gate of the gateway: the process-wide FIFO     *)
(* semaphore (open-sse/utils/upstreamSemaphore.js), the per-request slot   *)
(* holder, the stream controller whose callbacks give the slot back        *)
(* (open-sse/utils/streamHandler.js), and the order in which               *)
(* open-sse/handlers/chatCore.js drives the three for one attempt.         *)
(*                                                                         *)
(* A step is one run of the JavaScript event loop up to the next await.    *)
(* Upstream answers, client disconnects, queue timers and the 500 ms abort *)
(* timer fire in any order.                                                *)
(***************************************************************************)
EXTENDS Integers, Sequences, FiniteSets, SequencesExt

CONSTANTS
  Requests,       \* upstream attempts (one handleChatCore call each)
  Abortable,      \* the attempts whose caller passed an externalSignal
  Limit           \* `limit` of the semaphore module

ASSUME RequestsAssumption == IsFiniteSet(Requests) /\ Abortable \subseteq Requests
ASSUME LimitAssumption == Limit \in Nat \ {0}

VARIABLES
  active,         \* slots handed out and not returned
  waiters,        \* FIFO queue of attempts whose acquire promise is pending
  granted,        \* attempts whose acquire promise resolved, `slot = await` not run yet
  slot, released, aborted,               \* the three flags of each slot holder
  disconnected, abortTimer, signalled,   \* the stream controller of each attempt
  stage           \* where each attempt is in handleChatCore

semVars == <<active, waiters, granted>>
holderVars == <<slot, released, aborted>>
controllerVars == <<disconnected, abortTimer, signalled>>
vars == <<active, waiters, granted, slot, released, aborted,
          disconnected, abortTimer, signalled, stage>>

Stages == {"created", "acquiring", "dispatched", "body", "piping", "reading",
           "thrown", "unwatched", "done"}

Flags(b) == [r \in Requests |-> b]

Init ==
  /\ active = 0
  /\ waiters = <<>>
  /\ granted = {}
  /\ slot = Flags(FALSE) /\ released = Flags(FALSE) /\ aborted = Flags(FALSE)
  /\ disconnected = Flags(FALSE) /\ abortTimer = Flags(FALSE) /\ signalled = Flags(FALSE)
  /\ stage = [r \in Requests |-> "created"]

Goto(r, s) == stage' = [stage EXCEPT ![r] = s]

----------------------------------------------------------------------------
(* The semaphore module.                                                   *)

\* Variants of the code for the mutation runs: a hand-off that counts a new
\* slot, one that forgets the queue, one that serves the newest waiter.
SemReleaseInflates ==
  \/ /\ waiters # <<>>
     /\ granted' = granted \cup {Head(waiters)}
     /\ waiters' = Tail(waiters)
     /\ active' = active + 1
  \/ /\ waiters = <<>>
     /\ active' = IF active > 0 THEN active - 1 ELSE 0
     /\ UNCHANGED <<waiters, granted>>

SemReleaseForgetsWaiters ==
  /\ active' = IF active > 0 THEN active - 1 ELSE 0
  /\ UNCHANGED <<waiters, granted>>

SemReleaseNewestFirst ==
  \/ /\ waiters # <<>>
     /\ granted' = granted \cup {Last(waiters)}
     /\ waiters' = Front(waiters)
     /\ UNCHANGED active
  \/ /\ waiters = <<>>
     /\ active' = IF active > 0 THEN active - 1 ELSE 0
     /\ UNCHANGED <<waiters, granted>>

\* release(): the slot passes to the oldest waiter, else the count drops.
SemRelease ==
  \/ /\ waiters # <<>>
     /\ granted' = granted \cup {Head(waiters)}
     /\ waiters' = Tail(waiters)
     /\ UNCHANGED active
  \/ /\ waiters = <<>>
     /\ active' = IF active > 0 THEN active - 1 ELSE 0
     /\ UNCHANGED <<waiters, granted>>

\* Variant for the mutation runs: one slot too many.
SemAcquireOffByOne(r) ==
  \/ /\ active <= Limit
     /\ active' = active + 1
     /\ granted' = granted \cup {r}
     /\ UNCHANGED waiters
  \/ /\ active > Limit
     /\ waiters' = Append(waiters, r)
     /\ UNCHANGED <<active, granted>>

\* acquireUpstreamSlot(): an immediate grant below the limit, else the queue.
SemAcquire(r) ==
  \/ /\ active < Limit
     /\ active' = active + 1
     /\ granted' = granted \cup {r}
     /\ UNCHANGED waiters
  \/ /\ active >= Limit
     /\ waiters' = Append(waiters, r)
     /\ UNCHANGED <<active, granted>>

Without(q, i) == [j \in 1..(Len(q) - 1) |-> IF j < i THEN q[j] ELSE q[j + 1]]

\* The holder's release(): once only, and before the slot is there it only
\* marks the attempt as dead.
HolderRelease(r) ==
  \/ /\ released[r]
     /\ UNCHANGED <<semVars, holderVars>>
  \/ /\ ~released[r] /\ ~slot[r]
     /\ aborted' = [aborted EXCEPT ![r] = TRUE]
     /\ UNCHANGED <<semVars, slot, released>>
  \/ /\ ~released[r] /\ slot[r]
     /\ released' = [released EXCEPT ![r] = TRUE]
     /\ SemRelease
     /\ UNCHANGED <<slot, aborted>>

----------------------------------------------------------------------------
(* The stream controller: every ending is latched by `disconnected`.       *)

HandleDisconnect(r) ==
  \/ disconnected[r] /\ UNCHANGED <<semVars, holderVars, controllerVars>>
  \/ /\ ~disconnected[r]
     /\ disconnected' = [disconnected EXCEPT ![r] = TRUE]
     /\ abortTimer' = [abortTimer EXCEPT ![r] = TRUE]
     /\ HolderRelease(r)
     /\ UNCHANGED signalled

\* Variant for the mutation runs: the error latch without the onError callback.
HandleErrorSilent(r) ==
  \/ disconnected[r] /\ UNCHANGED <<semVars, holderVars, disconnected, abortTimer>>
  \/ /\ ~disconnected[r]
     /\ disconnected' = [disconnected EXCEPT ![r] = TRUE]
     /\ abortTimer' = [abortTimer EXCEPT ![r] = FALSE]
     /\ UNCHANGED <<semVars, holderVars>>

\* handleError; only the call that wins the latch runs onError.  An AbortError
\* skips onError, but comes only from the controller's own abort, after the latch.
HandleError(r) ==
  \/ disconnected[r] /\ UNCHANGED <<semVars, holderVars, disconnected, abortTimer>>
  \/ /\ ~disconnected[r]
     /\ disconnected' = [disconnected EXCEPT ![r] = TRUE]
     /\ abortTimer' = [abortTimer EXCEPT ![r] = FALSE]
     /\ HolderRelease(r)

HandleComplete(r) ==
  \/ disconnected[r] /\ UNCHANGED controllerVars
  \/ /\ ~disconnected[r]
     /\ disconnected' = [disconnected EXCEPT ![r] = TRUE]
     /\ abortTimer' = [abortTimer EXCEPT ![r] = FALSE]
     /\ UNCHANGED signalled

----------------------------------------------------------------------------
(* The attempt: handleChatCore, from the creation of the holder on.        *)

\* The acquire site. An attempt already marked dead skips the semaphore and
\* goes on without a slot.
Acquire(r) ==
  /\ stage[r] = "created"
  /\ \/ /\ aborted[r]
        /\ Goto(r, "dispatched")
        /\ UNCHANGED semVars
     \/ /\ ~aborted[r]
        /\ Goto(r, "acquiring")
        /\ SemAcquire(r)
  /\ UNCHANGED <<holderVars, controllerVars>>

\* `slot = await ...` continues and the upstream request is sent.
SlotAssigned(r) ==
  /\ r \in granted
  /\ granted' = granted \ {r}
  /\ slot' = [slot EXCEPT ![r] = TRUE]
  /\ Goto(r, "dispatched")
  /\ UNCHANGED <<active, waiters, released, aborted, controllerVars>>

\* The queue timer: the waiter leaves the queue and the attempt answers 503.
QueueTimeout(r) ==
  /\ \E i \in 1..Len(waiters) :
       waiters[i] = r /\ waiters' = Without(waiters, i)
  /\ Goto(r, "done")
  /\ UNCHANGED <<active, granted, holderVars, controllerVars>>

\* The client left, or the combo loop gave this attempt up.
ExternalAbort(r) ==
  /\ r \in Abortable
  /\ ~disconnected[r]
  /\ HandleDisconnect(r)
  /\ UNCHANGED stage

\* The 500 ms delay between the disconnect and the abort of the fetch.
AbortTimerFires(r) ==
  /\ abortTimer[r]
  /\ abortTimer' = [abortTimer EXCEPT ![r] = FALSE]
  /\ signalled' = [signalled EXCEPT ![r] = TRUE]
  /\ UNCHANGED <<semVars, holderVars, disconnected, stage>>

\* The upstream request threw, was aborted, or answered with an error status.
ExecuteFails(r) ==
  /\ stage[r] = "dispatched"
  /\ HolderRelease(r)
  /\ Goto(r, "done")
  /\ UNCHANGED controllerVars

\* Upstream headers arrived for a client that wants JSON: the handler calls
\* trackDone before it reads the body.
ExecuteJson(r) ==
  /\ stage[r] = "dispatched"
  /\ ~signalled[r]
  /\ HolderRelease(r)
  /\ Goto(r, "body")
  /\ UNCHANGED controllerVars

JsonReturned(r) ==
  /\ stage[r] = "body"
  /\ HandleComplete(r)
  /\ Goto(r, "done")
  /\ UNCHANGED <<semVars, holderVars>>

JsonThrows(r) ==
  /\ stage[r] = "body"
  /\ HolderRelease(r)
  /\ Goto(r, "done")
  /\ UNCHANGED controllerVars

\* A forced-streaming provider answered something that is not SSE: the
\* controller's onError releases, and the line after it releases again.
SseToJsonRejected(r) ==
  /\ stage[r] = "dispatched"
  /\ ~signalled[r]
  /\ HolderRelease(r)
  /\ disconnected' = [disconnected EXCEPT ![r] = TRUE]
  /\ abortTimer' = [abortTimer EXCEPT ![r] = disconnected[r] /\ @]
  /\ Goto(r, "done")
  /\ UNCHANGED signalled

\* Upstream headers arrived for a streaming client.
ExecuteStream(r) ==
  /\ stage[r] = "dispatched"
  /\ ~signalled[r]
  /\ Goto(r, "piping")
  /\ UNCHANGED <<semVars, holderVars, controllerVars>>

----------------------------------------------------------------------------
(* The response stream of a streaming attempt.                             *)

\* pull() on a live controller starts a read of the transformed stream.
Pull(r) ==
  /\ stage[r] = "piping"
  /\ ~disconnected[r]
  /\ Goto(r, "reading")
  /\ UNCHANGED <<semVars, holderVars, controllerVars>>

\* pull() on a disconnected controller closes the stream without reading.
PullClosed(r) ==
  /\ stage[r] = "piping"
  /\ disconnected[r]
  /\ Goto(r, "done")
  /\ UNCHANGED <<semVars, holderVars, controllerVars>>

\* Variant for the mutation runs: an ending that skips the controller.
RejectStreamSilent(r) ==
  /\ stage[r] = "piping"
  /\ Goto(r, "done")
  /\ UNCHANGED <<semVars, holderVars, controllerVars>>

\* The answer is refused before it is committed: not SSE, stillborn, empty.
RejectStream(r) ==
  /\ stage[r] = "piping"
  /\ HandleError(r)
  /\ Goto(r, "done")
  /\ UNCHANGED signalled

\* handleStreamingResponse threw: its promise was returned without an await, so
\* the catch around it, which releases the slot, never runs.  "thrown": the
\* stall watchdog was armed already.  "unwatched": it was not, or the upstream's
\* end has cleared it while nobody reads the rest.
StreamThrows(r) ==
  /\ stage[r] = "piping"
  /\ \/ Goto(r, "thrown")
     \/ Goto(r, "unwatched")
  /\ UNCHANGED <<semVars, holderVars, controllerVars>>

\* A chunk: the terminal event already finalizes the stream (onStreamComplete).
ReadChunk(r) ==
  /\ stage[r] = "reading"
  /\ \/ HolderRelease(r)
     \/ UNCHANGED <<semVars, holderVars>>
  /\ Goto(r, "piping")
  /\ UNCHANGED controllerVars

\* The end of the stream: flush() finalizes, pull() completes the controller.
ReadDone(r) ==
  /\ stage[r] = "reading"
  /\ HolderRelease(r)
  /\ HandleComplete(r)
  /\ Goto(r, "done")

\* The read rejected: a transport error, or the abort of the fetch.
ReadError(r) ==
  /\ stage[r] = "reading"
  /\ HandleError(r)
  /\ Goto(r, "done")
  /\ UNCHANGED signalled

\* No upstream byte for the stall window: error the controller, abort the fetch.
Stall(r) ==
  /\ stage[r] \in {"piping", "reading", "thrown"}
  /\ ~signalled[r]
  /\ HandleError(r)
  /\ signalled' = [signalled EXCEPT ![r] = TRUE]
  /\ UNCHANGED stage

\* The consumer of the response stream cancels it.
StreamCancel(r) ==
  /\ stage[r] \in {"piping", "reading"}
  /\ HandleDisconnect(r)
  /\ Goto(r, "done")

----------------------------------------------------------------------------
StreamEnds(r) ==
  PullClosed(r) \/ RejectStream(r) \/ ReadDone(r) \/ ReadError(r) \/ StreamCancel(r)

Respond(r) ==
  \/ ExecuteFails(r) \/ ExecuteJson(r) \/ ExecuteStream(r) \/ SseToJsonRejected(r)
  \/ JsonReturned(r) \/ JsonThrows(r)

Step(r) ==
  \/ Acquire(r) \/ SlotAssigned(r) \/ QueueTimeout(r)
  \/ ExternalAbort(r) \/ AbortTimerFires(r)
  \/ Respond(r)
  \/ Pull(r) \/ ReadChunk(r) \/ Stall(r) \/ StreamThrows(r) \/ StreamEnds(r)

Next == \E r \in Requests : Step(r)

Spec == Init /\ [][Next]_vars

\* The event loop runs what is ready, every upstream call answers or fails
\* (connect timeout), every stream ends (the stall watchdog, or the upstream
\* closing), and an armed watchdog fires.  No fairness is assumed for the queue timer.
Fairness ==
  \A r \in Requests :
    /\ WF_vars(Acquire(r)) /\ WF_vars(SlotAssigned(r)) /\ WF_vars(Respond(r))
    /\ WF_vars(Pull(r)) /\ SF_vars(StreamEnds(r))
    /\ WF_vars(stage[r] = "thrown" /\ Stall(r))

FairSpec == Spec /\ Fairness
----------------------------------------------------------------------------
(* Properties.                                                             *)

TypeOK ==
  /\ active \in 0..Limit
  /\ waiters \in Seq(Requests)
  /\ granted \subseteq Requests
  /\ slot \in [Requests -> BOOLEAN]
  /\ released \in [Requests -> BOOLEAN]
  /\ aborted \in [Requests -> BOOLEAN]
  /\ disconnected \in [Requests -> BOOLEAN]
  /\ abortTimer \in [Requests -> BOOLEAN]
  /\ signalled \in [Requests -> BOOLEAN]
  /\ stage \in [Requests -> Stages]

\* The attempts that own a slot: one was granted to them and not given back.
Owners == granted \cup {r \in Requests : slot[r] /\ ~released[r]}

\* The counter is exactly the number of attempts that own a slot, across
\* hand-offs, queue timeouts, aborts and repeated releases: a hand-off that
\* counted, a timed-out waiter that was still served, or a second release
\* would make them differ.
SlotsAccounted == active = Cardinality(Owners)

\* A slot is never idle while an attempt waits for one.
NoIdleSlot == waiters # <<>> => active = Limit

\* An attempt that has ended, or whose controller has been latched by any of its
\* endings, still owns a slot only if its abort arrived before the slot did.  What
\* is left are the streaming handlers that threw and that nothing has latched.
OnlyNamedLeaks ==
  \A r \in Owners : (stage[r] = "done" \/ disconnected[r]) => aborted[r]

AbstractPool == INSTANCE SlotPool WITH
  free <- Limit - active,
  holders <- Owners,
  queue <- waiters,
  returned <- {r \in Requests : released[r]}

\* The three modules together are a pool of slots, whatever the order of their
\* callbacks: first come, first served, nobody holds two slots or returns one
\* twice, and a slot changes hands only where an attempt gives it back.
ImplementsPool == AbstractPool!Spec

\* A slot whose attempt will run no release() any more.
Stranded ==
  \E r \in Owners :
    \/ stage[r] \in {"done", "unwatched"}
    \/ stage[r] = "thrown" /\ disconnected[r]

\* Every waiting attempt is served though no queue timer ever fires, unless an
\* attempt strands a slot, aborted early or thrown without a watchdog: slots keep circulating through the queue.
EveryWaiterServed ==
  \A r \in Requests : r \in ToSet(waiters) ~> r \notin ToSet(waiters) \/ Stranded

\* The gate drains: in the end the only slots out are those of early aborts and of
\* streaming handlers that threw without a watchdog.
SlotsComeBack == <>[](\A r \in Owners : aborted[r] \/ stage[r] = "unwatched")

\* upstreamSemaphore.js:8-9: "Always released via finally by the holder; a
\* crashed holder path still frees its slot".
AlwaysReleased == \A r \in Requests : stage[r] = "done" => r \notin Owners
=============================================================================
