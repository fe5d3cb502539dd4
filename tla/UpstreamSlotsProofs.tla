------------------------ MODULE UpstreamSlotsProofs ------------------------
(***************************************************************************)
(* Theorems about UpstreamSlots, for any number of attempts and any limit. *)
(*                                                                         *)
(* The inductive invariant has three parts.  SemInv ties the semaphore to  *)
(* the holders: nobody waits twice, a waiter owns nothing, and the counter *)
(* is the number of owners.  StageInv says which attempts may be queued or *)
(* granted.  EndInv says that an attempt whose controller is latched has   *)
(* run its holder's release().  With it every step is one of the abstract  *)
(* pool of module SlotPool, or changes nothing that the pool can tell.     *)
(***************************************************************************)
EXTENDS UpstreamSlots, FiniteSetTheorems, SequenceTheorems, TLAPS

Waiting == {waiters[i] : i \in 1..Len(waiters)}

SemInv ==
  /\ \A i, j \in 1..Len(waiters) : waiters[i] = waiters[j] => i = j
  /\ Waiting \cap granted = {}
  /\ \A q \in Waiting \cup granted : ~slot[q]
  /\ \A q \in Requests : released[q] => slot[q]
  /\ SlotsAccounted
  /\ NoIdleSlot

StageInv ==
  /\ \A q \in Waiting \cup granted : stage[q] = "acquiring"
  /\ \A q \in Requests : stage[q] \in {"created", "acquiring"} => ~slot[q]

EndInv ==
  /\ \A q \in Requests :
       disconnected[q] \/ stage[q] = "body" => released[q] \/ aborted[q]
  /\ OnlyNamedLeaks

SlotsInv == TypeOK /\ SemInv /\ StageInv /\ EndInv

\* The owners of a slot are finitely many, so that they can be counted.
LEMMA OwnersFinite ==
  ASSUME TypeOK
  PROVE  IsFiniteSet(Owners) /\ Cardinality(Owners) \in Nat /\ Owners \subseteq Requests
<1>1. Owners \subseteq Requests
  BY DEF Owners, TypeOK
<1> QED
  BY <1>1, RequestsAssumption, FS_Subset, FS_CardinalityType

\* Only attempts wait.
LEMMA WaitingType ==
  ASSUME TypeOK
  PROVE  Waiting \subseteq Requests
<1> QED
  BY DEF Waiting, TypeOK

\* Nobody owns a slot or waits when the module is loaded.
LEMMA InitSlotsInv == Init => SlotsInv
<1> SUFFICES ASSUME Init PROVE SlotsInv
  OBVIOUS
<1>1. TypeOK
  BY LimitAssumption, EmptySeq DEF Init, TypeOK, Flags, Stages
<1>2. Waiting = {}
  BY DEF Init, Waiting
<1>3. Owners = {}
  BY DEF Init, Owners, Flags
<1>4. SemInv
  BY <1>2, <1>3, FS_EmptySet DEF Init, SemInv, SlotsAccounted, NoIdleSlot, Flags
<1>5. StageInv /\ EndInv
  BY <1>2, <1>3 DEF Init, StageInv, EndInv, OnlyNamedLeaks, Flags
<1> QED
  BY <1>1, <1>4, <1>5 DEF SlotsInv

----------------------------------------------------------------------------
(* What release() of the semaphore and of the holder do.                   *)

\* Serving the head of the queue: the head leaves, everyone else stays.
LEMMA HeadServed ==
  ASSUME TypeOK, SemInv, waiters # <<>>
  PROVE  /\ Head(waiters) \in Waiting
         /\ Tail(waiters) \in Seq(Requests)
         /\ {Tail(waiters)[i] : i \in 1..Len(Tail(waiters))} = Waiting \ {Head(waiters)}
         /\ \A i, j \in 1..Len(Tail(waiters)) :
              Tail(waiters)[i] = Tail(waiters)[j] => i = j
<1>1. /\ Len(waiters) \in Nat /\ Len(waiters) > 0
      /\ Head(waiters) = waiters[1]
      /\ Tail(waiters) \in Seq(Requests)
      /\ Len(Tail(waiters)) = Len(waiters) - 1
      /\ \A i \in 1..Len(Tail(waiters)) : Tail(waiters)[i] = waiters[i + 1]
  BY HeadTailProperties, LenProperties, EmptySeq DEF TypeOK
<1>2. \A i, j \in 1..Len(waiters) : waiters[i] = waiters[j] => i = j
  BY DEF SemInv
<1>3. {Tail(waiters)[i] : i \in 1..Len(Tail(waiters))} = Waiting \ {Head(waiters)}
  <2>1. ASSUME NEW i \in 1..Len(Tail(waiters))
        PROVE  Tail(waiters)[i] \in Waiting \ {Head(waiters)}
    <3>1. i + 1 \in 1..Len(waiters) /\ 1 \in 1..Len(waiters) /\ i + 1 # 1
      BY <1>1
    <3> QED
      BY <3>1, <1>1, <1>2 DEF Waiting
  <2>2. ASSUME NEW k \in 1..Len(waiters), waiters[k] # Head(waiters)
        PROVE  \E i \in 1..Len(Tail(waiters)) : Tail(waiters)[i] = waiters[k]
    <3>1. k - 1 \in 1..Len(Tail(waiters)) /\ (k - 1) + 1 = k
      BY <1>1, <2>2
    <3> QED
      BY <3>1, <1>1
  <2> QED
    BY <2>1, <2>2 DEF Waiting
<1>4. ASSUME NEW i \in 1..Len(Tail(waiters)), NEW j \in 1..Len(Tail(waiters)),
             Tail(waiters)[i] = Tail(waiters)[j]
      PROVE  i = j
  <2>1. i + 1 \in 1..Len(waiters) /\ j + 1 \in 1..Len(waiters)
    BY <1>1
  <2> QED
    BY <2>1, <1>1, <1>2, <1>4
<1>5. Head(waiters) \in Waiting
  BY <1>1 DEF Waiting
<1> QED
  BY <1>1, <1>3, <1>4, <1>5

\* The holder's release(): flags only rise, nobody joins the queue, the caller ends
\* released or marked dead, and the semaphore part of the invariant is kept.
LEMMA HolderReleaseEffect ==
  ASSUME TypeOK, SemInv, NEW r \in Requests, HolderRelease(r)
  PROVE  /\ active' \in 0..Limit
         /\ waiters' \in Seq(Requests)
         /\ granted' \subseteq Requests
         /\ slot' = slot
         /\ released' \in [Requests -> BOOLEAN]
         /\ aborted' \in [Requests -> BOOLEAN]
         /\ released'[r] \/ aborted'[r]
         /\ \A q \in Requests : released[q] => released'[q]
         /\ \A q \in Requests : aborted[q] => aborted'[q]
         /\ Waiting' \cup granted' \subseteq Waiting \cup granted
         /\ SemInv'
<1>0. /\ IsFiniteSet(Owners) /\ Cardinality(Owners) \in Nat
      /\ Waiting \subseteq Requests /\ active = Cardinality(Owners)
  BY OwnersFinite, WaitingType DEF SemInv, SlotsAccounted
<1>1. CASE released[r] /\ UNCHANGED <<semVars, holderVars>>
  <2>1. Waiting' = Waiting /\ Owners' = Owners
    BY <1>1 DEF Waiting, Owners, semVars, holderVars
  <2> QED
    BY <1>1, <2>1 DEF semVars, holderVars, TypeOK, SemInv, SlotsAccounted, NoIdleSlot
<1>2. CASE /\ ~released[r] /\ ~slot[r]
           /\ aborted' = [aborted EXCEPT ![r] = TRUE]
           /\ UNCHANGED <<semVars, slot, released>>
  <2>1. Waiting' = Waiting /\ Owners' = Owners
    BY <1>2 DEF Waiting, Owners, semVars
  <2> QED
    BY <1>2, <2>1 DEF semVars, TypeOK, SemInv, SlotsAccounted, NoIdleSlot
<1>3. CASE /\ ~released[r] /\ slot[r]
           /\ released' = [released EXCEPT ![r] = TRUE]
           /\ SemRelease
           /\ UNCHANGED <<slot, aborted>>
  <2>1. /\ r \in Owners /\ r \notin granted /\ r \notin Waiting
        /\ released' \in [Requests -> BOOLEAN] /\ released'[r]
        /\ \A q \in Requests : released'[q] <=> released[q] \/ q = r
    BY <1>3 DEF Owners, SemInv, TypeOK
  <2>2. Cardinality(Owners \ {r}) = active - 1 /\ IsFiniteSet(Owners \ {r}) /\ active > 0
    BY <1>0, <2>1, FS_RemoveElement, FS_EmptySet, FS_CardinalityType
  <2>3. CASE waiters # <<>>
    <3> DEFINE h == Head(waiters)
    <3>1. /\ granted' = granted \cup {h} /\ waiters' = Tail(waiters) /\ active' = active
          /\ h \in Waiting /\ h \in Requests
          /\ waiters' \in Seq(Requests) /\ Waiting' = Waiting \ {h}
          /\ \A i, j \in 1..Len(waiters') : waiters'[i] = waiters'[j] => i = j
      <4>1. granted' = granted \cup {h} /\ waiters' = Tail(waiters) /\ active' = active
        BY <1>3, <2>3 DEF SemRelease
      <4>2. Waiting' = {Tail(waiters)[i] : i \in 1..Len(Tail(waiters))}
        BY <4>1 DEF Waiting
      <4>3. /\ h \in Waiting /\ Tail(waiters) \in Seq(Requests)
            /\ Waiting' = Waiting \ {h}
            /\ \A i, j \in 1..Len(Tail(waiters)) :
                 Tail(waiters)[i] = Tail(waiters)[j] => i = j
        BY <2>3, <4>2, HeadServed
      <4> QED
        BY <4>1, <4>3, <1>0
    <3>2. h \notin Owners /\ h \notin granted /\ ~slot[h]
      BY <3>1 DEF Owners, SemInv
    <3>3. Owners' = (Owners \ {r}) \cup {h}
      BY <1>3, <2>1, <3>1, <3>2 DEF Owners
    <3>4. Cardinality(Owners') = active'
      <4>1. Cardinality((Owners \ {r}) \cup {h}) = Cardinality(Owners \ {r}) + 1
        BY <2>2, <3>2, FS_AddElement
      <4> QED
        BY <4>1, <3>1, <3>3, <2>2 DEF TypeOK
    <3>5. active = Limit
      BY <2>3 DEF SemInv, NoIdleSlot
    <3>6. SemInv'
      BY <1>3, <2>1, <3>1, <3>2, <3>4, <3>5 DEF SemInv, SlotsAccounted, NoIdleSlot
    <3> QED
      BY <1>3, <2>1, <3>1, <3>6 DEF TypeOK
  <2>4. CASE waiters = <<>>
    <3>1. waiters' = waiters /\ granted' = granted /\ active' = active - 1 /\ Waiting' = Waiting
      BY <1>3, <2>2, <2>4 DEF SemRelease, Waiting
    <3>2. Owners' = Owners \ {r}
      BY <1>3, <2>1, <3>1 DEF Owners
    <3>3. SemInv'
      BY <1>3, <2>1, <2>2, <2>4, <3>1, <3>2 DEF SemInv, SlotsAccounted, NoIdleSlot
    <3> QED
      BY <1>3, <2>1, <2>2, <3>1, <3>3, LimitAssumption DEF TypeOK
  <2> QED
    BY <2>3, <2>4
<1> QED
  BY <1>1, <1>2, <1>3 DEF HolderRelease
----------------------------------------------------------------------------
(* Every step preserves the invariant.                                     *)

\* A latched ending: nothing, or one HolderRelease with the latch set.
LEMMA DisconnectEffect ==
  ASSUME SlotsInv, NEW r \in Requests, HandleDisconnect(r) \/ HandleError(r)
  PROVE  /\ disconnected' \in [Requests -> BOOLEAN]
         /\ abortTimer' \in [Requests -> BOOLEAN]
         /\ \A q \in Requests : disconnected'[q] <=> disconnected[q] \/ q = r
         /\ released'[r] \/ aborted'[r]
         /\ HolderRelease(r) \/ UNCHANGED <<semVars, holderVars>>
<1>1. CASE disconnected[r]
  BY <1>1 DEF HandleDisconnect, HandleError, controllerVars, holderVars,
              SlotsInv, TypeOK, EndInv
<1>2. CASE ~disconnected[r]
  BY <1>2, HolderReleaseEffect DEF HandleDisconnect, HandleError, SlotsInv, TypeOK
<1> QED
  BY <1>1, <1>2

\* What the holder and the semaphore contribute to the invariant, for every
\* action that releases at most once and does not touch the queue otherwise.
LEMMA ReleaseKeepsInv ==
  ASSUME SlotsInv, NEW r \in Requests,
         HolderRelease(r) \/ UNCHANGED <<semVars, holderVars>>,
         stage' \in [Requests -> Stages],
         disconnected' \in [Requests -> BOOLEAN],
         abortTimer' \in [Requests -> BOOLEAN],
         signalled' \in [Requests -> BOOLEAN],
         \A q \in Requests \ {r} : stage'[q] = stage[q] /\ disconnected'[q] = disconnected[q],
         stage'[r] = stage[r] \/ (stage[r] \notin {"created", "acquiring"}
                                  /\ stage'[r] \notin {"created", "acquiring"}),
         disconnected'[r] \/ stage'[r] = "body" => released'[r] \/ aborted'[r],
         stage'[r] = "done" => released'[r] \/ aborted'[r] \/ ~slot[r]
  PROVE  SlotsInv'
<1>1. /\ active' \in 0..Limit
      /\ waiters' \in Seq(Requests)
      /\ granted' \subseteq Requests
      /\ slot' = slot
      /\ released' \in [Requests -> BOOLEAN]
      /\ aborted' \in [Requests -> BOOLEAN]
      /\ \A q \in Requests : released[q] => released'[q]
      /\ \A q \in Requests : aborted[q] => aborted'[q]
      /\ Waiting' \cup granted' \subseteq Waiting \cup granted
      /\ SemInv'
  <2>1. CASE HolderRelease(r)
    BY <2>1, HolderReleaseEffect DEF SlotsInv
  <2>2. CASE UNCHANGED <<semVars, holderVars>>
    <3>1. Waiting' = Waiting /\ Owners' = Owners
      BY <2>2 DEF Waiting, Owners, semVars, holderVars
    <3> QED
      BY <2>2, <3>1 DEF semVars, holderVars, SlotsInv, TypeOK, SemInv,
                        SlotsAccounted, NoIdleSlot
  <2> QED
    BY <2>1, <2>2
<1>2. TypeOK'
  BY <1>1 DEF TypeOK, SlotsInv
<1>3. StageInv'
  <2>1. Waiting \cup granted \subseteq Requests
    BY WaitingType DEF SlotsInv, TypeOK
  <2> QED
    BY <1>1, <2>1 DEF SlotsInv, StageInv
<1>4. EndInv'
  <2>1. \A q \in Requests :
          disconnected'[q] \/ stage'[q] = "body" => released'[q] \/ aborted'[q]
    BY <1>1 DEF SlotsInv, EndInv
  <2>2. ASSUME NEW q \in Requests, stage'[q] = "done", q \in Owners'
        PROVE  aborted'[q]
    <3>1. q \notin granted' /\ slot[q] /\ ~released'[q]
      <4>1. q \in granted' => stage'[q] = "acquiring"
        BY <1>3 DEF StageInv
      <4> QED
        BY <1>1, <2>2, <4>1 DEF Owners
    <3>2. CASE q = r
      BY <2>2, <3>1, <3>2, <1>1
    <3>3. CASE q # r
      BY <1>1, <2>2, <3>1, <3>3 DEF SlotsInv, EndInv, OnlyNamedLeaks, Owners
    <3> QED
      BY <3>2, <3>3
  <2>3. ASSUME NEW q \in Requests, disconnected'[q], q \in Owners'
        PROVE  aborted'[q]
    <3>1. CASE released'[q]
      <4>1. slot'[q] /\ q \notin granted'
        BY <1>1, <2>3, <3>1 DEF SemInv, Owners
      <4> QED
        BY <2>3, <3>1, <4>1 DEF Owners
    <3> QED
      BY <2>1, <2>3, <3>1
  <2> QED
    BY <1>1, <2>1, <2>2, <2>3 DEF EndInv, OnlyNamedLeaks, Owners
<1> QED
  BY <1>1, <1>2, <1>3, <1>4 DEF SlotsInv

\* acquireUpstreamSlot(): a new owner below the limit, a new waiter at it.
LEMMA AcquireKeepsInv ==
  ASSUME SlotsInv, NEW r \in Requests, Acquire(r)
  PROVE  SlotsInv'
<1>0. /\ stage[r] = "created" /\ ~slot[r] /\ r \notin Waiting /\ r \notin granted
      /\ ~released[r] /\ r \notin Owners
      /\ UNCHANGED <<holderVars, controllerVars>>
      /\ active = Cardinality(Owners) /\ IsFiniteSet(Owners)
  BY OwnersFinite DEF Acquire, SlotsInv, StageInv, SemInv, Owners, SlotsAccounted
<1>1. CASE aborted[r] /\ Goto(r, "dispatched") /\ UNCHANGED semVars
  <2>1. Waiting' = Waiting /\ Owners' = Owners
    BY <1>0, <1>1 DEF Waiting, Owners, semVars, holderVars
  <2>2. TypeOK' /\ SemInv'
    BY <1>0, <1>1, <2>1 DEF semVars, holderVars, controllerVars, Goto, Stages,
       SlotsInv, TypeOK, SemInv, SlotsAccounted, NoIdleSlot
  <2>3. StageInv' /\ EndInv'
    BY <1>0, <1>1, <2>1 DEF semVars, holderVars, controllerVars, Goto, Stages,
       SlotsInv, TypeOK, StageInv, EndInv, OnlyNamedLeaks
  <2> QED
    BY <2>2, <2>3 DEF SlotsInv
<1>2. CASE Goto(r, "acquiring") /\ active < Limit /\ active' = active + 1
           /\ granted' = granted \cup {r} /\ UNCHANGED waiters
  <2>1. Waiting' = Waiting /\ Owners' = Owners \cup {r}
    BY <1>0, <1>2 DEF Waiting, Owners, holderVars
  <2>2. Cardinality(Owners') = active'
    BY <1>0, <1>2, <2>1, FS_AddElement
  <2>3. TypeOK' /\ SemInv'
    BY <1>0, <1>2, <2>1, <2>2, LimitAssumption DEF holderVars, controllerVars, Goto,
       Stages, SlotsInv, TypeOK, SemInv, SlotsAccounted, NoIdleSlot
  <2>4. StageInv' /\ EndInv'
    BY <1>0, <1>2, <2>1 DEF holderVars, controllerVars, Goto, Stages,
       SlotsInv, TypeOK, StageInv, EndInv, OnlyNamedLeaks
  <2> QED
    BY <2>3, <2>4 DEF SlotsInv
<1>3. CASE Goto(r, "acquiring") /\ active >= Limit /\ waiters' = Append(waiters, r)
           /\ UNCHANGED <<active, granted>>
  <2>1. /\ waiters' \in Seq(Requests) /\ Len(waiters') = Len(waiters) + 1
        /\ waiters'[Len(waiters) + 1] = r /\ Len(waiters) \in Nat
        /\ \A i \in 1..Len(waiters) : waiters'[i] = waiters[i]
    BY <1>3, AppendProperties, LenProperties DEF SlotsInv, TypeOK
  <2>2. Waiting' = Waiting \cup {r} /\ Owners' = Owners
    <3>1. Owners' = Owners
      BY <1>0, <1>3 DEF Owners, holderVars
    <3>2. \A i \in 1..Len(waiters') : i \in 1..Len(waiters) \/ i = Len(waiters) + 1
      BY <2>1
    <3>3. 1..Len(waiters) \subseteq 1..Len(waiters') /\ Len(waiters) + 1 \in 1..Len(waiters')
      BY <2>1
    <3> QED
      BY <2>1, <3>1, <3>2, <3>3 DEF Waiting
  <2>3. \A i, j \in 1..Len(waiters') : waiters'[i] = waiters'[j] => i = j
    <3> SUFFICES ASSUME NEW i \in 1..Len(waiters'), NEW j \in 1..Len(waiters'),
                        waiters'[i] = waiters'[j]
                 PROVE  i = j
      OBVIOUS
    <3>1. \A k \in 1..Len(waiters) : waiters[k] # r
      BY <1>0 DEF Waiting
    <3> QED
      BY <2>1, <3>1 DEF SlotsInv, SemInv
  <2>4. TypeOK'
    BY <1>0, <1>3, <2>1 DEF holderVars, controllerVars, Goto, Stages, SlotsInv, TypeOK
  <2>5. SemInv'
    <3>1. active' = Limit
      BY <1>3, LimitAssumption DEF SlotsInv, TypeOK
    <3>2. /\ Waiting' \cap granted' = {}
          /\ \A q \in Waiting' \cup granted' : ~slot'[q]
          /\ \A q \in Requests : released'[q] => slot'[q]
      BY <1>0, <1>3, <2>2 DEF holderVars, SlotsInv, SemInv
    <3> QED
      BY <1>0, <1>3, <2>2, <2>3, <3>1, <3>2 DEF SlotsInv, SemInv, SlotsAccounted, NoIdleSlot
  <2>6. StageInv' /\ EndInv'
    BY <1>0, <1>3, <2>2 DEF holderVars, controllerVars, Goto, Stages,
       SlotsInv, TypeOK, StageInv, EndInv, OnlyNamedLeaks
  <2> QED
    BY <2>4, <2>5, <2>6 DEF SlotsInv
<1> QED
  BY <1>1, <1>2, <1>3 DEF Acquire, SemAcquire

\* The continuation of acquire() moves its attempt from granted to slot.
LEMMA SlotAssignedKeepsInv ==
  ASSUME SlotsInv, NEW r \in Requests, SlotAssigned(r)
  PROVE  SlotsInv'
<1>1. /\ stage[r] = "acquiring" /\ ~slot[r] /\ ~released[r] /\ r \in granted
      /\ Waiting' = Waiting /\ waiters' = waiters /\ active' = active
      /\ granted' = granted \ {r} /\ slot' = [slot EXCEPT ![r] = TRUE]
      /\ released' = released /\ aborted' = aborted /\ UNCHANGED controllerVars
      /\ stage' = [stage EXCEPT ![r] = "dispatched"]
  BY DEF SlotAssigned, SlotsInv, StageInv, SemInv, Waiting, Goto
<1>2. Owners' = Owners
  BY <1>1 DEF Owners, SlotsInv, TypeOK, SemInv
<1>3. TypeOK' /\ SemInv'
  BY <1>1, <1>2 DEF controllerVars, Stages, SlotsInv, TypeOK, SemInv, SlotsAccounted, NoIdleSlot
<1>4. StageInv'
  BY <1>1 DEF SlotsInv, TypeOK, StageInv, SemInv
<1>5. EndInv'
  BY <1>1, <1>2 DEF controllerVars, SlotsInv, TypeOK, EndInv, OnlyNamedLeaks
<1> QED
  BY <1>3, <1>4, <1>5 DEF SlotsInv

\* A timed-out waiter leaves the queue and nothing else changes.
LEMMA QueueTimeoutKeepsInv ==
  ASSUME SlotsInv, NEW r \in Requests, QueueTimeout(r)
  PROVE  SlotsInv'
<1>1. PICK i \in 1..Len(waiters) : waiters[i] = r /\ waiters' = Without(waiters, i)
  BY DEF QueueTimeout
<1>2. /\ stage' = [stage EXCEPT ![r] = "done"]
      /\ UNCHANGED <<active, granted, holderVars, controllerVars>>
      /\ Len(waiters) \in Nat /\ Len(waiters) > 0
      /\ waiters \in [1..Len(waiters) -> Requests]
  BY <1>1, LenProperties DEF QueueTimeout, Goto, SlotsInv, TypeOK
<1>3. /\ waiters' \in Seq(Requests) /\ Len(waiters') = Len(waiters) - 1
      /\ \A j \in 1..(Len(waiters) - 1) :
           waiters'[j] = IF j < i THEN waiters[j] ELSE waiters[j + 1]
  <2>1. Without(waiters, i) \in [1..(Len(waiters) - 1) -> Requests]
    BY <1>2 DEF Without
  <2>2. Len(waiters) - 1 \in Nat
    BY <1>2
  <2>3. Without(waiters, i) \in Seq(Requests) /\ Len(Without(waiters, i)) = Len(waiters) - 1
    BY <2>1, <2>2, IsASeq, LenProperties
  <2> QED
    BY <1>1, <2>3 DEF Without
<1>4. \A j, k \in 1..Len(waiters) : waiters[j] = waiters[k] => j = k
  BY DEF SlotsInv, SemInv
<1>5. Waiting' = Waiting \ {r}
  <2>1. ASSUME NEW j \in 1..Len(waiters')
        PROVE  waiters'[j] \in Waiting \ {r}
    <3>1. CASE j < i
      <4>1. j \in 1..Len(waiters) /\ j # i /\ waiters'[j] = waiters[j]
        BY <1>2, <1>3, <3>1
      <4> QED
        BY <4>1, <1>1, <1>4 DEF Waiting
    <3>2. CASE ~(j < i)
      <4>1. j + 1 \in 1..Len(waiters) /\ j + 1 # i /\ waiters'[j] = waiters[j + 1]
        BY <1>2, <1>3, <3>2
      <4> QED
        BY <4>1, <1>1, <1>4 DEF Waiting
    <3> QED
      BY <3>1, <3>2
  <2>2. ASSUME NEW k \in 1..Len(waiters), waiters[k] # r
        PROVE  \E j \in 1..Len(waiters') : waiters'[j] = waiters[k]
    <3>1. CASE k < i
      <4>1. k \in 1..Len(waiters') /\ waiters'[k] = waiters[k]
        BY <1>2, <1>3, <3>1
      <4> QED
        BY <4>1
    <3>2. CASE k > i
      <4>1. k - 1 \in 1..Len(waiters') /\ waiters'[k - 1] = waiters[(k - 1) + 1] /\ (k - 1) + 1 = k
        BY <1>2, <1>3, <3>2
      <4> QED
        BY <4>1
    <3>3. k # i
      BY <1>1, <2>2
    <3> QED
      BY <3>1, <3>2, <3>3
  <2>3. Waiting' = {waiters'[j] : j \in 1..Len(waiters')}
    BY DEF Waiting
  <2>4. Waiting' \subseteq Waiting \ {r}
    BY <2>1, <2>3
  <2>5. Waiting \ {r} \subseteq Waiting'
    BY <2>2, <2>3 DEF Waiting
  <2> QED
    BY <2>4, <2>5
<1>6. \A j, k \in 1..Len(waiters') : waiters'[j] = waiters'[k] => j = k
  <2> SUFFICES ASSUME NEW j \in 1..Len(waiters'), NEW k \in 1..Len(waiters'),
                      waiters'[j] = waiters'[k]
               PROVE  j = k
    OBVIOUS
  <2> DEFINE old(n) == IF n < i THEN n ELSE n + 1
  <2>1. old(j) \in 1..Len(waiters) /\ waiters'[j] = waiters[old(j)]
    BY <1>2, <1>3
  <2>2. old(k) \in 1..Len(waiters) /\ waiters'[k] = waiters[old(k)]
    BY <1>2, <1>3
  <2>3. old(j) = old(k)
    BY <2>1, <2>2, <1>4
  <2> QED
    BY <2>3
<1>7. /\ Owners' = Owners /\ r \in Waiting /\ stage[r] = "acquiring" /\ ~slot[r]
      /\ ~released[r] /\ r \notin granted /\ r \notin Owners /\ waiters # <<>>
  BY <1>1, <1>2 DEF Owners, Waiting, holderVars, SlotsInv, StageInv, SemInv, TypeOK
<1>8. TypeOK' /\ SemInv'
  BY <1>2, <1>3, <1>5, <1>6, <1>7 DEF holderVars, controllerVars, Stages, SlotsInv,
     TypeOK, SemInv, SlotsAccounted, NoIdleSlot
<1>9. StageInv' /\ EndInv'
  BY <1>2, <1>5, <1>7 DEF holderVars, controllerVars, Stages, SlotsInv, TypeOK,
     StageInv, EndInv, OnlyNamedLeaks
<1> QED
  BY <1>8, <1>9 DEF SlotsInv
\* One step of one attempt. The three actions that move an attempt into or out
\* of the queue have lemmas of their own; each of the others releases at most
\* once, and its case names the reason its controller may be latched.
LEMMA StepKeepsInv ==
  ASSUME SlotsInv, NEW r \in Requests, Step(r)
  PROVE  SlotsInv'
<1>0. /\ TypeOK /\ SemInv /\ EndInv
      /\ stage \in [Requests -> Stages]
      /\ disconnected \in [Requests -> BOOLEAN]
      /\ abortTimer \in [Requests -> BOOLEAN]
      /\ signalled \in [Requests -> BOOLEAN]
  BY DEF SlotsInv, TypeOK
<1>1. CASE Acquire(r)
  BY <1>1, AcquireKeepsInv
<1>2. CASE SlotAssigned(r)
  BY <1>2, SlotAssignedKeepsInv
<1>3. CASE QueueTimeout(r)
  BY <1>3, QueueTimeoutKeepsInv
<1>4. CASE ExternalAbort(r)
  <2>1. /\ disconnected' \in [Requests -> BOOLEAN]
        /\ abortTimer' \in [Requests -> BOOLEAN]
        /\ \A q \in Requests : disconnected'[q] <=> disconnected[q] \/ q = r
        /\ released'[r] \/ aborted'[r]
        /\ HolderRelease(r) \/ UNCHANGED <<semVars, holderVars>>
        /\ signalled' = signalled /\ stage' = stage
    BY <1>4, DisconnectEffect DEF ExternalAbort, HandleDisconnect
  <2> QED
    BY <1>0, <2>1, ReleaseKeepsInv
<1>5. CASE AbortTimerFires(r)
  <2>1. /\ disconnected' = disconnected /\ stage' = stage
        /\ UNCHANGED <<semVars, holderVars>>
        /\ abortTimer' \in [Requests -> BOOLEAN]
        /\ signalled' \in [Requests -> BOOLEAN]
        /\ released' = released /\ aborted' = aborted
    BY <1>0, <1>5 DEF AbortTimerFires, holderVars
  <2>2. /\ disconnected[r] \/ stage[r] = "body" => released[r] \/ aborted[r]
        /\ stage[r] = "done" => released[r] \/ aborted[r] \/ ~slot[r]
    BY <1>0 DEF EndInv, OnlyNamedLeaks, Owners
  <2> QED
    BY <1>0, <2>1, <2>2, ReleaseKeepsInv
<1>6. CASE ExecuteFails(r)
  <2>1. /\ HolderRelease(r)
        /\ released'[r] \/ aborted'[r]
        /\ stage' = [stage EXCEPT ![r] = "done"] /\ stage[r] \notin {"created", "acquiring"}
        /\ UNCHANGED controllerVars
    BY <1>0, <1>6, HolderReleaseEffect DEF ExecuteFails, Goto
  <2>2. /\ stage' \in [Requests -> Stages]
        /\ \A q \in Requests \ {r} : stage'[q] = stage[q]
        /\ stage'[r] \notin {"created", "acquiring"}
    BY <1>0, <2>1 DEF Stages
  <2> QED
    BY <1>0, <2>1, <2>2, ReleaseKeepsInv DEF controllerVars
<1>7. CASE ExecuteJson(r)
  <2>1. /\ HolderRelease(r)
        /\ released'[r] \/ aborted'[r]
        /\ stage' = [stage EXCEPT ![r] = "body"] /\ stage[r] \notin {"created", "acquiring"}
        /\ UNCHANGED controllerVars
    BY <1>0, <1>7, HolderReleaseEffect DEF ExecuteJson, Goto
  <2>2. /\ stage' \in [Requests -> Stages]
        /\ \A q \in Requests \ {r} : stage'[q] = stage[q]
        /\ stage'[r] \notin {"created", "acquiring"}
    BY <1>0, <2>1 DEF Stages
  <2> QED
    BY <1>0, <2>1, <2>2, ReleaseKeepsInv DEF controllerVars
<1>8. CASE JsonThrows(r)
  <2>1. /\ HolderRelease(r)
        /\ released'[r] \/ aborted'[r]
        /\ stage' = [stage EXCEPT ![r] = "done"] /\ stage[r] \notin {"created", "acquiring"}
        /\ UNCHANGED controllerVars
    BY <1>0, <1>8, HolderReleaseEffect DEF JsonThrows, Goto
  <2>2. /\ stage' \in [Requests -> Stages]
        /\ \A q \in Requests \ {r} : stage'[q] = stage[q]
        /\ stage'[r] \notin {"created", "acquiring"}
    BY <1>0, <2>1 DEF Stages
  <2> QED
    BY <1>0, <2>1, <2>2, ReleaseKeepsInv DEF controllerVars
<1>9. CASE JsonReturned(r)
  <2>1. /\ UNCHANGED <<semVars, holderVars>>
        /\ released'[r] \/ aborted'[r]
        /\ stage' = [stage EXCEPT ![r] = "done"] /\ stage[r] = "body"
    BY <1>0, <1>9 DEF JsonReturned, Goto, holderVars, EndInv
  <2>2. /\ disconnected' \in [Requests -> BOOLEAN]
        /\ abortTimer' \in [Requests -> BOOLEAN]
        /\ signalled' = signalled
        /\ \A q \in Requests \ {r} : disconnected'[q] = disconnected[q]
    BY <1>0, <1>9 DEF JsonReturned, HandleComplete, controllerVars
  <2>3. /\ stage' \in [Requests -> Stages]
        /\ \A q \in Requests \ {r} : stage'[q] = stage[q]
        /\ stage'[r] \notin {"created", "acquiring"}
    BY <1>0, <2>1 DEF Stages
  <2> QED
    BY <1>0, <2>1, <2>2, <2>3, ReleaseKeepsInv
<1>10. CASE SseToJsonRejected(r)
  <2>1. /\ HolderRelease(r)
        /\ released'[r] \/ aborted'[r]
        /\ stage' = [stage EXCEPT ![r] = "done"] /\ stage[r] = "dispatched"
        /\ signalled' = signalled
    BY <1>0, <1>10, HolderReleaseEffect DEF SseToJsonRejected, Goto
  <2>2. /\ disconnected' \in [Requests -> BOOLEAN]
        /\ abortTimer' \in [Requests -> BOOLEAN]
        /\ \A q \in Requests \ {r} : disconnected'[q] = disconnected[q]
    BY <1>0, <1>10 DEF SseToJsonRejected
  <2>3. /\ stage' \in [Requests -> Stages]
        /\ \A q \in Requests \ {r} : stage'[q] = stage[q]
        /\ stage'[r] \notin {"created", "acquiring"}
    BY <1>0, <2>1 DEF Stages
  <2> QED
    BY <1>0, <2>1, <2>2, <2>3, ReleaseKeepsInv
<1>11. CASE ExecuteStream(r)
  <2>1. /\ UNCHANGED <<semVars, holderVars, controllerVars>>
        /\ stage' = [stage EXCEPT ![r] = "piping"] /\ stage[r] = "dispatched"
        /\ disconnected[r] \/ stage'[r] = "done" => released[r] \/ aborted[r]
    BY <1>0, <1>11 DEF ExecuteStream, Goto, EndInv
  <2>2. /\ stage' \in [Requests -> Stages] /\ stage'[r] # "body"
        /\ \A q \in Requests \ {r} : stage'[q] = stage[q]
        /\ stage'[r] \notin {"created", "acquiring"}
    BY <1>0, <2>1 DEF Stages
  <2> QED
    BY <1>0, <2>1, <2>2, ReleaseKeepsInv DEF controllerVars, holderVars
<1>12. CASE Pull(r)
  <2>1. /\ UNCHANGED <<semVars, holderVars, controllerVars>>
        /\ stage' = [stage EXCEPT ![r] = "reading"] /\ stage[r] = "piping"
        /\ disconnected[r] \/ stage'[r] = "done" => released[r] \/ aborted[r]
    BY <1>0, <1>12 DEF Pull, Goto, EndInv
  <2>2. /\ stage' \in [Requests -> Stages] /\ stage'[r] # "body"
        /\ \A q \in Requests \ {r} : stage'[q] = stage[q]
        /\ stage'[r] \notin {"created", "acquiring"}
    BY <1>0, <2>1 DEF Stages
  <2> QED
    BY <1>0, <2>1, <2>2, ReleaseKeepsInv DEF controllerVars, holderVars
<1>13. CASE PullClosed(r)
  <2>1. /\ UNCHANGED <<semVars, holderVars, controllerVars>>
        /\ stage' = [stage EXCEPT ![r] = "done"] /\ stage[r] = "piping"
        /\ disconnected[r] \/ stage'[r] = "done" => released[r] \/ aborted[r]
    BY <1>0, <1>13 DEF PullClosed, Goto, EndInv
  <2>2. /\ stage' \in [Requests -> Stages] /\ stage'[r] # "body"
        /\ \A q \in Requests \ {r} : stage'[q] = stage[q]
        /\ stage'[r] \notin {"created", "acquiring"}
    BY <1>0, <2>1 DEF Stages
  <2> QED
    BY <1>0, <2>1, <2>2, ReleaseKeepsInv DEF controllerVars, holderVars
<1>14. CASE ReadChunk(r)
  <2>1. /\ HolderRelease(r) \/ UNCHANGED <<semVars, holderVars>>
        /\ stage' = [stage EXCEPT ![r] = "piping"] /\ stage[r] = "reading"
        /\ UNCHANGED controllerVars
    BY <1>14 DEF ReadChunk, Goto
  <2>2. disconnected'[r] => released'[r] \/ aborted'[r]
    BY <1>0, <2>1, HolderReleaseEffect DEF EndInv, controllerVars, holderVars
  <2>3. /\ stage' \in [Requests -> Stages] /\ stage'[r] = "piping"
        /\ \A q \in Requests \ {r} : stage'[q] = stage[q]
    BY <1>0, <2>1 DEF Stages
  <2> QED
    BY <1>0, <2>1, <2>2, <2>3, ReleaseKeepsInv DEF controllerVars
<1>15. CASE ReadDone(r)
  <2>1. /\ HolderRelease(r)
        /\ released'[r] \/ aborted'[r]
        /\ stage' = [stage EXCEPT ![r] = "done"] /\ stage[r] = "reading"
    BY <1>0, <1>15, HolderReleaseEffect DEF ReadDone, Goto
  <2>2. /\ disconnected' \in [Requests -> BOOLEAN]
        /\ abortTimer' \in [Requests -> BOOLEAN]
        /\ signalled' = signalled
        /\ \A q \in Requests \ {r} : disconnected'[q] = disconnected[q]
    BY <1>0, <1>15 DEF ReadDone, HandleComplete, controllerVars
  <2>3. /\ stage' \in [Requests -> Stages]
        /\ \A q \in Requests \ {r} : stage'[q] = stage[q]
        /\ stage'[r] \notin {"created", "acquiring"}
    BY <1>0, <2>1 DEF Stages
  <2> QED
    BY <1>0, <2>1, <2>2, <2>3, ReleaseKeepsInv
<1>16. CASE RejectStream(r)
  <2>1. /\ disconnected' \in [Requests -> BOOLEAN]
        /\ abortTimer' \in [Requests -> BOOLEAN]
        /\ \A q \in Requests : disconnected'[q] <=> disconnected[q] \/ q = r
        /\ released'[r] \/ aborted'[r]
        /\ HolderRelease(r) \/ UNCHANGED <<semVars, holderVars>>
        /\ signalled' = signalled
    BY <1>16, DisconnectEffect DEF RejectStream, HandleDisconnect, controllerVars
  <2>2. /\ stage' = [stage EXCEPT ![r] = "done"] /\ stage[r] \notin {"created", "acquiring"}
    BY <1>16 DEF RejectStream, Goto
  <2>3. /\ stage' \in [Requests -> Stages]
        /\ \A q \in Requests \ {r} : stage'[q] = stage[q]
        /\ stage'[r] \notin {"created", "acquiring"}
    BY <1>0, <2>2 DEF Stages
  <2>4. \A q \in Requests \ {r} : disconnected'[q] = disconnected[q]
    BY <1>0, <2>1
  <2> QED
    BY <1>0, <2>1, <2>2, <2>3, <2>4, ReleaseKeepsInv
<1>17. CASE ReadError(r)
  <2>1. /\ disconnected' \in [Requests -> BOOLEAN]
        /\ abortTimer' \in [Requests -> BOOLEAN]
        /\ \A q \in Requests : disconnected'[q] <=> disconnected[q] \/ q = r
        /\ released'[r] \/ aborted'[r]
        /\ HolderRelease(r) \/ UNCHANGED <<semVars, holderVars>>
        /\ signalled' = signalled
    BY <1>17, DisconnectEffect DEF ReadError, HandleDisconnect, controllerVars
  <2>2. /\ stage' = [stage EXCEPT ![r] = "done"] /\ stage[r] \notin {"created", "acquiring"}
    BY <1>17 DEF ReadError, Goto
  <2>3. /\ stage' \in [Requests -> Stages]
        /\ \A q \in Requests \ {r} : stage'[q] = stage[q]
        /\ stage'[r] \notin {"created", "acquiring"}
    BY <1>0, <2>2 DEF Stages
  <2>4. \A q \in Requests \ {r} : disconnected'[q] = disconnected[q]
    BY <1>0, <2>1
  <2> QED
    BY <1>0, <2>1, <2>2, <2>3, <2>4, ReleaseKeepsInv
<1>18. CASE StreamCancel(r)
  <2>1. /\ disconnected' \in [Requests -> BOOLEAN]
        /\ abortTimer' \in [Requests -> BOOLEAN]
        /\ \A q \in Requests : disconnected'[q] <=> disconnected[q] \/ q = r
        /\ released'[r] \/ aborted'[r]
        /\ HolderRelease(r) \/ UNCHANGED <<semVars, holderVars>>
        /\ signalled' = signalled
    BY <1>18, DisconnectEffect DEF StreamCancel, HandleDisconnect, controllerVars
  <2>2. /\ stage' = [stage EXCEPT ![r] = "done"] /\ stage[r] \notin {"created", "acquiring"}
    BY <1>18 DEF StreamCancel, Goto
  <2>3. /\ stage' \in [Requests -> Stages]
        /\ \A q \in Requests \ {r} : stage'[q] = stage[q]
        /\ stage'[r] \notin {"created", "acquiring"}
    BY <1>0, <2>2 DEF Stages
  <2>4. \A q \in Requests \ {r} : disconnected'[q] = disconnected[q]
    BY <1>0, <2>1
  <2> QED
    BY <1>0, <2>1, <2>2, <2>3, <2>4, ReleaseKeepsInv
<1>19. CASE Stall(r)
  <2>1. /\ disconnected' \in [Requests -> BOOLEAN]
        /\ abortTimer' \in [Requests -> BOOLEAN]
        /\ \A q \in Requests : disconnected'[q] <=> disconnected[q] \/ q = r
        /\ released'[r] \/ aborted'[r]
        /\ HolderRelease(r) \/ UNCHANGED <<semVars, holderVars>>
    BY <1>19, DisconnectEffect DEF Stall
  <2>2. stage' = stage /\ signalled' \in [Requests -> BOOLEAN]
    BY <1>0, <1>19 DEF Stall
  <2>3. \A q \in Requests \ {r} : disconnected'[q] = disconnected[q]
    BY <1>0, <2>1
  <2> QED
    BY <1>0, <2>1, <2>2, <2>3, ReleaseKeepsInv
<1>20. CASE StreamThrows(r)
  <2>1. /\ UNCHANGED <<semVars, holderVars, controllerVars>>
        /\ stage[r] = "piping"
        /\ \/ stage' = [stage EXCEPT ![r] = "thrown"]
           \/ stage' = [stage EXCEPT ![r] = "unwatched"]
        /\ disconnected[r] => released[r] \/ aborted[r]
    BY <1>0, <1>20 DEF StreamThrows, Goto, EndInv
  <2>2. /\ stage' \in [Requests -> Stages] /\ stage'[r] \in {"thrown", "unwatched"}
        /\ \A q \in Requests \ {r} : stage'[q] = stage[q]
    BY <1>0, <2>1 DEF Stages
  <2> QED
    BY <1>0, <2>1, <2>2, ReleaseKeepsInv DEF controllerVars, holderVars
<1> QED
  BY <1>1, <1>2, <1>3, <1>4, <1>5, <1>6, <1>7, <1>8, <1>9, <1>10, <1>11, <1>12, <1>13, <1>14, <1>15, <1>16, <1>17, <1>18, <1>19, <1>20
     DEF Step, Respond, StreamEnds

\* The whole invariant holds in every reachable state.
THEOREM SlotsInvariant == Spec => []SlotsInv
<1>1. ASSUME SlotsInv, [Next]_vars PROVE SlotsInv'
  <2>1. CASE Next
    BY <1>1, <2>1, StepKeepsInv DEF Next
  <2>2. CASE UNCHANGED vars
    <3>1. Waiting' = Waiting /\ Owners' = Owners
      BY <2>2 DEF vars, Waiting, Owners
    <3> QED
      BY <1>1, <2>2, <3>1 DEF vars, SlotsInv, TypeOK, SemInv, StageInv, EndInv,
         SlotsAccounted, NoIdleSlot, OnlyNamedLeaks
  <2> QED
    BY <1>1, <2>1, <2>2
<1> QED
  BY InitSlotsInv, <1>1, PTL DEF Spec

\* Type correctness: in particular the counter stays between 0 and the limit.
THEOREM TypeCorrect == Spec => []TypeOK
<1>1. SlotsInv => TypeOK
  BY DEF SlotsInv
<1> QED
  BY <1>1, SlotsInvariant, PTL

\* upstreamSemaphore.js: the counter is the number of attempts that own a slot.
THEOREM SlotConservation == Spec => []SlotsAccounted
<1>1. SlotsInv => SlotsAccounted
  BY DEF SlotsInv, SemInv
<1> QED
  BY <1>1, SlotsInvariant, PTL

\* upstreamSemaphore.js: no slot is idle while an attempt waits in the queue.
THEOREM NoSlotIdles == Spec => []NoIdleSlot
<1>1. SlotsInv => NoIdleSlot
  BY DEF SlotsInv, SemInv
<1> QED
  BY <1>1, SlotsInvariant, PTL

\* streamHandler.js, chatCore.js: an attempt that is over, or whose controller has
\* been latched, keeps a slot only if its abort came before the slot; a streaming
\* handler that threw keeps its own only until something latches the controller.
THEOREM NoOtherLeak == Spec => []OnlyNamedLeaks
<1>1. SlotsInv => OnlyNamedLeaks
  BY DEF SlotsInv, EndInv
<1> QED
  BY <1>1, SlotsInvariant, PTL

----------------------------------------------------------------------------
(* The gate implements a first come, first served pool of slots.           *)

\* What a step may do to the semaphore and the holders.
LEMMA StepKinds ==
  ASSUME NEW r \in Requests, Step(r)
  PROVE  \/ Acquire(r) \/ SlotAssigned(r) \/ QueueTimeout(r)
         \/ HolderRelease(r) \/ UNCHANGED <<semVars, holderVars>>
<1>1. CASE ExternalAbort(r) \/ RejectStream(r) \/ ReadError(r) \/ Stall(r) \/ StreamCancel(r)
  BY <1>1
  DEF ExternalAbort, RejectStream, ReadError, Stall, StreamCancel, HandleDisconnect, HandleError
<1>2. CASE \/ ExecuteFails(r) \/ ExecuteJson(r) \/ JsonThrows(r) \/ SseToJsonRejected(r)
           \/ ReadChunk(r) \/ ReadDone(r)
  BY <1>2 DEF ExecuteFails, ExecuteJson, JsonThrows, SseToJsonRejected, ReadChunk, ReadDone
<1>3. CASE \/ AbortTimerFires(r) \/ ExecuteStream(r) \/ JsonReturned(r) \/ Pull(r)
           \/ PullClosed(r) \/ StreamThrows(r)
  BY <1>3 DEF AbortTimerFires, ExecuteStream, JsonReturned, Pull, PullClosed, StreamThrows
<1> QED
  BY <1>1, <1>2, <1>3 DEF Step, Respond, StreamEnds

\* In terms of the pool: nothing that it can tell changes.
PoolStutters == UNCHANGED <<active, Owners, waiters, {r \in Requests : released[r]}>>

\* The holder's release() returns the attempt's slot, or changes nothing.
LEMMA ReleaseImplements ==
  ASSUME SlotsInv, NEW r \in Requests, HolderRelease(r)
  PROVE  AbstractPool!Return(r) \/ PoolStutters
<1>1. CASE \/ released[r] /\ UNCHANGED <<semVars, holderVars>>
           \/ ~slot[r] /\ UNCHANGED <<semVars, slot, released>>
  BY <1>1 DEF PoolStutters, Owners, semVars, holderVars
<1>2. CASE /\ ~released[r] /\ slot[r]
           /\ released' = [released EXCEPT ![r] = TRUE]
           /\ SemRelease
           /\ UNCHANGED <<slot, aborted>>
  <2>1. /\ r \in Owners /\ r \notin granted /\ r \notin Waiting
        /\ \A q \in Requests : released'[q] <=> released[q] \/ q = r
    BY <1>2 DEF Owners, SlotsInv, SemInv, TypeOK
  <2>2. {q \in Requests : released'[q]} = {q \in Requests : released[q]} \cup {r}
    BY <2>1
  <2>3. CASE waiters # <<>>
    <3> DEFINE h == Head(waiters)
    <3>1. granted' = granted \cup {h} /\ waiters' = Tail(waiters) /\ active' = active
      BY <1>2, <2>3 DEF SemRelease
    <3>2. h \in Waiting
      BY <2>3, HeadServed DEF SlotsInv
    <3>3. Owners' = (Owners \ {r}) \cup {h}
      BY <1>2, <2>1, <3>1, <3>2 DEF Owners
    <3> QED
      BY <2>1, <2>2, <2>3, <3>1, <3>3 DEF AbstractPool!Return
  <2>4. CASE waiters = <<>>
    <3>1. /\ waiters' = waiters /\ granted' = granted
          /\ Limit - active' = (Limit - active) + 1
      <4>1. active \in 0..Limit /\ Limit \in Nat /\ active = Cardinality(Owners)
            /\ IsFiniteSet(Owners)
        BY OwnersFinite, LimitAssumption DEF SlotsInv, TypeOK, SemInv, SlotsAccounted
      <4>2. active # 0
        BY <2>1, <4>1, FS_EmptySet
      <4> QED
        BY <1>2, <2>4, <4>1, <4>2 DEF SemRelease
    <3>2. Owners' = Owners \ {r}
      BY <1>2, <2>1, <3>1 DEF Owners
    <3> QED
      BY <2>1, <2>2, <2>4, <3>1, <3>2 DEF AbstractPool!Return
  <2> QED
    BY <2>3, <2>4
<1> QED
  BY <1>1, <1>2 DEF HolderRelease, holderVars

\* An attempt that arrives gets a slot only when nobody waits, by NoIdleSlot, and
\* waits only when all slots are owned.
LEMMA AcquireImplements ==
  ASSUME SlotsInv, NEW r \in Requests, Acquire(r)
  PROVE  AbstractPool!Grant(r) \/ AbstractPool!Wait(r) \/ PoolStutters
<1>1. /\ ~slot[r] /\ ~released[r] /\ r \notin Waiting /\ r \notin Owners
      /\ UNCHANGED holderVars
      /\ active \in 0..Limit /\ Limit \in Nat
      /\ waiters # <<>> => active = Limit
  BY LimitAssumption
  DEF Acquire, SlotsInv, TypeOK, StageInv, SemInv, Owners, NoIdleSlot
<1>2. AbstractPool!Fresh(r)
  BY <1>1 DEF AbstractPool!Fresh, Waiting
<1>3. CASE UNCHANGED semVars
  BY <1>1, <1>3 DEF PoolStutters, Owners, semVars, holderVars
<1>0. UNCHANGED {q \in Requests : released[q]}
  BY <1>1 DEF holderVars
<1>4. CASE /\ active < Limit /\ active' = active + 1
           /\ granted' = granted \cup {r} /\ UNCHANGED waiters
  <2>1. Owners' = Owners \cup {r}
    BY <1>1, <1>4 DEF Owners, holderVars
  <2>2. waiters = <<>> /\ Limit - active > 0 /\ Limit - active' = (Limit - active) - 1
    BY <1>1, <1>4
  <2>3. AbstractPool!Grant(r)
    BY <1>0, <1>2, <1>4, <2>1, <2>2 DEF AbstractPool!Grant
  <2> QED
    BY <2>3
<1>5. CASE active >= Limit /\ waiters' = Append(waiters, r) /\ UNCHANGED <<active, granted>>
  <2>1. Owners' = Owners
    BY <1>1, <1>5 DEF Owners, holderVars
  <2>2. Limit - active = 0
    BY <1>1, <1>5
  <2>3. AbstractPool!Wait(r)
    BY <1>0, <1>2, <1>5, <2>1, <2>2 DEF AbstractPool!Wait
  <2> QED
    BY <2>3
<1> QED
  BY <1>3, <1>4, <1>5 DEF Acquire, SemAcquire

LEMMA StepImplements ==
  ASSUME SlotsInv, [Next]_vars
  PROVE  [AbstractPool!Next]_(AbstractPool!poolVars)
<1>1. ASSUME PoolStutters PROVE [AbstractPool!Next]_(AbstractPool!poolVars)
  BY <1>1 DEF PoolStutters, AbstractPool!poolVars
<1>2. CASE UNCHANGED vars
  BY <1>1, <1>2 DEF PoolStutters, Owners, vars
<1>3. ASSUME NEW r \in Requests, Step(r)
      PROVE  [AbstractPool!Next]_(AbstractPool!poolVars)
  <2>1. CASE Acquire(r)
    BY <1>1, <2>1, AcquireImplements DEF AbstractPool!Next
  <2>2. CASE HolderRelease(r)
    BY <1>1, <2>2, ReleaseImplements DEF AbstractPool!Next
  <2>3. CASE UNCHANGED <<semVars, holderVars>>
    BY <1>1, <2>3 DEF PoolStutters, Owners, semVars, holderVars
  <2>4. CASE SlotAssigned(r)
    <3>1. /\ r \in granted /\ granted' = granted \ {r} /\ slot' = [slot EXCEPT ![r] = TRUE]
          /\ ~released[r] /\ UNCHANGED <<active, waiters, released>>
      BY <2>4 DEF SlotAssigned, SlotsInv, SemInv
    <3>2. Owners' = Owners
      BY <3>1 DEF Owners, SlotsInv, TypeOK
    <3> QED
      BY <1>1, <3>1, <3>2 DEF PoolStutters
  <2>5. CASE QueueTimeout(r)
    <3>1. UNCHANGED <<Owners, {q \in Requests : released[q]}>>
      BY <2>5 DEF QueueTimeout, Owners, holderVars
    <3>2. AbstractPool!GiveUp(r)
      BY <2>5, <3>1 DEF QueueTimeout, Without, AbstractPool!GiveUp
    <3> QED
      BY <3>2 DEF AbstractPool!Next
  <2> QED
    BY <1>3, <2>1, <2>2, <2>3, <2>4, <2>5, StepKinds
<1> QED
  BY <1>2, <1>3 DEF Next

\* The gate as a whole: for any number of attempts and any limit, whatever order
\* their callbacks run in, the attempts see a pool of Limit slots that are handed
\* over in the order of arrival, each taken and returned once.
THEOREM PoolRefinement == Spec => ImplementsPool
<1>1. Init => AbstractPool!Init
  BY LimitAssumption DEF Init, Flags, Owners, AbstractPool!Init
<1> QED
  BY <1>1, StepImplements, SlotsInvariant, PTL DEF Spec, ImplementsPool, AbstractPool!Spec
=============================================================================
