------------------------------- MODULE Lease -------------------------------
(***************************************************************************)
(* What the gateway expects of its distributed mutex (acquireLock and      *)
(* releaseLock of src/lib/cache/client.js): a lease that one client at a   *)
(* time is granted, that ends when its client returns it or when its TTL   *)
(* runs out, and that only a client whose TTL ran out may share.           *)
(***************************************************************************)
CONSTANTS
  Clients,
  NoClient   \* nobody, not one of the clients

VARIABLES
  owner,    \* the client the lease was granted to, or NoClient
  inside,   \* the clients that act as holders of the lease
  late      \* the clients whose lease ran out before they returned it

leaseVars == <<owner, inside, late>>

Init == owner = NoClient /\ inside = {} /\ late = {}

Grant(c) ==
  /\ owner = NoClient /\ c \notin inside
  /\ owner' = c
  /\ UNCHANGED <<inside, late>>

\* The answer of a grant may reach the client after its TTL.
Enter(c) ==
  /\ c \notin inside
  /\ owner = c \/ c \in late
  /\ inside' = inside \cup {c}
  /\ UNCHANGED <<owner, late>>

\* A client gives back the lease it was granted, whether it acted on it or not.
Return(c) ==
  /\ owner = c
  /\ owner' = NoClient
  /\ inside' = inside \ {c}
  /\ UNCHANGED late

\* Clients stop without giving anything back: a lost return, a crash, or a
\* lease that ran out long ago.  What is left of it ends with its TTL.
Abandon(S) ==
  /\ inside' = inside \ S
  /\ UNCHANGED <<owner, late>>

Expire ==
  /\ owner # NoClient
  /\ owner' = NoClient
  /\ late' = late \cup {owner}
  /\ UNCHANGED inside

Next ==
  \/ \E c \in Clients : Grant(c) \/ Enter(c) \/ Return(c)
  \/ \E S \in SUBSET inside : Abandon(S)
  \/ Expire

Spec == Init /\ [][Next]_leaseVars

\* Two clients act on the lease together only if one of them outlived its TTL.
Exclusion == \A c, d \in inside \ late : c = d
=============================================================================
