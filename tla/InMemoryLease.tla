---------------------------- MODULE InMemoryLease ----------------------------
(* The reference backend of the Lease interface                              *)
(* (src/src/coordination/leases/InMemoryLease.ts): one record in a store     *)
(* shared by all owners, and one lease object per owner with its held flag   *)
(* and its own copy of the deadline.  A deadline is the time left until it,  *)
(* so that no clock grows: 0 is "at or past the deadline".                   *)
EXTENDS Naturals

CONSTANTS
    Owner,      \* the owner identities; each has one lease object
    Ttl,        \* ttlMs, in ticks
    NoLease     \* the store has no record of that name

VARIABLES
    store,      \* InMemoryLeaseStore.leases: the record, [owner, left], or NoLease
    held,       \* InMemoryLease.held
    left        \* InMemoryLease.expiresAt, as the time left

leaseVars == <<store, held, left>>

LeaseTypeOK ==
    /\ store \in [owner : Owner, left : 0..Ttl] \cup {NoLease}
    /\ held \in [Owner -> BOOLEAN]
    /\ left \in [Owner -> 0..Ttl]

Init ==
    /\ store = NoLease
    /\ held = [o \in Owner |-> FALSE]
    /\ left = [o \in Owner |-> 0]

CheckAlive(o) == held[o] /\ left[o] > 0

-----------------------------------------------------------------------------

\* Mutant: the record counts as expired one tick early.
AcquirableTickEarly(o) == store # NoLease /\ store.owner # o => store.left <= 1

\* tryAcquire: refused only by the unexpired record of another owner.
Acquirable(o) == store # NoLease /\ store.owner # o => store.left = 0

Acquire(o) ==
    /\ Acquirable(o)
    /\ store' = [owner |-> o, left |-> Ttl]
    /\ held' = [held EXCEPT ![o] = TRUE]
    /\ left' = [left EXCEPT ![o] = Ttl]

\* The store deletes the record only if this owner's name is on it.
Release(o) ==
    /\ held[o]
    /\ held' = [held EXCEPT ![o] = FALSE]
    /\ store' = IF store # NoLease /\ store.owner = o THEN NoLease ELSE store
    /\ UNCHANGED left

\* A renewal tick that extends the lease: before its own deadline, and while
\* the store's record is this owner's and has not expired.
CanRenew(o) ==
    /\ left[o] > 0
    /\ store # NoLease
    /\ store.owner = o
    /\ store.left > 0

Renew(o) ==
    /\ held[o]
    /\ CanRenew(o)
    /\ store' = [store EXCEPT !.left = Ttl]
    /\ left' = [left EXCEPT ![o] = Ttl]
    /\ UNCHANGED held

\* A renewal tick that finds the lease gone.  The onLost handlers run.
Lose(o) ==
    /\ held[o]
    /\ ~CanRenew(o)
    /\ held' = [held EXCEPT ![o] = FALSE]
    /\ UNCHANGED <<store, left>>

\* Time passes for the store and for every lease object alike.
Tick ==
    /\ store' = IF store # NoLease /\ store.left > 0
                THEN [store EXCEPT !.left = @ - 1] ELSE store
    /\ left' = [o \in Owner |-> IF left[o] > 0 THEN left[o] - 1 ELSE 0]
    /\ UNCHANGED held

Next == Tick \/ \E o \in Owner : Acquire(o) \/ Release(o) \/ Renew(o) \/ Lose(o)

Spec == Init /\ [][Next]_leaseVars

-----------------------------------------------------------------------------

Contract == INSTANCE LeaseContract WITH holders <- {o \in Owner : CheckAlive(o)}

\* The in-memory lease implements the contract: checkAlive() never answers true
\* for two owners, and never passes from one to the other without a moment at
\* which nobody holds.
ContractHolds == Contract!Spec
=============================================================================
