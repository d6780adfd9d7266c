---------------------------- MODULE LeaseContract ----------------------------
(* What the Lease interface (src/src/coordination/Lease.ts) promises, with   *)
(* no backend behind it: "a lease is owned by a single holder for a bounded  *)
(* duration".  holders is the set of owners whose checkAlive() answers true. *)
(* Ownership is taken only from nobody or from oneself, and it ends by a     *)
(* release, by a loss or by the end of its time; it never moves from one     *)
(* holder to another in one step.                                            *)
CONSTANT Owner

VARIABLE holders

Init == holders = {}

\* acquire() resolves true.
Acquire(o) ==
    /\ holders \subseteq {o}
    /\ holders' = {o}

\* release(), a loss reported by onLost, or a deadline that passed.
Drop == holders # {} /\ holders' = {}

Next == Drop \/ \E o \in Owner : Acquire(o)

Spec == Init /\ [][Next]_holders
=============================================================================
