---------------------------- MODULE MCRingAccount ----------------------------
(* Model values and symmetry for the checks of RingAccount.                *)
EXTENDS RingAccount

\* Every await point but the second critical section of a start that has stored
\* a session: that mutex is free unless a cancel is looking at the state.
MCDropPoints == {"queued", "granted", "locking", "held", "refresh", "register",
                 "request", "password", "challenged", "failed", "otp"}

\* Tasks are interchangeable, and so are client identities.
MCSymmetry == Permutations(Procs) \cup Permutations(Clients)
=============================================================================
