---------------------------- MODULE MCHistoryWatch ---------------------------
(* Values for the checks of HistoryWatch.                                  *)
EXTENDS HistoryWatch

Rec(n, d, k, t) == [id |-> n, dev |-> d, kind |-> k, at |-> t]

CONSTANTS a, b

\* Two rings at the only Intercom; two unlocks at it, the older one still within
\* LATE_TOLERANCE of the newer one, or past it; an unlock at one of two Intercoms.
MCWorlds == {[devices |-> {a}, records |-> {Rec(1, a, "ding", 0), Rec(2, a, "ding", 1)}],
             [devices |-> {a}, records |-> {Rec(3, a, "unlock", 1), Rec(4, a, "unlock", 2)}],
             [devices |-> {a}, records |-> {Rec(5, a, "unlock", 0), Rec(4, a, "unlock", 2)}],
             [devices |-> {a, b}, records |-> {Rec(3, a, "unlock", 1)}]}
=============================================================================
