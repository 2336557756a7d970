---------------------------- MODULE MCPushEvents -----------------------------
(* Values for the checks of PushEvents.                                    *)
EXTENDS PushEvents, TLC

\* A ding, and two unlocks that are just close enough to be one: Dedupe is 2.
MCEvents == {[kind |-> "ding", at |-> 0]} \cup [kind : {"unlock"}, at : {0, 2}]

\* Enough to evict in the first generation, and news in the second.
MCMaxEvents == <<3, 1>>

\* Publishers are interchangeable.
MCSymmetry == Permutations(Publishers)
=============================================================================
