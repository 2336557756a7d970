------------------------------ MODULE EventFeed ------------------------------
(***************************************************************************)
(* What the event API promises a consumer, without queues, locks or        *)
(* wake-ups: every generation is one growing log, a consumer follows it    *)
(* from its position, and it misses events only when it falls more than    *)
(* EventLimit behind.                                                      *)
(***************************************************************************)
EXTENDS Naturals, Sequences

CONSTANTS Consumers, Generations, Events, EventLimit

VARIABLES log,       \* the events of every generation, in the order published
          position,  \* a consumer's generation and the last event it knows of
          inbox      \* the events a consumer was given

feedVars == <<log, position, inbox>>

\* The events of a generation that a consumer at position k may still be given.
Due(g, k) == {i \in 1..Len(log[g]) : i > k /\ i + EventLimit > Len(log[g])}

Init ==
    /\ log = [g \in Generations |-> <<>>]
    /\ position = [c \in Consumers |-> [gen |-> 0, after |-> 0]]
    /\ inbox = [c \in Consumers |-> {}]

Publish(g) ==
    /\ \E e \in Events : log' = [log EXCEPT ![g] = Append(@, e)]
    /\ UNCHANGED <<position, inbox>>

\* A consumer without a cursor joins at the live tail of a generation.
Join(c, g) ==
    /\ position[c].gen = 0
    /\ position' = [position EXCEPT ![c] = [gen |-> g, after |-> Len(log[g])]]
    /\ UNCHANGED <<log, inbox>>

\* A consumer is given all it has not seen, of its generation or, from its first
\* event on, of another one.
Take(c, g) ==
    LET k == IF position[c].gen = g THEN position[c].after ELSE 0 IN
    /\ position[c].gen # 0
    /\ position' = [position EXCEPT ![c] = [gen |-> g, after |-> Len(log[g])]]
    /\ inbox' = [inbox EXCEPT ![c] = @ \cup {<<g, i>> : i \in Due(g, k)}]
    /\ UNCHANGED log

Next == \E g \in Generations :
           Publish(g) \/ \E c \in Consumers : Join(c, g) \/ Take(c, g)

Spec == Init /\ [][Next]_feedVars
=============================================================================
