--------------------------- MODULE PushEventsProofs ---------------------------
(* Proofs about PushEvents, for any consumers, publishers, events, limit   *)
(* and bounds.                                                             *)
EXTENDS PushEvents, TLAPS

\* The eviction mark follows from the number of events.
QueueInv == \A g \in Generations : evicted[g] = Front(Len(log[g]))

\* A publisher that found a queue has one.
PubInv == \A p \in Publishers : ppc[p] # "idle" => pqueue[p] \in Generations

\* A consumer's cursor lies within its generation's log.
CursorInv ==
    \A c \in Consumers : position[c].gen # 0 =>
        position[c].after <= Len(log[position[c].gen])

Resumed == {"resumed", "checking", "arming", "waiting", "reading"}

\* A request goes on from its consumer's cursor, on a queue it holds, with a
\* receiver that is not ahead of the channel.
RequestInv ==
    \A c \in Consumers :
        /\ pc[c] # "idle" => handle[c] \in Generations
        /\ pc[c] \in Resumed =>
              /\ position[c].gen # 0
              /\ after[c] = IF position[c].gen = handle[c] THEN position[c].after ELSE 0
        /\ pc[c] \in {"checking", "arming", "waiting"} => seen[c] <= version[handle[c]]

\* NoLostWakeup in terms of the number of events.
WakeInv ==
    \A c \in Consumers :
        pc[c] \in {"arming", "waiting"} /\ Len(log[handle[c]]) > after[c] =>
           \/ version[handle[c]] > seen[c]
           \/ \E p \in Publishers : ppc[p] = "pushed" /\ pqueue[p] = handle[c]

Inv == TypeOK /\ QueueInv /\ PubInv /\ CursorInv /\ RequestInv

-----------------------------------------------------------------------------
\* The newest event of a queue is retained, so there is something to give exactly
\* when the log is longer than the cursor.
LEMMA NewestRetained ==
    ASSUME TypeOK, QueueInv, NEW g \in Generations, NEW k \in Nat
    PROVE  EventsAfter(g, k) # {} <=> Len(log[g]) > k
<1>1. Len(log[g]) \in Nat
    BY DEF TypeOK
<1>2. evicted[g] = IF Len(log[g]) > EventLimit THEN Len(log[g]) - EventLimit ELSE 0
    BY DEF QueueInv, Front
<1>3. ASSUME Len(log[g]) > k PROVE Len(log[g]) \in EventsAfter(g, k)
    BY <1>1, <1>2, <1>3, LimitAssumption DEF EventsAfter, Retained
<1> QED BY <1>1, <1>3 DEF EventsAfter, Retained

\* The initial states satisfy the invariant.
LEMMA InitInv == Init => Inv
<1> SUFFICES ASSUME Init PROVE Inv
    OBVIOUS
<1>1. \A g \in Generations : log[g] = <<>> /\ Len(log[g]) = 0
    BY DEF Init
<1>2. TypeOK
    BY BoundAssumption DEF Init, TypeOK, Generations, Cursor
<1>3. QueueInv
    BY <1>1, LimitAssumption DEF Init, QueueInv, Front
<1> QED BY <1>1, <1>2, <1>3 DEF Init, Inv, PubInv, CursorInv, RequestInv, Resumed

\* A push appends one event to one queue.
LEMMA PushGrows ==
    ASSUME TypeOK, NEW g \in Generations, NEW e \in Events,
           log' = [log EXCEPT ![g] = Append(@, e)]
    PROVE  /\ log' \in [Generations -> Seq(Events)]
           /\ Len(log'[g]) = Len(log[g]) + 1
           /\ \A h \in Generations : h # g => log'[h] = log[h]
           /\ \A i \in 1..Len(log[g]) : log'[g][i] = log[g][i]
           /\ log'[g][Len(log[g]) + 1] = e
<1>1. log \in [Generations -> Seq(Events)] /\ log[g] \in Seq(Events)
    BY DEF TypeOK
<1>2. log'[g] = Append(log[g], e) /\ \A h \in Generations : h # g => log'[h] = log[h]
    BY <1>1
<1>3. Append(log[g], e) \in Seq(Events) /\ Len(Append(log[g], e)) = Len(log[g]) + 1
    BY <1>1
<1>4. /\ \A i \in 1..Len(log[g]) : Append(log[g], e)[i] = log[g][i]
      /\ Append(log[g], e)[Len(log[g]) + 1] = e
    BY <1>1
<1>5. log' \in [Generations -> Seq(Events)]
    BY <1>1, <1>3
<1> QED BY <1>2, <1>3, <1>4, <1>5

\* Every step keeps the invariant.
LEMMA NextInv == Inv /\ [Next]_vars => Inv'
<1> SUFFICES ASSUME Inv, [Next]_vars PROVE Inv'
    OBVIOUS
<1> USE DEF queueVars, mapVars, pubVars, reqVars, userVars
<1>0. TypeOK /\ QueueInv /\ PubInv /\ CursorInv /\ RequestInv
    BY DEF Inv
<1>g. 0 \notin Generations /\ Generations \subseteq Nat
    BY BoundAssumption DEF Generations
<1>b. ASSUME born < MaxGenerations PROVE born + 1 \in Generations
    BY <1>0, <1>b, BoundAssumption DEF TypeOK, Generations
<1>a. /\ \A g \in Generations : Len(log[g]) \in Nat
      /\ \A c \in Consumers : position[c].gen \in Generations \cup {0} /\ position[c].after \in Nat
    BY <1>0 DEF TypeOK, Cursor
<1>1. CASE Include
  <2>1. TypeOK'
    BY <1>0, <1>g, <1>a, <1>b, <1>1 DEF Include, TypeOK
  <2>2. QueueInv' /\ PubInv'
    BY <1>0, <1>g, <1>a, <1>b, <1>1 DEF Include, TypeOK, QueueInv, PubInv
  <2>3. CursorInv'
    BY <1>0, <1>g, <1>a, <1>b, <1>1 DEF Include, TypeOK, CursorInv
  <2>4. RequestInv'
    BY <1>0, <1>g, <1>a, <1>b, <1>1 DEF Include, TypeOK, RequestInv, Resumed
  <2> QED BY <2>1, <2>2, <2>3, <2>4 DEF Inv
<1>2. CASE Restart
  <2>1. TypeOK'
    BY <1>0, <1>g, <1>a, <1>b, <1>2 DEF Restart, TypeOK
  <2>2. QueueInv' /\ PubInv'
    BY <1>0, <1>g, <1>a, <1>b, <1>2 DEF Restart, TypeOK, QueueInv, PubInv
  <2>3. CursorInv'
    BY <1>0, <1>g, <1>a, <1>b, <1>2 DEF Restart, TypeOK, CursorInv
  <2>4. RequestInv'
    BY <1>0, <1>g, <1>a, <1>b, <1>2 DEF Restart, TypeOK, RequestInv, Resumed
  <2> QED BY <2>1, <2>2, <2>3, <2>4 DEF Inv
<1>3. ASSUME NEW p \in Publishers, Lookup(p) PROVE Inv'
  <2>1. TypeOK'
    BY <1>0, <1>g, <1>a, <1>3 DEF Lookup, TypeOK
  <2>2. QueueInv' /\ PubInv'
    BY <1>0, <1>g, <1>a, <1>3 DEF Lookup, TypeOK, QueueInv, PubInv
  <2>3. CursorInv'
    BY <1>0, <1>g, <1>a, <1>3 DEF Lookup, TypeOK, CursorInv
  <2>4. RequestInv'
    BY <1>0, <1>g, <1>a, <1>3 DEF Lookup, TypeOK, RequestInv, Resumed
  <2> QED BY <2>1, <2>2, <2>3, <2>4 DEF Inv
<1>4. ASSUME NEW p \in Publishers, Push(p) PROVE Inv'
  <2>1. PICK e \in Events :
            LET g == pqueue[p] IN
            IF Repeated(g, e)
               THEN /\ ppc' = [ppc EXCEPT ![p] = "idle"]
                    /\ pqueue' = [pqueue EXCEPT ![p] = 0]
                    /\ UNCHANGED <<log, evicted, pseq>>
               ELSE /\ Len(log[g]) < MaxEvents[g]
                    /\ log' = [log EXCEPT ![g] = Append(@, e)]
                    /\ evicted' = [evicted EXCEPT ![g] = Front(Len(log[g]) + 1)]
                    /\ ppc' = [ppc EXCEPT ![p] = "pushed"]
                    /\ pseq' = [pseq EXCEPT ![p] = Len(log[g]) + 1]
                    /\ UNCHANGED pqueue
    BY <1>4 DEF Push
  <2>2. /\ ppc[p] = "found"
        /\ UNCHANGED <<version, value, current, born, pc, handle, after, seen, position, inbox>>
    BY <1>4 DEF Push
  <2>g. pqueue[p] \in Generations
    BY <1>0, <2>2 DEF PubInv
  <2>r. RequestInv'
    <3>1. UNCHANGED <<pc, handle, position, after, seen, version>>
        BY <2>2
    <3> QED BY <1>0, <3>1 DEF RequestInv
  <2>3. CASE Repeated(pqueue[p], e)
    <3>0. /\ ppc' = [ppc EXCEPT ![p] = "idle"]
          /\ pqueue' = [pqueue EXCEPT ![p] = 0]
          /\ UNCHANGED <<log, evicted, pseq>>
        BY <2>1, <2>3
    <3>1. TypeOK'
        BY <1>0, <2>2, <3>0 DEF TypeOK
    <3>2. QueueInv' /\ PubInv' /\ CursorInv'
        BY <1>0, <2>2, <3>0 DEF TypeOK, QueueInv, PubInv, CursorInv
    <3> QED BY <2>r, <3>1, <3>2 DEF Inv
  <2>4. CASE ~Repeated(pqueue[p], e)
    <3> DEFINE g == pqueue[p]
    <3>0. /\ log' = [log EXCEPT ![g] = Append(@, e)]
          /\ evicted' = [evicted EXCEPT ![g] = Front(Len(log[g]) + 1)]
          /\ ppc' = [ppc EXCEPT ![p] = "pushed"]
          /\ pseq' = [pseq EXCEPT ![p] = Len(log[g]) + 1]
          /\ UNCHANGED pqueue
        BY <2>1, <2>4
    <3>1. g \in Generations
        BY <2>g
    <3> HIDE DEF g
    <3>3. /\ log' \in [Generations -> Seq(Events)]
          /\ Len(log'[g]) = Len(log[g]) + 1
          /\ \A h \in Generations : h # g => log'[h] = log[h]
        BY <1>0, <3>0, <3>1, PushGrows
    <3>4. Front(Len(log[g]) + 1) \in Nat
        BY <1>a, <3>1, LimitAssumption DEF Front
    <3>5. TypeOK'
      <4>1. Len(log[g]) + 1 \in Nat
        BY <1>a, <3>1
      <4>2. /\ evicted' \in [Generations -> Nat]
            /\ ppc' \in [Publishers -> {"idle", "found", "pushed"}]
            /\ pseq' \in [Publishers -> Nat]
        BY <1>0, <3>0, <3>1, <3>4, <4>1 DEF TypeOK
      <4> QED BY <1>0, <2>2, <3>0, <3>3, <4>2 DEF TypeOK
    <3>6. QueueInv'
        BY <1>0, <3>0, <3>1, <3>3 DEF TypeOK, QueueInv
    <3>7. PubInv'
        BY <1>0, <2>g, <3>0 DEF TypeOK, PubInv
    <3>8. CursorInv'
      <4> SUFFICES ASSUME NEW c \in Consumers, position[c].gen # 0
                   PROVE  position[c].after <= Len(log'[position[c].gen])
        BY <2>2 DEF CursorInv
      <4>1. position[c].gen \in Generations /\ position[c].after <= Len(log[position[c].gen])
        BY <1>0, <1>a DEF CursorInv
      <4> QED BY <1>a, <3>1, <3>3, <4>1
    <3> QED BY <2>r, <3>5, <3>6, <3>7, <3>8 DEF Inv
  <2> QED BY <2>3, <2>4
<1>5. ASSUME NEW p \in Publishers, Notify(p) PROVE Inv'
  <2>0. pqueue[p] \in Generations
    BY <1>0, <1>5 DEF Notify, PubInv
  <2>1. TypeOK'
    <3>1. /\ version' \in [Generations -> Nat] /\ value' \in [Generations -> Nat]
          /\ ppc' \in [Publishers -> {"idle", "found", "pushed"}]
          /\ pqueue' \in [Publishers -> Generations \cup {0}]
          /\ pseq' \in [Publishers -> Nat]
      <4>1. pqueue[p] \in Generations /\ pseq[p] \in Nat /\ version[pqueue[p]] + 1 \in Nat
        BY <1>0, <2>0 DEF TypeOK
      <4>2. /\ version \in [Generations -> Nat] /\ value \in [Generations -> Nat]
            /\ ppc \in [Publishers -> {"idle", "found", "pushed"}]
            /\ pqueue \in [Publishers -> Generations \cup {0}]
            /\ pseq \in [Publishers -> Nat]
        BY <1>0 DEF TypeOK
      <4> QED BY <1>5, <4>1, <4>2 DEF Notify
    <3>2. UNCHANGED <<log, evicted, current, born, pc, handle, after, seen, position, inbox>>
        BY <1>5 DEF Notify
    <3> QED BY <1>0, <3>1, <3>2 DEF TypeOK
  <2>2. QueueInv' /\ PubInv'
    BY <1>0, <1>g, <1>a, <1>5, <2>0 DEF Notify, TypeOK, QueueInv, PubInv
  <2>3. CursorInv'
    BY <1>0, <1>g, <1>a, <1>5, <2>0 DEF Notify, TypeOK, CursorInv
  <2>4. RequestInv'
    <3>1. UNCHANGED <<pc, handle, position, after, seen>>
        BY <1>5 DEF Notify
    <3>2. \A g \in Generations : version[g] \in Nat /\ version'[g] \in Nat /\ version[g] <= version'[g]
        BY <1>0, <1>5, <2>0, SMTT(30) DEF Notify, TypeOK
    <3>3. \A c \in Consumers : seen[c] \in Nat
        BY <1>0 DEF TypeOK
    <3> QED BY <1>0, <3>1, <3>2, <3>3 DEF RequestInv, Resumed
  <2> QED BY <2>1, <2>2, <2>3, <2>4 DEF Inv
<1>6. ASSUME NEW c \in Consumers, Ask(c) PROVE Inv'
  <2>1. TypeOK'
    BY <1>0, <1>g, <1>a, <1>6 DEF Ask, Goto, TypeOK, RequestInv, Cursor
  <2>2. QueueInv' /\ PubInv'
    BY <1>0, <1>g, <1>a, <1>6 DEF Ask, Goto, TypeOK, QueueInv, PubInv
  <2>3. CursorInv'
    BY <1>0, <1>g, <1>a, <1>6 DEF Ask, Goto, TypeOK, CursorInv, RequestInv
  <2>4. RequestInv'
    BY <1>0, <1>g, <1>a, <1>6 DEF Ask, Goto, TypeOK, RequestInv, Resumed, CursorInv
  <2> QED BY <2>1, <2>2, <2>3, <2>4 DEF Inv
<1>7. ASSUME NEW c \in Consumers, Resume(c) PROVE Inv'
  <2>1. TypeOK'
    BY <1>0, <1>g, <1>a, <1>7 DEF Resume, CursorReset, Goto, TypeOK, RequestInv, Cursor
  <2>2. QueueInv' /\ PubInv'
    BY <1>0, <1>g, <1>a, <1>7 DEF Resume, CursorReset, Goto, TypeOK, QueueInv, PubInv
  <2>3. CursorInv'
    BY <1>0, <1>g, <1>a, <1>7 DEF Resume, CursorReset, Goto, TypeOK, CursorInv, RequestInv
  <2>4. RequestInv'
    BY <1>0, <1>g, <1>a, <1>7 DEF Resume, CursorReset, Goto, TypeOK, RequestInv, Resumed, CursorInv
  <2> QED BY <2>1, <2>2, <2>3, <2>4 DEF Inv
<1>8. ASSUME NEW c \in Consumers, LiveTail(c) PROVE Inv'
  <2>1. TypeOK'
    BY <1>0, <1>g, <1>a, <1>8 DEF LiveTail, Done, Goto, TypeOK, RequestInv, Cursor
  <2>2. QueueInv' /\ PubInv'
    BY <1>0, <1>g, <1>a, <1>8 DEF LiveTail, Done, Goto, TypeOK, QueueInv, PubInv
  <2>3. CursorInv'
    BY <1>0, <1>g, <1>a, <1>8 DEF LiveTail, Done, Goto, TypeOK, CursorInv, RequestInv
  <2>4. RequestInv'
    BY <1>0, <1>g, <1>a, <1>8 DEF LiveTail, Done, Goto, TypeOK, RequestInv, Resumed, CursorInv
  <2> QED BY <2>1, <2>2, <2>3, <2>4 DEF Inv
<1>9. ASSUME NEW c \in Consumers, Subscribe(c) PROVE Inv'
  <2>1. TypeOK'
    BY <1>0, <1>g, <1>a, <1>9 DEF Subscribe, Goto, TypeOK, RequestInv, Cursor
  <2>2. QueueInv' /\ PubInv'
    BY <1>0, <1>g, <1>a, <1>9 DEF Subscribe, Goto, TypeOK, QueueInv, PubInv
  <2>3. CursorInv'
    BY <1>0, <1>g, <1>a, <1>9 DEF Subscribe, Goto, TypeOK, CursorInv, RequestInv
  <2>4. RequestInv'
    <3>1. \A g \in Generations : version[g] \in Nat
        BY <1>0 DEF TypeOK
    <3>2. /\ pc[c] = "resumed"
          /\ pc' = [pc EXCEPT ![c] = IF value[handle[c]] > after[c] THEN "reading" ELSE "checking"]
          /\ seen' = [seen EXCEPT ![c] = version[handle[c]]]
          /\ UNCHANGED <<version, handle, after, position>>
        BY <1>9 DEF Subscribe, Goto
    <3>3. ASSUME NEW d \in Consumers, d # c
          PROVE  pc'[d] = pc[d] /\ seen'[d] = seen[d]
        BY <1>0, <3>2, <3>3 DEF TypeOK
    <3>4. pc'[c] \in {"reading", "checking"} /\ seen'[c] = version[handle[c]]
        BY <1>0, <3>2 DEF TypeOK
    <3>5. handle[c] \in Generations
        BY <1>0, <3>2 DEF RequestInv
    <3> QED BY <1>0, <3>1, <3>2, <3>3, <3>4, <3>5 DEF RequestInv, Resumed
  <2> QED BY <2>1, <2>2, <2>3, <2>4 DEF Inv
<1>10. ASSUME NEW c \in Consumers, Check(c) PROVE Inv'
  <2>1. TypeOK'
    BY <1>0, <1>g, <1>a, <1>10 DEF Check, Goto, TypeOK, RequestInv, Cursor
  <2>2. QueueInv' /\ PubInv'
    BY <1>0, <1>g, <1>a, <1>10 DEF Check, Goto, TypeOK, QueueInv, PubInv
  <2>3. CursorInv'
    BY <1>0, <1>g, <1>a, <1>10 DEF Check, Goto, TypeOK, CursorInv, RequestInv
  <2>4. RequestInv'
    BY <1>0, <1>g, <1>a, <1>10 DEF Check, Goto, TypeOK, RequestInv, Resumed, CursorInv
  <2> QED BY <2>1, <2>2, <2>3, <2>4 DEF Inv
<1>11. ASSUME NEW c \in Consumers, Arm(c) PROVE Inv'
  <2>1. TypeOK'
    BY <1>0, <1>g, <1>a, <1>11 DEF Arm, SeenAtWait, Goto, TypeOK, RequestInv, Cursor
  <2>2. QueueInv' /\ PubInv'
    BY <1>0, <1>g, <1>a, <1>11 DEF Arm, SeenAtWait, Goto, TypeOK, QueueInv, PubInv
  <2>3. CursorInv'
    BY <1>0, <1>g, <1>a, <1>11 DEF Arm, SeenAtWait, Goto, TypeOK, CursorInv, RequestInv
  <2>4. RequestInv'
    BY <1>0, <1>g, <1>a, <1>11 DEF Arm, SeenAtWait, Goto, TypeOK, RequestInv, Resumed, CursorInv
  <2> QED BY <2>1, <2>2, <2>3, <2>4 DEF Inv
<1>12. ASSUME NEW c \in Consumers, Wake(c) PROVE Inv'
  <2>1. TypeOK'
    BY <1>0, <1>g, <1>a, <1>12 DEF Wake, Goto, TypeOK, RequestInv, Cursor
  <2>2. QueueInv' /\ PubInv'
    BY <1>0, <1>g, <1>a, <1>12 DEF Wake, Goto, TypeOK, QueueInv, PubInv
  <2>3. CursorInv'
    BY <1>0, <1>g, <1>a, <1>12 DEF Wake, Goto, TypeOK, CursorInv, RequestInv
  <2>4. RequestInv'
    BY <1>0, <1>g, <1>a, <1>12 DEF Wake, Goto, TypeOK, RequestInv, Resumed, CursorInv
  <2> QED BY <2>1, <2>2, <2>3, <2>4 DEF Inv
<1>13. ASSUME NEW c \in Consumers, Timeout(c) PROVE Inv'
  <2>1. TypeOK'
    BY <1>0, <1>g, <1>a, <1>13 DEF Timeout, Goto, TypeOK, RequestInv, Cursor
  <2>2. QueueInv' /\ PubInv'
    BY <1>0, <1>g, <1>a, <1>13 DEF Timeout, Goto, TypeOK, QueueInv, PubInv
  <2>3. CursorInv'
    BY <1>0, <1>g, <1>a, <1>13 DEF Timeout, Goto, TypeOK, CursorInv, RequestInv
  <2>4. RequestInv'
    BY <1>0, <1>g, <1>a, <1>13 DEF Timeout, Goto, TypeOK, RequestInv, Resumed, CursorInv
  <2> QED BY <2>1, <2>2, <2>3, <2>4 DEF Inv
<1>14. ASSUME NEW c \in Consumers, Lose(c) PROVE Inv'
  <2>1. TypeOK'
    BY <1>0, <1>g, <1>a, <1>14 DEF Lose, Done, Goto, TypeOK, RequestInv, Cursor
  <2>2. QueueInv' /\ PubInv'
    BY <1>0, <1>g, <1>a, <1>14 DEF Lose, Done, Goto, TypeOK, QueueInv, PubInv
  <2>3. CursorInv'
    BY <1>0, <1>g, <1>a, <1>14 DEF Lose, Done, Goto, TypeOK, CursorInv, RequestInv
  <2>4. RequestInv'
    BY <1>0, <1>g, <1>a, <1>14 DEF Lose, Done, Goto, TypeOK, RequestInv, Resumed, CursorInv
  <2> QED BY <2>1, <2>2, <2>3, <2>4 DEF Inv
<1>15. ASSUME NEW c \in Consumers, Read(c) PROVE Inv'
  <2>1. /\ handle[c] \in Generations /\ pc[c] = "reading"
        /\ UNCHANGED <<queueVars, mapVars, pubVars>> /\ Done(c)
        /\ position' = [position EXCEPT ![c] = [gen |-> handle[c], after |-> NextSequence(c)]]
        /\ inbox' = [inbox EXCEPT ![c] = @ \cup
                        {<<handle[c], i>> : i \in EventsAfter(handle[c], after[c])}]
    BY <1>0, <1>15 DEF Read, RequestInv
  <2>2. after[c] <= Len(log[handle[c]]) /\ after[c] \in Nat
    <3>1. after[c] = IF position[c].gen = handle[c] THEN position[c].after ELSE 0
        BY <1>0, <2>1 DEF RequestInv, Resumed
    <3>2. position[c].gen # 0 => position[c].after <= Len(log[position[c].gen])
        BY <1>0 DEF CursorInv
    <3> QED BY <1>a, <1>g, <2>1, <3>1, <3>2
  <2>3. NextSequence(c) \in Nat /\ NextSequence(c) <= Len(log[handle[c]])
    BY <1>a, <2>1, <2>2 DEF NextSequence
  <2>4. {<<handle[c], i>> : i \in EventsAfter(handle[c], after[c])} \in SUBSET (Generations \X Nat)
    BY <1>a, <2>1 DEF EventsAfter, Retained
  <2>5. inbox' \in [Consumers -> SUBSET (Generations \X Nat)]
    BY <1>0, <2>1, <2>4 DEF TypeOK
  <2>6. TypeOK'
    BY <1>0, <2>1, <2>3, <2>5 DEF TypeOK, Cursor, Done, Goto
  <2>7. QueueInv' /\ PubInv'
    BY <1>0, <2>1 DEF QueueInv, PubInv
  <2>8. CursorInv' /\ RequestInv'
    BY <1>0, <1>a, <2>1, <2>3 DEF TypeOK, CursorInv, RequestInv, Done, Goto, Resumed
  <2> QED BY <2>6, <2>7, <2>8 DEF Inv
<1>16. CASE UNCHANGED vars
  <2>1. TypeOK'
    BY <1>0, <1>g, <1>a, <1>16 DEF vars, TypeOK
  <2>2. QueueInv' /\ PubInv'
    BY <1>0, <1>g, <1>a, <1>16 DEF vars, TypeOK, QueueInv, PubInv
  <2>3. CursorInv'
    BY <1>0, <1>g, <1>a, <1>16 DEF vars, TypeOK, CursorInv
  <2>4. RequestInv'
    BY <1>0, <1>g, <1>a, <1>16 DEF vars, TypeOK, RequestInv, Resumed
  <2> QED BY <2>1, <2>2, <2>3, <2>4 DEF Inv
<1> QED BY <1>1, <1>2, <1>3, <1>4, <1>5, <1>6, <1>7, <1>8, <1>9, <1>10, <1>11, <1>12, <1>13, <1>14, <1>15, <1>16 DEF Next

\* Every variable keeps its type, whatever the limits.
THEOREM TypeCorrect == Spec => []TypeOK
<1>1. Inv => TypeOK
    BY DEF Inv
<1> QED BY <1>1, InitInv, NextInv, PTL DEF Spec

-----------------------------------------------------------------------------
\* Every step keeps wake-ups accounted for.
LEMMA NextWake == Inv /\ WakeInv /\ [Next]_vars => WakeInv'
<1> SUFFICES ASSUME Inv, WakeInv, [Next]_vars,
                    NEW d \in Consumers, pc'[d] \in {"arming", "waiting"},
                    Len(log'[handle'[d]]) > after'[d]
             PROVE  \/ version'[handle'[d]] > seen'[d]
                    \/ \E p \in Publishers : ppc'[p] = "pushed" /\ pqueue'[p] = handle'[d]
    BY DEF WakeInv
<1> USE DEF queueVars, mapVars, pubVars, reqVars, userVars
<1>0. TypeOK /\ QueueInv /\ PubInv /\ RequestInv
    BY DEF Inv
<1>w. pc[d] \in {"arming", "waiting"} /\ Len(log[handle[d]]) > after[d] =>
           \/ version[handle[d]] > seen[d]
           \/ \E p \in Publishers : ppc[p] = "pushed" /\ pqueue[p] = handle[d]
    BY DEF WakeInv
<1>r. /\ pc[d] # "idle" => handle[d] \in Generations
      /\ pc[d] \in {"checking", "arming", "waiting"} => seen[d] <= version[handle[d]]
    BY <1>0 DEF RequestInv
<1>1. CASE Include
    BY <1>1, <1>w DEF Include
<1>2. CASE Restart
    BY <1>2 DEF Restart
<1>3. ASSUME NEW p \in Publishers, Lookup(p)
      PROVE  \/ version'[handle'[d]] > seen'[d]
             \/ \E q \in Publishers : ppc'[q] = "pushed" /\ pqueue'[q] = handle'[d]
    BY <1>0, <1>3, <1>w DEF Lookup, TypeOK
<1>4. ASSUME NEW p \in Publishers, Push(p)
      PROVE  \/ version'[handle'[d]] > seen'[d]
             \/ \E q \in Publishers : ppc'[q] = "pushed" /\ pqueue'[q] = handle'[d]
  <2>1. PICK e \in Events :
            LET g == pqueue[p] IN
            IF Repeated(g, e)
               THEN /\ ppc' = [ppc EXCEPT ![p] = "idle"]
                    /\ pqueue' = [pqueue EXCEPT ![p] = 0]
                    /\ UNCHANGED <<log, evicted, pseq>>
               ELSE /\ Len(log[g]) < MaxEvents[g]
                    /\ log' = [log EXCEPT ![g] = Append(@, e)]
                    /\ evicted' = [evicted EXCEPT ![g] = Front(Len(log[g]) + 1)]
                    /\ ppc' = [ppc EXCEPT ![p] = "pushed"]
                    /\ pseq' = [pseq EXCEPT ![p] = Len(log[g]) + 1]
                    /\ UNCHANGED pqueue
    BY <1>4 DEF Push
  <2>2. ppc[p] = "found" /\ UNCHANGED <<version, pc, handle, after, seen>>
    BY <1>4 DEF Push
  <2>3. CASE Repeated(pqueue[p], e)
    <3>1. /\ ppc' = [ppc EXCEPT ![p] = "idle"]
          /\ pqueue' = [pqueue EXCEPT ![p] = 0]
          /\ UNCHANGED log
        BY <2>1, <2>3
    <3> QED BY <1>0, <1>w, <2>2, <3>1 DEF TypeOK
  <2>4. CASE ~Repeated(pqueue[p], e)
    <3>1. /\ log' = [log EXCEPT ![pqueue[p]] = Append(@, e)]
          /\ ppc' = [ppc EXCEPT ![p] = "pushed"]
          /\ UNCHANGED pqueue
        BY <2>1, <2>4
    <3>2. CASE pqueue[p] = handle[d]
        BY <1>0, <2>2, <3>1, <3>2 DEF TypeOK
    <3>3. CASE pqueue[p] # handle[d]
      <4>1. log'[handle[d]] = log[handle[d]]
        BY <1>0, <1>r, <2>2, <3>1, <3>3 DEF TypeOK
      <4> QED BY <1>0, <1>w, <2>2, <3>1, <4>1 DEF TypeOK
    <3> QED BY <3>2, <3>3
  <2> QED BY <2>3, <2>4
<1>5. ASSUME NEW p \in Publishers, Notify(p)
      PROVE  \/ version'[handle'[d]] > seen'[d]
             \/ \E q \in Publishers : ppc'[q] = "pushed" /\ pqueue'[q] = handle'[d]
  <2>1. /\ ppc[p] = "pushed"
        /\ version' = [version EXCEPT ![pqueue[p]] = @ + 1]
        /\ ppc' = [ppc EXCEPT ![p] = "idle"] /\ pqueue' = [pqueue EXCEPT ![p] = 0]
        /\ UNCHANGED <<log, pc, handle, after, seen>>
    BY <1>5 DEF Notify
  <2>2. /\ handle[d] \in Generations /\ seen[d] <= version[handle[d]]
        /\ seen[d] \in Nat /\ version[handle[d]] \in Nat
    BY <1>0, <1>r, <2>1 DEF TypeOK
  <2>3. CASE pqueue[p] = handle[d]
    <3>1. version'[handle[d]] = version[handle[d]] + 1
        BY <1>0, <2>1, <2>2, <2>3 DEF TypeOK
    <3> QED BY <2>1, <2>2, <3>1
  <2>4. CASE pqueue[p] # handle[d]
    <3>1. version'[handle[d]] = version[handle[d]]
        BY <1>0, <2>1, <2>2, <2>4 DEF TypeOK
    <3>2. ASSUME NEW q \in Publishers, ppc[q] = "pushed", pqueue[q] = handle[d]
          PROVE  ppc'[q] = "pushed" /\ pqueue'[q] = handle[d]
        BY <1>0, <2>1, <2>4, <3>2 DEF TypeOK
    <3> QED BY <1>w, <2>1, <3>1, <3>2
  <2> QED BY <2>3, <2>4
<1>6. ASSUME NEW c \in Consumers,
             Ask(c) \/ Resume(c) \/ LiveTail(c) \/ Subscribe(c) \/ Wake(c) \/ Timeout(c)
                \/ Read(c) \/ Lose(c)
      PROVE  \/ version'[handle'[d]] > seen'[d]
             \/ \E q \in Publishers : ppc'[q] = "pushed" /\ pqueue'[q] = handle'[d]
  <2>1. UNCHANGED <<log, version, ppc, pqueue>>
    BY <1>6 DEF Ask, Resume, LiveTail, Subscribe, Wake, Timeout, Read, Lose
  <2>2. c # d
    BY <1>0, <1>6 DEF Ask, Resume, LiveTail, Subscribe, Wake, Timeout, Read, Lose, Done, Goto, TypeOK
  <2>3. pc'[d] = pc[d] /\ handle'[d] = handle[d] /\ after'[d] = after[d] /\ seen'[d] = seen[d]
    BY <1>0, <1>6, <2>2
       DEF Ask, Resume, LiveTail, Subscribe, Wake, Timeout, Read, Lose, Done, Goto, TypeOK
  <2> QED BY <1>w, <2>1, <2>3
<1>7. ASSUME NEW c \in Consumers, Check(c)
      PROVE  \/ version'[handle'[d]] > seen'[d]
             \/ \E q \in Publishers : ppc'[q] = "pushed" /\ pqueue'[q] = handle'[d]
  <2>1. UNCHANGED <<log, version, ppc, pqueue, handle, after, seen>>
    BY <1>7 DEF Check
  <2>2. CASE c = d
    <3>1. EventsAfter(handle[d], after[d]) = {} /\ pc[d] = "checking"
        BY <1>0, <1>7, <2>2 DEF Check, Goto, TypeOK
    <3>2. handle[d] \in Generations /\ after[d] \in Nat
        BY <1>0, <1>r, <3>1 DEF TypeOK
    <3> QED BY <1>0, <2>1, <3>1, <3>2, NewestRetained
  <2>3. CASE c # d
    <3>1. pc'[d] = pc[d]
        BY <1>0, <1>7, <2>3 DEF Check, Goto, TypeOK
    <3> QED BY <1>w, <2>1, <3>1
  <2> QED BY <2>2, <2>3
<1>8. ASSUME NEW c \in Consumers, Arm(c)
      PROVE  \/ version'[handle'[d]] > seen'[d]
             \/ \E q \in Publishers : ppc'[q] = "pushed" /\ pqueue'[q] = handle'[d]
  <2>1. UNCHANGED <<log, version, ppc, pqueue, handle, after>> /\ pc[c] = "arming"
    BY <1>8 DEF Arm
  <2>2. seen'[d] = seen[d] /\ pc[d] \in {"arming", "waiting"}
    BY <1>0, <1>8 DEF Arm, SeenAtWait, Goto, TypeOK
  <2> QED BY <1>w, <2>1, <2>2
<1>9. CASE UNCHANGED vars
    BY <1>9, <1>w DEF vars
<1> QED BY <1>1, <1>2, <1>3, <1>4, <1>5, <1>6, <1>7, <1>8, <1>9 DEF Next

\* No wake-up is lost: wait_after subscribes before it looks at the queue, and a
\* publisher sends to the channel after it pushed.
THEOREM WakeupsArrive == Spec => []NoLostWakeup
<1>1. Init => WakeInv
    BY DEF Init, WakeInv
<1>2. Inv /\ WakeInv => NoLostWakeup
  <2> SUFFICES ASSUME Inv, WakeInv, NEW c \in Consumers, pc[c] \in {"arming", "waiting"},
                      EventsAfter(handle[c], after[c]) # {}
               PROVE  \/ version[handle[c]] > seen[c]
                      \/ \E p \in Publishers : ppc[p] = "pushed" /\ pqueue[p] = handle[c]
    BY DEF NoLostWakeup
  <2>1. TypeOK /\ QueueInv /\ handle[c] \in Generations /\ after[c] \in Nat
    BY DEF Inv, RequestInv, TypeOK
  <2>2. Len(log[handle[c]]) > after[c]
    BY <2>1, NewestRetained
  <2> QED BY <2>2 DEF WakeInv
<1> QED BY <1>1, <1>2, InitInv, NextInv, NextWake, PTL DEF Spec

-----------------------------------------------------------------------------
\* A step that pushes nothing leaves every queue as it is.
LEMMA QueueSteps ==
    ASSUME [Next]_vars, \A p \in Publishers : ~Push(p)
    PROVE  UNCHANGED <<log, evicted>>
BY DEF Next, vars, queueVars, Include, Restart, Lookup, Notify, Ask, Resume, LiveTail, Subscribe,
       Check, Arm, Wake, Timeout, Read, Lose

\* A push adds an event to a queue that does not hold it, or changes nothing.
LEMMA PushStep ==
    ASSUME Inv, NEW p \in Publishers, Push(p)
    PROVE  \/ UNCHANGED <<log, evicted>>
           \/ \E g \in Generations, e \in Events :
                 /\ ~Repeated(g, e)
                 /\ log' = [log EXCEPT ![g] = Append(@, e)]
                 /\ evicted' = [evicted EXCEPT ![g] = Front(Len(log[g]) + 1)]
<1>1. pqueue[p] \in Generations
    BY DEF Inv, PubInv, Push
<1> QED BY <1>1 DEF Push

\* A queue never holds one unlock twice.
THEOREM UnlocksAreKeptOnce == Spec => []UnlockOnce
<1>1. Init => UnlockOnce
    BY DEF Init, UnlockOnce, Retained
<1>2. Inv /\ UnlockOnce /\ [Next]_vars => UnlockOnce'
  <2> SUFFICES ASSUME Inv, UnlockOnce, [Next]_vars PROVE UnlockOnce'
    OBVIOUS
  <2>1. CASE UNCHANGED <<log, evicted>>
    BY <2>1 DEF UnlockOnce, Retained
  <2>2. ASSUME NEW g \in Generations, NEW e \in Events, ~Repeated(g, e),
               log' = [log EXCEPT ![g] = Append(@, e)],
               evicted' = [evicted EXCEPT ![g] = Front(Len(log[g]) + 1)]
        PROVE  UnlockOnce'
    <3> DEFINE n == Len(log[g])
    <3>1. /\ TypeOK /\ n \in Nat /\ evicted[g] \in Nat /\ evicted[g] = Front(n)
          /\ \A i \in 1..n : log[g][i] \in Events
      <4>1. TypeOK /\ QueueInv
        BY DEF Inv
      <4>2. log[g] \in Seq(Events) /\ evicted[g] \in Nat
        BY <4>1 DEF TypeOK
      <4>3. n \in Nat /\ \A i \in 1..n : log[g][i] \in Events
        BY <4>2
      <4> QED BY <4>1, <4>2, <4>3 DEF QueueInv
    <3>2. /\ Len(log'[g]) = n + 1 /\ log'[g][n + 1] = e
          /\ \A h \in Generations : h # g => log'[h] = log[h]
          /\ \A i \in 1..n : log'[g][i] = log[g][i]
        BY <2>2, <3>1, PushGrows
    <3>3. /\ \A h \in Generations : h # g => evicted'[h] = evicted[h]
          /\ evicted'[g] \in Nat /\ evicted'[g] >= evicted[g]
        BY <2>2, <3>1, LimitAssumption DEF TypeOK, Front
    <3>4. \A h \in Generations : h # g => Retained(h)' = Retained(h)
        BY <3>2, <3>3 DEF Retained
    <3>5. \A i \in Retained(g)' : i = n + 1 \/ i \in Retained(g)
        BY <3>1, <3>2, <3>3 DEF Retained
    <3>6. ASSUME NEW i \in Retained(g)
          PROVE  i \in 1..n /\ log'[g][i] = log[g][i] /\ log[g][i] \in Events
        BY <3>1, <3>2 DEF Retained
    <3>7. ASSUME NEW i \in Retained(g), log[g][i].kind = "unlock", e.kind = "unlock"
          PROVE  log[g][i].at - e.at \notin -Dedupe..Dedupe /\ e.at - log[g][i].at \notin -Dedupe..Dedupe
      <4>1. log[g][i].at \in Int /\ e.at \in Int
        BY <3>6, EventAssumption
      <4>2. log[g][i].at - e.at \notin -Dedupe..Dedupe
        BY <2>2, <3>7 DEF Repeated
      <4> QED BY <4>1, <4>2, LimitAssumption
    <3>8. ASSUME NEW h \in Generations, NEW i \in Retained(h)', NEW j \in Retained(h)',
                 log'[h][i].kind = "unlock", log'[h][j].kind = "unlock",
                 log'[h][i].at - log'[h][j].at \in -Dedupe..Dedupe
          PROVE  i = j
      <4>1. CASE h # g
        BY <3>2, <3>4, <3>8, <4>1 DEF UnlockOnce
      <4>2. CASE h = g
        <5>1. i = n + 1 \/ i \in Retained(g)
            BY <3>5, <4>2
        <5>2. j = n + 1 \/ j \in Retained(g)
            BY <3>5, <4>2
        <5>3. CASE i \in Retained(g) /\ j \in Retained(g)
            BY <3>6, <3>8, <4>2, <5>3 DEF UnlockOnce
        <5>4. CASE i = n + 1 /\ j \in Retained(g)
            BY <3>2, <3>6, <3>7, <3>8, <4>2, <5>4
        <5>5. CASE j = n + 1 /\ i \in Retained(g)
            BY <3>2, <3>6, <3>7, <3>8, <4>2, <5>5
        <5> QED BY <5>1, <5>2, <5>3, <5>4, <5>5
      <4> QED BY <4>1, <4>2
    <3> QED BY <3>8 DEF UnlockOnce
  <2> QED BY <2>1, <2>2, QueueSteps, PushStep
<1> QED BY <1>1, <1>2, InitInv, NextInv, PTL DEF Spec

-----------------------------------------------------------------------------
\* Every step is a step of the feed or leaves it alone.
LEMMA FeedStep == Inv /\ [Next]_vars => [Feed!Next]_(Feed!feedVars)
<1> SUFFICES ASSUME Inv, [Next]_vars PROVE [Feed!Next]_(Feed!feedVars)
    OBVIOUS
<1> USE DEF queueVars, mapVars, pubVars, reqVars, userVars
<1>0. TypeOK /\ QueueInv /\ PubInv /\ CursorInv /\ RequestInv
    BY DEF Inv
<1>g. 0 \notin Generations
    BY BoundAssumption DEF Generations
<1>1. CASE Include \/ Restart
    BY <1>1 DEF Include, Restart, Feed!feedVars
<1>2. ASSUME NEW p \in Publishers, Lookup(p) \/ Notify(p) PROVE UNCHANGED Feed!feedVars
    BY <1>2 DEF Lookup, Notify, Feed!feedVars
<1>3. ASSUME NEW p \in Publishers, Push(p) PROVE [Feed!Next]_(Feed!feedVars)
  <2>1. UNCHANGED <<position, inbox>>
    BY <1>3 DEF Push
  <2>2. CASE UNCHANGED <<log, evicted>>
    BY <2>1, <2>2 DEF Feed!feedVars
  <2>3. ASSUME NEW g \in Generations, NEW e \in Events,
               log' = [log EXCEPT ![g] = Append(@, e)]
        PROVE  Feed!Next
    BY <2>1, <2>3 DEF Feed!Next, Feed!Publish
  <2> QED BY <1>3, <2>2, <2>3, PushStep
<1>4. ASSUME NEW c \in Consumers,
             Ask(c) \/ Resume(c) \/ Subscribe(c) \/ Check(c) \/ Arm(c) \/ Wake(c) \/ Timeout(c)
                \/ Lose(c)
      PROVE  UNCHANGED Feed!feedVars
    BY <1>4 DEF Ask, Resume, Subscribe, Check, Arm, Wake, Timeout, Lose, Feed!feedVars
<1>5. ASSUME NEW c \in Consumers, LiveTail(c) PROVE Feed!Next
  <2>1. handle[c] \in Generations
    BY <1>0, <1>5 DEF LiveTail, RequestInv
  <2>2. Feed!Join(c, handle[c])
    BY <1>5 DEF LiveTail, Feed!Join
  <2> QED BY <2>1, <2>2 DEF Feed!Next
<1>6. ASSUME NEW c \in Consumers, Read(c) PROVE Feed!Next
  <2> DEFINE g == handle[c]
             n == Len(log[g])
  <2>1. /\ pc[c] = "reading" /\ UNCHANGED log
        /\ position' = [position EXCEPT ![c] = [gen |-> g, after |-> NextSequence(c)]]
        /\ inbox' = [inbox EXCEPT ![c] = @ \cup {<<g, i>> : i \in EventsAfter(g, after[c])}]
    BY <1>6 DEF Read
  <2>2. /\ g \in Generations /\ position[c].gen # 0
        /\ after[c] = IF position[c].gen = g THEN position[c].after ELSE 0
    BY <1>0, <2>1 DEF RequestInv, Resumed
  <2>3. n \in Nat /\ after[c] \in Nat
    BY <1>0, <2>2 DEF TypeOK
  <2>4. after[c] <= n
    BY <1>0, <2>2, <2>3 DEF CursorInv
  <2>5. NextSequence(c) = n
    BY <1>0, <2>2, <2>3, <2>4, NewestRetained DEF NextSequence
  <2>6. EventsAfter(g, after[c]) = Feed!Due(g, after[c])
    <3>1. evicted[g] = IF n > EventLimit THEN n - EventLimit ELSE 0
        BY <1>0, <2>2 DEF QueueInv, Front
    <3>2. \A i \in 1..n : i > evicted[g] <=> i + EventLimit > n
        BY <2>3, <3>1, LimitAssumption
    <3>3. EventsAfter(g, after[c]) = {i \in 1..n : i > evicted[g] /\ i > after[c]}
        BY DEF EventsAfter, Retained
    <3>4. Feed!Due(g, after[c]) = {i \in 1..n : i > after[c] /\ i + EventLimit > n}
        BY DEF Feed!Due
    <3> HIDE DEF n, g
    <3> QED BY <3>2, <3>3, <3>4
  <2>7. Feed!Take(c, g)
    BY <2>1, <2>2, <2>5, <2>6 DEF Feed!Take
  <2> QED BY <2>2, <2>7 DEF Feed!Next
<1>7. CASE UNCHANGED vars
    BY <1>7 DEF vars, Feed!feedVars
<1> QED BY <1>1, <1>2, <1>3, <1>4, <1>5, <1>6, <1>7 DEF Next

\* The queues, their locks and wake-ups implement the feed: a consumer that hands
\* its cursor back is given every event, except those it fell EventLimit behind.
THEOREM ImplementsFeed == Spec => FeedSpec
<1>1. Init => Feed!Init
    BY DEF Init, Feed!Init
<1> QED BY <1>1, InitInv, NextInv, FeedStep, PTL DEF Spec, FeedSpec, Feed!Spec
=============================================================================
