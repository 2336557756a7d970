----------------------------- MODULE PushEvents ------------------------------
(***************************************************************************)
(* The event queue of one Intercom: its place in the queue map             *)
(* (ring_push_queues.rs), the tasks that publish from push and from        *)
(* history (ring_push_dispatch.rs), the bounded queue with its watch       *)
(* channel (ring_push_event.rs) and the long-poll handler                  *)
(* (ring_push_api.rs) with the consumers that hand its cursor back.        *)
(*                                                                         *)
(* A queue is named by its generation.  push_back and pop_front keep the   *)
(* retained events contiguous, so a queue is the log of all it was given   *)
(* and the number of events it has evicted; the sequence number of an      *)
(* event is its place in the log.  One step is the code between two locks  *)
(* or awaits.                                                              *)
(***************************************************************************)
EXTENDS Integers, Sequences

CONSTANTS Consumers,       \* API clients, each with one request at a time
          Publishers,      \* tasks that publish: the push worker, the unlock watch
          Events,          \* what may be published: a kind and a time in seconds
          EventLimit,      \* EVENT_LIMIT
          Dedupe,          \* UNLOCK_DEDUPE_SECONDS
          MaxEvents,       \* bound: events the queue of each generation is given
          MaxGenerations   \* bound: queues built for the device

Generations == 1..MaxGenerations

\* What a consumer sends back: a generation, or none yet, and a sequence number.
Cursor == [gen : Generations \cup {0}, after : Nat]

ASSUME EventAssumption == Events \subseteq [kind : {"ding", "unlock"}, at : Int]
ASSUME LimitAssumption == EventLimit \in Nat \ {0} /\ Dedupe \in Nat
ASSUME BoundAssumption == /\ MaxGenerations \in Nat \ {0}
                          /\ MaxEvents \in [Generations -> Nat]

VARIABLES
    current,   \* the queue the map leads to, or 0
    born,      \* queues built so far
    log,       \* all events a queue was given
    evicted,   \* number of events a queue has dropped at its front
    version,   \* number of times a queue's watch channel was sent to
    value,     \* the sequence number in the watch channel
    ppc, pqueue, pseq,        \* publisher: where it is, its queue, its event's number
    pc, handle, after, seen,  \* request: where it is, its queue, its cursor, the
                              \*   version its receiver has seen
    position,  \* the cursor a consumer holds: generation and sequence, or no generation
    inbox      \* history: the events a consumer was given

queueVars == <<log, evicted, version, value>>
mapVars   == <<current, born>>
pubVars   == <<ppc, pqueue, pseq>>
reqVars   == <<pc, handle, after, seen>>
userVars  == <<position, inbox>>
vars == <<queueVars, mapVars, pubVars, reqVars, userVars>>

Init ==
    /\ current = 1 /\ born = 1
    /\ log = [g \in Generations |-> <<>>]
    /\ evicted = [g \in Generations |-> 0]
    /\ version = [g \in Generations |-> 0]
    /\ value = [g \in Generations |-> 0]
    /\ ppc = [p \in Publishers |-> "idle"]
    /\ pqueue = [p \in Publishers |-> 0]
    /\ pseq = [p \in Publishers |-> 0]
    /\ pc = [c \in Consumers |-> "idle"]
    /\ handle = [c \in Consumers |-> 0]
    /\ after = [c \in Consumers |-> 0]
    /\ seen = [c \in Consumers |-> 0]
    /\ position = [c \in Consumers |-> [gen |-> 0, after |-> 0]]
    /\ inbox = [c \in Consumers |-> {}]

\* Sequence numbers of the events still in a queue.
Retained(g) == {i \in 1..Len(log[g]) : i > evicted[g]}

-----------------------------------------------------------------------------
(* The map.                                                                *)

\* RingPushQueues::include: a device that is not listed loses its queue, one that
\* is new gets another; tasks that hold the old one keep it.
Include ==
    /\ \/ current # 0 /\ current' = 0 /\ UNCHANGED born
       \/ current = 0 /\ born < MaxGenerations /\ born' = born + 1 /\ current' = born + 1
    /\ UNCHANGED <<queueVars, pubVars, reqVars, userVars>>

\* The process is started again: every queue and every request is gone, the
\* consumers' cursors are not.
Restart ==
    /\ born < MaxGenerations
    /\ born' = born + 1 /\ current' = born + 1
    /\ ppc' = [p \in Publishers |-> "idle"]
    /\ pqueue' = [p \in Publishers |-> 0]
    /\ pseq' = [p \in Publishers |-> 0]
    /\ pc' = [c \in Consumers |-> "idle"]
    /\ handle' = [c \in Consumers |-> 0]
    /\ after' = [c \in Consumers |-> 0]
    /\ seen' = [c \in Consumers |-> 0]
    /\ UNCHANGED <<queueVars, userVars>>

-----------------------------------------------------------------------------
(* Publishing.                                                             *)

\* RingPushService::publish looks the queue up.
Lookup(p) ==
    /\ ppc[p] = "idle" /\ current # 0
    /\ ppc' = [ppc EXCEPT ![p] = "found"]
    /\ pqueue' = [pqueue EXCEPT ![p] = current]
    /\ UNCHANGED <<queueVars, mapVars, pseq, reqVars, userVars>>

\* Mutation: unlocks exactly Dedupe seconds apart count as two.
RepeatedStrictly(g, e) ==
    /\ e.kind = "unlock"
    /\ \E i \in Retained(g) :
          log[g][i].kind = "unlock" /\ log[g][i].at - e.at \in (1 - Dedupe)..(Dedupe - 1)

\* The same unlock is in the queue already.
Repeated(g, e) ==
    /\ e.kind = "unlock"
    /\ \E i \in Retained(g) :
          log[g][i].kind = "unlock" /\ log[g][i].at - e.at \in -Dedupe..Dedupe

\* pop_front until no more than EventLimit of n events are left.
Front(n) == IF n > EventLimit THEN n - EventLimit ELSE 0

\* publish_detailed under the queue's lock; a repeated unlock is dropped.
Push(p) ==
    /\ ppc[p] = "found"
    /\ \E e \in Events :
          LET g == pqueue[p] IN
          IF Repeated(g, e)
             THEN /\ ppc' = [ppc EXCEPT ![p] = "idle"]
                  /\ pqueue' = [pqueue EXCEPT ![p] = 0]
                  /\ UNCHANGED <<log, evicted, pseq>>
             ELSE /\ Len(log[g]) < MaxEvents[g]
                  /\ log' = [log EXCEPT ![g] = Append(@, e)]
                  /\ evicted' = [evicted EXCEPT ![g] = Front(Len(log[g]) + 1)]
                  /\ ppc' = [ppc EXCEPT ![p] = "pushed"]
                  /\ pseq' = [pseq EXCEPT ![p] = Len(log[g]) + 1]
                  /\ UNCHANGED pqueue
    /\ UNCHANGED <<version, value, mapVars, reqVars, userVars>>

\* changed.send_replace, after the lock was dropped: two publishers may send
\* their sequence numbers in the other order.
Notify(p) ==
    /\ ppc[p] = "pushed"
    /\ version' = [version EXCEPT ![pqueue[p]] = @ + 1]
    /\ value' = [value EXCEPT ![pqueue[p]] = pseq[p]]
    /\ ppc' = [ppc EXCEPT ![p] = "idle"]
    /\ pqueue' = [pqueue EXCEPT ![p] = 0]
    /\ pseq' = [pseq EXCEPT ![p] = 0]
    /\ UNCHANGED <<log, evicted, mapVars, reqVars, userVars>>

-----------------------------------------------------------------------------
(* The long poll.                                                          *)

Goto(c, point) == pc' = [pc EXCEPT ![c] = point]

\* The request ends, well or badly.
Done(c) ==
    /\ Goto(c, "idle")
    /\ handle' = [handle EXCEPT ![c] = 0]
    /\ after' = [after EXCEPT ![c] = 0]
    /\ seen' = [seen EXCEPT ![c] = 0]

\* GET events: the handler takes the device's queue.
Ask(c) ==
    /\ pc[c] = "idle" /\ current # 0
    /\ Goto(c, "asked")
    /\ handle' = [handle EXCEPT ![c] = current]
    /\ UNCHANGED <<queueVars, mapVars, pubVars, after, seen, userVars>>

\* Mutation: the generation is not compared.
CursorResetByNumber(c) == position[c].after > Len(log[handle[c]])

\* cursor_reset: another generation, or a cursor beyond the queue's last event.
CursorReset(c) ==
    \/ position[c].gen # handle[c]
    \/ position[c].after > Len(log[handle[c]])

\* latest_sequence; a consumer with a cursor goes on from it or from zero.
Resume(c) ==
    /\ pc[c] = "asked" /\ position[c].gen # 0
    /\ after' = [after EXCEPT ![c] = IF CursorReset(c) THEN 0 ELSE position[c].after]
    /\ Goto(c, "resumed")
    /\ UNCHANGED <<queueVars, mapVars, pubVars, handle, seen, userVars>>

\* A consumer without one learns the sequence number of the live tail.
LiveTail(c) ==
    /\ pc[c] = "asked" /\ position[c].gen = 0
    /\ position' = [position EXCEPT ![c] = [gen |-> handle[c], after |-> Len(log[handle[c]])]]
    /\ Done(c)
    /\ UNCHANGED <<queueVars, mapVars, pubVars, inbox>>

\* wait_after: subscribe, then compare the channel's value with the cursor.
Subscribe(c) ==
    /\ pc[c] = "resumed"
    /\ seen' = [seen EXCEPT ![c] = version[handle[c]]]
    /\ Goto(c, IF value[handle[c]] > after[c] THEN "reading" ELSE "checking")
    /\ UNCHANGED <<queueVars, mapVars, pubVars, handle, after, userVars>>

\* events_after: the retained events a cursor has not seen.
EventsAfter(g, k) == {i \in Retained(g) : i > k}

\* wait_after: nothing to give yet, and the request wants to wait, or not.
Check(c) ==
    /\ pc[c] = "checking"
    /\ \/ EventsAfter(handle[c], after[c]) = {} /\ Goto(c, "arming")
       \/ Goto(c, "reading")
    /\ UNCHANGED <<queueVars, mapVars, pubVars, handle, after, seen, userVars>>

\* Mutation: the receiver is subscribed only now.
SeenAtWaitLate(c) == version[handle[c]]

\* The version the receiver compares with when it starts to wait.
SeenAtWait(c) == seen[c]

\* receiver.changed() is polled for the first time.
Arm(c) ==
    /\ pc[c] = "arming"
    /\ seen' = [seen EXCEPT ![c] = SeenAtWait(c)]
    /\ Goto(c, "waiting")
    /\ UNCHANGED <<queueVars, mapVars, pubVars, handle, after, userVars>>

\* The channel was sent to since the subscription.
Wake(c) ==
    /\ pc[c] = "waiting" /\ version[handle[c]] > seen[c]
    /\ Goto(c, "reading")
    /\ UNCHANGED <<queueVars, mapVars, pubVars, handle, after, seen, userVars>>

\* The request's wait, of at most 30 seconds, is over.
Timeout(c) ==
    /\ pc[c] = "waiting"
    /\ Goto(c, "reading")
    /\ UNCHANGED <<queueVars, mapVars, pubVars, handle, after, seen, userVars>>

\* next_sequence: the last event given, or the cursor as it was.
NextSequence(c) ==
    IF EventsAfter(handle[c], after[c]) = {} THEN after[c] ELSE Len(log[handle[c]])

\* The last events_after; the answer reaches the consumer.
Read(c) ==
    /\ pc[c] = "reading"
    /\ inbox' = [inbox EXCEPT ![c] = @ \cup
                    {<<handle[c], i>> : i \in EventsAfter(handle[c], after[c])}]
    /\ position' = [position EXCEPT ![c] = [gen |-> handle[c], after |-> NextSequence(c)]]
    /\ Done(c)
    /\ UNCHANGED <<queueVars, mapVars, pubVars>>

\* The connection breaks: no answer, and the consumer keeps its cursor.
Lose(c) ==
    /\ pc[c] # "idle"
    /\ Done(c)
    /\ UNCHANGED <<queueVars, mapVars, pubVars, userVars>>

-----------------------------------------------------------------------------
Next ==
    \/ Include \/ Restart
    \/ \E p \in Publishers : Lookup(p) \/ Push(p) \/ Notify(p)
    \/ \E c \in Consumers :
          \/ Ask(c) \/ Resume(c) \/ LiveTail(c) \/ Subscribe(c) \/ Check(c) \/ Arm(c)
          \/ Wake(c) \/ Timeout(c) \/ Read(c) \/ Lose(c)

Spec == Init /\ [][Next]_vars

-----------------------------------------------------------------------------
(* Properties.                                                             *)

\* Every variable keeps its type.
TypeOK ==
    /\ current \in Generations \cup {0} /\ born \in Generations
    /\ log \in [Generations -> Seq(Events)]
    /\ evicted \in [Generations -> Nat]
    /\ version \in [Generations -> Nat] /\ value \in [Generations -> Nat]
    /\ ppc \in [Publishers -> {"idle", "found", "pushed"}]
    /\ pqueue \in [Publishers -> Generations \cup {0}]
    /\ pseq \in [Publishers -> Nat]
    /\ pc \in [Consumers -> {"idle", "asked", "resumed", "checking", "arming",
                             "waiting", "reading"}]
    /\ handle \in [Consumers -> Generations \cup {0}]
    /\ after \in [Consumers -> Nat] /\ seen \in [Consumers -> Nat]
    /\ position \in [Consumers -> Cursor]
    /\ inbox \in [Consumers -> SUBSET (Generations \X Nat)]

\* The abstract feed, with the queue's log as its log.
Feed == INSTANCE EventFeed WITH log <- log, position <- position, inbox <- inbox

\* What the cursor promises, whatever publishers, evictions, rebuilt queues,
\* restarts and lost answers come between: a consumer is given every event of a
\* generation in turn, except those it fell more than EventLimit behind.
FeedSpec == Feed!Spec

\* wait_after subscribes before it looks: a request that waits although there is
\* something to give has its wake-up in the channel or in a publisher's hands.
NoLostWakeup ==
    \A c \in Consumers :
        /\ pc[c] \in {"arming", "waiting"}
        /\ EventsAfter(handle[c], after[c]) # {}
        => \/ version[handle[c]] > seen[c]
           \/ \E p \in Publishers : ppc[p] = "pushed" /\ pqueue[p] = handle[c]

\* "Push and history can both report one unlock": a queue never holds it twice,
\* although the two tasks publish concurrently.
UnlockOnce ==
    \A g \in Generations : \A i, j \in Retained(g) :
        /\ log[g][i].kind = "unlock" /\ log[g][j].kind = "unlock"
        /\ log[g][i].at - log[g][j].at \in -Dedupe..Dedupe
        => i = j

=============================================================================
