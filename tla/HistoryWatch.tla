---------------------------- MODULE HistoryWatch -----------------------------
(***************************************************************************)
(* The two ways in which the bridge hears of rings and unlocks: the push   *)
(* worker (ring_push_session.rs, ring_push_dispatch.rs) and the task that  *)
(* polls Ring's event history (ring_unlock_watch.rs) with its cursor for   *)
(* unlocks and its watchdog for rings that push never delivered            *)
(* (ring_ding_watch.rs, ring_ding_watchdog.rs).                            *)
(*                                                                         *)
(* What happens at the doors is a set of records, each with its Intercom,  *)
(* its kind and its second.  Ring indexes a record in the history and      *)
(* hands it to the push service, each sooner, later or never.  A step is   *)
(* the code between two awaits; a publication goes to the queue of the     *)
(* Intercom and that of the alias in one step.  The queue itself, its      *)
(* watch channel and its readers are module PushEvents.                    *)
(***************************************************************************)
EXTENDS Integers, FiniteSets, FiniteSetsExt

CONSTANTS Worlds,        \* accounts and what may happen there: sets devices of
                         \*   Ring ids and records of [id, dev, kind, at]
          Alias,         \* key of the unbound alias' queue (None)
          Poll,          \* POLL_SECONDS
          MaxReplay,     \* MAX_REPLAY
          Late,          \* LATE_TOLERANCE
          PageLimit,     \* PAGE_LIMIT
          Dedupe,        \* UNLOCK_DEDUPE_SECONDS
          MatchWindow,   \* MATCH_WINDOW
          Grace,         \* GRACE
          UnprovenGrace, \* UNPROVEN_GRACE
          ObserveMaxAge, \* OBSERVE_MAX_AGE
          Retention,     \* RETENTION
          MemoryLimit,   \* MEMORY_LIMIT
          MaxClock,      \* bound: the clock stops here
          MaxFaults      \* bound: restarts and changes of the queue map

AllDevices == UNION {w.devices : w \in Worlds}
Records == UNION {w.records : w \in Worlds}
Routes == AllDevices \cup {Alias}
Never == -1

ASSUME RecordAssumption ==
    /\ \A w \in Worlds : \A r \in w.records :
        r.dev \in w.devices /\ r.kind \in {"ding", "unlock"} /\ r.at \in Nat
    /\ \A w \in Worlds : IsFiniteSet(w.records)
    /\ Alias \notin AllDevices
ASSUME LimitAssumption ==
    {Poll, MaxReplay, Late, PageLimit, Dedupe, MatchWindow, Grace,
     UnprovenGrace, ObserveMaxAge, Retention, MemoryLimit,
     MaxClock, MaxFaults} \subseteq Nat
\* RETENTION is two hours: what the watchdog forgets was judged and is not read again.
ASSUME WindowAssumption ==
    Retention >= MatchWindow + Grace /\ Retention >= MatchWindow + ObserveMaxAge + UnprovenGrace

VARIABLES
    clock, world,         \* seconds; the account of this behavior
    indexed, sent,        \* Ring: records in the history; how a record was pushed
    acked,                \* the file of persistent ids
    up, unlocks, dog,     \* queue map: its keys; a queue's unlocks, its watchdog
    subs, msg,            \* push worker: Intercoms subscribed when it connected, the
                          \*   message it is about to acknowledge
    started, cursors,     \* watch task: its start, UnlockCursor by Intercom
    hpc, want, pages,     \* one poll: where it is, Intercoms to read, pages read,
    now, floor, out,      \*   its time, its floor, unlocks to publish
    faults,               \* restarts and changes of the queue map so far
    told, pub, byHistory, \* history: records published before this start, since,
                          \*   and of these by the watch task
    settled,              \* history: records that were published, merged with
                          \*   another or had no queue
    overdue,              \* history: unlocks indexed when one newer by more than
                          \*   LATE_TOLERANCE already was
    gone,                 \* history: Intercoms that have left the queue map
    pushed, reports       \* history: rings push published to the current queue,
                          \*   and how often it reported a ring as missed

worldVars == <<clock, world, indexed, sent>>
queueVars == <<up, unlocks, dog>>
pushVars  == <<acked, subs, msg>>
pollVars  == <<started, cursors, hpc, want, pages, now, floor, out>>
ghosts    == <<told, pub, byHistory, settled, overdue, gone, pushed, reports>>
vars == <<worldVars, queueVars, pushVars, pollVars, faults, ghosts>>

NewDog == [push |-> {}, newest |-> Never, memory |-> {}, missed |-> Never]
NoPages == [d \in {} |-> {}]
Devices == world.devices
Dings == {r \in Records : r.kind = "ding"}

Init ==
    /\ world \in Worlds
    /\ clock = 0 /\ indexed = {} /\ acked = {}
    /\ sent = [r \in Records |-> "no"]
    /\ up = Devices \cup {Alias}
    /\ unlocks = [q \in Routes |-> {}]
    /\ dog = [q \in Routes |-> NewDog]
    /\ subs = Devices /\ msg = {}
    /\ started = 0 /\ cursors = NoPages
    /\ hpc = "sleep" /\ want = {} /\ pages = NoPages
    /\ now = 0 /\ floor = 0 /\ out = {}
    /\ faults = 0
    /\ told = {} /\ pub = {} /\ byHistory = {} /\ settled = {} /\ overdue = {} /\ gone = {}
    /\ pushed = {} /\ reports = [r \in Dings |-> 0]

-----------------------------------------------------------------------------
(* Ring, and time.                                                         *)

Tick ==
    /\ clock < MaxClock
    /\ clock' = clock + 1
    /\ UNCHANGED <<world, indexed, sent, queueVars, pushVars, pollVars, faults, ghosts>>

\* A newer unlock of the same Intercom puts the cursor's floor past this one.
Overtakes(r, q) == q.kind = "unlock" /\ q.dev = r.dev /\ q.at > r.at + Late

\* External.  A record enters the history at any time after it happened, in any
\* order.
Index(r) ==
    /\ r \notin indexed /\ r.at <= clock
    /\ indexed' = indexed \cup {r}
    /\ overdue' = IF \E q \in indexed : Overtakes(r, q) THEN overdue \cup {r} ELSE overdue
    /\ UNCHANGED <<clock, world, sent, queueVars, pushVars, pollVars, faults,
                   told, pub, byHistory, settled, gone, pushed, reports>>

-----------------------------------------------------------------------------
(* Publishing.                                                             *)

Distance(a, b) == IF a > b THEN a - b ELSE b - a

\* publish_detailed: a repeated unlock is dropped.  (The queue's limit is out of
\* reach here; PushEvents is about it.)
Repeated(q, kind, at) ==
    kind = "unlock" /\ \E u \in unlocks[q] : Distance(u, at) <= Dedupe

\* DingWatchdog::record_push.  Which of the times leave at MEMORY_LIMIT is not
\* modelled: that many rings in two hours.
RecordPush(g, at) == [g EXCEPT !.push = @ \cup {at}, !.newest = Max({@, at})]

\* RingPushService::publish to the Intercom's queue and, when the caller knows of
\* one Intercom only, to the alias' queue.
Targets(d, known) == ({d} \cup IF known = {d} THEN {Alias} ELSE {}) \cap up

Publish(r, at, known) ==
    LET new == {q \in Targets(r.dev, known) : ~ Repeated(q, r.kind, at)} IN
    /\ unlocks' = [q \in Routes |-> IF q \in new /\ r.kind = "unlock"
                                    THEN unlocks[q] \cup {at} ELSE unlocks[q]]
    /\ dog' = [q \in Routes |-> IF q \in new /\ r.kind = "ding"
                                THEN RecordPush(dog[q], at) ELSE dog[q]]
    /\ pub' = IF new # {} THEN pub \cup {r} ELSE pub
    /\ settled' = settled \cup {r}

-----------------------------------------------------------------------------
(* The push worker.                                                        *)

\* RingPushQueues::ids, with what an id leads to: the Intercoms that have a queue
\* or, when none has, the one the unbound alias stands for.
Polled == IF up \cap Devices = {} /\ Alias \in up /\ Cardinality(Devices) = 1
          THEN Devices ELSE up \cap Devices

\* The connection ends and the worker connects again: every Intercom is subscribed,
\* and FCM, given the persistent ids of the file, forgets those messages and delivers
\* the others.
Reconnect ==
    /\ msg = {}
    /\ subs' = Polled
    /\ UNCHANGED <<worldVars, queueVars, acked, msg, pollVars, faults, ghosts>>

\* External.  A record is pushed with its time, without one (a legacy message), or
\* in a form that cannot be read; at each delivery alike.
Forms(r) == IF sent[r] = "no" THEN {"stamped", "plain", "odd"} ELSE {sent[r]}

\* A message is read.  handle_message: what it says is published, at the time of the
\* message or else now; what cannot be read or is of another Intercom is ignored.
Handle(r) ==
    /\ msg = {}
    /\ r.at <= clock /\ r \notin acked
    /\ msg' = {r}
    /\ \E form \in Forms(r) :
        LET at == IF form = "stamped" THEN r.at ELSE clock
            readable == form # "odd" /\ r.dev \in subs
        IN
        /\ sent' = [sent EXCEPT ![r] = form]
        /\ IF readable THEN Publish(r, at, subs)
           ELSE UNCHANGED <<unlocks, dog, pub, settled>>
        /\ pushed' = IF /\ readable /\ r.kind = "ding" /\ r.dev \in up
                        /\ Distance(at, r.at) <= MatchWindow
                     THEN pushed \cup {r} ELSE pushed
    /\ UNCHANGED <<clock, world, indexed, up, acked, subs, pollVars, faults,
                   told, byHistory, overdue, gone, reports>>

\* Mutation: all that was delivered so far is acknowledged at once.
AcknowledgeAll ==
    /\ msg # {}
    /\ acked' = acked \cup {r \in world.records : r.at <= clock} /\ msg' = {}
    /\ UNCHANGED <<worldVars, queueVars, subs, pollVars, faults, ghosts>>

\* acknowledge: the id is written to the file; a failing write ends the connection,
\* and the message will come again.
Acknowledge ==
    /\ msg # {}
    /\ acked' = acked \cup msg /\ msg' = {}
    /\ UNCHANGED <<worldVars, queueVars, subs, pollVars, faults, ghosts>>

AcknowledgeFails ==
    /\ msg # {}
    /\ faults < MaxFaults /\ faults' = faults + 1
    /\ msg' = {} /\ subs' = Polled
    /\ UNCHANGED <<worldVars, queueVars, acked, pollVars, ghosts>>

-----------------------------------------------------------------------------
(* The watch task.                                                         *)

\* watch_unlocks wakes up; unlock_pages asks for the Intercoms.
StartPoll ==
    /\ hpc = "sleep"
    /\ clock >= started + Poll /\ Polled # {}
    /\ want' = Polled
    /\ pages' = NoPages
    /\ hpc' = "read"
    /\ UNCHANGED <<worldVars, queueVars, pushVars, started, cursors, now, floor, out,
                   faults, ghosts>>

\* recent_activity: the newest records of an Intercom.
Page(d) ==
    LET all == {r \in indexed : r.dev = d} IN
    {r \in all : Cardinality({s \in all : s.at > r.at}) < PageLimit}

\* Mutation: the first poll goes back as far as it may, past the start.
FirstFloorReplay == IF DOMAIN cursors = {} THEN clock - MaxReplay ELSE clock - Poll

\* Where a cursor begins that this poll creates: at the first poll that read
\* something with the start of the task, later with the previous poll.
FirstFloor == IF DOMAIN cursors = {}
              THEN Max({started, clock - MaxReplay}) ELSE clock - Poll

\* One Intercom is read, or cannot be (nor can any, when there is no client); that
\* never blocks the others.  After the last the pages that were read are handled.
ReadPage(d) ==
    /\ hpc = "read" /\ d \in want
    /\ \/ pages' = [x \in DOMAIN pages \cup {d} |-> IF x = d THEN Page(d) ELSE pages[x]]
       \/ UNCHANGED pages
    /\ IF want = {d}
       THEN /\ want' = DOMAIN pages'
            /\ now' = clock
            /\ floor' = FirstFloor
            /\ hpc' = "handle"
       ELSE /\ want' = want \ {d}
            /\ UNCHANGED <<now, floor, hpc>>
    /\ UNCHANGED <<worldVars, queueVars, pushVars, started, cursors, out, faults, ghosts>>

\* Mutation: nothing older than the newest unlock is expected any more.
AdvancedStrict(c, page) ==
    [start |-> c.start, floor |-> Max({c.floor} \cup {r.at : r \in page}), seen |-> page]

\* UnlockCursor::new and advance.
CursorOf(d) == IF d \in DOMAIN cursors THEN cursors[d]
               ELSE [start |-> floor, floor |-> floor, seen |-> {}]
Fresh(c, page) == {r \in page : r \notin c.seen /\ r.at >= c.floor}
Advanced(c, page) ==
    [start |-> c.start,
     floor |-> Max({c.floor} \cup {r.at - Late : r \in page}),
     seen  |-> page]

\* Mutation: a push at the edge of the window is not the same ring.
UndeliveredEdge(g, m) ==
    \A at \in g.push : Distance(at, m.r.at) >= MatchWindow

\* DingWatchdog::observe: rings that are new and not too old are remembered while
\* there is room; those that waited long enough are judged, once; old ones go.
Proven(g) == g.newest # Never /\ (g.missed = Never \/ g.newest >= g.missed)

New(g, dings) ==
    {r \in dings : r.at >= now - ObserveMaxAge /\ \A m \in g.memory : m.r # r}

Due(g, m) == /\ ~ m.judged
             /\ IF Proven(g) THEN now - m.r.at >= Grace ELSE now - m.seen >= UnprovenGrace

Undelivered(g, m) ==
    \A at \in g.push : Distance(at, m.r.at) > MatchWindow

\* A watchdog that remembers more rings, and the rings it finds missing.
Remembering(g, fresh) ==
    [g EXCEPT !.memory = @ \cup {[r |-> r, seen |-> now, judged |-> FALSE] : r \in fresh}]
Missing(g) == {m.r : m \in {n \in g.memory : Due(g, n) /\ Undelivered(g, n)}}

\* Mutation: a ring that was judged is forgotten, not marked.
ObservedForgotten(g) ==
    [g EXCEPT !.memory = {m \in @ : ~ m.judged /\ ~ Due(g, m)},
              !.push = {at \in @ : at >= now - Retention},
              !.missed = Max({@} \cup {r.at : r \in Missing(g)})]

Observed(g) ==
    [g EXCEPT !.memory = {[m EXCEPT !.judged = @ \/ Due(g, m)] :
                            m \in {n \in g.memory : n.r.at >= now - Retention}},
              !.push = {at \in @ : at >= now - Retention},
              !.missed = Max({@} \cup {r.at : r \in Missing(g)})]

\* Mutation: a full memory still takes new rings.
FittingAll(g, fresh) == {fresh}

\* The part of the new rings that fits, for a watchdog at its limit.
Fitting(g, fresh) ==
    {S \in SUBSET fresh :
        Cardinality(S) = Min({Cardinality(fresh),
                              Max({MemoryLimit - Cardinality(g.memory), 0})})}

\* One page: watch_dings for the Intercom's queue (and the alias'), then the cursor.
HandlePage(d) ==
    /\ hpc = "handle" /\ out = {} /\ d \in want
    /\ LET c == CursorOf(d)
           dings == {r \in pages[d] : r.kind = "ding" /\ r.at >= c.start}
           page == {r \in pages[d] : r.kind = "unlock"}
           judging == Targets(d, DOMAIN pages)
       IN
       /\ \E fit \in [judging -> SUBSET dings] :
            /\ \A q \in judging : fit[q] \in Fitting(dog[q], New(dog[q], dings))
            /\ dog' = [q \in Routes |-> IF q \in judging
                                        THEN Observed(Remembering(dog[q], fit[q]))
                                        ELSE dog[q]]
            /\ reports' = [r \in Dings |->
                             IF d \in judging /\ r \in Missing(Remembering(dog[d], fit[d]))
                             THEN reports[r] + 1 ELSE reports[r]]
       /\ cursors' = [x \in DOMAIN cursors \cup {d} |->
                        IF x = d THEN Advanced(c, page) ELSE cursors[x]]
       /\ out' = Fresh(c, page)
    /\ want' = want \ {d}
    /\ UNCHANGED <<worldVars, up, unlocks, pushVars, started, hpc, pages, now, floor,
                   faults, told, pub, byHistory, settled, overdue, gone, pushed>>

\* An unlock the cursor let through is published like a push event.
PublishUnlock(r) ==
    /\ hpc = "handle" /\ r \in out
    /\ out' = out \ {r}
    /\ Publish(r, r.at, DOMAIN pages)
    /\ byHistory' = IF \E q \in Targets(r.dev, DOMAIN pages) : ~ Repeated(q, r.kind, r.at)
                    THEN byHistory \cup {r} ELSE byHistory
    /\ UNCHANGED <<worldVars, up, pushVars, started, cursors, hpc, want, pages, now, floor,
                   faults, told, overdue, gone, pushed, reports>>

EndPoll ==
    /\ hpc = "handle" /\ out = {} /\ want = {}
    /\ hpc' = "sleep" /\ pages' = NoPages /\ now' = 0 /\ floor' = 0
    /\ UNCHANGED <<worldVars, queueVars, pushVars, started, cursors, want, out,
                   faults, ghosts>>

-----------------------------------------------------------------------------
(* Around them.                                                            *)

\* RingPushQueues::include: an Intercom leaves the inventory, or comes back with a
\* queue and a watchdog of its own.  The watch task keeps its cursor.
Include(d) ==
    /\ faults < MaxFaults /\ faults' = faults + 1
    /\ up' = IF d \in up THEN up \ {d} ELSE up \cup {d}
    /\ gone' = IF d \in up THEN gone \cup {d} ELSE gone
    /\ unlocks' = [unlocks EXCEPT ![d] = {}]
    /\ dog' = [dog EXCEPT ![d] = NewDog]
    /\ pushed' = {r \in pushed : r.dev # d}
    /\ reports' = [r \in Dings |-> IF r.dev = d THEN 0 ELSE reports[r]]
    /\ UNCHANGED <<worldVars, pushVars, pollVars, told, pub, byHistory, settled, overdue>>

\* The process dies and starts again; the file stays.  The seconds it takes are ticks
\* before this step, so that it may also start in the second it died in.
Restart ==
    /\ faults < MaxFaults /\ faults' = faults + 1
    /\ started' = clock
    /\ up' = Devices \cup {Alias}
    /\ unlocks' = [q \in Routes |-> {}]
    /\ dog' = [q \in Routes |-> NewDog]
    /\ subs' = Devices /\ msg' = {}
    /\ cursors' = NoPages
    /\ hpc' = "sleep" /\ want' = {} /\ pages' = NoPages
    /\ now' = 0 /\ floor' = 0 /\ out' = {}
    /\ told' = told \cup pub /\ pub' = {} /\ byHistory' = {}
    /\ pushed' = {} /\ reports' = [r \in Dings |-> 0]
    /\ UNCHANGED <<worldVars, acked, settled, overdue, gone>>

Next ==
    \/ Tick
    \/ \E r \in world.records : Index(r) \/ Handle(r) \/ PublishUnlock(r)
    \/ Reconnect \/ Acknowledge \/ AcknowledgeFails
    \/ StartPoll \/ EndPoll
    \/ \E d \in Devices : ReadPage(d) \/ HandlePage(d) \/ Include(d)
    \/ Restart

Spec == Init /\ [][Next]_vars

-----------------------------------------------------------------------------
(* Properties.                                                             *)

Dog == [push : SUBSET Nat, newest : Nat \cup {Never},
        memory : SUBSET [r : Records, seen : Nat, judged : BOOLEAN],
        missed : Nat \cup {Never}]

\* Every variable keeps its type, and a watchdog's memory its limit, however many new
\* rings a page brings to it.
TypeOK ==
    /\ clock \in 0..MaxClock /\ faults \in 0..MaxFaults
    /\ world \in Worlds
    /\ indexed \subseteq world.records /\ acked \subseteq Records /\ msg \subseteq Records
    /\ sent \in [Records -> {"no", "stamped", "plain", "odd"}]
    /\ up \subseteq Routes
    /\ unlocks \in [Routes -> SUBSET Nat]
    /\ dog \in [Routes -> Dog]
    /\ \A q \in Routes : Cardinality(dog[q].memory) <= MemoryLimit
    /\ subs \subseteq Devices
    /\ started \in Nat
    /\ DOMAIN cursors \subseteq Devices
    /\ \A d \in DOMAIN cursors :
        cursors[d] \in [start : Int, floor : Int, seen : SUBSET Records]
    /\ hpc \in {"sleep", "read", "handle"}
    /\ want \subseteq Devices /\ DOMAIN pages \subseteq Devices
    /\ now \in Nat /\ floor \in Int /\ out \subseteq Records

\* An unlock on the last page a poll went through, if it is not older than the
\* Intercom's cursor, was handed to the queue or is about to be: neither the set of
\* seen ids that each page replaces, nor polls that failed in between, nor the floor
\* lose one that Ring indexed late, behind a newer one.  The floor drops those, and
\* only those, that are older by more than LATE_TOLERANCE than an unlock Ring had
\* indexed before (UnlockCursor::advance).
UnlockReported ==
    \A d \in DOMAIN cursors :
        {r \in cursors[d].seen : r.at >= cursors[d].start} \subseteq settled \cup out \cup overdue

\* OPERATIONS.md: "Unlocks older than the bridge start are never replayed": the watch
\* task publishes nothing older than its start, whenever the first poll succeeds and
\* however old the page is; of what was published before a restart it repeats at most
\* what happened in the very second of the start.
NotReplayed ==
    \A r \in byHistory : r.at >= started /\ (r \in told => r.at = started)

\* A message whose id is in the file was published, in this life of the process or an
\* earlier one, unless it could not be read or its Intercom had left the queue map at
\* some time: a crash or a failing write means one delivery more, never one less, and
\* no connection leaves out an Intercom that was always there.
AckedWasPublished ==
    \A r \in acked : sent[r] = "odd" \/ r \in settled \/ r.dev \in gone

\* The watchdog never calls a ring missed that push published to the same queue
\* before, with a time within MATCH_WINDOW: not when either is at the edge of a
\* window, not after an outage, not when the entry has left its memory.
PushedNotMissed ==
    [][\A r \in Dings : reports'[r] > reports[r] => r \notin pushed]_vars

\* A ring is reported as missed once, although the history shows it for days after
\* its id has left the bounded memory.
MissedOnce == \A r \in Dings : reports[r] <= 1
=============================================================================
