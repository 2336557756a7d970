------------------------- MODULE HistoryWatchProofs --------------------------
(***************************************************************************)
(* Proofs about HistoryWatch for any account, any records and any windows  *)
(* that keep the code's order (WindowAssumption), and for any number of    *)
(* restarts and changes of the queue map: the history poll loses only the  *)
(* unlocks that Ring indexes behind one newer by more than LATE_TOLERANCE, *)
(* it replays none from before its start, the persistent ids are those of  *)
(* messages that were published, and the watchdog judges a ring once, and  *)
(* never one that push had published.                                      *)
(*                                                                         *)
(* Two arguments carry the proofs.  A record below a cursor's floor is one *)
(* that the page which raised the floor had shown or had no room for, or   *)
(* one that Ring indexed after the unlock which raised it; and a record    *)
(* that was pushed off the page never comes back.  And what the watchdog forgets, a push or a      *)
(* ring, is older than everything it will read or has yet to judge.        *)
(***************************************************************************)
EXTENDS HistoryWatch, FiniteSetTheorems, WellFoundedInduction, TLAPS

\* The clock, and what Ring has in its history.
WorldInv ==
    /\ clock \in 0..MaxClock /\ faults \in 0..MaxFaults
    /\ world \in Worlds
    /\ indexed \subseteq world.records
    /\ \A r \in indexed : r.at <= clock
    /\ sent \in [Records -> {"no", "stamped", "plain", "odd"}]
    /\ started \in Nat /\ started <= clock

\* A connection leaves out only Intercoms that have left the queue map, and so does
\* the file of persistent ids.
AckInv ==
    /\ up \subseteq Routes /\ subs \subseteq Devices
    /\ Devices \subseteq up \cup gone /\ Devices \subseteq subs \cup gone
    /\ acked \subseteq world.records /\ msg \subseteq world.records
    /\ \A r \in acked \cup msg : sent[r] = "odd" \/ r \in settled \/ r.dev \in gone

\* The pages of a poll, and the time and the floor it works with.
PollInv ==
    /\ hpc \in {"sleep", "read", "handle"}
    /\ want \subseteq Devices /\ DOMAIN pages \subseteq Devices
    /\ \A d \in DOMAIN pages : pages[d] \subseteq {r \in indexed : r.dev = d}
    /\ now \in Nat /\ now <= clock /\ floor \in Int
    /\ out \subseteq {r \in indexed : r.kind = "unlock"}
    /\ hpc # "sleep" => clock >= started + Poll
    /\ hpc = "handle" => want \subseteq DOMAIN pages /\ floor >= started

\* Only an indexed unlock raises a cursor's floor, to LATE_TOLERANCE before itself.
Raised(d, c) ==
    c.start < c.floor =>
        \E s \in indexed : s.kind = "unlock" /\ s.dev = d /\ c.floor = s.at - Late

\* Cursors begin after the start of the task, and only a page raises their floor.
CursorInv ==
    /\ DOMAIN cursors \subseteq Devices
    /\ \A d \in DOMAIN cursors :
        /\ cursors[d] \in [start : Int, floor : Int, seen : SUBSET Records]
        /\ cursors[d].seen \subseteq {r \in indexed : r.dev = d /\ r.kind = "unlock"}
        /\ started <= cursors[d].start /\ cursors[d].start <= cursors[d].floor
        /\ Raised(d, cursors[d])

\* What was published before the start is not younger than it; what the watch task
\* publishes is not.
ReplayInv ==
    /\ told \subseteq Records /\ \A r \in told : r.at <= started
    /\ pub \subseteq Records /\ \A r \in pub : r.at <= clock
    /\ \A r \in byHistory \cup out : r.at >= started

\* A record that the history has no room for on a page any more.
Newer(r) == {s \in indexed : s.dev = r.dev /\ s.at > r.at}
Deep(r) == Cardinality(Newer(r)) >= PageLimit

\* An unlock between a cursor's start and its floor.
Passed(c, r) == r.kind = "unlock" /\ c.start <= r.at /\ r.at < c.floor

\* The history shows no unlock below a floor that the cursor has not seen, but those
\* that came too late for it.
FloorInv ==
    \A d \in DOMAIN cursors, r \in indexed :
        r.dev = d /\ Passed(cursors[d], r) =>
            r \in cursors[d].seen \/ Deep(r) \/ r \in overdue

\* No unlock of a page will raise a floor past this record.
Reached(page, r) == \A s \in page : s.kind = "unlock" => s.at <= r.at + Late

\* Nor does a page that was read and not handled yet; and it shows what the last one
\* showed, and all that was indexed but what it has no room for or came after it.
PageInv ==
    \A d \in DOMAIN pages :
        /\ \A r \in indexed : r.dev = d =>
             r \in pages[d] \/ Deep(r) \/ r \in overdue \/ Reached(pages[d], r)
        /\ d \in DOMAIN cursors =>
             /\ \A r \in pages[d] :
                  Passed(cursors[d], r) => r \in cursors[d].seen \/ r \in overdue
             /\ \A r \in cursors[d].seen : r \in pages[d] \/ Deep(r)

\* Watchdogs: their types and their limit, and when a ring was first read, once.
DogInv ==
    /\ unlocks \in [Routes -> SUBSET Nat] /\ dog \in [Routes -> Dog]
    /\ \A q \in Routes : /\ IsFiniteSet(dog[q].memory)
                         /\ Cardinality(dog[q].memory) <= MemoryLimit
    /\ \A q \in Routes : \A m \in dog[q].memory :
        m.r \in indexed /\ m.seen <= m.r.at + ObserveMaxAge /\ (q # Alias => m.r.dev = q)
    /\ \A q \in Routes : \A m, n \in dog[q].memory : m.r = n.r => m = n

\* A ring that every poll from now on finds older than this age.
Past(r, age) == r.at < clock - age /\ (hpc = "handle" => r.at < now - age)

\* What the watchdog of its Intercom remembers of a ring is judged.
Judged(r) == \A m \in dog[r.dev].memory : m.r = r => m.judged

\* A ring that was reported is remembered as judged, or too old to be read again.
MissInv ==
    /\ reports \in [Dings -> Nat]
    /\ \A r \in Dings : reports[r] # 0 =>
        /\ reports[r] = 1 /\ Judged(r)
        /\ (\E m \in dog[r.dev].memory : m.r = r) \/ Past(r, Retention)

\* The push of a ring is remembered until the ring is judged or too old to be read.
PushInv ==
    /\ pushed \subseteq Dings
    /\ \A r \in pushed :
        \/ \E at \in dog[r.dev].push : Distance(at, r.at) <= MatchWindow
        \/ Judged(r) /\ Past(r, Retention - MatchWindow)

IndInv == /\ WorldInv /\ AckInv /\ PollInv /\ CursorInv /\ ReplayInv /\ FloorInv /\ PageInv
          /\ UnlockReported /\ DogInv /\ MissInv /\ PushInv

USE DEF worldVars, queueVars, pushVars, pollVars, ghosts


-----------------------------------------------------------------------------
(* Numbers.                                                                *)

\* A nonempty set of integers with an upper bound has a largest element, which is
\* what FiniteSetsExt!Max chooses.
LEMMA BoundedMax ==
    ASSUME NEW S \in SUBSET Int, S # {}, NEW b \in Int, \A x \in S : x <= b
    PROVE  Max(S) \in S /\ \A y \in S : Max(S) >= y
  <1> DEFINE T == {b - x : x \in S}
             R == OpToRel(<, Nat)
  <1>1. T \subseteq Nat /\ T # {}
    <2>1. \A x \in S : x \in Int /\ x <= b
      OBVIOUS
    <2>2. \A x \in S : b - x \in Nat
      BY <2>1
    <2> QED
      BY <2>2
  <1>2. IsWellFoundedOn(R, Nat)
    BY NatLessThanWellFounded, Zenon
  <1>3. PICK t \in T : \A u \in T : ~(<<u, t>> \in R)
    <2> HIDE DEF T, R
    <2> QED
      BY <1>1, <1>2, WFMin
  <1>4. \A u \in T : ~(u < t)
    BY <1>1, <1>3 DEF OpToRel
  <1>5. PICK x \in S : t = b - x
    OBVIOUS
  <1>6. \A y \in S : b - y \in T
    OBVIOUS
  <1>7. \A y \in S : ~(b - y < b - x)
    BY <1>4, <1>5, <1>6
  <1>8. \A y \in S : x >= y
    BY <1>7
  <1> QED
    BY <1>8 DEF Max

\* The larger and the smaller of two numbers.
LEMMA PairMax ==
    ASSUME NEW a \in Int, NEW b \in Int
    PROVE  /\ Max({a, b}) \in {a, b} /\ Max({a, b}) >= a /\ Max({a, b}) >= b
           /\ Min({a, b}) \in {a, b} /\ Min({a, b}) <= a /\ Min({a, b}) <= b
  <1>1. \E x \in {a, b} : \A y \in {a, b} : x >= y
    <2>1. CASE a >= b
      BY <2>1
    <2>2. CASE b >= a
      BY <2>2
    <2> QED
      BY <2>1, <2>2
  <1>2. \E x \in {a, b} : \A y \in {a, b} : x =< y
    <2>1. CASE a >= b
      BY <2>1
    <2>2. CASE b >= a
      BY <2>2
    <2> QED
      BY <2>1, <2>2
  <1> QED
    BY <1>1, <1>2 DEF Max, Min

\* What the constants are.
LEMMA Limits ==
    /\ {Poll, MaxReplay, Late, PageLimit, Dedupe, MatchWindow, Grace, UnprovenGrace,
        ObserveMaxAge, Retention, MemoryLimit, MaxClock, MaxFaults} \subseteq Int
    /\ Poll >= 0 /\ MaxReplay >= 0 /\ Late >= 0 /\ MatchWindow >= 0 /\ Grace >= 0
    /\ UnprovenGrace >= 0 /\ ObserveMaxAge >= 0 /\ Retention >= 0 /\ MemoryLimit >= 0
    BY LimitAssumption

\* Records have a time, a kind and an Intercom of their account.
LEMMA RecordType ==
    /\ \A r \in Records : r.at \in Nat /\ r.kind \in {"ding", "unlock"} /\ r.dev \in AllDevices
    /\ \A w \in Worlds : /\ w.records \subseteq Records /\ IsFiniteSet(w.records)
                         /\ w.devices \subseteq AllDevices
                         /\ \A r \in w.records : r.dev \in w.devices
    /\ AllDevices \subseteq Routes /\ Alias \in Routes /\ Alias \notin AllDevices
    BY RecordAssumption DEF Records, AllDevices, Routes


\* So do those that Ring has indexed, and they are finitely many.
LEMMA IndexedType ==
    ASSUME WorldInv
    PROVE  /\ world.records \subseteq Records /\ indexed \subseteq Records
           /\ IsFiniteSet(indexed) /\ Devices \subseteq AllDevices
           /\ \A r \in world.records : r.at \in Nat /\ r.dev \in Devices /\ r.dev \in Routes
           /\ \A r \in indexed : r.at \in Nat /\ r.at <= clock /\ r.dev \in Devices
           /\ clock \in Nat /\ started \in Nat
  <1>1. IsFiniteSet(indexed)
    BY RecordType, FS_Subset DEF WorldInv
  <1>2. clock \in Nat
    BY DEF WorldInv
  <1> QED
    BY <1>1, <1>2, RecordType DEF WorldInv, Devices

-----------------------------------------------------------------------------
(* The world and the push worker.                                          *)

\* Time and Ring's history.
LEMMA WorldStep == IndInv /\ [Next]_vars => WorldInv'
<1> SUFFICES ASSUME IndInv, [Next]_vars PROVE WorldInv'
    OBVIOUS
<1>0. WorldInv /\ MaxClock \in Nat /\ MaxFaults \in Nat /\ clock \in Nat /\ faults \in Nat
    BY LimitAssumption DEF IndInv, WorldInv
<1>1. CASE Tick
  <2>1. clock' \in 0..MaxClock /\ clock' = clock + 1 /\ UNCHANGED <<world, indexed, sent, started, faults>>
    BY <1>0, <1>1 DEF Tick
  <2>2. \A r \in indexed : r.at \in Nat /\ r.at <= clock + 1
    BY <1>0, IndexedType
  <2> QED
    BY <1>0, <2>1, <2>2 DEF WorldInv
<1>2. ASSUME NEW r \in world.records, Index(r) PROVE WorldInv'
    BY <1>0, <1>2 DEF Index, WorldInv
<1>3. ASSUME NEW r \in world.records, Handle(r) PROVE WorldInv'
  <2>1. r \in Records
    BY <1>0, IndexedType
  <2>2. sent' \in [Records -> {"no", "stamped", "plain", "odd"}]
    BY <1>0, <1>3, <2>1 DEF Handle, Forms, WorldInv
  <2>3. UNCHANGED <<clock, world, indexed, started, faults>>
    BY <1>3 DEF Handle
  <2> QED
    BY <1>0, <2>2, <2>3 DEF WorldInv
<1>4. CASE AcknowledgeFails \/ \E d \in Devices : Include(d)
  <2>1. faults' \in 0..MaxFaults /\ UNCHANGED <<clock, world, indexed, sent, started>>
    BY <1>0, <1>4 DEF AcknowledgeFails, Include
  <2> QED
    BY <1>0, <2>1 DEF WorldInv
<1>5. CASE Restart
  <2>1. /\ faults' \in 0..MaxFaults /\ started' = clock
        /\ UNCHANGED <<clock, world, indexed, sent>>
    BY <1>0, <1>5 DEF Restart
  <2> QED
    BY <1>0, <2>1 DEF WorldInv
<1>6. ASSUME UNCHANGED <<worldVars, started, faults>> PROVE WorldInv'
    BY <1>0, <1>6 DEF WorldInv
<1> QED
    BY <1>1, <1>2, <1>3, <1>4, <1>5, <1>6
    DEF Next, vars, Reconnect, Acknowledge, StartPoll, EndPoll, ReadPage, HandlePage, PublishUnlock

\* A message is acknowledged when it was published, could not be read, or came for an
\* Intercom that has left the queue map at some time.
LEMMA AckStep == IndInv /\ [Next]_vars => AckInv'
<1> SUFFICES ASSUME IndInv, [Next]_vars PROVE AckInv'
    OBVIOUS
<1>0. /\ WorldInv /\ AckInv
      /\ world.records \subseteq Records /\ Devices \subseteq Routes /\ Alias \in Routes
      /\ \A r \in world.records : r.dev \in Devices
    BY IndexedType, RecordType DEF IndInv
<1>1. Polled \subseteq Devices /\ Devices \subseteq Polled \cup gone
    BY <1>0 DEF Polled, AckInv
<1>2. ASSUME subs' = subs \/ subs' = Polled, msg' \subseteq msg, acked' \subseteq acked \cup msg,
             settled \subseteq settled', UNCHANGED <<world, sent, up, gone>>
      PROVE  AckInv'
    BY <1>0, <1>1, <1>2 DEF AckInv, Devices
<1>3. CASE Reconnect \/ Acknowledge \/ AcknowledgeFails
  <2>1. /\ subs' = subs \/ subs' = Polled
        /\ msg' \subseteq msg /\ acked' \subseteq acked \cup msg
        /\ UNCHANGED <<settled, world, sent, up, gone>>
    BY <1>3 DEF Reconnect, Acknowledge, AcknowledgeFails
  <2> QED
    BY <1>2, <2>1
<1>4. ASSUME NEW r \in world.records, Handle(r) PROVE AckInv'
  <2>1. PICK form \in Forms(r) :
          /\ sent' = [sent EXCEPT ![r] = form]
          /\ IF form # "odd" /\ r.dev \in subs
             THEN Publish(r, IF form = "stamped" THEN r.at ELSE clock, subs)
             ELSE UNCHANGED <<unlocks, dog, pub, settled>>
    BY <1>4 DEF Handle
  <2>2. msg = {} /\ msg' = {r} /\ r \notin acked /\ UNCHANGED <<acked, up, subs, gone, world>>
    BY <1>4 DEF Handle
  <2>3. settled \subseteq settled' /\ (form = "odd" \/ r.dev \notin subs \/ r \in settled')
    BY <2>1 DEF Publish
  <2>4. sent'[r] = form /\ \A s \in acked : sent'[s] = sent[s]
    BY <1>0, <2>1, <2>2 DEF WorldInv, AckInv
  <2>5. r.dev \in subs \/ r.dev \in gone
    BY <1>0 DEF AckInv
  <2> QED
    BY <1>0, <2>2, <2>3, <2>4, <2>5 DEF AckInv, Devices
<1>5. ASSUME NEW r \in world.records, PublishUnlock(r) PROVE AckInv'
  <2>1. settled \subseteq settled' /\ UNCHANGED <<world, sent, up, gone, subs, msg, acked>>
    BY <1>5 DEF PublishUnlock, Publish
  <2> QED
    BY <1>2, <2>1
<1>6. ASSUME NEW d \in Devices, Include(d) PROVE AckInv'
  <2>1. /\ up' = IF d \in up THEN up \ {d} ELSE up \cup {d}
        /\ gone' = IF d \in up THEN gone \cup {d} ELSE gone
        /\ UNCHANGED <<world, sent, subs, msg, acked, settled>>
    BY <1>6 DEF Include
  <2> QED
    BY <1>0, <2>1 DEF AckInv, Devices
<1>7. CASE Restart
  <2>1. /\ up' = Devices \cup {Alias} /\ subs' = Devices /\ msg' = {}
        /\ UNCHANGED <<world, sent, acked, settled, gone>>
    BY <1>7 DEF Restart
  <2> QED
    BY <1>0, <2>1 DEF AckInv, Devices
<1>8. ASSUME UNCHANGED <<world, sent, up, gone, subs, msg, acked, settled>> PROVE AckInv'
    BY <1>2, <1>8
<1> QED
    BY <1>3, <1>4, <1>5, <1>6, <1>7, <1>8
    DEF Next, vars, Tick, Index, StartPoll, EndPoll, ReadPage, HandlePage


-----------------------------------------------------------------------------
(* The poll and its cursors.                                               *)

Cursor == [start : Int, floor : Int, seen : SUBSET Records]

\* A page is of its Intercom, and has every record of it that the history has room for.
LEMMA PageShows ==
    ASSUME NEW d
    PROVE  /\ Page(d) \subseteq {r \in indexed : r.dev = d}
           /\ \A r \in indexed : r.dev = d => (r \in Page(d) <=> Cardinality(Newer(r)) < PageLimit)
  <1>1. ASSUME NEW r \in indexed, r.dev = d
        PROVE  {s \in {t \in indexed : t.dev = d} : s.at > r.at} = Newer(r)
    BY <1>1 DEF Newer
  <1> QED
    BY <1>1 DEF Page

\* The cursor of an Intercom: the one there is, or a new one.
LEMMA CursorFacts ==
    ASSUME WorldInv, PollInv, CursorInv, hpc = "handle", NEW d
    PROVE  /\ CursorOf(d) \in Cursor
           /\ started <= CursorOf(d).start /\ CursorOf(d).start <= CursorOf(d).floor
           /\ Raised(d, CursorOf(d))
           /\ CursorOf(d).seen \subseteq {r \in indexed : r.dev = d /\ r.kind = "unlock"}
  <1>1. CASE d \in DOMAIN cursors
    BY <1>1 DEF CursorOf, CursorInv, Cursor
  <1>2. CASE d \notin DOMAIN cursors
    <2>1. CursorOf(d) = [start |-> floor, floor |-> floor, seen |-> {}]
      BY <1>2 DEF CursorOf
    <2>2. floor \in Int /\ started <= floor
      BY DEF PollInv
    <2> QED
      BY <2>1, <2>2 DEF Cursor, Raised
  <1> QED
    BY <1>1, <1>2

\* advance raises the floor to LATE_TOLERANCE before the newest unlock, never lowers it.
LEMMA AdvancedFacts ==
    ASSUME WorldInv, NEW c \in Cursor, NEW page \in SUBSET indexed
    PROVE  /\ Advanced(c, page) \in Cursor
           /\ Advanced(c, page).start = c.start /\ Advanced(c, page).seen = page
           /\ Advanced(c, page).floor >= c.floor
           /\ \A r \in page : Advanced(c, page).floor >= r.at - Late
           /\ \/ Advanced(c, page).floor = c.floor
              \/ \E r \in page : Advanced(c, page).floor = r.at - Late
  <1> DEFINE S == {c.floor} \cup {r.at - Late : r \in page}
             b == IF c.floor > clock THEN c.floor ELSE clock
  <1>0. c.floor \in Int /\ c.start \in Int /\ clock \in Int /\ Late \in Int /\ Late >= 0
        /\ page \subseteq Records
    BY IndexedType, Limits DEF Cursor
  <1>1. \A r \in page : r.at \in Int /\ r.at - Late \in Int /\ r.at - Late <= clock
    BY <1>0, IndexedType
  <1>2. S \in SUBSET Int /\ S # {} /\ b \in Int /\ \A x \in S : x <= b
    BY <1>0, <1>1
  <1>3. Max(S) \in S /\ \A y \in S : Max(S) >= y
    <2> HIDE DEF S, b
    <2> QED
      BY <1>2, BoundedMax
  <1>4. Advanced(c, page) = [start |-> c.start, floor |-> Max(S), seen |-> page]
    BY DEF Advanced
  <1>5. Max(S) \in Int
    BY <1>2, <1>3
  <1>6. /\ Max(S) >= c.floor /\ \A r \in page : Max(S) >= r.at - Late
        /\ Max(S) = c.floor \/ \E r \in page : Max(S) = r.at - Late
    BY <1>3
  <1> HIDE DEF S
  <1> QED
    BY <1>0, <1>4, <1>5, <1>6 DEF Cursor

\* The floor of a cursor that this poll creates is not before the start.
LEMMA FirstFloorFacts ==
    ASSUME WorldInv, clock >= started + Poll
    PROVE  FirstFloor \in Int /\ FirstFloor >= started
  <1>1. clock \in Int /\ started \in Int /\ Poll \in Int /\ MaxReplay \in Int
    BY IndexedType, Limits
  <1>2. clock - MaxReplay \in Int /\ clock - Poll \in Int /\ clock - Poll >= started
    BY <1>1
  <1>3. Max({started, clock - MaxReplay}) \in {started, clock - MaxReplay}
        /\ Max({started, clock - MaxReplay}) >= started
    BY <1>1, <1>2, PairMax
  <1> QED
    BY <1>1, <1>2, <1>3 DEF FirstFloor

\* The pages, the time and the floor of a poll.
LEMMA PollStep == IndInv /\ [Next]_vars => PollInv'
<1> SUFFICES ASSUME IndInv, [Next]_vars PROVE PollInv'
    OBVIOUS
<1>0. /\ WorldInv /\ AckInv /\ PollInv /\ CursorInv
      /\ clock \in Nat /\ started \in Nat /\ Poll \in Nat /\ now \in Nat
    BY IndexedType, LimitAssumption DEF IndInv, PollInv
<1>1. Polled \subseteq Devices /\ DOMAIN NoPages = {}
    BY DEF Polled, NoPages
<1>2. CASE Tick \/ \E r \in world.records : Index(r)
  <2>1. /\ indexed \subseteq indexed' /\ clock' \in {clock, clock + 1}
        /\ UNCHANGED <<world, hpc, want, pages, now, floor, out, started>>
    BY <1>2 DEF Tick, Index
  <2> QED
    BY <1>0, <2>1 DEF PollInv, Devices
<1>3. CASE StartPoll
  <2>1. /\ want' = Polled /\ pages' = NoPages /\ hpc' = "read" /\ clock >= started + Poll
        /\ UNCHANGED <<world, clock, indexed, now, floor, out, started>>
    BY <1>3 DEF StartPoll
  <2> QED
    BY <1>0, <1>1, <2>1 DEF PollInv, Devices
<1>4. ASSUME NEW d \in Devices, ReadPage(d) PROVE PollInv'
  <2>1. DOMAIN pages' \subseteq Devices /\ \A x \in DOMAIN pages' : pages'[x] \subseteq {r \in indexed : r.dev = x}
    <3>1. CASE UNCHANGED pages
      BY <1>0, <3>1 DEF PollInv
    <3>2. CASE pages' = [x \in DOMAIN pages \cup {d} |-> IF x = d THEN Page(d) ELSE pages[x]]
      BY <1>0, <3>2, PageShows DEF PollInv
    <3> QED
      BY <1>4, <3>1, <3>2 DEF ReadPage
  <2>2. /\ UNCHANGED <<world, clock, indexed, out, started>> /\ hpc = "read"
    BY <1>4 DEF ReadPage
  <2>3. clock >= started + Poll
    BY <1>0, <2>2 DEF PollInv
  <2>4. CASE want = {d}
    <3>1. want' = DOMAIN pages' /\ now' = clock /\ floor' = FirstFloor /\ hpc' = "handle"
      BY <1>4, <2>4 DEF ReadPage
    <3>2. FirstFloor \in Int /\ FirstFloor >= started
      BY <1>0, <2>3, FirstFloorFacts
    <3>3. now' \in Nat /\ now' <= clock
      BY <1>0, <3>1
    <3> QED
      BY <1>0, <2>1, <2>2, <2>3, <3>1, <3>2, <3>3 DEF PollInv, Devices
  <2>5. CASE want # {d}
    <3>1. want' = want \ {d} /\ UNCHANGED <<now, floor, hpc>>
      BY <1>4, <2>5 DEF ReadPage
    <3> QED
      BY <1>0, <2>1, <2>2, <3>1 DEF PollInv, Devices
  <2> QED
    BY <2>4, <2>5
<1>5. ASSUME NEW d \in Devices, HandlePage(d) PROVE PollInv'
  <2>1. /\ want' = want \ {d} /\ d \in want /\ hpc = "handle"
        /\ out' = Fresh(CursorOf(d), {r \in pages[d] : r.kind = "unlock"})
        /\ UNCHANGED <<world, clock, indexed, pages, now, floor, hpc, started>>
    BY <1>5 DEF HandlePage
  <2>2. out' \subseteq {r \in indexed : r.kind = "unlock"}
    BY <1>0, <2>1 DEF Fresh, PollInv
  <2> QED
    BY <1>0, <2>1, <2>2 DEF PollInv, Devices
<1>6. ASSUME NEW r \in world.records, PublishUnlock(r) PROVE PollInv'
  <2>1. /\ out' \subseteq out
        /\ UNCHANGED <<world, clock, indexed, want, pages, now, floor, hpc, started>>
    BY <1>6 DEF PublishUnlock
  <2> QED
    BY <1>0, <2>1 DEF PollInv, Devices
<1>7. CASE EndPoll
  <2>1. /\ hpc' = "sleep" /\ pages' = NoPages /\ now' = 0 /\ floor' = 0
        /\ UNCHANGED <<world, clock, indexed, want, out, started>>
    BY <1>7 DEF EndPoll
  <2> QED
    BY <1>0, <1>1, <2>1 DEF PollInv, Devices
<1>8. CASE Restart
  <2>1. /\ hpc' = "sleep" /\ pages' = NoPages /\ now' = 0 /\ floor' = 0 /\ want' = {} /\ out' = {}
        /\ UNCHANGED <<clock, world, indexed>>
    BY <1>8 DEF Restart
  <2> QED
    BY <1>0, <1>1, <2>1 DEF PollInv, Devices
<1>9. ASSUME UNCHANGED <<world, clock, indexed, hpc, want, pages, now, floor, out, started>>
      PROVE  PollInv'
    BY <1>0, <1>9 DEF PollInv, Devices
<1> QED
    BY <1>2, <1>3, <1>4, <1>5, <1>6, <1>7, <1>8, <1>9
    DEF Next, vars, Handle, Reconnect, Acknowledge, AcknowledgeFails, Include

\* Cursors keep their start and never lower their floor.
LEMMA CursorStep == IndInv /\ [Next]_vars => CursorInv'
<1> SUFFICES ASSUME IndInv, [Next]_vars PROVE CursorInv'
    OBVIOUS
<1>0. /\ WorldInv /\ PollInv /\ CursorInv
      /\ clock \in Nat /\ started \in Nat /\ Late \in Nat /\ indexed \subseteq Records
    BY IndexedType, LimitAssumption DEF IndInv
<1>1. CASE Tick \/ \E r \in world.records : Index(r)
  <2>1. indexed \subseteq indexed' /\ UNCHANGED <<world, cursors, started>>
    BY <1>1 DEF Tick, Index
  <2> QED
    BY <1>0, <2>1 DEF CursorInv, Raised, Devices
<1>2. ASSUME NEW d \in Devices, HandlePage(d) PROVE CursorInv'
  <2> DEFINE c == CursorOf(d)
             page == {r \in pages[d] : r.kind = "unlock"}
             n == Advanced(c, page)
  <2>1. /\ d \in want /\ hpc = "handle"
        /\ cursors' = [x \in DOMAIN cursors \cup {d} |-> IF x = d THEN n ELSE cursors[x]]
        /\ UNCHANGED <<world, indexed, started>>
    BY <1>2 DEF HandlePage
  <2>2. page \in SUBSET indexed /\ page \subseteq {r \in indexed : r.dev = d /\ r.kind = "unlock"}
    BY <1>0, <2>1 DEF PollInv
  <2>3. /\ c \in Cursor /\ started <= c.start /\ c.start <= c.floor
        /\ Raised(d, c)
    BY <1>0, <2>1, CursorFacts
  <2> HIDE DEF c, page
  <2>4. /\ n \in Cursor /\ n.start = c.start /\ n.seen = page /\ n.floor >= c.floor
        /\ n.floor = c.floor \/ \E r \in page : n.floor = r.at - Late
    BY <1>0, <2>2, <2>3, AdvancedFacts
  <2> HIDE DEF n
  <2>5. n.start \in Int /\ n.floor \in Int /\ c.floor \in Int /\ c.start \in Int
    BY <2>3, <2>4 DEF Cursor
  <2>6. started <= n.start /\ n.start <= n.floor
    BY <1>0, <2>3, <2>4, <2>5
  <2>7. Raised(d, n)
    BY <2>2, <2>3, <2>4 DEF Raised
  <2>8. \A x, e : Raised(x, e) => Raised(x, e)'
    BY <2>1 DEF Raised
  <2> QED
    BY <1>0, <2>1, <2>2, <2>4, <2>6, <2>7, <2>8 DEF CursorInv, Cursor, Devices
<1>3. CASE Restart
    BY <1>3 DEF Restart, CursorInv, NoPages
<1>4. ASSUME UNCHANGED <<world, indexed, cursors, started>> PROVE CursorInv'
    BY <1>0, <1>4 DEF CursorInv, Raised, Devices
<1> QED
    BY <1>1, <1>2, <1>3, <1>4
    DEF Next, vars, Handle, Reconnect, Acknowledge, AcknowledgeFails, Include, StartPoll, EndPoll,
        ReadPage, PublishUnlock

\* What was published before the start and what the watch task publishes are apart.
LEMMA ReplayStep == IndInv /\ [Next]_vars => ReplayInv'
<1> SUFFICES ASSUME IndInv, [Next]_vars PROVE ReplayInv'
    OBVIOUS
<1>0. /\ WorldInv /\ PollInv /\ CursorInv /\ ReplayInv
      /\ clock \in Nat /\ started \in Nat /\ indexed \subseteq Records /\ world.records \subseteq Records
      /\ \A r \in Records : r.at \in Nat
    BY IndexedType, RecordType DEF IndInv
<1>1. CASE Tick
  <2>1. clock' = clock + 1 /\ UNCHANGED <<told, pub, byHistory, out, started>>
    BY <1>1 DEF Tick
  <2> QED
    BY <1>0, <2>1 DEF ReplayInv
<1>2. ASSUME NEW r \in world.records, Handle(r) PROVE ReplayInv'
  <2>1. pub' \subseteq pub \cup {r} /\ r.at <= clock /\ UNCHANGED <<told, clock, byHistory, out, started>>
    BY <1>2 DEF Handle, Publish
  <2> QED
    BY <1>0, <2>1 DEF ReplayInv
<1>3. ASSUME NEW d \in Devices, HandlePage(d) PROVE ReplayInv'
  <2> DEFINE c == CursorOf(d)
  <2>1. /\ hpc = "handle" /\ d \in want
        /\ out' = Fresh(c, {r \in pages[d] : r.kind = "unlock"})
        /\ UNCHANGED <<told, pub, clock, byHistory, started>>
    BY <1>3 DEF HandlePage
  <2>2. c \in Cursor /\ started <= c.start /\ c.start <= c.floor
    BY <1>0, <2>1, CursorFacts
  <2>3. \A r \in out' : r \in indexed /\ r.at >= c.floor
    BY <1>0, <2>1 DEF Fresh, PollInv
  <2>4. \A r \in out' : r.at >= started
    BY <1>0, <2>2, <2>3 DEF Cursor
  <2> QED
    BY <1>0, <2>1, <2>4 DEF ReplayInv
<1>4. ASSUME NEW r \in world.records, PublishUnlock(r) PROVE ReplayInv'
  <2>1. /\ r \in out /\ out' \subseteq out /\ pub' \subseteq pub \cup {r}
        /\ byHistory' \subseteq byHistory \cup {r} /\ UNCHANGED <<told, clock, started>>
    BY <1>4 DEF PublishUnlock, Publish
  <2>2. r.at <= clock
    BY <1>0, <2>1, IndexedType DEF PollInv
  <2> QED
    BY <1>0, <2>1, <2>2 DEF ReplayInv
<1>5. CASE Restart
  <2>1. /\ told' = told \cup pub /\ pub' = {} /\ byHistory' = {} /\ out' = {}
        /\ started' = clock
    BY <1>5 DEF Restart
  <2>2. \A r \in told \cup pub : r \in Records /\ r.at <= clock
    BY <1>0 DEF ReplayInv, WorldInv
  <2> QED
    BY <2>1, <2>2 DEF ReplayInv
<1>6. ASSUME UNCHANGED <<told, pub, clock, byHistory, out, started>> PROVE ReplayInv'
    BY <1>0, <1>6 DEF ReplayInv
<1> QED
    BY <1>1, <1>2, <1>3, <1>4, <1>5, <1>6
    DEF Next, vars, Index, Reconnect, Acknowledge, AcknowledgeFails, Include, StartPoll, EndPoll, ReadPage


-----------------------------------------------------------------------------
(* Late unlocks.                                                           *)

\* A record that left the page does not come back: the history only grows.
LEMMA DeepStays ==
    ASSUME WorldInv, WorldInv', indexed \subseteq indexed', NEW r, Deep(r)
    PROVE  Deep(r)'
  <1>1. IsFiniteSet(Newer(r)) /\ IsFiniteSet(Newer(r)')
    <2>1. IsFiniteSet(indexed) /\ IsFiniteSet(indexed')
      BY IndexedType, RecordType, FS_Subset DEF WorldInv
    <2> QED
      BY <2>1, FS_Subset DEF Newer
  <1>2. Newer(r) \subseteq Newer(r)'
    BY DEF Newer
  <1>3. Cardinality(Newer(r)) <= Cardinality(Newer(r)')
    BY <1>1, <1>2, FS_Subset
  <1>4. Cardinality(Newer(r)) \in Nat /\ Cardinality(Newer(r)') \in Nat /\ PageLimit \in Nat
    BY <1>1, FS_CardinalityType, LimitAssumption
  <1> QED
    BY <1>3, <1>4 DEF Deep

\* A record is on the page or too deep in the history for it.
LEMMA OnPage ==
    ASSUME WorldInv, NEW d, NEW r \in indexed, r.dev = d
    PROVE  r \in Page(d) <=> ~ Deep(r)
  <1>1. IsFiniteSet(Newer(r))
    BY IndexedType, FS_Subset DEF Newer
  <1>2. Cardinality(Newer(r)) \in Nat /\ PageLimit \in Nat
    BY <1>1, FS_CardinalityType, LimitAssumption
  <1> QED
    BY <1>2, PageShows DEF Deep

\* What Ring indexes now is above every floor that a page has raised, or overdue.
LEMMA LateIsOverdue ==
    ASSUME WorldInv, CursorInv, NEW r \in world.records, Index(r), r.dev \in DOMAIN cursors,
           Passed(cursors[r.dev], r)
    PROVE  r \in overdue'
  <1> DEFINE c == cursors[r.dev]
  <1>1. c.start \in Int /\ c.floor \in Int /\ r.at \in Int /\ Late \in Int
    BY IndexedType, LimitAssumption DEF CursorInv
  <1>2. PICK s \in indexed : s.kind = "unlock" /\ s.dev = r.dev /\ c.floor = s.at - Late
    BY <1>1 DEF CursorInv, Raised, Passed
  <1>3. s.at > r.at + Late
    BY <1>1, <1>2, IndexedType DEF Passed
  <1> QED
    BY <1>2, <1>3 DEF Index, Overtakes

\* What handling a page does to the cursor of its Intercom.
LEMMA HandledCursor ==
    ASSUME IndInv, NEW d \in Devices, HandlePage(d)
    PROVE  /\ d \in DOMAIN pages /\ hpc = "handle" /\ out = {}
           /\ DOMAIN cursors' = DOMAIN cursors \cup {d}
           /\ \A x \in DOMAIN cursors \ {d} : cursors'[x] = cursors[x]
           /\ cursors'[d].start = CursorOf(d).start
           /\ cursors'[d].seen = {r \in pages[d] : r.kind = "unlock"}
           /\ cursors'[d].floor \in Int
           /\ \/ cursors'[d].floor = CursorOf(d).floor
              \/ \E r \in pages[d] : r.kind = "unlock" /\ cursors'[d].floor = r.at - Late
           /\ out' = Fresh(CursorOf(d), {r \in pages[d] : r.kind = "unlock"})
           /\ UNCHANGED <<pages, indexed, settled, overdue>>
  <1> DEFINE c == CursorOf(d)
             page == {r \in pages[d] : r.kind = "unlock"}
  <1>1. /\ d \in want /\ hpc = "handle" /\ out = {}
        /\ cursors' = [x \in DOMAIN cursors \cup {d} |-> IF x = d THEN Advanced(c, page) ELSE cursors[x]]
        /\ out' = Fresh(c, page)
        /\ UNCHANGED <<pages, indexed, settled, overdue>>
    BY DEF HandlePage
  <1>2. page \in SUBSET indexed /\ d \in DOMAIN pages
    BY <1>1 DEF IndInv, PollInv
  <1>3. c \in Cursor
    BY <1>1, CursorFacts DEF IndInv
  <1>4. /\ Advanced(c, page) \in Cursor /\ Advanced(c, page).start = c.start
        /\ Advanced(c, page).seen = page
        /\ \/ Advanced(c, page).floor = c.floor
           \/ \E r \in page : Advanced(c, page).floor = r.at - Late
    <2> HIDE DEF c, page
    <2> QED
      BY <1>2, <1>3, AdvancedFacts DEF IndInv
  <1>5. cursors'[d] = Advanced(c, page) /\ DOMAIN cursors' = DOMAIN cursors \cup {d}
        /\ \A x \in DOMAIN cursors \ {d} : cursors'[x] = cursors[x]
    BY <1>1
  <1> QED
    BY <1>1, <1>2, <1>4, <1>5 DEF Cursor

\* No unlock below a floor is one the cursor has not seen.
LEMMA FloorStep == IndInv /\ [Next]_vars => FloorInv'
<1> SUFFICES ASSUME IndInv, [Next]_vars PROVE FloorInv'
    OBVIOUS
<1>0. WorldInv /\ WorldInv' /\ PollInv /\ CursorInv /\ FloorInv /\ PageInv
    BY WorldStep DEF IndInv
<1>1. ASSUME NEW s \in world.records, Index(s) PROVE FloorInv'
  <2>1. indexed' = indexed \cup {s} /\ overdue \subseteq overdue' /\ UNCHANGED cursors
    BY <1>1 DEF Index
  <2> SUFFICES ASSUME NEW d \in DOMAIN cursors, NEW r \in indexed', r.dev = d, Passed(cursors[d], r)
               PROVE  r \in cursors[d].seen \/ Deep(r)' \/ r \in overdue'
    BY <2>1 DEF FloorInv, Passed
  <2>2. CASE r = s
    BY <1>0, <1>1, <2>2, LateIsOverdue
  <2>3. CASE r # s
    <3>1. r \in cursors[d].seen \/ Deep(r) \/ r \in overdue
      BY <1>0, <2>1, <2>3 DEF FloorInv
    <3> QED
      BY <1>0, <2>1, <3>1, DeepStays
  <2> QED
    BY <2>2, <2>3
<1>2. ASSUME NEW d \in Devices, HandlePage(d) PROVE FloorInv'
  <2> DEFINE c == CursorOf(d)
             n == cursors'[d]
  <2>1. /\ d \in DOMAIN pages /\ hpc = "handle"
        /\ DOMAIN cursors' = DOMAIN cursors \cup {d}
        /\ \A x \in DOMAIN cursors \ {d} : cursors'[x] = cursors[x]
        /\ n.start = c.start /\ n.seen = {r \in pages[d] : r.kind = "unlock"} /\ n.floor \in Int
        /\ n.floor = c.floor \/ \E r \in pages[d] : r.kind = "unlock" /\ n.floor = r.at - Late
        /\ UNCHANGED <<pages, indexed, overdue>>
    BY <1>2, HandledCursor
  <2>2. \A r : Deep(r)' <=> Deep(r)
    BY <2>1 DEF Deep, Newer
  <2>3. ASSUME NEW r \in indexed, r.dev = d, Passed(n, r)
        PROVE  r \in n.seen \/ Deep(r) \/ r \in overdue
    <3>1. r.kind = "unlock" /\ c.start <= r.at /\ r.at < n.floor
      BY <2>1, <2>3 DEF Passed
    <3>2. CASE r \in pages[d] \/ Deep(r) \/ r \in overdue
      BY <2>1, <3>1, <3>2
    <3>3. CASE Reached(pages[d], r)
      <4>1. r.at \in Int /\ Late \in Int /\ \A s \in pages[d] : s.at \in Int
        BY <1>0, <2>1, IndexedType, LimitAssumption DEF PollInv
      <4>2. n.floor = c.floor
        BY <2>1, <3>1, <3>3, <4>1 DEF Reached
      <4>3. Passed(c, r)
        BY <3>1, <4>2 DEF Passed
      <4>4. d \in DOMAIN cursors /\ c = cursors[d]
        <5>1. CASE d \notin DOMAIN cursors
          <6>1. c.start = floor /\ c.floor = floor /\ floor \in Int
            BY <1>0, <5>1 DEF CursorOf, PollInv
          <6> QED
            BY <4>1, <4>3, <6>1 DEF Passed
        <5> QED
          BY <5>1 DEF CursorOf
      <4>5. r \in cursors[d].seen \/ Deep(r) \/ r \in overdue
        BY <1>0, <2>3, <4>3, <4>4 DEF FloorInv
      <4>6. r \in pages[d] \/ Deep(r) \/ r \in overdue
        BY <1>0, <2>1, <4>4, <4>5 DEF PageInv
      <4> QED
        BY <3>2, <4>6
    <3> QED
      BY <1>0, <2>1, <2>3, <3>2, <3>3 DEF PageInv
  <2>4. ASSUME NEW x \in DOMAIN cursors', NEW r \in indexed', r.dev = x, Passed(cursors'[x], r)
        PROVE  r \in cursors'[x].seen \/ Deep(r)' \/ r \in overdue'
    <3>1. CASE x = d
      BY <2>1, <2>2, <2>3, <2>4, <3>1
    <3>2. CASE x # d
      BY <1>0, <2>1, <2>2, <2>4, <3>2 DEF FloorInv
    <3> QED
      BY <3>1, <3>2
  <2> QED
    BY <2>4 DEF FloorInv, Passed
<1>3. CASE Restart
    BY <1>3 DEF Restart, FloorInv, NoPages
<1>4. ASSUME UNCHANGED <<indexed, cursors, overdue>> PROVE FloorInv'
    BY <1>0, <1>4 DEF FloorInv, Passed, Deep, Newer
<1> QED
    BY <1>1, <1>2, <1>3, <1>4
    DEF Next, vars, Tick, Handle, Reconnect, Acknowledge, AcknowledgeFails, Include, StartPoll, EndPoll,
        ReadPage, PublishUnlock

\* A page that was read shows what is indexed, but what came too late for it.
LEMMA PageStep == IndInv /\ [Next]_vars => PageInv'
<1> SUFFICES ASSUME IndInv, [Next]_vars PROVE PageInv'
    OBVIOUS
<1>0. WorldInv /\ WorldInv' /\ PollInv /\ CursorInv /\ FloorInv /\ PageInv
    BY WorldStep DEF IndInv
<1>1. ASSUME NEW s \in world.records, Index(s) PROVE PageInv'
  <2>1. indexed' = indexed \cup {s} /\ overdue \subseteq overdue' /\ UNCHANGED <<cursors, pages>>
    BY <1>1 DEF Index
  <2>2. \A r : Deep(r) => Deep(r)'
    BY <1>0, <2>1, DeepStays
  <2>3. ASSUME NEW d \in DOMAIN pages, s.dev = d PROVE s \in overdue' \/ Reached(pages[d], s)
    <3>1. ASSUME NEW t \in pages[d], t.kind = "unlock", ~(t.at <= s.at + Late) PROVE s \in overdue'
      <4>1. t \in indexed /\ t.dev = s.dev /\ t.at \in Int /\ s.at \in Int /\ Late \in Int
        BY <1>0, <2>3, <3>1, IndexedType, LimitAssumption DEF PollInv
      <4> QED
        BY <1>1, <3>1, <4>1 DEF Index, Overtakes
    <3> QED
      BY <3>1 DEF Reached
  <2>4. ASSUME NEW d \in DOMAIN pages, NEW r \in indexed', r.dev = d
        PROVE  r \in pages[d] \/ Deep(r)' \/ r \in overdue' \/ Reached(pages[d], r)
    <3>1. CASE r = s
      BY <2>3, <2>4, <3>1
    <3>2. CASE r # s
      BY <1>0, <2>1, <2>2, <2>4, <3>2 DEF PageInv
    <3> QED
      BY <3>1, <3>2
  <2> QED
    BY <1>0, <2>1, <2>2, <2>4 DEF PageInv, Passed, Reached
<1>2. ASSUME NEW d \in Devices, ReadPage(d) PROVE PageInv'
  <2>1. /\ \/ pages' = [x \in DOMAIN pages \cup {d} |-> IF x = d THEN Page(d) ELSE pages[x]]
           \/ UNCHANGED pages
        /\ UNCHANGED <<cursors, indexed, overdue>>
    BY <1>2 DEF ReadPage
  <2>2. \A r : Deep(r)' <=> Deep(r)
    BY <2>1 DEF Deep, Newer
  <2>3. CASE UNCHANGED pages
    BY <1>0, <2>1, <2>2, <2>3 DEF PageInv, Passed, Reached
  <2>4. CASE pages' = [x \in DOMAIN pages \cup {d} |-> IF x = d THEN Page(d) ELSE pages[x]]
    <3>1. \A r \in indexed : r.dev = d => r \in Page(d) \/ Deep(r)
      BY <1>0, OnPage
    <3>2. ASSUME d \in DOMAIN cursors, NEW r \in Page(d), Passed(cursors[d], r)
          PROVE  r \in cursors[d].seen \/ r \in overdue
      <4>1. r \in indexed /\ r.dev = d
        BY PageShows
      <4> QED
        BY <1>0, <3>2, <4>1, OnPage DEF FloorInv
    <3>3. ASSUME d \in DOMAIN cursors, NEW r \in cursors[d].seen PROVE r \in Page(d) \/ Deep(r)
      BY <1>0, <3>1, <3>3 DEF CursorInv
    <3>4. /\ DOMAIN pages' = DOMAIN pages \cup {d} /\ pages'[d] = Page(d)
          /\ \A x \in DOMAIN pages \ {d} : pages'[x] = pages[x]
      BY <2>4
    <3>5. ASSUME NEW x \in DOMAIN pages'
          PROVE  /\ \A r \in indexed : r.dev = x =>
                      r \in pages'[x] \/ Deep(r) \/ r \in overdue \/ Reached(pages'[x], r)
                 /\ x \in DOMAIN cursors =>
                      /\ \A r \in pages'[x] :
                           Passed(cursors[x], r) => r \in cursors[x].seen \/ r \in overdue
                      /\ \A r \in cursors[x].seen : r \in pages'[x] \/ Deep(r)
      <4>1. CASE x = d
        BY <3>1, <3>2, <3>3, <3>4, <4>1
      <4>2. CASE x # d
        <5>1. x \in DOMAIN pages /\ pages'[x] = pages[x]
          BY <3>4, <3>5, <4>2
        <5> QED
          BY <1>0, <5>1 DEF PageInv
      <4> QED
        BY <4>1, <4>2
    <3> QED
      BY <2>1, <2>2, <3>5 DEF PageInv, Passed, Reached
  <2> QED
    BY <2>1, <2>3, <2>4
<1>3. ASSUME NEW d \in Devices, HandlePage(d) PROVE PageInv'
  <2>1. /\ d \in DOMAIN pages
        /\ DOMAIN cursors' = DOMAIN cursors \cup {d}
        /\ \A x \in DOMAIN cursors \ {d} : cursors'[x] = cursors[x]
        /\ cursors'[d].seen = {r \in pages[d] : r.kind = "unlock"}
        /\ UNCHANGED <<pages, indexed, overdue>>
    BY <1>3, HandledCursor
  <2>2. \A r : Deep(r)' <=> Deep(r)
    BY <2>1 DEF Deep, Newer
  <2>3. ASSUME NEW x \in DOMAIN pages, x \in DOMAIN cursors'
        PROVE  /\ \A r \in pages[x] :
                    Passed(cursors'[x], r) => r \in cursors'[x].seen \/ r \in overdue
               /\ \A r \in cursors'[x].seen : r \in pages[x] \/ Deep(r)
    <3>1. CASE x = d
      BY <2>1, <3>1 DEF Passed
    <3>2. CASE x # d
      BY <1>0, <2>1, <2>3, <3>2 DEF PageInv
    <3> QED
      BY <3>1, <3>2
  <2> QED
    BY <1>0, <2>1, <2>2, <2>3 DEF PageInv, Passed, Reached
<1>4. CASE Restart \/ StartPoll \/ EndPoll
  <2>1. pages' = NoPages
    BY <1>4 DEF Restart, StartPoll, EndPoll
  <2> QED
    BY <2>1 DEF PageInv, NoPages
<1>5. ASSUME UNCHANGED <<indexed, cursors, pages, overdue>> PROVE PageInv'
    BY <1>0, <1>5 DEF PageInv, Passed, Reached, Deep, Newer
<1> QED
    BY <1>1, <1>2, <1>3, <1>4, <1>5
    DEF Next, vars, Tick, Handle, Reconnect, Acknowledge, AcknowledgeFails, Include, PublishUnlock

\* An unlock of the last page was handed to the queue, or is about to be.
LEMMA ReportedStep == IndInv /\ [Next]_vars => UnlockReported'
<1> SUFFICES ASSUME IndInv, [Next]_vars PROVE UnlockReported'
    OBVIOUS
<1>0. WorldInv /\ PollInv /\ CursorInv /\ PageInv /\ UnlockReported
    BY DEF IndInv
<1>1. ASSUME NEW d \in Devices, HandlePage(d) PROVE UnlockReported'
  <2> DEFINE c == CursorOf(d)
             page == {r \in pages[d] : r.kind = "unlock"}
  <2>1. /\ d \in DOMAIN pages /\ hpc = "handle" /\ out = {}
        /\ DOMAIN cursors' = DOMAIN cursors \cup {d}
        /\ \A x \in DOMAIN cursors \ {d} : cursors'[x] = cursors[x]
        /\ cursors'[d].start = c.start /\ cursors'[d].seen = page
        /\ out' = Fresh(c, page) /\ UNCHANGED <<settled, overdue>>
    BY <1>1, HandledCursor
  <2>2. ASSUME NEW r \in page, r.at >= c.start PROVE r \in settled \cup out' \cup overdue
    <3>1. CASE r \notin c.seen /\ r.at >= c.floor
      BY <2>1, <3>1 DEF Fresh
    <3>2. CASE r \in c.seen
      <4>1. d \in DOMAIN cursors /\ c = cursors[d]
        BY <3>2 DEF CursorOf
      <4> QED
        BY <1>0, <2>1, <2>2, <3>2, <4>1 DEF UnlockReported
    <3>3. CASE r \notin c.seen /\ ~(r.at >= c.floor)
      <4>1. c \in Cursor /\ c.start \in Int /\ c.floor \in Int
        BY <1>0, <2>1, CursorFacts DEF Cursor
      <4>2. r.at \in Int
        BY <1>0, <2>1, IndexedType DEF PollInv
      <4>3. r.at < c.floor
        BY <3>3, <4>1, <4>2
      <4>4. Passed(c, r)
        BY <2>2, <4>1, <4>2, <4>3 DEF Passed
      <4>5. CASE d \in DOMAIN cursors
        BY <1>0, <2>1, <3>3, <4>4, <4>5 DEF PageInv, CursorOf
      <4>6. CASE d \notin DOMAIN cursors
        <5>1. c.start = c.floor
          BY <4>6 DEF CursorOf
        <5> QED
          BY <2>2, <3>3, <5>1
      <4> QED
        BY <4>5, <4>6
    <3> QED
      BY <3>1, <3>2, <3>3
  <2>3. ASSUME NEW x \in DOMAIN cursors', NEW r \in cursors'[x].seen, r.at >= cursors'[x].start
        PROVE  r \in settled' \cup out' \cup overdue'
    <3>1. CASE x = d
      BY <2>1, <2>2, <2>3, <3>1
    <3>2. CASE x # d
      BY <1>0, <2>1, <2>3, <3>2 DEF UnlockReported
    <3> QED
      BY <3>1, <3>2
  <2> QED
    BY <2>3 DEF UnlockReported
<1>2. ASSUME NEW r \in world.records, PublishUnlock(r) \/ Handle(r) PROVE UnlockReported'
  <2>1. settled \cup out \subseteq settled' \cup out' /\ UNCHANGED <<cursors, overdue>>
    BY <1>2 DEF PublishUnlock, Handle, Publish
  <2> QED
    BY <1>0, <2>1 DEF UnlockReported
<1>3. CASE Restart
    BY <1>3 DEF Restart, UnlockReported, NoPages
<1>4. ASSUME UNCHANGED <<cursors, settled, out>>, overdue \subseteq overdue' PROVE UnlockReported'
    BY <1>0, <1>4 DEF UnlockReported
<1> QED
    BY <1>1, <1>2, <1>3, <1>4
    DEF Next, vars, Tick, Index, Reconnect, Acknowledge, AcknowledgeFails, Include, StartPoll, EndPoll, ReadPage


-----------------------------------------------------------------------------
(* The watchdog.                                                           *)

Entry == [r : Records, seen : Nat, judged : BOOLEAN]

\* What judging makes of an entry.
Marked(g, m) == [m EXCEPT !.judged = @ \/ Due(g, m)]

\* Publishing changes no watchdog's memory and forgets no push.
LEMMA PublishDogs ==
    ASSUME DogInv, NEW r \in Records, NEW at \in Nat, NEW known, Publish(r, at, known)
    PROVE  /\ unlocks' \in [Routes -> SUBSET Nat] /\ dog' \in [Routes -> Dog]
           /\ \A q \in Routes : dog'[q].memory = dog[q].memory /\ dog[q].push \subseteq dog'[q].push
           /\ r.kind = "ding" /\ r.dev \in up /\ r.dev \in Routes => at \in dog'[r.dev].push
  <1>1. unlocks' \in [Routes -> SUBSET Nat]
    BY DEF Publish, DogInv
  <1>2. ASSUME NEW g \in Dog
        PROVE  /\ RecordPush(g, at) \in Dog /\ RecordPush(g, at).memory = g.memory
               /\ RecordPush(g, at).push = g.push \cup {at}
    <2>1. g.newest \in Int /\ at \in Int
      BY DEF Dog, Never
    <2>2. Max({g.newest, at}) \in {g.newest, at}
      BY ONLY <2>1, PairMax
    <2>3. Max({g.newest, at}) \in Nat \cup {Never}
      BY <2>2 DEF Dog
    <2> QED
      BY <2>3 DEF RecordPush, Dog
  <1> DEFINE new == {q \in Targets(r.dev, known) : ~ Repeated(q, r.kind, at)}
  <1>3. dog' = [q \in Routes |-> IF q \in new /\ r.kind = "ding" THEN RecordPush(dog[q], at) ELSE dog[q]]
    BY DEF Publish
  <1>4. \A q \in Routes : dog[q] \in Dog
    BY DEF DogInv
  <1>5. dog' \in [Routes -> Dog]
    <2> HIDE DEF new
    <2> QED
      BY <1>2, <1>3, <1>4
  <1>6. \A q \in Routes : dog'[q].memory = dog[q].memory /\ dog[q].push \subseteq dog'[q].push
    <2> HIDE DEF new
    <2> QED
      BY <1>2, <1>3, <1>4
  <1>7. r.kind = "ding" /\ r.dev \in up => r.dev \in new
    BY DEF Targets, Repeated
  <1> HIDE DEF new
  <1> QED
    BY <1>1, <1>2, <1>3, <1>4, <1>5, <1>6, <1>7

\* New rings fit into what the limit leaves.
LEMMA FittingFits ==
    ASSUME NEW g, IsFiniteSet(g.memory), Cardinality(g.memory) <= MemoryLimit,
           NEW fresh, IsFiniteSet(fresh), NEW S \in Fitting(g, fresh)
    PROVE  /\ S \subseteq fresh /\ IsFiniteSet(S)
           /\ Cardinality(g.memory) + Cardinality(S) <= MemoryLimit
  <1> DEFINE k == Cardinality(g.memory)
             x == Max({MemoryLimit - k, 0})
             f == Cardinality(fresh)
  <1>1. k \in Nat /\ f \in Nat /\ MemoryLimit \in Nat /\ k <= MemoryLimit
    BY FS_CardinalityType, LimitAssumption
  <1>2. S \subseteq fresh /\ Cardinality(S) = Min({f, x})
    BY DEF Fitting
  <1>3. IsFiniteSet(S)
    BY <1>2, FS_Subset
  <1> HIDE DEF k, f
  <1>4. MemoryLimit - k \in Int /\ MemoryLimit - k >= 0
    BY <1>1
  <1>5. x \in {MemoryLimit - k, 0} /\ x >= MemoryLimit - k /\ x >= 0
    BY <1>4, PairMax
  <1>6. x = MemoryLimit - k
    BY <1>4, <1>5
  <1> HIDE DEF x
  <1>7. Min({f, x}) <= x /\ Min({f, x}) \in {f, x}
    BY <1>1, <1>4, <1>6, PairMax
  <1> QED
    BY <1>1, <1>2, <1>3, <1>6, <1>7 DEF k

\* observe, first part: what a watchdog remembers after the new rings.
LEMMA RememberingFacts ==
    ASSUME NEW g \in Dog, NEW S \in SUBSET Records, now \in Nat
    PROVE  /\ Remembering(g, S) \in Dog /\ Remembering(g, S).push = g.push
           /\ Remembering(g, S).memory =
                g.memory \cup {[r |-> r, seen |-> now, judged |-> FALSE] : r \in S}
  <1>0. \A r \in S : [r |-> r, seen |-> now, judged |-> FALSE] \in Entry
    BY DEF Entry
  <1>1. {[r |-> r, seen |-> now, judged |-> FALSE] : r \in S} \subseteq Entry
    BY <1>0
  <1> QED
    BY <1>1 DEF Remembering, Dog, Entry

\* observe, second part: what waited long enough is judged, what is old goes.
LEMMA ObservedFacts ==
    ASSUME NEW g \in Dog, now \in Nat, NEW b \in Nat, IsFiniteSet(g.memory),
           \A m \in g.memory : m.r.at <= b
    PROVE  /\ Observed(g) \in Dog
           /\ Observed(g).push = {at \in g.push : at >= now - Retention}
           /\ \A n \in Observed(g).memory : \E m \in g.memory :
                /\ n = Marked(g, m)
                /\ m.r.at >= now - Retention
           /\ \A m \in g.memory : m.r.at >= now - Retention =>
                \E n \in Observed(g).memory : n.r = m.r
           /\ IsFiniteSet(Observed(g).memory)
           /\ Cardinality(Observed(g).memory) <= Cardinality(g.memory)
  <1> DEFINE kept == {n \in g.memory : n.r.at >= now - Retention}
             marked == {Marked(g, m) : m \in kept}
             S == {g.missed} \cup {r.at : r \in Missing(g)}
  <1>0. /\ g.memory \subseteq Entry /\ g.missed \in Nat \cup {Never} /\ g.newest \in Nat \cup {Never}
        /\ g.push \subseteq Nat
    BY DEF Dog, Entry
  <1>1. \A m \in Entry : Marked(g, m) \in Entry /\ Marked(g, m).r = m.r
    <2> SUFFICES ASSUME NEW m \in Entry PROVE Marked(g, m) \in Entry /\ Marked(g, m).r = m.r
      OBVIOUS
    <2>1. (m.judged \/ Due(g, m)) \in BOOLEAN
      BY DEF Entry, Due
    <2> QED
      BY <2>1 DEF Entry, Marked
  <1>2. marked \subseteq Entry
    BY <1>0, <1>1
  <1>3. \A r \in Missing(g) : r \in Records /\ r.at <= b
    BY <1>0 DEF Missing, Entry
  <1>4. /\ S \in SUBSET Int /\ S # {} /\ S \subseteq Nat \cup {Never}
        /\ \A x \in S : x <= (IF g.missed > b THEN g.missed ELSE b)
    <2>1. \A r \in Missing(g) : r.at \in Nat /\ r.at <= b
      BY <1>3, RecordType
    <2> QED
      BY <1>0, <2>1 DEF Never
  <1>5. Max(S) \in S
    <2>1. (IF g.missed > b THEN g.missed ELSE b) \in Int
      BY <1>0 DEF Never
    <2> HIDE DEF S
    <2> QED
      BY <1>4, <2>1, BoundedMax
  <1>6. Max(S) \in Nat \cup {Never}
    BY <1>4, <1>5
  <1> DEFINE pushes == {at \in g.push : at >= now - Retention}
  <1>7. Observed(g) = [g EXCEPT !.memory = marked, !.push = pushes, !.missed = Max(S)]
    BY DEF Observed, Marked
  <1>8. /\ Observed(g) \in Dog /\ Observed(g).memory = marked
        /\ Observed(g).push = {at \in g.push : at >= now - Retention}
    <2>1. pushes \subseteq Nat
      BY <1>0
    <2> HIDE DEF marked, S, pushes
    <2>2. Observed(g) = [push |-> pushes, newest |-> g.newest, memory |-> marked, missed |-> Max(S)]
      BY <1>7 DEF Dog
    <2>3. Observed(g) \in Dog
      BY <1>0, <1>2, <1>6, <2>1, <2>2 DEF Dog, Entry
    <2>4. Observed(g).memory = marked /\ Observed(g).push = pushes
      BY <2>2
    <2> QED
      BY <2>3, <2>4 DEF pushes
  <1>9. IsFiniteSet(kept) /\ Cardinality(kept) <= Cardinality(g.memory)
    BY FS_Subset
  <1>10. IsFiniteSet(marked) /\ Cardinality(marked) <= Cardinality(kept)
    <2>1. [m \in kept |-> Marked(g, m)] \in Surjection(kept, marked)
      BY DEF Surjection
    <2> QED
      BY <1>9, <2>1, FS_Surjection
  <1>11. Cardinality(marked) <= Cardinality(g.memory)
    <2>1. Cardinality(marked) \in Nat /\ Cardinality(kept) \in Nat /\ Cardinality(g.memory) \in Nat
      BY <1>9, <1>10, FS_CardinalityType
    <2> QED
      BY <1>9, <1>10, <2>1
  <1>12. \A m \in g.memory : m.r.at >= now - Retention => \E n \in marked : n.r = m.r
    BY <1>0, <1>1
  <1>13. \A n \in marked : \E m \in g.memory : n = Marked(g, m) /\ m.r.at >= now - Retention
    OBVIOUS
  <1> QED
    BY <1>8, <1>10, <1>11, <1>12, <1>13


\* One watchdog judges a page with S new rings: where its entries come from (R) and
\* what becomes of them (H).
Judging(q, S, R, H) ==
    /\ R.push = dog[q].push /\ R \in Dog /\ H \in Dog
    /\ \A r \in S : r.at >= now - ObserveMaxAge /\ \A m \in dog[q].memory : m.r # r
    /\ \A m \in R.memory :
         /\ m \in Entry /\ m.r \in indexed /\ m.seen <= m.r.at + ObserveMaxAge
         /\ q # Alias => m.r.dev = q
         /\ m \in dog[q].memory \/ m.r \in S
    /\ \A m, n \in R.memory : m.r = n.r => m = n
    /\ dog[q].memory \subseteq R.memory
    /\ H.push = {at \in R.push : at >= now - Retention}
    /\ \A n \in H.memory : \E m \in R.memory : n = Marked(R, m) /\ m.r.at >= now - Retention
    /\ \A m \in R.memory : m.r.at >= now - Retention => \E n \in H.memory : n.r = m.r
    /\ IsFiniteSet(H.memory) /\ Cardinality(H.memory) <= MemoryLimit

LEMMA JudgedFacts ==
    ASSUME WorldInv, PollInv, DogInv, NEW d \in DOMAIN pages, NEW q \in Routes, q # Alias => q = d,
           NEW dings \in SUBSET pages[d], NEW S \in Fitting(dog[q], New(dog[q], dings)),
           NEW R, R = Remembering(dog[q], S), NEW H, H = Observed(R)
    PROVE  Judging(q, S, R, H)
  <1> DEFINE g == dog[q]
             fresh == New(g, dings)
             entries == {[r |-> r, seen |-> now, judged |-> FALSE] : r \in S}
  <1>0. /\ g \in Dog /\ g.memory \subseteq Entry /\ now \in Nat /\ clock \in Nat /\ ObserveMaxAge \in Nat
        /\ IsFiniteSet(g.memory) /\ Cardinality(g.memory) <= MemoryLimit /\ MemoryLimit \in Nat
    BY IndexedType, LimitAssumption DEF DogInv, Dog, Entry, PollInv
  <1>1. /\ dings \subseteq indexed /\ \A r \in dings : r.dev = d /\ r.at \in Nat /\ r \in Records
    BY IndexedType DEF PollInv
  <1>2. fresh \subseteq dings /\ IsFiniteSet(fresh)
    BY <1>1, IndexedType, FS_Subset DEF New
  <1>3. S \subseteq fresh /\ IsFiniteSet(S) /\ Cardinality(g.memory) + Cardinality(S) <= MemoryLimit
    <2> HIDE DEF g, fresh
    <2>1. S \in Fitting(g, fresh)
      BY DEF g, fresh
    <2> QED
      BY <1>0, <1>2, <2>1, FittingFits
  <1>4. \A r \in S : r.at >= now - ObserveMaxAge /\ \A m \in g.memory : m.r # r
    BY <1>3 DEF New
  <1>5. S \in SUBSET Records
    BY <1>1, <1>2, <1>3
  <1>6. R \in Dog /\ R.push = g.push /\ R.memory = g.memory \cup entries
    <2> HIDE DEF g
    <2> QED
      BY <1>0, <1>5, RememberingFacts DEF g
  <1>7. ASSUME NEW m \in entries
        PROVE  /\ m.r \in S /\ m.r \in indexed /\ m.r.dev = d /\ m.seen <= m.r.at + ObserveMaxAge
               /\ m = [r |-> m.r, seen |-> now, judged |-> FALSE]
    <2>1. PICK r \in S : m = [r |-> r, seen |-> now, judged |-> FALSE]
      OBVIOUS
    <2>2. r \in indexed /\ r.dev = d /\ r.at \in Nat /\ r.at >= now - ObserveMaxAge
      BY <1>1, <1>2, <1>3, <1>4
    <2>3. now <= r.at + ObserveMaxAge
      BY <1>0, <2>2
    <2> QED
      BY <2>1, <2>2, <2>3
  <1> HIDE DEF entries
  <1>8. R.memory \subseteq Entry
    BY <1>6 DEF Dog, Entry
  <1>9. \A m \in R.memory : /\ m \in Entry /\ m.r \in indexed /\ m.seen <= m.r.at + ObserveMaxAge
                            /\ q # Alias => m.r.dev = q
                            /\ m \in g.memory \/ m.r \in S
    <2> SUFFICES ASSUME NEW m \in R.memory
                 PROVE  /\ m \in Entry /\ m.r \in indexed /\ m.seen <= m.r.at + ObserveMaxAge
                        /\ q # Alias => m.r.dev = q
                        /\ m \in g.memory \/ m.r \in S
      OBVIOUS
    <2>1. CASE m \in g.memory
      BY <1>8, <2>1 DEF DogInv
    <2>2. CASE m \in entries
      BY <1>7, <1>8, <2>2
    <2> QED
      BY <1>6, <2>1, <2>2
  <1>10. ASSUME NEW m \in R.memory, NEW n \in R.memory, m.r = n.r PROVE m = n
    <2>1. CASE m \in g.memory /\ n \in g.memory
      BY <1>10, <2>1 DEF DogInv
    <2>2. CASE m \in entries /\ n \in entries
      BY <1>7, <1>10, <2>2
    <2>3. CASE (m \in g.memory /\ n \in entries) \/ (m \in entries /\ n \in g.memory)
      BY <1>4, <1>7, <1>10, <2>3
    <2>4. (m \in g.memory \/ m \in entries) /\ (n \in g.memory \/ n \in entries)
      BY <1>6
    <2> QED
      BY <2>1, <2>2, <2>3, <2>4
  <1>11. IsFiniteSet(R.memory) /\ Cardinality(R.memory) <= MemoryLimit
    <2>1. IsFiniteSet(entries) /\ Cardinality(entries) <= Cardinality(S)
      <3>1. [r \in S |-> [r |-> r, seen |-> now, judged |-> FALSE]] \in Surjection(S, entries)
        BY DEF Surjection, entries
      <3> QED
        BY <1>3, <3>1, FS_Surjection
    <2>2. /\ IsFiniteSet(g.memory \cup entries)
          /\ Cardinality(g.memory \cup entries)
               = Cardinality(g.memory) + Cardinality(entries) - Cardinality(g.memory \cap entries)
      BY <1>0, <2>1, FS_Union
    <2>3. /\ Cardinality(g.memory) \in Nat /\ Cardinality(entries) \in Nat /\ Cardinality(S) \in Nat
          /\ Cardinality(g.memory \cap entries) \in Nat
      BY <1>0, <1>3, <2>1, FS_CardinalityType, FS_Intersection
    <2> QED
      BY <1>0, <1>3, <1>6, <2>1, <2>2, <2>3
  <1>12. \A m \in R.memory : m.r.at <= clock
    BY <1>9, IndexedType
  <1>13. /\ H \in Dog /\ H.push = {at \in R.push : at >= now - Retention}
         /\ \A n \in H.memory : \E m \in R.memory :
              n = Marked(R, m) /\ m.r.at >= now - Retention
         /\ \A m \in R.memory : m.r.at >= now - Retention => \E n \in H.memory : n.r = m.r
         /\ IsFiniteSet(H.memory) /\ Cardinality(H.memory) <= Cardinality(R.memory)
    BY <1>0, <1>6, <1>11, <1>12, ObservedFacts
  <1>14. Cardinality(H.memory) <= MemoryLimit
    <2>1. Cardinality(H.memory) \in Nat /\ Cardinality(R.memory) \in Nat
      BY <1>11, <1>13, FS_CardinalityType
    <2> QED
      BY <1>0, <1>11, <1>13, <2>1
  <1> QED
    BY <1>4, <1>6, <1>9, <1>10, <1>13, <1>14 DEF Judging

\* Handling a page: which watchdogs judge it, and with which new rings.
LEMMA HandledDogs ==
    ASSUME IndInv, NEW d \in Devices, HandlePage(d)
    PROVE  LET judging == Targets(d, DOMAIN pages)
               dings == {r \in pages[d] : r.kind = "ding" /\ r.at >= CursorOf(d).start}
           IN  /\ d \in DOMAIN pages /\ hpc = "handle" /\ UNCHANGED <<hpc, now, clock, indexed, unlocks, pushed>>
               /\ judging \subseteq {d, Alias} /\ judging \subseteq Routes
               /\ \E fit \in [judging -> SUBSET dings] :
                    /\ \A q \in judging : fit[q] \in Fitting(dog[q], New(dog[q], dings))
                    /\ dog' = [q \in Routes |-> IF q \in judging
                                                THEN Observed(Remembering(dog[q], fit[q])) ELSE dog[q]]
                    /\ reports' = [r \in Dings |->
                                     IF d \in judging /\ r \in Missing(Remembering(dog[d], fit[d]))
                                     THEN reports[r] + 1 ELSE reports[r]]
  <1>1. d \in want /\ hpc = "handle" /\ UNCHANGED <<hpc, now, clock, indexed, unlocks, pushed>>
    BY DEF HandlePage
  <1>2. d \in DOMAIN pages
    BY <1>1 DEF IndInv, PollInv
  <1>3. Targets(d, DOMAIN pages) \subseteq {d, Alias} /\ Targets(d, DOMAIN pages) \subseteq Routes
    BY DEF Targets, IndInv, AckInv
  <1> QED
    BY <1>1, <1>2, <1>3 DEF HandlePage

\* The types and the limit of the watchdogs.
LEMMA DogStep == IndInv /\ [Next]_vars => DogInv'
<1> SUFFICES ASSUME IndInv, [Next]_vars PROVE DogInv'
    OBVIOUS
<1>0. WorldInv /\ AckInv /\ PollInv /\ DogInv /\ MemoryLimit \in Nat
    BY LimitAssumption DEF IndInv
<1>1. NewDog \in Dog /\ NewDog.memory = {} /\ IsFiniteSet({}) /\ Cardinality({}) <= MemoryLimit
    BY <1>0, FS_EmptySet DEF NewDog, Dog
<1>2. ASSUME NEW r \in world.records, Index(r) PROVE DogInv'
  <2>1. indexed \subseteq indexed' /\ UNCHANGED <<unlocks, dog>>
    BY <1>2 DEF Index
  <2> QED
    BY <1>0, <2>1 DEF DogInv
<1>3. ASSUME NEW r \in Records, NEW at \in Nat, NEW known, Publish(r, at, known), UNCHANGED indexed
      PROVE  DogInv'
  <2>1. /\ unlocks' \in [Routes -> SUBSET Nat] /\ dog' \in [Routes -> Dog]
        /\ \A q \in Routes : dog'[q].memory = dog[q].memory
    BY <1>0, <1>3, PublishDogs
  <2> QED
    BY <1>0, <1>3, <2>1 DEF DogInv
<1>4. ASSUME NEW r \in world.records, Handle(r) PROVE DogInv'
  <2>1. r \in Records /\ r.at \in Nat /\ clock \in Nat /\ UNCHANGED indexed
    BY <1>0, <1>4, IndexedType DEF Handle
  <2>2. CASE UNCHANGED <<unlocks, dog>>
    BY <1>0, <2>1, <2>2 DEF DogInv
  <2>3. CASE \E at \in {r.at, clock} : Publish(r, at, subs)
    BY <1>3, <2>1, <2>3
  <2> QED
    BY <1>4, <2>2, <2>3 DEF Handle
<1>5. ASSUME NEW r \in world.records, PublishUnlock(r) PROVE DogInv'
  <2>1. r \in Records /\ r.at \in Nat /\ UNCHANGED indexed
    BY <1>0, <1>5, IndexedType DEF PublishUnlock
  <2> QED
    BY <1>3, <1>5, <2>1 DEF PublishUnlock
<1>6. ASSUME NEW d \in Devices, HandlePage(d) PROVE DogInv'
  <2> DEFINE judging == Targets(d, DOMAIN pages)
             dings == {r \in pages[d] : r.kind = "ding" /\ r.at >= CursorOf(d).start}
  <2>1. /\ d \in DOMAIN pages /\ hpc = "handle" /\ UNCHANGED <<indexed, unlocks>>
        /\ judging \subseteq {d, Alias} /\ judging \subseteq Routes
    BY <1>6, HandledDogs
  <2>2. PICK fit \in [judging -> SUBSET dings] :
          /\ \A q \in judging : fit[q] \in Fitting(dog[q], New(dog[q], dings))
          /\ dog' = [q \in Routes |-> IF q \in judging
                                      THEN Observed(Remembering(dog[q], fit[q])) ELSE dog[q]]
    BY <1>6, HandledDogs
  <2>3. dings \in SUBSET pages[d]
    OBVIOUS
  <2> HIDE DEF judging, dings
  <2>4. ASSUME NEW q \in Routes
        PROVE  /\ dog'[q] \in Dog
               /\ IsFiniteSet(dog'[q].memory) /\ Cardinality(dog'[q].memory) <= MemoryLimit
               /\ \A m \in dog'[q].memory :
                    m.r \in indexed /\ m.seen <= m.r.at + ObserveMaxAge /\ (q # Alias => m.r.dev = q)
               /\ \A m, n \in dog'[q].memory : m.r = n.r => m = n
    <3>1. CASE q \notin judging
      BY <1>0, <2>2, <3>1 DEF DogInv
    <3>2. CASE q \in judging
      <4> DEFINE R == Remembering(dog[q], fit[q])
                 H == Observed(R)
      <4>1. q # Alias => q = d
        BY <2>1, <3>2
      <4>2. /\ fit[q] \in Fitting(dog[q], New(dog[q], dings))
            /\ R = Remembering(dog[q], fit[q]) /\ H = Observed(R)
        BY <2>2, <3>2
      <4> HIDE DEF R, H
      <4>3. Judging(q, fit[q], R, H)
        BY <1>0, <2>1, <2>3, <4>1, <4>2, JudgedFacts
      <4>4. dog'[q] = H
        BY <2>2, <3>2, <4>2
      <4>5. ASSUME NEW n \in H.memory
            PROVE  \E m \in R.memory : n.r = m.r /\ n.seen = m.seen /\ n = Marked(R, m)
        BY <4>3 DEF Judging, Entry, Marked
      <4>6. \A m \in H.memory :
              m.r \in indexed /\ m.seen <= m.r.at + ObserveMaxAge /\ (q # Alias => m.r.dev = q)
        BY <4>3, <4>5 DEF Judging
      <4>7. \A m, n \in H.memory : m.r = n.r => m = n
        BY <4>3, <4>5 DEF Judging
      <4> QED
        BY <4>3, <4>4, <4>6, <4>7 DEF Judging
    <3> QED
      BY <3>1, <3>2
  <2>5. dog' \in [Routes -> Dog]
    BY <2>2, <2>4
  <2> QED
    BY <1>0, <2>1, <2>4, <2>5 DEF DogInv
<1>7. ASSUME NEW d \in Devices, Include(d) PROVE DogInv'
  <2>1. unlocks' \in [Routes -> SUBSET Nat] /\ UNCHANGED indexed
    BY <1>0, <1>7 DEF Include, DogInv
  <2>2. dog' \in [Routes -> Dog] /\ \A q \in Routes : dog'[q] \in {dog[q], NewDog}
    BY <1>0, <1>1, <1>7 DEF Include, DogInv
  <2> QED
    BY <1>0, <1>1, <2>1, <2>2 DEF DogInv
<1>8. CASE Restart
  <2>1. /\ unlocks' \in [Routes -> SUBSET Nat] /\ dog' \in [Routes -> Dog]
        /\ \A q \in Routes : dog'[q] = NewDog
    BY <1>1, <1>8 DEF Restart
  <2> QED
    BY <1>1, <2>1 DEF DogInv
<1>9. ASSUME UNCHANGED <<indexed, unlocks, dog>> PROVE DogInv'
    BY <1>0, <1>9 DEF DogInv
<1> QED
    BY <1>2, <1>4, <1>5, <1>6, <1>7, <1>8, <1>9
    DEF Next, vars, Tick, Reconnect, Acknowledge, AcknowledgeFails, StartPoll, EndPoll, ReadPage


\* A page changes the watchdog of its own Intercom, and reports rings of that one only.
LEMMA HandledRing ==
    ASSUME IndInv, NEW d \in Devices, HandlePage(d), NEW r \in Dings
    PROVE  \/ reports'[r] = reports[r] /\ dog'[r.dev] = dog[r.dev]
           \/ /\ r.dev = d
              /\ \E S, R : /\ Judging(d, S, R, dog'[d])
                           /\ reports'[r] = IF r \in Missing(R) THEN reports[r] + 1 ELSE reports[r]
  <1> DEFINE judging == Targets(d, DOMAIN pages)
             dings == {x \in pages[d] : x.kind = "ding" /\ x.at >= CursorOf(d).start}
  <1>0. WorldInv /\ PollInv /\ DogInv
    BY DEF IndInv
  <1>1. d \in DOMAIN pages /\ judging \subseteq {d, Alias} /\ judging \subseteq Routes
    BY HandledDogs
  <1>2. PICK fit \in [judging -> SUBSET dings] :
          /\ \A q \in judging : fit[q] \in Fitting(dog[q], New(dog[q], dings))
          /\ dog' = [q \in Routes |-> IF q \in judging
                                      THEN Observed(Remembering(dog[q], fit[q])) ELSE dog[q]]
          /\ reports' = [x \in Dings |->
                           IF d \in judging /\ x \in Missing(Remembering(dog[d], fit[d]))
                           THEN reports[x] + 1 ELSE reports[x]]
    BY HandledDogs
  <1>3. dings \in SUBSET pages[d]
    OBVIOUS
  <1>4. r.dev \in Routes /\ r.dev # Alias /\ d \in Routes /\ d # Alias
    BY <1>0, IndexedType, RecordType DEF Dings
  <1> HIDE DEF judging, dings
  <1>5. CASE d \notin judging
    <2>1. r.dev \notin judging
      BY <1>1, <1>4, <1>5
    <2> QED
      BY <1>2, <1>4, <1>5, <2>1
  <1>6. CASE d \in judging
    <2> DEFINE R == Remembering(dog[d], fit[d])
               H == Observed(R)
    <2>1. /\ fit[d] \in Fitting(dog[d], New(dog[d], dings))
          /\ R = Remembering(dog[d], fit[d]) /\ H = Observed(R) /\ dog'[d] = H
          /\ reports'[r] = IF r \in Missing(R) THEN reports[r] + 1 ELSE reports[r]
      BY <1>2, <1>4, <1>6
    <2> HIDE DEF R, H
    <2>2. Judging(d, fit[d], R, H)
      BY <1>0, <1>1, <1>3, <1>4, <2>1, JudgedFacts
    <2>3. CASE r.dev = d
      BY <2>1, <2>2, <2>3
    <2>4. CASE r.dev # d
      <3>1. r \notin Missing(R)
        BY <1>4, <2>2, <2>4 DEF Judging, Missing
      <3>2. r.dev \notin judging
        BY <1>1, <1>4, <2>4
      <3> QED
        BY <1>2, <1>4, <2>1, <3>1, <3>2
    <2> QED
      BY <2>3, <2>4
  <1> QED
    BY <1>5, <1>6

\* A ring that is past an age stays past it: polls do not go back in time.
LEMMA PastStays ==
    ASSUME IndInv, Next, NEW r \in Records, NEW age \in Int, Past(r, age)
    PROVE  Past(r, age)'
  <1>0. clock \in Nat /\ now \in Nat /\ r.at \in Nat
    BY IndexedType, RecordType DEF IndInv, PollInv
  <1>1. r.at < clock - age /\ (hpc = "handle" => r.at < now - age)
    BY DEF Past
  <1>2. CASE UNCHANGED <<clock, hpc, now>>
    BY <1>1, <1>2 DEF Past
  <1>3. CASE Tick
    BY <1>0, <1>1, <1>3 DEF Tick, Past
  <1>4. CASE Restart
    BY <1>0, <1>1, <1>4 DEF Restart, Past
  <1>5. CASE StartPoll \/ EndPoll
    BY <1>0, <1>1, <1>5 DEF StartPoll, EndPoll, Past
  <1>6. ASSUME NEW d \in Devices, ReadPage(d) PROVE Past(r, age)'
    <2>1. UNCHANGED clock /\ (now' = clock \/ UNCHANGED <<now, hpc>>)
      BY <1>6 DEF ReadPage
    <2> QED
      BY <1>1, <2>1 DEF Past
  <1> QED
    BY <1>2, <1>3, <1>4, <1>5, <1>6
    DEF Next, Index, Handle, PublishUnlock, HandlePage, Reconnect, Acknowledge, AcknowledgeFails, Include

\* What is too old for the memory now is past its age.
LEMMA NowPast ==
    ASSUME IndInv, NEW d \in Devices, HandlePage(d), NEW r \in Records, NEW age \in Int, r.at < now - age
    PROVE  Past(r, age)'
  <1>1. clock \in Nat /\ now \in Nat /\ now <= clock /\ r.at \in Nat
    BY IndexedType, RecordType DEF IndInv, PollInv
  <1>2. UNCHANGED <<clock, now>>
    BY DEF HandlePage
  <1> QED
    BY <1>1, <1>2 DEF Past

\* What the watchdog still has to judge, or newly reads, was neither reported nor
\* judged before and is not past the memory's age.
LEMMA Unjudged ==
    ASSUME IndInv, hpc = "handle", NEW r \in Dings, NEW S, NEW R, NEW H, Judging(r.dev, S, R, H),
           NEW m \in R.memory, m.r = r, Judged(r), ~ m.judged
    PROVE  /\ r \in S /\ m \notin dog[r.dev].memory
           /\ \A n \in dog[r.dev].memory : n.r # r
           /\ \A age \in Int : age >= ObserveMaxAge => ~ Past(r, age)
  <1>1. m \notin dog[r.dev].memory
    BY DEF Judged
  <1>2. r \in S
    BY <1>1 DEF Judging
  <1>3. r.at >= now - ObserveMaxAge /\ \A n \in dog[r.dev].memory : n.r # r
    BY <1>2 DEF Judging
  <1>4. now \in Nat /\ r.at \in Nat /\ ObserveMaxAge \in Nat
    BY RecordType, LimitAssumption DEF IndInv, PollInv, Dings
  <1>5. ASSUME NEW age \in Int, age >= ObserveMaxAge, Past(r, age) PROVE FALSE
    <2>1. r.at < now - age
      BY <1>5 DEF Past
    <2> QED
      BY <1>3, <1>4, <1>5, <2>1
  <1> QED
    BY <1>1, <1>2, <1>3, <1>5

\* A ring is reported once.
LEMMA MissStep == IndInv /\ [Next]_vars => MissInv'
<1> SUFFICES ASSUME IndInv, [Next]_vars PROVE MissInv'
    OBVIOUS
<1>0. /\ WorldInv /\ PollInv /\ DogInv /\ MissInv /\ reports \in [Dings -> Nat]
      /\ Retention \in Nat /\ ObserveMaxAge \in Nat /\ Retention >= ObserveMaxAge
  <2>1. {MatchWindow, Grace, UnprovenGrace, ObserveMaxAge, Retention} \subseteq Nat
    BY LimitAssumption
  <2>2. Retention >= ObserveMaxAge
    BY <2>1, WindowAssumption
  <2> QED
    BY <2>1, <2>2 DEF IndInv, MissInv
<1>1. \A r \in Dings : r \in Records /\ r.dev \in Routes
    BY RecordType DEF Dings
<1>2. ASSUME Next, UNCHANGED reports, \A r \in Dings : dog'[r.dev].memory = dog[r.dev].memory
      PROVE  MissInv'
  <2>1. \A r \in Dings : Past(r, Retention) => Past(r, Retention)'
    BY <1>0, <1>1, <1>2, PastStays
  <2> QED
    BY <1>0, <1>2, <2>1 DEF MissInv, Judged
<1>3. ASSUME NEW r \in world.records, Handle(r) \/ PublishUnlock(r) PROVE MissInv'
  <2>1. r \in Records /\ r.at \in Nat /\ clock \in Nat /\ UNCHANGED reports /\ Next
    BY <1>0, <1>3, IndexedType DEF Handle, PublishUnlock, Next
  <2>2. UNCHANGED dog \/ \E at \in {r.at, clock} : \E known : Publish(r, at, known)
    BY <1>3 DEF Handle, PublishUnlock
  <2>3. \A q \in Routes : dog'[q].memory = dog[q].memory
    BY <1>0, <2>1, <2>2, PublishDogs
  <2> QED
    BY <1>1, <1>2, <2>1, <2>3
<1>4. ASSUME NEW d \in Devices, HandlePage(d) PROVE MissInv'
  <2>0. hpc = "handle" /\ Next
    BY <1>4 DEF HandlePage, Next
  <2>1. ASSUME NEW r \in Dings
        PROVE  /\ reports'[r] \in Nat
               /\ reports'[r] # 0 =>
                    /\ reports'[r] = 1 /\ Judged(r)'
                    /\ (\E m \in dog'[r.dev].memory : m.r = r) \/ Past(r, Retention)'
    <3>1. CASE reports'[r] = reports[r] /\ dog'[r.dev] = dog[r.dev]
      <4>1. Past(r, Retention) => Past(r, Retention)'
        BY <1>0, <1>1, <2>0, PastStays
      <4> QED
        BY <1>0, <3>1, <4>1 DEF MissInv, Judged
    <3>2. ASSUME r.dev = d, NEW S, NEW R, Judging(d, S, R, dog'[d]),
                 reports'[r] = IF r \in Missing(R) THEN reports[r] + 1 ELSE reports[r]
          PROVE  /\ reports'[r] \in Nat
                 /\ reports'[r] # 0 =>
                      /\ reports'[r] = 1 /\ Judged(r)'
                      /\ (\E m \in dog'[r.dev].memory : m.r = r) \/ Past(r, Retention)'
      <4> DEFINE H == dog'[d]
      <4>1. Judging(r.dev, S, R, H) /\ reports'[r] \in Nat
        BY <1>0, <3>2
      <4>2. ASSUME reports[r] # 0, NEW m \in R.memory, m.r = r PROVE m.judged
        <5> SUFFICES ASSUME ~ m.judged PROVE FALSE
          OBVIOUS
        <5>1. Judged(r) /\ ((\E n \in dog[r.dev].memory : n.r = r) \/ Past(r, Retention))
          BY <1>0, <4>2 DEF MissInv
        <5> HIDE DEF H
        <5>2. /\ \A n \in dog[r.dev].memory : n.r # r
              /\ \A age \in Int : age >= ObserveMaxAge => ~ Past(r, age)
          BY <2>0, <4>1, <4>2, <5>1, Unjudged
        <5>3. ~ Past(r, Retention)
          BY <1>0, <5>2
        <5> QED
          BY <5>1, <5>2, <5>3
      <4>3. ASSUME r \in Missing(R) PROVE reports[r] = 0 /\ \E m \in R.memory : m.r = r /\ Due(R, m)
        <5>1. PICK m \in R.memory : m.r = r /\ Due(R, m)
          BY <4>3 DEF Missing
        <5>2. ~ m.judged
          BY <5>1 DEF Due
        <5> QED
          BY <4>2, <5>1, <5>2
      <4>4. ASSUME reports'[r] # 0
            PROVE  /\ reports'[r] = 1
                   /\ (\E m \in R.memory : m.r = r) \/ Past(r, Retention)
                   /\ \A m \in R.memory : m.r = r => m.judged \/ Due(R, m)
        <5>1. CASE r \in Missing(R)
          <6>1. reports'[r] = 1
            BY <3>2, <4>3, <5>1
          <6>2. PICK m \in R.memory : m.r = r /\ Due(R, m)
            BY <4>3, <5>1
          <6>3. \A n \in R.memory : n.r = r => n = m
            BY <4>1, <6>2 DEF Judging
          <6> QED
            BY <6>1, <6>2, <6>3
        <5>2. CASE r \notin Missing(R)
          <6>1. reports[r] # 0 /\ reports'[r] = 1
            BY <1>0, <3>2, <4>4, <5>2 DEF MissInv
          <6>2. (\E m \in dog[r.dev].memory : m.r = r) \/ Past(r, Retention)
            BY <1>0, <6>1 DEF MissInv
          <6>3. dog[r.dev].memory \subseteq R.memory
            BY <4>1 DEF Judging
          <6> QED
            BY <4>2, <6>1, <6>2, <6>3
        <5> QED
          BY <5>1, <5>2
      <4>5. ASSUME reports'[r] # 0 PROVE Judged(r)'
        <5>1. ASSUME NEW n \in H.memory, n.r = r PROVE n.judged
          <6>1. PICK m \in R.memory : n = Marked(R, m)
            BY <4>1, <5>1 DEF Judging
          <6>2. m \in Entry
            BY <4>1 DEF Judging
          <6>3. n.r = m.r /\ n.judged = (m.judged \/ Due(R, m))
            BY <6>1, <6>2 DEF Marked, Entry
          <6> QED
            BY <4>4, <4>5, <5>1, <6>3
        <5> QED
          BY <3>2, <5>1 DEF Judged
      <4>6. ASSUME reports'[r] # 0
            PROVE  (\E m \in dog'[r.dev].memory : m.r = r) \/ Past(r, Retention)'
        <5>1. CASE Past(r, Retention)
          BY <1>0, <1>1, <2>0, <5>1, PastStays
        <5>2. ASSUME NEW m \in R.memory, m.r = r
              PROVE  (\E n \in dog'[r.dev].memory : n.r = r) \/ Past(r, Retention)'
          <6>1. CASE r.at >= now - Retention
            BY <3>2, <4>1, <5>2, <6>1 DEF Judging
          <6>2. CASE ~(r.at >= now - Retention)
            <7>1. r.at < now - Retention
              BY <1>0, <1>1, <6>2, RecordType DEF PollInv
            <7> QED
              BY <1>0, <1>1, <1>4, <7>1, NowPast
          <6> QED
            BY <6>1, <6>2
        <5> QED
          BY <4>4, <4>6, <5>1, <5>2
      <4> QED
        BY <4>1, <4>4, <4>5, <4>6
    <3> QED
      BY <1>4, <3>1, <3>2, HandledRing
  <2>2. reports' \in [Dings -> Nat]
    BY <1>4, <2>1 DEF HandlePage
  <2> QED
    BY <2>1, <2>2 DEF MissInv
<1>5. ASSUME NEW d \in Devices, Include(d) PROVE MissInv'
  <2>1. /\ reports' = [r \in Dings |-> IF r.dev = d THEN 0 ELSE reports[r]]
        /\ dog' = [dog EXCEPT ![d] = NewDog] /\ Next
    BY <1>5 DEF Include, Next
  <2>2. \A r \in Dings : reports'[r] # 0 => reports'[r] = reports[r] /\ dog'[r.dev] = dog[r.dev]
    BY <1>0, <1>1, <2>1 DEF DogInv
  <2>3. \A r \in Dings : Past(r, Retention) => Past(r, Retention)'
    BY <1>0, <1>1, <2>1, PastStays
  <2>4. reports' \in [Dings -> Nat]
    BY <1>0, <2>1
  <2> QED
    BY <1>0, <2>2, <2>3, <2>4 DEF MissInv, Judged
<1>6. CASE Restart
    BY <1>6 DEF Restart, MissInv
<1>7. CASE UNCHANGED vars
    BY <1>0, <1>7 DEF vars, MissInv, Judged, Past
<1>8. ASSUME Next, UNCHANGED <<reports, dog>> PROVE MissInv'
    BY <1>2, <1>8
<1> QED
    BY <1>3, <1>4, <1>5, <1>6, <1>7, <1>8
    DEF Next, Tick, Index, Reconnect, Acknowledge, AcknowledgeFails, StartPoll, EndPoll, ReadPage


\* The push of a ring that the watchdog may yet judge is remembered.
LEMMA PushStep == IndInv /\ [Next]_vars => PushInv'
<1> SUFFICES ASSUME IndInv, [Next]_vars PROVE PushInv'
    OBVIOUS
<1> DEFINE age == Retention - MatchWindow
           Near(r, g) == \E at \in g.push : Distance(at, r.at) <= MatchWindow
<1>0. /\ WorldInv /\ PollInv /\ DogInv /\ PushInv /\ now \in Nat
      /\ {MatchWindow, Grace, UnprovenGrace, ObserveMaxAge, Retention} \subseteq Nat
      /\ age \in Int /\ age >= Grace /\ age >= ObserveMaxAge + UnprovenGrace /\ age >= ObserveMaxAge
  <2>1. {MatchWindow, Grace, UnprovenGrace, ObserveMaxAge, Retention} \subseteq Nat
    BY LimitAssumption
  <2>2. age \in Int /\ age >= Grace /\ age >= ObserveMaxAge + UnprovenGrace /\ age >= ObserveMaxAge
    BY <2>1, WindowAssumption
  <2> QED
    BY <2>1, <2>2 DEF IndInv, PollInv
<1>1. \A r \in Dings : r \in Records /\ r.dev \in Routes /\ r.at \in Nat
    BY RecordType DEF Dings
<1>2. /\ pushed \subseteq Dings
      /\ \A r \in pushed : Near(r, dog[r.dev]) \/ (Judged(r) /\ Past(r, age))
    BY <1>0 DEF PushInv
<1>3. ASSUME pushed' \subseteq Dings,
             \A r \in pushed' : Near(r, dog'[r.dev]) \/ (Judged(r)' /\ Past(r, age)')
      PROVE  PushInv'
    BY <1>3 DEF PushInv
<1> HIDE DEF age
<1>4. ASSUME Next PROVE \A r \in Dings : Past(r, age) => Past(r, age)'
    BY <1>0, <1>1, <1>4, PastStays
<1>5. ASSUME Next, pushed' \subseteq pushed, \A r \in pushed' : dog'[r.dev] = dog[r.dev]
      PROVE  PushInv'
  <2>1. \A r \in pushed' : Judged(r) => Judged(r)'
    BY <1>5 DEF Judged
  <2> QED
    BY <1>2, <1>3, <1>4, <1>5, <2>1
<1>6. ASSUME NEW r \in world.records, Handle(r) \/ PublishUnlock(r) PROVE PushInv'
  <2>1. r \in Records /\ r.at \in Nat /\ clock \in Nat /\ Next /\ r.dev \in Routes
    BY <1>0, <1>6, IndexedType DEF Next
  <2>2. UNCHANGED dog \/ \E at \in {r.at, clock} : \E known : Publish(r, at, known)
    BY <1>6 DEF Handle, PublishUnlock
  <2>3. \A q \in Routes : dog'[q].memory = dog[q].memory /\ dog[q].push \subseteq dog'[q].push
    BY <1>0, <2>1, <2>2, PublishDogs
  <2>4. \A x \in pushed : Near(x, dog'[x.dev]) \/ (Judged(x)' /\ Past(x, age)')
    <3>1. \A x \in pushed : Near(x, dog[x.dev]) => Near(x, dog'[x.dev])
      BY <1>1, <1>2, <2>3
    <3>2. \A x \in pushed : Judged(x) => Judged(x)'
      BY <1>1, <1>2, <2>3 DEF Judged
    <3> HIDE DEF Near
    <3> QED
      BY <1>2, <1>4, <2>1, <3>1, <3>2
  <2>5. CASE UNCHANGED pushed
    BY <1>2, <1>3, <2>4, <2>5
  <2>6. CASE Handle(r) /\ pushed' # pushed
    <3>1. PICK at \in {r.at, clock} :
            /\ Publish(r, at, subs) /\ r.kind = "ding" /\ r.dev \in up
            /\ Distance(at, r.at) <= MatchWindow /\ pushed' = pushed \cup {r}
      BY <2>6 DEF Handle
    <3>2. at \in dog'[r.dev].push
      BY <1>0, <2>1, <3>1, PublishDogs
    <3>3. Near(r, dog'[r.dev]) /\ r \in Dings
      BY <2>1, <3>1, <3>2 DEF Dings
    <3> HIDE DEF Near
    <3> QED
      BY <1>2, <1>3, <2>4, <3>1, <3>3
  <2> QED
    BY <1>6, <2>5, <2>6 DEF PublishUnlock
<1>7. ASSUME NEW d \in Devices, HandlePage(d) PROVE PushInv'
  <2>0. hpc = "handle" /\ Next /\ UNCHANGED pushed
    BY <1>7 DEF HandlePage, Next
  <2>1. ASSUME NEW r \in pushed PROVE Near(r, dog'[r.dev]) \/ (Judged(r)' /\ Past(r, age)')
    <3>0. r \in Dings /\ (Near(r, dog[r.dev]) \/ (Judged(r) /\ Past(r, age)))
      BY <1>2
    <3>1. CASE dog'[r.dev] = dog[r.dev]
      <4>1. Judged(r) => Judged(r)'
        BY <3>1 DEF Judged
      <4>2. Near(r, dog[r.dev]) => Near(r, dog'[r.dev])
        BY <3>1
      <4> HIDE DEF Near
      <4> QED
        BY <1>4, <2>0, <3>0, <4>1, <4>2
    <3>2. ASSUME r.dev = d, NEW S, NEW R, Judging(d, S, R, dog'[d])
          PROVE  Near(r, dog'[r.dev]) \/ (Judged(r)' /\ Past(r, age)')
      <4> DEFINE H == dog'[d]
      <4>1. Judging(r.dev, S, R, H)
        BY <3>2
      <4> HIDE DEF H
      <4>2. ASSUME \A m \in R.memory : m.r = r => m.judged \/ Due(R, m) PROVE Judged(r)'
        <5>1. ASSUME NEW n \in H.memory, n.r = r PROVE n.judged
          <6>1. PICK m \in R.memory : n = Marked(R, m)
            BY <4>1, <5>1 DEF Judging
          <6>2. m \in Entry
            BY <4>1 DEF Judging
          <6>3. n.r = m.r /\ n.judged = (m.judged \/ Due(R, m))
            BY <6>1, <6>2 DEF Marked, Entry
          <6> QED
            BY <4>2, <5>1, <6>3
        <5> QED
          BY <3>2, <5>1 DEF Judged, H
      <4>3. CASE Judged(r) /\ Past(r, age)
        <5>1. ASSUME NEW m \in R.memory, m.r = r, ~ m.judged PROVE FALSE
          <6>1. \A a \in Int : a >= ObserveMaxAge => ~ Past(r, a)
            BY <2>0, <3>0, <4>1, <4>3, <5>1, Unjudged
          <6> QED
            BY <1>0, <4>3, <6>1
        <5>2. Judged(r)'
          BY <4>2, <5>1
        <5> QED
          BY <1>4, <2>0, <3>0, <4>3, <5>2
      <4>4. ASSUME NEW at \in dog[r.dev].push, Distance(at, r.at) <= MatchWindow
            PROVE  Near(r, dog'[r.dev]) \/ (Judged(r)' /\ Past(r, age)')
        <5>1. at \in Nat /\ r.at \in Nat
          BY <1>0, <1>1, <3>0 DEF DogInv, Dog
        <5>2. CASE at >= now - Retention
          <6>1. at \in H.push
            BY <4>1, <5>2 DEF Judging
          <6> QED
            BY <3>2, <4>4, <6>1 DEF H
        <5>3. CASE ~(at >= now - Retention)
          <6>1. r.at <= at + MatchWindow
            BY <1>0, <4>4, <5>1 DEF Distance
          <6>2. r.at < now - age
            BY <1>0, <5>1, <5>3, <6>1 DEF age
          <6>3. Past(r, age)'
            BY <1>0, <1>1, <1>7, <3>0, <6>2, NowPast
          <6>4. ASSUME NEW m \in R.memory, m.r = r PROVE m.judged \/ Due(R, m)
            <7>1. m \in Entry /\ m.seen \in Nat /\ m.seen <= r.at + ObserveMaxAge
              BY <4>1, <6>4 DEF Judging, Entry
            <7>2. now - r.at >= Grace /\ now - m.seen >= UnprovenGrace
              BY <1>0, <5>1, <6>2, <7>1
            <7> QED
              BY <6>4, <7>2 DEF Due
          <6> QED
            BY <4>2, <6>3, <6>4
        <5> QED
          BY <5>2, <5>3
      <4> QED
        BY <3>0, <4>3, <4>4
    <3> QED
      BY <1>7, <3>0, <3>1, <3>2, HandledRing
  <2> QED
    BY <1>2, <1>3, <2>0, <2>1
<1>8. ASSUME NEW d \in Devices, Include(d) PROVE PushInv'
  <2>1. /\ pushed' = {r \in pushed : r.dev # d} /\ dog' = [dog EXCEPT ![d] = NewDog] /\ Next
    BY <1>8 DEF Include, Next
  <2>2. \A r \in pushed' : dog'[r.dev] = dog[r.dev]
    BY <1>0, <1>1, <1>2, <2>1 DEF DogInv
  <2> QED
    BY <1>5, <2>1, <2>2
<1>9. CASE Restart
    BY <1>3, <1>9 DEF Restart
<1>10. CASE UNCHANGED vars
    BY <1>0, <1>10 DEF vars, PushInv, Judged, Past
<1>11. ASSUME Next, UNCHANGED <<pushed, dog>> PROVE PushInv'
    BY <1>5, <1>11
<1> QED
    BY <1>6, <1>7, <1>8, <1>9, <1>10, <1>11
    DEF Next, Tick, Index, Reconnect, Acknowledge, AcknowledgeFails, StartPoll, EndPoll, ReadPage

-----------------------------------------------------------------------------
(* The theorems.                                                           *)

\* The inductive invariant of the push worker, the history poll and the watchdogs.
THEOREM WatchInvariant == Spec => []IndInv
<1>1. Init => IndInv
  <2> SUFFICES ASSUME Init PROVE IndInv
    OBVIOUS
  <2>0. /\ world \in Worlds /\ MaxClock \in Nat /\ MaxFaults \in Nat /\ MemoryLimit \in Nat /\ Poll \in Nat
        /\ Devices \subseteq Routes /\ Alias \in Routes
    BY LimitAssumption, RecordType DEF Init, Devices
  <2>1. WorldInv
    BY <2>0 DEF Init, WorldInv
  <2>2. AckInv
    BY <2>0 DEF Init, AckInv
  <2>3. PollInv
    BY <2>0 DEF Init, PollInv, NoPages
  <2>4. CursorInv /\ FloorInv /\ PageInv /\ UnlockReported
    BY DEF Init, CursorInv, FloorInv, PageInv, UnlockReported, NoPages
  <2>5. ReplayInv
    BY DEF Init, ReplayInv
  <2>6. NewDog \in Dog /\ NewDog.memory = {} /\ IsFiniteSet({}) /\ Cardinality({}) <= MemoryLimit
    BY <2>0, FS_EmptySet DEF NewDog, Dog
  <2>7. /\ unlocks \in [Routes -> SUBSET Nat] /\ dog \in [Routes -> Dog]
        /\ \A q \in Routes : dog[q] = NewDog
    BY <2>6 DEF Init
  <2>8. DogInv
    BY <2>6, <2>7 DEF DogInv
  <2>9. MissInv /\ PushInv
    BY DEF Init, MissInv, PushInv
  <2> QED
    BY <2>1, <2>2, <2>3, <2>4, <2>5, <2>8, <2>9 DEF IndInv
<1>2. IndInv /\ [Next]_vars => IndInv'
    BY WorldStep, AckStep, PollStep, CursorStep, ReplayStep, FloorStep, PageStep, ReportedStep,
       DogStep, MissStep, PushStep DEF IndInv
<1> QED
    BY <1>1, <1>2, PTL DEF Spec

\* TypeOK: the watchdogs' memory keeps MEMORY_LIMIT however many rings a page brings
\* and however long they wait to be judged (DingWatchdog::observe).
THEOREM WatchTypes == Spec => []TypeOK
<1>1. IndInv => TypeOK
  <2> SUFFICES ASSUME IndInv PROVE TypeOK
    OBVIOUS
  <2>1. WorldInv /\ AckInv /\ PollInv /\ CursorInv /\ DogInv
    BY DEF IndInv
  <2>2. world.records \subseteq Records /\ indexed \subseteq Records
    BY <2>1, IndexedType
  <2> QED
    BY <2>1, <2>2 DEF TypeOK, WorldInv, AckInv, PollInv, CursorInv, DogInv
<1> QED
    BY <1>1, WatchInvariant, PTL

\* UnlockReported: in whatever order and however late Ring indexes them, the floor of
\* UnlockCursor::advance loses only unlocks older by more than LATE_TOLERANCE than one
\* Ring had indexed before them: whatever polls fail, whatever happens between the read
\* of a page and its handling, and however the history overflows the page.
THEOREM LateUnlocksAreReported == Spec => []UnlockReported
<1>1. IndInv => UnlockReported
    BY DEF IndInv
<1> QED
    BY <1>1, WatchInvariant, PTL

\* NotReplayed: watch_unlocks publishes nothing older than its start, and repeats of
\* what push or an earlier poll published before a restart at most what happened in
\* the second of the start.
THEOREM UnlocksAreNotReplayed == Spec => []NotReplayed
<1>1. IndInv => NotReplayed
  <2> SUFFICES ASSUME IndInv, NEW r \in byHistory
               PROVE  r.at >= started /\ (r \in told => r.at = started)
    BY DEF NotReplayed
  <2>1. r.at >= started /\ started \in Nat
    BY DEF IndInv, ReplayInv, WorldInv
  <2>2. CASE r \in told
    <3>1. r.at <= started /\ r.at \in Nat
      BY <2>2, RecordType DEF IndInv, ReplayInv
    <3> QED
      BY <2>1, <3>1
  <2> QED
    BY <2>1, <2>2
<1> QED
    BY <1>1, WatchInvariant, PTL

\* AckedWasPublished: the file of persistent ids holds no message that should have
\* been published and was not, for any number of crashes and failing writes.
THEOREM AcksFollowPublication == Spec => []AckedWasPublished
<1>1. IndInv => AckedWasPublished
    BY DEF IndInv, AckInv, AckedWasPublished
<1> QED
    BY <1>1, WatchInvariant, PTL

\* MissedOnce: a ring is judged missed at most once, also after its id has left the
\* watchdog's memory.
THEOREM RingsAreMissedOnce == Spec => []MissedOnce
<1>1. IndInv => MissedOnce
    BY DEF IndInv, MissInv, MissedOnce
<1> QED
    BY <1>1, WatchInvariant, PTL

\* PushedNotMissed: no ring that push published to the queue is reported as missed,
\* also after RETENTION has removed the push from the watchdog.
THEOREM PushedRingsAreNotMissed == Spec => PushedNotMissed
<1>1. IndInv /\ [Next]_vars => [\A r \in Dings : reports'[r] > reports[r] => r \notin pushed]_vars
  <2> SUFFICES ASSUME IndInv, Next, NEW r \in Dings, reports'[r] > reports[r], r \in pushed
               PROVE  FALSE
    OBVIOUS
  <2>0. /\ MissInv /\ PushInv /\ reports \in [Dings -> Nat] /\ reports[r] \in Nat
        /\ Retention - MatchWindow \in Int /\ Retention - MatchWindow >= ObserveMaxAge
    <3>1. {MatchWindow, Grace, UnprovenGrace, ObserveMaxAge, Retention} \subseteq Nat
      BY LimitAssumption
    <3>2. Retention - MatchWindow \in Int /\ Retention - MatchWindow >= ObserveMaxAge
      BY <3>1, WindowAssumption
    <3> QED
      BY <3>2 DEF IndInv, MissInv
  <2>1. ~ Restart /\ ~ \E d \in Devices : Include(d)
    <3>1. reports'[r] # 0 /\ reports'[r] # reports[r]
      BY <2>0
    <3> QED
      BY <3>1 DEF Restart, Include
  <2>2. PICK d \in Devices : HandlePage(d)
    <3>1. reports' # reports
      BY <2>0
    <3> QED
      BY <2>1, <3>1
      DEF Next, Tick, Index, Handle, PublishUnlock, Reconnect, Acknowledge, AcknowledgeFails, StartPoll,
          EndPoll, ReadPage
  <2>3. PICK S, R : /\ r.dev = d /\ Judging(d, S, R, dog'[d])
                    /\ reports'[r] = IF r \in Missing(R) THEN reports[r] + 1 ELSE reports[r]
    BY <2>0, <2>2, HandledRing
  <2>4. PICK m \in R.memory : m.r = r /\ Due(R, m) /\ Undelivered(R, m)
    BY <2>0, <2>3 DEF Missing
  <2>5. ~ m.judged /\ hpc = "handle"
    BY <2>2, <2>4 DEF Due, HandlePage
  <2>6. ASSUME NEW at \in dog[r.dev].push, Distance(at, r.at) <= MatchWindow PROVE FALSE
    <3>1. at \in R.push
      BY <2>3 DEF Judging
    <3>2. Distance(at, r.at) > MatchWindow
      BY <2>4, <3>1 DEF Undelivered
    <3>3. at \in Nat /\ r.at \in Nat /\ MatchWindow \in Nat
      BY <2>3, <3>1, RecordType, LimitAssumption DEF Judging, Dog, Dings
    <3> QED
      BY <2>6, <3>2, <3>3 DEF Distance
  <2>7. Judged(r) /\ Past(r, Retention - MatchWindow)
    BY <2>0, <2>6 DEF PushInv
  <2>8. \A age \in Int : age >= ObserveMaxAge => ~ Past(r, age)
    BY <2>3, <2>4, <2>5, <2>7, Unjudged
  <2> QED
    BY <2>0, <2>7, <2>8
<1> QED
    BY <1>1, WatchInvariant, PTL DEF Spec, PushedNotMissed

=============================================================================
