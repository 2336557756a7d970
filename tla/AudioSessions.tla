---------------------------- MODULE AudioSessions ----------------------------
(***************************************************************************)
(* Live calls on one physical Ring device: the exclusivity gate with its   *)
(* cooldown (ring_session_gate.rs), the manager of direct WebRTC sessions  *)
(* (ring_audio_manager.rs) with the worker that keeps Ring's signaling     *)
(* open (ring_audio_worker.rs), the native relay that shares the gate      *)
(* (ring_relay_api.rs, ring_relay_worker.rs), and the route by which a     *)
(* request finds the device (ring_runtime_inventory.rs).                   *)
(*                                                                         *)
(* Sessions are named in advance; each is used once, like the code's       *)
(* random ids.  A session has a front, the task that serves the consumer,  *)
(* and a worker, the task that holds the call with Ring.  One step is the  *)
(* code between two await points; deadlines may pass at any moment.        *)
(* Camera sessions use the same manager, without relays and on a route     *)
(* that is never pruned.                                                   *)
(***************************************************************************)
EXTENDS Naturals

CONSTANTS Directs,      \* direct WebRTC sessions
          Relays,       \* native relay sessions
          NoSession,
          Deleters,     \* DELETE handlers
          MaxRuntimes,  \* bound: RingDeviceRuntime values built for the device
          Configured,   \* the alias is in the configuration, not only discovered
          DropPoints    \* await points where a consumer's start may be dropped

Sessions == Directs \cup Relays
Runtimes == 1..MaxRuntimes

ASSUME SessionAssumption == Directs \cap Relays = {} /\ NoSession \notin Sessions
ASSUME RuntimeAssumption == MaxRuntimes \in Nat \ {0}
ASSUME ConfiguredAssumption == Configured \in BOOLEAN
ASSUME DropAssumption == DropPoints \subseteq {"reserving", "reserved", "waiting", "stopping"}

VARIABLES
    route,      \* device_runtimes: the runtime the alias leads to, or 0
    built,      \* runtimes built so far
    active,     \* GateState.active of every runtime's gate
    cooldown,   \* runtimes whose gate is cooling down
    home,       \* the runtime a session was started on
    front,      \* where the consumer's side of a session is
    worker,     \* where the session's worker is
    call,       \* Ring's view of the signaling socket
    ready,      \* the oneshot that carries the negotiation's result
    table,      \* SessionState.active: direct sessions a DELETE can find
    cancelled,  \* sessions whose cancel oneshot was sent
    done,       \* sessions whose done watch says true
    aborted,    \* relay workers on which abort was called
    target,     \* the session a DELETE handler waits for
    acked       \* history: sessions whose DELETE was answered 204

gateVars  == <<active, cooldown>>
routeVars == <<route, built, home>>
sideVars  == <<ready, table, cancelled, done>>
delVars   == <<target, acked>>
vars == <<routeVars, gateVars, front, worker, call, sideVars, aborted, delVars>>

\* new; waiting for the gate; holding a permit and nothing else; waiting for the
\* worker; sending to the relay client; ending the worker; returning a relay's
\* permit; and the ends: answered 201, refused or failed, dropped, relay over.
Fronts == {"new", "reserving", "reserved", "waiting", "sending", "stopping",
           "finishing", "answered", "failed", "gone", "over"}

\* not spawned; negotiating; in the call; closing it; run() returned; out of the
\* table but still holding the permit; over.
Workers == {"none", "negotiating", "live", "closing", "leaving", "removed", "over"}

Init ==
    /\ built = IF Configured THEN 1 ELSE 0
    /\ route = built
    /\ active = [r \in Runtimes |-> NoSession] /\ cooldown = {}
    /\ home = [s \in Sessions |-> 0]
    /\ front = [s \in Sessions |-> "new"]
    /\ worker = [s \in Sessions |-> "none"]
    /\ call = [s \in Sessions |-> "none"]
    /\ ready = [s \in Sessions |-> "none"]
    /\ table = {} /\ cancelled = {} /\ done = {} /\ aborted = {}
    /\ target = [d \in Deleters |-> NoSession] /\ acked = {}

Front(s, point) == front' = [front EXCEPT ![s] = point]
Worker(s, point) == worker' = [worker EXCEPT ![s] = point]

\* The socket goes away without the close message, if it was open at all.
DropCall(s) == call' = [call EXCEPT ![s] = IF @ = "open" THEN "dropped" ELSE @]

\* Signaling::close on an open socket.
CloseCall(s) == call' = [call EXCEPT ![s] = IF @ = "open" THEN "closed" ELSE @]

-----------------------------------------------------------------------------
(* The route and the gate.                                                 *)

\* provision_intercoms: a device that discovery does not report loses its route
\* unless it is configured; one that it reports keeps its runtime or gets one.
Discover ==
    /\ \/ ~Configured /\ route # 0 /\ route' = 0 /\ UNCHANGED built
       \/ /\ route = 0 /\ built < MaxRuntimes
          /\ built' = built + 1 /\ route' = built + 1
    /\ UNCHANGED <<gateVars, home, front, worker, call, sideVars, aborted, delVars>>

\* A start or a relay upgrade resolves the alias, then asks for the permit.
Request(s) ==
    /\ front[s] = "new" /\ route # 0
    /\ home' = [home EXCEPT ![s] = route]
    /\ Front(s, "reserving")
    /\ UNCHANGED <<route, built, gateVars, worker, call, sideVars, aborted, delVars>>

\* Mutation: the cooldown is not looked at.
GateFreeHot(r) == active[r] = NoSession

\* Neither SessionBusy nor RateLimited.
GateFree(r) == active[r] = NoSession /\ r \notin cooldown

\* SessionGate::reserve.
Reserve(s) ==
    /\ front[s] = "reserving"
    /\ IF GateFree(home[s])
          THEN active' = [active EXCEPT ![home[s]] = s] /\ Front(s, "reserved")
          ELSE Front(s, "failed") /\ UNCHANGED active
    /\ UNCHANGED <<routeVars, cooldown, worker, call, sideVars, aborted, delVars>>

\* SessionGate::release: only the permit's own entry, and never without cooldown.
Release(s) ==
    IF active[home[s]] = s
       THEN /\ active' = [active EXCEPT ![home[s]] = NoSession]
            /\ cooldown' = cooldown \cup {home[s]}
       ELSE UNCHANGED gateVars

\* Ten seconds have passed.  A task that was aborted has been dropped by then: the
\* runtime does so the next time it schedules the task.
CooldownOver(r) ==
    /\ r \in cooldown
    /\ \A s \in aborted : home[s] = r => worker[s] = "over"
    /\ cooldown' = cooldown \ {r}
    /\ UNCHANGED <<routeVars, active, front, worker, call, sideVars, aborted, delVars>>

-----------------------------------------------------------------------------
(* The direct session: RingAudioSessions::start and its HTTP handler.      *)

\* The session enters the table and its worker is spawned.
Spawn(s) ==
    /\ s \in Directs /\ front[s] = "reserved"
    /\ table' = table \cup {s}
    /\ Front(s, "waiting") /\ Worker(s, "negotiating")
    /\ UNCHANGED <<routeVars, gateVars, call, ready, cancelled, done, aborted, delVars>>

\* The negotiation's result arrived in time: 201.
StartOk(s) ==
    /\ s \in Directs /\ front[s] = "waiting" /\ ready[s] = "ok"
    /\ Front(s, "answered")
    /\ UNCHANGED <<routeVars, gateVars, worker, call, sideVars, aborted, delVars>>

\* Mutation: the failed start leaves its session to itself.
GiveUpSilently(s) == Front(s, "failed") /\ UNCHANGED cancelled

\* delete(id, StartFailed): the worker is told to stop, if it is still there.
GiveUp(s) ==
    IF s \in table THEN cancelled' = cancelled \cup {s} /\ Front(s, "stopping")
                   ELSE Front(s, "failed") /\ UNCHANGED cancelled

\* An error, a vanished worker, or START_TIMEOUT, which also wins against a result
\* sent after the start's last look.
StartError(s) ==
    /\ s \in Directs /\ front[s] = "waiting"
    /\ GiveUp(s)
    /\ UNCHANGED <<routeVars, gateVars, worker, call, ready, table, done, aborted, delVars>>

\* The failed start saw done, or waited STOP_TIMEOUT for it; either way 502.
StartStopped(s) ==
    /\ s \in Directs /\ front[s] = "stopping"
    /\ Front(s, "failed")
    /\ UNCHANGED <<routeVars, gateVars, worker, call, sideVars, aborted, delVars>>

\* The consumer disconnects: the handler's future is dropped where it awaits.  The
\* permit is no guard: before the table entry nothing else returns it.
DropStart(s) ==
    /\ s \in Directs /\ front[s] \in DropPoints
    /\ Front(s, "gone")
    /\ UNCHANGED <<routeVars, gateVars, worker, call, sideVars, aborted, delVars>>

-----------------------------------------------------------------------------
(* The worker: ProductionSessionRunner::run, and RelayWorker::run, which   *)
(* differs in that its negotiation does not listen to cancel.              *)

\* The worker is at a point and has not been aborted.
Runs(s, point) == worker[s] = point /\ s \notin aborted

\* Ring gets the offer: from here on the call is open.
Offer(s) ==
    /\ Runs(s, "negotiating") /\ call[s] = "none"
    /\ call' = [call EXCEPT ![s] = "open"]
    /\ UNCHANGED <<routeVars, gateVars, front, worker, sideVars, aborted, delVars>>

\* Grant, connection, offer or answer failed; the socket is closed on the way.
NegotiationFailed(s) ==
    /\ Runs(s, "negotiating")
    /\ CloseCall(s)
    /\ IF s \in Directs
          THEN Worker(s, "leaving") /\ ready' = [ready EXCEPT ![s] = "err"]
          ELSE Worker(s, "over") /\ UNCHANGED ready
    /\ UNCHANGED <<routeVars, gateVars, front, table, cancelled, done, aborted, delVars>>

\* run's first select: the negotiation is dropped, with the socket it may own.
NegotiationCancelled(s) ==
    /\ s \in Directs \cap cancelled /\ Runs(s, "negotiating")
    /\ DropCall(s)
    /\ Worker(s, "leaving")
    /\ UNCHANGED <<routeVars, gateVars, front, sideVars, aborted, delVars>>

\* The negotiation succeeds; a direct worker whose start no longer listens closes
\* the call again.
Negotiated(s) ==
    /\ Runs(s, "negotiating") /\ call[s] = "open"
    /\ IF s \in Relays
          THEN Worker(s, "live") /\ UNCHANGED ready
          ELSE IF front[s] = "waiting"
                  THEN Worker(s, "live") /\ ready' = [ready EXCEPT ![s] = "ok"]
                  ELSE Worker(s, "closing") /\ UNCHANGED ready
    /\ UNCHANGED <<routeVars, gateVars, front, call, table, cancelled, done, aborted, delVars>>

\* The select loop sees cancel.
HangupAsked(s) ==
    /\ Runs(s, "live") /\ s \in cancelled
    /\ Worker(s, "closing")
    /\ UNCHANGED <<routeVars, gateVars, front, call, sideVars, aborted, delVars>>

\* Mutation: the session has no hard lifetime.
CallOverNever(s) == FALSE

\* The loop's other exits, each of which may come at any time: the deadline of
\* the session, a remote close, a signaling error.
CallOver(s) == Runs(s, "live")

HangupAlone(s) ==
    /\ CallOver(s)
    /\ Worker(s, "closing")
    /\ UNCHANGED <<routeVars, gateVars, front, call, sideVars, aborted, delVars>>

\* run's end: signaling.close, and the peer's for a relay.
Close(s) ==
    /\ Runs(s, "closing")
    /\ CloseCall(s)
    /\ Worker(s, IF s \in Directs THEN "leaving" ELSE "over")
    /\ UNCHANGED <<routeVars, gateVars, front, sideVars, aborted, delVars>>

\* spawn's tail: the session leaves the table...
Remove(s) ==
    /\ Runs(s, "leaving")
    /\ table' = table \ {s}
    /\ Worker(s, "removed")
    /\ UNCHANGED <<routeVars, gateVars, front, call, ready, cancelled, done, aborted, delVars>>

\* Mutation: the permit stays behind.
WorkerDoneKeeps(s) ==
    /\ Runs(s, "removed")
    /\ done' = done \cup {s}
    /\ Worker(s, "over")
    /\ UNCHANGED <<gateVars, routeVars, front, call, ready, table, cancelled, aborted, delVars>>

\* ... then returns its permit, and says done.
WorkerDone(s) ==
    /\ Runs(s, "removed")
    /\ Release(s)
    /\ done' = done \cup {s}
    /\ Worker(s, "over")
    /\ UNCHANGED <<routeVars, front, call, ready, table, cancelled, aborted, delVars>>

-----------------------------------------------------------------------------
(* DELETE of a direct session.                                             *)

\* Mutation: the cancel is sent and the answer given at once.
DeleteFoundHasty(d, s) ==
    /\ cancelled' = cancelled \cup {s} /\ acked' = acked \cup {s}
    /\ UNCHANGED target

\* The worker is told to stop and waited for.
DeleteFound(d, s) ==
    /\ cancelled' = cancelled \cup {s}
    /\ target' = [target EXCEPT ![d] = s]
    /\ UNCHANGED acked

\* The id of an answered start, looked up in the runtime the alias leads to now;
\* an id that is not in its table is acknowledged at once.
Delete(d) ==
    /\ target[d] = NoSession /\ route # 0
    /\ \E s \in Directs :
          /\ front[s] = "answered"
          /\ IF s \in table /\ home[s] = route
                THEN DeleteFound(d, s)
                ELSE acked' = acked \cup {s} /\ UNCHANGED <<target, cancelled>>
    /\ UNCHANGED <<routeVars, gateVars, front, worker, call, ready, table, done, aborted>>

DeleteDone(d) ==
    /\ target[d] \in done
    /\ acked' = acked \cup {target[d]}
    /\ target' = [target EXCEPT ![d] = NoSession]
    /\ UNCHANGED <<routeVars, gateVars, front, worker, call, sideVars, aborted>>

\* STOP_TIMEOUT, answered 502, or the consumer disconnects.
DeleteGivesUp(d) ==
    /\ target[d] # NoSession
    /\ target' = [target EXCEPT ![d] = NoSession]
    /\ UNCHANGED <<routeVars, gateVars, front, worker, call, sideVars, aborted, acked>>

-----------------------------------------------------------------------------
(* The relay: ring_relay_api::serve, a task of its own that no disconnect  *)
(* drops.                                                                  *)

\* Mutation: the permit is forgotten when the first message cannot be sent.
RelayUnreachableForgets(s) == Front(s, "over")

\* finish_relay without a worker.
RelayUnreachable(s) == Front(s, "finishing")

\* "connecting" is sent, then the worker spawned.
RelayConnect(s) ==
    /\ s \in Relays /\ front[s] = "reserved"
    /\ \/ Front(s, "waiting") /\ Worker(s, "negotiating")
       \/ RelayUnreachable(s) /\ UNCHANGED worker
    /\ UNCHANGED <<routeVars, gateVars, call, sideVars, aborted, delVars>>

\* An audio frame, the active message or a reply goes to the client: the loop
\* looks at nothing else until the socket has taken it.
RelaySend(s) ==
    /\ s \in Relays /\ front[s] = "waiting"
    /\ Front(s, "sending")
    /\ UNCHANGED <<routeVars, gateVars, worker, call, sideVars, aborted, delVars>>

\* The socket took it, or broke.
RelaySent(s) ==
    /\ s \in Relays /\ front[s] = "sending"
    /\ \/ Front(s, "waiting") /\ UNCHANGED cancelled
       \/ Front(s, "stopping") /\ cancelled' = cancelled \cup {s}
    /\ UNCHANGED <<routeVars, gateVars, worker, call, ready, table, done, aborted, delVars>>

\* The client says stop, closes, or breaks the protocol.
RelayStop(s) ==
    /\ s \in Relays /\ front[s] = "waiting"
    /\ Front(s, "stopping") /\ cancelled' = cancelled \cup {s}
    /\ UNCHANGED <<routeVars, gateVars, worker, call, ready, table, done, aborted, delVars>>

\* The loop or stop_worker sees the worker's end.
RelayWorkerEnded(s) ==
    /\ s \in Relays /\ front[s] \in {"waiting", "stopping"} /\ worker[s] = "over"
    /\ Front(s, "finishing")
    /\ UNCHANGED <<routeVars, gateVars, worker, call, sideVars, aborted, delVars>>

\* stop_worker: STOP_TIMEOUT, task.abort().
RelayAbort(s) ==
    /\ s \in Relays /\ front[s] = "stopping" /\ worker[s] # "over"
    /\ aborted' = aborted \cup {s}
    /\ Front(s, "finishing")
    /\ UNCHANGED <<routeVars, gateVars, worker, call, sideVars, delVars>>

\* The runtime drops an aborted worker at the await it is in.
TaskAborted(s) ==
    /\ s \in aborted /\ worker[s] # "over"
    /\ DropCall(s)
    /\ Worker(s, "over")
    /\ UNCHANGED <<routeVars, gateVars, front, sideVars, aborted, delVars>>

\* finish_relay.
RelayFinish(s) ==
    /\ s \in Relays /\ front[s] = "finishing"
    /\ Release(s)
    /\ Front(s, "over")
    /\ UNCHANGED <<routeVars, worker, call, sideVars, aborted, delVars>>

-----------------------------------------------------------------------------
\* What a session's worker does on its own.
WorkerStep(s) ==
    \/ Offer(s) \/ NegotiationFailed(s) \/ NegotiationCancelled(s) \/ Negotiated(s)
    \/ HangupAsked(s) \/ HangupAlone(s) \/ Close(s) \/ Remove(s) \/ WorkerDone(s)
    \/ TaskAborted(s)

\* What a session's front does on its own.
FrontStep(s) ==
    \/ Reserve(s) \/ Spawn(s) \/ StartOk(s) \/ StartError(s) \/ StartStopped(s)
    \/ RelayConnect(s) \/ RelayWorkerEnded(s) \/ RelayAbort(s) \/ RelayFinish(s)

Next ==
    \/ \E s \in Sessions : \/ Request(s) \/ FrontStep(s) \/ WorkerStep(s)
                           \/ DropStart(s) \/ RelaySend(s) \/ RelaySent(s) \/ RelayStop(s)
    \/ \E d \in Deleters : Delete(d) \/ DeleteDone(d) \/ DeleteGivesUp(d)
    \/ \E r \in Runtimes : CooldownOver(r)
    \/ Discover

Spec == Init /\ [][Next]_vars

\* The worker waits for the call grant or for Ring's WebSocket handshake.  The
\* handshake (connect_async) has no deadline.
Connecting(s) == worker[s] = "negotiating" /\ call[s] = "none"

\* The relay is inside a send to its client, which has no deadline either.
Blocked(s) == s \in Relays /\ front[s] \in {"reserved", "sending"}

\* What the worker does within a bounded time: everything but the end of its
\* handshake.
Prompt(s) ==
    \/ ~Connecting(s) /\ WorkerStep(s)
    \/ NegotiationCancelled(s) \/ TaskAborted(s)

\* Tasks run on; from the offer on every step of a worker has a limit (the
\* negotiation's 20 s, the session's 120 s), and so has what a front waits for but
\* its client, START_TIMEOUT included; a relay's select does not pass over its ended
\* worker for ever.  No client has to take what it is sent and Ring does not have to
\* answer a handshake.
Progress ==
    \A s \in Sessions : /\ WF_vars(Prompt(s))
                        /\ WF_vars(~Blocked(s) /\ FrontStep(s))
                        /\ SF_vars(RelayWorkerEnded(s))

FairSpec == Spec /\ Progress

-----------------------------------------------------------------------------
(* Properties.                                                             *)

\* Every variable keeps its type.
TypeOK ==
    /\ route \in 0..MaxRuntimes /\ built \in 0..MaxRuntimes
    /\ active \in [Runtimes -> Sessions \cup {NoSession}]
    /\ cooldown \subseteq Runtimes
    /\ home \in [Sessions -> 0..MaxRuntimes]
    /\ front \in [Sessions -> Fronts]
    /\ worker \in [Sessions -> Workers]
    /\ call \in [Sessions -> {"none", "open", "closed", "dropped"}]
    /\ ready \in [Sessions -> {"none", "ok", "err"}]
    /\ table \subseteq Directs /\ cancelled \subseteq Sessions
    /\ done \subseteq Directs /\ aborted \subseteq Relays
    /\ target \in [Deleters -> Directs \cup {NoSession}]
    /\ acked \subseteq Directs

HasPermit(s) == \E r \in Runtimes : active[r] = s

\* A gate admits one call at a time: sessions started on the same runtime never
\* have their calls open at Ring together, although a relay's permit may return
\* before the runtime has dropped its aborted worker.
OneCallPerGate ==
    \A s, t \in Sessions :
        home[s] = home[t] /\ call[s] = "open" /\ call[t] = "open" => s = t

\* "Relay and direct WebRTC calls share one per-device slot": Ring never has two
\* calls open on the device, whatever starts, deletes, aborts and drops interleave.
OneCallPerDevice ==
    \A s, t \in Sessions : call[s] = "open" /\ call[t] = "open" => s = t

\* The start was dropped between its permit and its table entry: no task and no
\* table entry knows the permit any more.
Leaked(s) == s \in Directs /\ front[s] = "gone" /\ worker[s] = "none"

\* A permit is held only for a session that still has a task to return it.  The one
\* exception is the start that was dropped while it waited for the table's mutex
\* (ring_audio_manager.rs: start); no other error path, timeout, abort or drop
\* leaves a permit behind.
PermitBacked ==
    \A r \in Runtimes : active[r] # NoSession =>
        LET s == active[r] IN
        /\ home[s] = r
        /\ \/ front[s] = "reserved"
           \/ s \in Relays /\ front[s] \in {"waiting", "sending", "stopping", "finishing"}
           \/ s \in Directs /\ worker[s] \notin {"none", "over"}
           \/ Leaked(s)

\* "delete_ack_waits_for_worker_teardown": when a DELETE is answered 204 the call
\* with Ring is over.
AckMeansHungUp == \A s \in acked : call[s] # "open"

\* A start that was answered with an error leaves no call that nobody will stop.
FailedStartStops ==
    \A s \in Directs : front[s] = "failed" /\ worker[s] = "live" => s \in cancelled

\* Ring does not answer the handshake of a worker that nobody will tell to stop:
\* the consumer of a direct start has gone, and START_TIMEOUT with it; a relay's
\* front waits for its client or for the worker's end.
Forsaken(s) ==
    /\ Connecting(s) /\ s \notin cancelled
    /\ IF s \in Directs THEN front[s] = "gone" ELSE front[s] \in {"waiting", "sending"}

\* The only ways a device stays busy for ever, whatever happens to the session and
\* whoever disconnects: its permit leaked, its worker waits for a handshake nobody
\* can end, or its relay waits in a send.  Every other permit is returned
\* (ring_audio_manager.rs: spawn; ring_relay_api.rs: serve_reserved).
PermitReturned ==
    \A s \in Sessions :
        <>[]HasPermit(s) => <>[](Leaked(s) \/ Forsaken(s) \/ Blocked(s))

\* "Every session closes": Ring's side of a call is not left open for ever, also
\* when the consumer has gone.
CallEnds == \A s \in Sessions : (call[s] = "open") ~> (call[s] # "open")

=============================================================================
