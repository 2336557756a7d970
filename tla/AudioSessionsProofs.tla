------------------------- MODULE AudioSessionsProofs -------------------------
(***************************************************************************)
(* Proofs about AudioSessions for any number of sessions and runtimes.     *)
(*                                                                         *)
(* The argument: a worker that has not ended either holds the permit of    *)
(* its gate, or it is an aborted relay worker whose gate is empty and      *)
(* cooling down; the cooldown does not end before such a worker is gone.   *)
(* A new worker needs the permit first, so a gate never has two.           *)
(***************************************************************************)
EXTENDS AudioSessions, TLAPS

Unfinished(s) == worker[s] \notin {"none", "over"}

\* A session that has asked for a permit knows its runtime.
HomeInv == \A s \in Sessions : front[s] # "new" => home[s] \in Runtimes

\* A session has no worker before it has its permit.
FreshInv ==
    \A s \in Sessions : front[s] \in {"new", "reserving", "reserved"} => worker[s] = "none"

ReservedInv == \A s \in Sessions : front[s] = "reserved" => active[home[s]] = s

\* A relay gives its permit back only when its worker ended or was aborted.
FinishInv ==
    \A s \in Sessions : front[s] = "finishing" /\ Unfinished(s) => s \in aborted

\* Only a relay on its way out has an aborted worker.
AbortInv == \A s \in aborted : front[s] \in {"finishing", "over"}

\* Only the manager's workers leave a table.
DirectInv == \A s \in Sessions : worker[s] \in {"leaving", "removed"} => s \in Directs

\* Who holds a gate while a worker runs.
HolderInv ==
    \A s \in Sessions : Unfinished(s) =>
        \/ active[home[s]] = s
        \/ s \in aborted /\ active[home[s]] = NoSession /\ home[s] \in cooldown

AloneInv ==
    \A s, t \in Sessions : Unfinished(s) /\ Unfinished(t) /\ home[s] = home[t] => s = t

\* A call is open only while its worker is before the end of its close.
CallInv ==
    \A s \in Sessions : call[s] = "open" => worker[s] \in {"negotiating", "live", "closing"}

GateInv == /\ HomeInv /\ FreshInv /\ ReservedInv /\ FinishInv /\ AbortInv
           /\ DirectInv /\ HolderInv /\ AloneInv /\ CallInv

\* The route of a configured alias never changes.
RouteInv == route = 1 /\ \A s \in Sessions : home[s] \in {0, 1}

\* A direct session is in the table until its call is over, and says done only
\* after that.
TableInv ==
    /\ \A s \in Directs : Unfinished(s) => s \in table \/ worker[s] = "removed"
    /\ \A s \in Directs : front[s] \in {"waiting", "answered"} => worker[s] # "none"
    /\ \A s \in done : worker[s] = "over"

\* A session whose DELETE was answered has left its call.
AckInv == \A s \in acked : worker[s] \in {"removed", "over"}

DeleteInv == RouteInv /\ TableInv /\ AckInv

\* A start that gave up has told its worker, or there is none that has yet to leave
\* the table.
StopInv ==
    \A s \in Directs :
        /\ Unfinished(s) => s \in table \/ worker[s] = "removed"
        /\ front[s] = "stopping" => s \in cancelled
        /\ front[s] = "failed" => s \in cancelled \/ worker[s] \in {"none", "removed", "over"}

-----------------------------------------------------------------------------
\* The type invariant holds initially.
LEMMA InitType == Init => TypeOK
  BY SessionAssumption, RuntimeAssumption, ConfiguredAssumption
     DEF Init, TypeOK, Fronts, Workers, Sessions, Runtimes

\* Every step keeps the type invariant; a permit is returned to a known runtime.
LEMMA TypeStep == TypeOK /\ GateInv /\ [Next]_vars => TypeOK'
  <1>. SUFFICES ASSUME TypeOK, GateInv, [Next]_vars PROVE TypeOK'
    OBVIOUS
  <1>. USE SessionAssumption, RuntimeAssumption, DropAssumption DEF Sessions,
     Runtimes, Front, Worker, Runs, routeVars, gateVars, sideVars, delVars
  <1>1. ASSUME NEW s \in Sessions, Request(s) PROVE TypeOK'
    BY <1>1 DEF TypeOK, Fronts, Workers, Request
  <1>2. ASSUME NEW s \in Sessions, Reserve(s) PROVE TypeOK'
    BY <1>2 DEF TypeOK, Fronts, Workers, Reserve, GateFree
  <1>3. ASSUME NEW s \in Sessions, Spawn(s) PROVE TypeOK'
    BY <1>3 DEF TypeOK, Fronts, Workers, Spawn
  <1>4. ASSUME NEW s \in Sessions, StartOk(s) PROVE TypeOK'
    BY <1>4 DEF TypeOK, Fronts, Workers, StartOk
  <1>5. ASSUME NEW s \in Sessions, StartError(s) PROVE TypeOK'
    <2>1. CASE s \in table
      BY <1>5, <2>1 DEF TypeOK, Fronts, Workers, StartError, GiveUp
    <2>2. CASE s \notin table
      BY <1>5, <2>2 DEF TypeOK, Fronts, Workers, StartError, GiveUp
    <2>. QED  BY <2>1, <2>2
  <1>6. ASSUME NEW s \in Sessions, StartStopped(s) PROVE TypeOK'
    BY <1>6 DEF TypeOK, Fronts, Workers, StartStopped
  <1>7. ASSUME NEW s \in Sessions, RelayConnect(s) PROVE TypeOK'
    <2>1. CASE Front(s, "waiting") /\ Worker(s, "negotiating")
      BY <1>7, <2>1 DEF TypeOK, Fronts, Workers, RelayConnect, RelayUnreachable
    <2>2. CASE RelayUnreachable(s) /\ UNCHANGED worker
      BY <1>7, <2>2 DEF TypeOK, Fronts, Workers, RelayConnect, RelayUnreachable
    <2>. QED  BY <1>7, <2>1, <2>2 DEF RelayConnect
  <1>8. ASSUME NEW s \in Sessions, RelayWorkerEnded(s) PROVE TypeOK'
    BY <1>8 DEF TypeOK, Fronts, Workers, RelayWorkerEnded
  <1>9. ASSUME NEW s \in Sessions, RelayAbort(s) PROVE TypeOK'
    BY <1>9 DEF TypeOK, Fronts, Workers, RelayAbort
  <1>10. ASSUME NEW s \in Sessions, RelayFinish(s) PROVE TypeOK'
    <2>1. home[s] \in Runtimes /\ (worker[s] = "removed" => s \in Directs)
      BY <1>10 DEF TypeOK, GateInv, HomeInv, FreshInv, DirectInv, RelayFinish
    <2>2. active' \in [Runtimes -> Sessions \cup {NoSession}]
      BY <1>10, SMTT(30) DEF TypeOK, RelayFinish, Release
    <2>3. cooldown' \subseteq Runtimes
      <3>. HIDE DEF Runtimes
      <3>1. cooldown' \subseteq cooldown \cup {home[s]}
        BY <1>10 DEF RelayFinish, Release
      <3>. QED  BY <2>1, <3>1 DEF TypeOK
    <2>4. front' \in [Sessions -> Fronts]
      BY <1>10, <2>1 DEF TypeOK, Fronts, Workers, RelayFinish
    <2>. QED
      BY <1>10, <2>2, <2>3, <2>4 DEF TypeOK, RelayFinish
  <1>11. ASSUME NEW s \in Sessions, Offer(s) PROVE TypeOK'
    BY <1>11 DEF TypeOK, Fronts, Workers, Offer
  <1>12. ASSUME NEW s \in Sessions, NegotiationFailed(s) PROVE TypeOK'
    BY <1>12 DEF TypeOK, Fronts, Workers, NegotiationFailed, CloseCall
  <1>13. ASSUME NEW s \in Sessions, NegotiationCancelled(s) PROVE TypeOK'
    BY <1>13 DEF TypeOK, Fronts, Workers, NegotiationCancelled, DropCall
  <1>14. ASSUME NEW s \in Sessions, Negotiated(s) PROVE TypeOK'
    BY <1>14 DEF TypeOK, Fronts, Workers, Negotiated
  <1>15. ASSUME NEW s \in Sessions, HangupAsked(s) PROVE TypeOK'
    BY <1>15 DEF TypeOK, Fronts, Workers, HangupAsked
  <1>16. ASSUME NEW s \in Sessions, HangupAlone(s) PROVE TypeOK'
    BY <1>16 DEF TypeOK, Fronts, Workers, HangupAlone, CallOver
  <1>17. ASSUME NEW s \in Sessions, Close(s) PROVE TypeOK'
    BY <1>17 DEF TypeOK, Fronts, Workers, Close, CloseCall
  <1>18. ASSUME NEW s \in Sessions, Remove(s) PROVE TypeOK'
    BY <1>18 DEF TypeOK, Fronts, Workers, Remove
  <1>19. ASSUME NEW s \in Sessions, WorkerDone(s) PROVE TypeOK'
    <2>1. home[s] \in Runtimes /\ (worker[s] = "removed" => s \in Directs)
      BY <1>19 DEF TypeOK, GateInv, HomeInv, FreshInv, DirectInv, WorkerDone
    <2>2. active' \in [Runtimes -> Sessions \cup {NoSession}]
      BY <1>19, SMTT(30) DEF TypeOK, WorkerDone, Release
    <2>3. cooldown' \subseteq Runtimes
      <3>. HIDE DEF Runtimes
      <3>1. cooldown' \subseteq cooldown \cup {home[s]}
        BY <1>19 DEF WorkerDone, Release
      <3>. QED  BY <2>1, <3>1 DEF TypeOK
    <2>4. worker' \in [Sessions -> Workers] /\ done' \subseteq Directs
      BY <1>19, <2>1 DEF TypeOK, Fronts, Workers, WorkerDone
    <2>. QED
      BY <1>19, <2>2, <2>3, <2>4 DEF TypeOK, WorkerDone
  <1>20. ASSUME NEW s \in Sessions, TaskAborted(s) PROVE TypeOK'
    BY <1>20 DEF TypeOK, Fronts, Workers, TaskAborted, DropCall
  <1>21. ASSUME NEW s \in Sessions, DropStart(s) PROVE TypeOK'
    BY <1>21 DEF TypeOK, Fronts, Workers, DropStart
  <1>22. ASSUME NEW s \in Sessions, RelaySend(s) PROVE TypeOK'
    BY <1>22 DEF TypeOK, Fronts, Workers, RelaySend
  <1>23. ASSUME NEW s \in Sessions, RelaySent(s) PROVE TypeOK'
    BY <1>23 DEF TypeOK, Fronts, Workers, RelaySent
  <1>24. ASSUME NEW s \in Sessions, RelayStop(s) PROVE TypeOK'
    BY <1>24 DEF TypeOK, Fronts, Workers, RelayStop
  <1>25. ASSUME NEW d \in Deleters, Delete(d) PROVE TypeOK'
    BY <1>25 DEF TypeOK, Fronts, Workers, Delete, DeleteFound
  <1>26. ASSUME NEW d \in Deleters, DeleteDone(d) PROVE TypeOK'
    BY <1>26 DEF TypeOK, Fronts, Workers, DeleteDone
  <1>27. ASSUME NEW d \in Deleters, DeleteGivesUp(d) PROVE TypeOK'
    BY <1>27 DEF TypeOK, Fronts, Workers, DeleteGivesUp
  <1>28. ASSUME NEW r \in Runtimes, CooldownOver(r) PROVE TypeOK'
    BY <1>28 DEF TypeOK, Fronts, Workers, CooldownOver
  <1>29. CASE Discover
    BY <1>29 DEF TypeOK, Fronts, Workers, Discover
  <1>30. CASE UNCHANGED vars
    BY <1>30 DEF TypeOK, Fronts, Workers, vars
  <1>. QED
    BY <1>1, <1>2, <1>3, <1>4, <1>5, <1>6, <1>7, <1>8, <1>9, <1>10, <1>11, <1>12,
       <1>13, <1>14, <1>15, <1>16, <1>17, <1>18, <1>19, <1>20, <1>21, <1>22, <1>23,
       <1>24, <1>25, <1>26, <1>27, <1>28, <1>29, <1>30 DEF Next, FrontStep, WorkerStep

\* The gate's invariant holds initially.
LEMMA InitGate == Init => GateInv
  BY SessionAssumption DEF Init, GateInv, HomeInv, FreshInv, ReservedInv, FinishInv,
     AbortInv, DirectInv, HolderInv, AloneInv, CallInv, Unfinished

\* Every step keeps the gate's invariant.
LEMMA GateStep == TypeOK /\ GateInv /\ [Next]_vars => GateInv'
  <1>. SUFFICES ASSUME TypeOK, GateInv, [Next]_vars PROVE GateInv'
    OBVIOUS
  <1>. USE SessionAssumption, RuntimeAssumption, DropAssumption DEF Sessions,
     Runtimes, Front, Worker, Runs, routeVars, gateVars, sideVars, delVars
  <1>1. ASSUME NEW s \in Sessions, Request(s) PROVE GateInv'
    BY <1>1 DEF TypeOK, GateInv, HomeInv, FreshInv, ReservedInv, FinishInv, AbortInv,
       DirectInv, HolderInv, AloneInv, CallInv, Unfinished, Request
  <1>2. ASSUME NEW s \in Sessions, Reserve(s) PROVE GateInv'
    <2>1. HomeInv'
      BY <1>2 DEF TypeOK, GateInv, HomeInv, FreshInv, ReservedInv, FinishInv,
         AbortInv, DirectInv, HolderInv, AloneInv, CallInv, Unfinished, Reserve,
         GateFree
    <2>2. FreshInv'
      BY <1>2 DEF TypeOK, GateInv, HomeInv, FreshInv, ReservedInv, FinishInv,
         AbortInv, DirectInv, HolderInv, AloneInv, CallInv, Unfinished, Reserve,
         GateFree
    <2>3. ReservedInv'
      BY <1>2 DEF TypeOK, GateInv, HomeInv, FreshInv, ReservedInv, FinishInv,
         AbortInv, DirectInv, HolderInv, AloneInv, CallInv, Unfinished, Reserve,
         GateFree
    <2>4. FinishInv'
      BY <1>2 DEF TypeOK, GateInv, HomeInv, FreshInv, ReservedInv, FinishInv,
         AbortInv, DirectInv, HolderInv, AloneInv, CallInv, Unfinished, Reserve,
         GateFree
    <2>5. AbortInv'
      BY <1>2 DEF TypeOK, GateInv, AbortInv, Reserve, GateFree
    <2>6. DirectInv'
      BY <1>2 DEF TypeOK, GateInv, HomeInv, FreshInv, ReservedInv, FinishInv,
         AbortInv, DirectInv, HolderInv, AloneInv, CallInv, Unfinished, Reserve,
         GateFree
    <2>7. HolderInv'
      BY <1>2 DEF TypeOK, GateInv, HomeInv, FreshInv, ReservedInv, FinishInv,
         AbortInv, DirectInv, HolderInv, AloneInv, CallInv, Unfinished, Reserve,
         GateFree
    <2>8. AloneInv'
      BY <1>2 DEF TypeOK, GateInv, HomeInv, FreshInv, ReservedInv, FinishInv,
         AbortInv, DirectInv, HolderInv, AloneInv, CallInv, Unfinished, Reserve,
         GateFree
    <2>9. CallInv'
      BY <1>2 DEF TypeOK, GateInv, HomeInv, FreshInv, ReservedInv, FinishInv,
         AbortInv, DirectInv, HolderInv, AloneInv, CallInv, Unfinished, Reserve,
         GateFree
    <2>. QED
      BY <2>1, <2>2, <2>3, <2>4, <2>5, <2>6, <2>7, <2>8, <2>9 DEF GateInv
  <1>3. ASSUME NEW s \in Sessions, Spawn(s) PROVE GateInv'
    BY <1>3 DEF TypeOK, GateInv, HomeInv, FreshInv, ReservedInv, FinishInv, AbortInv,
       DirectInv, HolderInv, AloneInv, CallInv, Unfinished, Spawn
  <1>4. ASSUME NEW s \in Sessions, StartOk(s) PROVE GateInv'
    BY <1>4 DEF TypeOK, GateInv, HomeInv, FreshInv, ReservedInv, FinishInv, AbortInv,
       DirectInv, HolderInv, AloneInv, CallInv, Unfinished, StartOk
  <1>5. ASSUME NEW s \in Sessions, StartError(s) PROVE GateInv'
    BY <1>5 DEF TypeOK, GateInv, HomeInv, FreshInv, ReservedInv, FinishInv, AbortInv,
       DirectInv, HolderInv, AloneInv, CallInv, Unfinished, StartError, GiveUp
  <1>6. ASSUME NEW s \in Sessions, StartStopped(s) PROVE GateInv'
    BY <1>6 DEF TypeOK, GateInv, HomeInv, FreshInv, ReservedInv, FinishInv, AbortInv,
       DirectInv, HolderInv, AloneInv, CallInv, Unfinished, StartStopped
  <1>7. ASSUME NEW s \in Sessions, RelayConnect(s) PROVE GateInv'
    <2>1. CASE Front(s, "waiting") /\ Worker(s, "negotiating")
      BY <1>7, <2>1 DEF TypeOK, GateInv, HomeInv, FreshInv, ReservedInv, FinishInv,
         AbortInv, DirectInv, HolderInv, AloneInv, CallInv, Unfinished, RelayConnect,
         RelayUnreachable
    <2>2. CASE RelayUnreachable(s) /\ UNCHANGED worker
      BY <1>7, <2>2 DEF TypeOK, GateInv, HomeInv, FreshInv, ReservedInv, FinishInv,
         AbortInv, DirectInv, HolderInv, AloneInv, CallInv, Unfinished, RelayConnect,
         RelayUnreachable
    <2>. QED  BY <1>7, <2>1, <2>2 DEF RelayConnect
  <1>8. ASSUME NEW s \in Sessions, RelayWorkerEnded(s) PROVE GateInv'
    BY <1>8 DEF TypeOK, GateInv, HomeInv, FreshInv, ReservedInv, FinishInv, AbortInv,
       DirectInv, HolderInv, AloneInv, CallInv, Unfinished, RelayWorkerEnded
  <1>9. ASSUME NEW s \in Sessions, RelayAbort(s) PROVE GateInv'
    BY <1>9 DEF TypeOK, GateInv, HomeInv, FreshInv, ReservedInv, FinishInv, AbortInv,
       DirectInv, HolderInv, AloneInv, CallInv, Unfinished, RelayAbort
  <1>10. ASSUME NEW s \in Sessions, RelayFinish(s) PROVE GateInv'
    <2>1. HomeInv'
      BY <1>10 DEF TypeOK, GateInv, HomeInv, FreshInv, ReservedInv, FinishInv,
         AbortInv, DirectInv, HolderInv, AloneInv, CallInv, Unfinished, RelayFinish,
         Release
    <2>2. FreshInv'
      BY <1>10 DEF TypeOK, GateInv, HomeInv, FreshInv, ReservedInv, FinishInv,
         AbortInv, DirectInv, HolderInv, AloneInv, CallInv, Unfinished, RelayFinish,
         Release
    <2>3. ReservedInv'
      BY <1>10 DEF TypeOK, GateInv, HomeInv, FreshInv, ReservedInv, FinishInv,
         AbortInv, DirectInv, HolderInv, AloneInv, CallInv, Unfinished, RelayFinish,
         Release
    <2>4. FinishInv'
      BY <1>10 DEF TypeOK, GateInv, HomeInv, FreshInv, ReservedInv, FinishInv,
         AbortInv, DirectInv, HolderInv, AloneInv, CallInv, Unfinished, RelayFinish,
         Release
    <2>5. AbortInv'
      BY <1>10 DEF TypeOK, GateInv, HomeInv, FreshInv, ReservedInv, FinishInv,
         AbortInv, DirectInv, HolderInv, AloneInv, CallInv, Unfinished, RelayFinish,
         Release
    <2>6. DirectInv'
      BY <1>10 DEF TypeOK, GateInv, HomeInv, FreshInv, ReservedInv, FinishInv,
         AbortInv, DirectInv, HolderInv, AloneInv, CallInv, Unfinished, RelayFinish,
         Release
    <2>7. HolderInv'
      BY <1>10 DEF TypeOK, GateInv, HomeInv, FreshInv, ReservedInv, FinishInv,
         AbortInv, DirectInv, HolderInv, AloneInv, CallInv, Unfinished, RelayFinish,
         Release
    <2>8. AloneInv'
      BY <1>10 DEF TypeOK, GateInv, HomeInv, FreshInv, ReservedInv, FinishInv,
         AbortInv, DirectInv, HolderInv, AloneInv, CallInv, Unfinished, RelayFinish,
         Release
    <2>9. CallInv'
      BY <1>10 DEF TypeOK, GateInv, HomeInv, FreshInv, ReservedInv, FinishInv,
         AbortInv, DirectInv, HolderInv, AloneInv, CallInv, Unfinished, RelayFinish,
         Release
    <2>. QED
      BY <2>1, <2>2, <2>3, <2>4, <2>5, <2>6, <2>7, <2>8, <2>9 DEF GateInv
  <1>11. ASSUME NEW s \in Sessions, Offer(s) PROVE GateInv'
    BY <1>11 DEF TypeOK, GateInv, HomeInv, FreshInv, ReservedInv, FinishInv, AbortInv,
       DirectInv, HolderInv, AloneInv, CallInv, Unfinished, Offer
  <1>12. ASSUME NEW s \in Sessions, NegotiationFailed(s) PROVE GateInv'
    <2>1. HomeInv'
      BY <1>12 DEF TypeOK, GateInv, HomeInv, FreshInv, ReservedInv, FinishInv,
         AbortInv, DirectInv, HolderInv, AloneInv, CallInv, Unfinished,
         NegotiationFailed, CloseCall
    <2>2. FreshInv'
      BY <1>12 DEF TypeOK, GateInv, HomeInv, FreshInv, ReservedInv, FinishInv,
         AbortInv, DirectInv, HolderInv, AloneInv, CallInv, Unfinished,
         NegotiationFailed, CloseCall
    <2>3. ReservedInv'
      BY <1>12 DEF TypeOK, GateInv, HomeInv, FreshInv, ReservedInv, FinishInv,
         AbortInv, DirectInv, HolderInv, AloneInv, CallInv, Unfinished,
         NegotiationFailed, CloseCall
    <2>4. FinishInv'
      <3>1. CASE s \in Directs
        BY <1>12, <3>1 DEF TypeOK, GateInv, HomeInv, FreshInv, ReservedInv, FinishInv,
           AbortInv, DirectInv, HolderInv, AloneInv, CallInv, Unfinished,
           NegotiationFailed, CloseCall
      <3>2. CASE s \notin Directs
        BY <1>12, <3>2 DEF TypeOK, GateInv, HomeInv, FreshInv, ReservedInv, FinishInv,
           AbortInv, DirectInv, HolderInv, AloneInv, CallInv, Unfinished,
           NegotiationFailed, CloseCall
      <3>. QED  BY <3>1, <3>2
    <2>5. AbortInv'
      BY <1>12 DEF TypeOK, GateInv, HomeInv, FreshInv, ReservedInv, FinishInv,
         AbortInv, DirectInv, HolderInv, AloneInv, CallInv, Unfinished,
         NegotiationFailed, CloseCall
    <2>6. DirectInv'
      BY <1>12 DEF TypeOK, GateInv, HomeInv, FreshInv, ReservedInv, FinishInv,
         AbortInv, DirectInv, HolderInv, AloneInv, CallInv, Unfinished,
         NegotiationFailed, CloseCall
    <2>7. HolderInv'
      <3>1. CASE s \in Directs
        BY <1>12, <3>1, SMTT(30) DEF TypeOK, GateInv, HomeInv, FreshInv, ReservedInv, FinishInv,
           AbortInv, DirectInv, HolderInv, AloneInv, CallInv, Unfinished,
           NegotiationFailed, CloseCall
      <3>2. CASE s \notin Directs
        BY <1>12, <3>2 DEF TypeOK, GateInv, HomeInv, FreshInv, ReservedInv, FinishInv,
           AbortInv, DirectInv, HolderInv, AloneInv, CallInv, Unfinished,
           NegotiationFailed, CloseCall
      <3>. QED  BY <3>1, <3>2
    <2>8. AloneInv'
      BY <1>12 DEF TypeOK, GateInv, HomeInv, FreshInv, ReservedInv, FinishInv,
         AbortInv, DirectInv, HolderInv, AloneInv, CallInv, Unfinished,
         NegotiationFailed, CloseCall
    <2>9. CallInv'
      BY <1>12 DEF TypeOK, GateInv, HomeInv, FreshInv, ReservedInv, FinishInv,
         AbortInv, DirectInv, HolderInv, AloneInv, CallInv, Unfinished,
         NegotiationFailed, CloseCall
    <2>. QED
      BY <2>1, <2>2, <2>3, <2>4, <2>5, <2>6, <2>7, <2>8, <2>9 DEF GateInv
  <1>13. ASSUME NEW s \in Sessions, NegotiationCancelled(s) PROVE GateInv'
    BY <1>13 DEF TypeOK, GateInv, HomeInv, FreshInv, ReservedInv, FinishInv, AbortInv,
       DirectInv, HolderInv, AloneInv, CallInv, Unfinished, NegotiationCancelled,
       DropCall
  <1>14. ASSUME NEW s \in Sessions, Negotiated(s) PROVE GateInv'
    <2>1. HomeInv'
      BY <1>14 DEF TypeOK, GateInv, HomeInv, FreshInv, ReservedInv, FinishInv,
         AbortInv, DirectInv, HolderInv, AloneInv, CallInv, Unfinished, Negotiated
    <2>2. FreshInv'
      BY <1>14 DEF TypeOK, GateInv, HomeInv, FreshInv, ReservedInv, FinishInv,
         AbortInv, DirectInv, HolderInv, AloneInv, CallInv, Unfinished, Negotiated
    <2>3. ReservedInv'
      BY <1>14 DEF TypeOK, GateInv, HomeInv, FreshInv, ReservedInv, FinishInv,
         AbortInv, DirectInv, HolderInv, AloneInv, CallInv, Unfinished, Negotiated
    <2>4. FinishInv'
      BY <1>14 DEF TypeOK, GateInv, HomeInv, FreshInv, ReservedInv, FinishInv,
         AbortInv, DirectInv, HolderInv, AloneInv, CallInv, Unfinished, Negotiated
    <2>5. AbortInv'
      BY <1>14 DEF TypeOK, GateInv, HomeInv, FreshInv, ReservedInv, FinishInv,
         AbortInv, DirectInv, HolderInv, AloneInv, CallInv, Unfinished, Negotiated
    <2>6. DirectInv'
      BY <1>14 DEF TypeOK, GateInv, HomeInv, FreshInv, ReservedInv, FinishInv,
         AbortInv, DirectInv, HolderInv, AloneInv, CallInv, Unfinished, Negotiated
    <2>7. HolderInv'
      BY <1>14 DEF TypeOK, GateInv, HomeInv, FreshInv, ReservedInv, FinishInv,
         AbortInv, DirectInv, HolderInv, AloneInv, CallInv, Unfinished, Negotiated
    <2>8. AloneInv'
      BY <1>14 DEF TypeOK, GateInv, HomeInv, FreshInv, ReservedInv, FinishInv,
         AbortInv, DirectInv, HolderInv, AloneInv, CallInv, Unfinished, Negotiated
    <2>9. CallInv'
      BY <1>14 DEF TypeOK, GateInv, HomeInv, FreshInv, ReservedInv, FinishInv,
         AbortInv, DirectInv, HolderInv, AloneInv, CallInv, Unfinished, Negotiated
    <2>. QED
      BY <2>1, <2>2, <2>3, <2>4, <2>5, <2>6, <2>7, <2>8, <2>9 DEF GateInv
  <1>15. ASSUME NEW s \in Sessions, HangupAsked(s) PROVE GateInv'
    BY <1>15 DEF TypeOK, GateInv, HomeInv, FreshInv, ReservedInv, FinishInv, AbortInv,
       DirectInv, HolderInv, AloneInv, CallInv, Unfinished, HangupAsked
  <1>16. ASSUME NEW s \in Sessions, HangupAlone(s) PROVE GateInv'
    BY <1>16 DEF TypeOK, GateInv, HomeInv, FreshInv, ReservedInv, FinishInv, AbortInv,
       DirectInv, HolderInv, AloneInv, CallInv, Unfinished, HangupAlone, CallOver
  <1>17. ASSUME NEW s \in Sessions, Close(s) PROVE GateInv'
    BY <1>17 DEF TypeOK, GateInv, HomeInv, FreshInv, ReservedInv, FinishInv, AbortInv,
       DirectInv, HolderInv, AloneInv, CallInv, Unfinished, Close, CloseCall
  <1>18. ASSUME NEW s \in Sessions, Remove(s) PROVE GateInv'
    BY <1>18 DEF TypeOK, GateInv, HomeInv, FreshInv, ReservedInv, FinishInv, AbortInv,
       DirectInv, HolderInv, AloneInv, CallInv, Unfinished, Remove
  <1>19. ASSUME NEW s \in Sessions, WorkerDone(s) PROVE GateInv'
    <2>1. CASE active[home[s]] = s
      BY <1>19, <2>1 DEF TypeOK, GateInv, HomeInv, FreshInv, ReservedInv, FinishInv,
         AbortInv, DirectInv, HolderInv, AloneInv, CallInv, Unfinished, WorkerDone,
         Release
    <2>2. CASE active[home[s]] # s
      BY <1>19, <2>2 DEF TypeOK, GateInv, HomeInv, FreshInv, ReservedInv, FinishInv,
         AbortInv, DirectInv, HolderInv, AloneInv, CallInv, Unfinished, WorkerDone,
         Release
    <2>. QED  BY <2>1, <2>2
  <1>20. ASSUME NEW s \in Sessions, TaskAborted(s) PROVE GateInv'
    <2>1. HomeInv'
      BY <1>20 DEF TypeOK, GateInv, HomeInv, FreshInv, ReservedInv, FinishInv,
         AbortInv, DirectInv, HolderInv, AloneInv, CallInv, Unfinished, TaskAborted,
         DropCall
    <2>2. FreshInv'
      BY <1>20 DEF TypeOK, GateInv, HomeInv, FreshInv, ReservedInv, FinishInv,
         AbortInv, DirectInv, HolderInv, AloneInv, CallInv, Unfinished, TaskAborted,
         DropCall
    <2>3. ReservedInv'
      BY <1>20 DEF TypeOK, GateInv, HomeInv, FreshInv, ReservedInv, FinishInv,
         AbortInv, DirectInv, HolderInv, AloneInv, CallInv, Unfinished, TaskAborted,
         DropCall
    <2>4. FinishInv'
      BY <1>20 DEF TypeOK, GateInv, HomeInv, FreshInv, ReservedInv, FinishInv,
         AbortInv, DirectInv, HolderInv, AloneInv, CallInv, Unfinished, TaskAborted,
         DropCall
    <2>5. AbortInv'
      BY <1>20 DEF TypeOK, GateInv, HomeInv, FreshInv, ReservedInv, FinishInv,
         AbortInv, DirectInv, HolderInv, AloneInv, CallInv, Unfinished, TaskAborted,
         DropCall
    <2>6. DirectInv'
      BY <1>20 DEF TypeOK, GateInv, HomeInv, FreshInv, ReservedInv, FinishInv,
         AbortInv, DirectInv, HolderInv, AloneInv, CallInv, Unfinished, TaskAborted,
         DropCall
    <2>7. HolderInv'
      BY <1>20 DEF TypeOK, GateInv, HomeInv, FreshInv, ReservedInv, FinishInv,
         AbortInv, DirectInv, HolderInv, AloneInv, CallInv, Unfinished, TaskAborted,
         DropCall
    <2>8. AloneInv'
      BY <1>20 DEF TypeOK, GateInv, HomeInv, FreshInv, ReservedInv, FinishInv,
         AbortInv, DirectInv, HolderInv, AloneInv, CallInv, Unfinished, TaskAborted,
         DropCall
    <2>9. CallInv'
      BY <1>20 DEF TypeOK, GateInv, HomeInv, FreshInv, ReservedInv, FinishInv,
         AbortInv, DirectInv, HolderInv, AloneInv, CallInv, Unfinished, TaskAborted,
         DropCall
    <2>. QED
      BY <2>1, <2>2, <2>3, <2>4, <2>5, <2>6, <2>7, <2>8, <2>9 DEF GateInv
  <1>21. ASSUME NEW s \in Sessions, DropStart(s) PROVE GateInv'
    <2>1. HomeInv'
      BY <1>21 DEF TypeOK, GateInv, HomeInv, FreshInv, ReservedInv, FinishInv,
         AbortInv, DirectInv, HolderInv, AloneInv, CallInv, Unfinished, DropStart
    <2>2. FreshInv'
      BY <1>21 DEF TypeOK, GateInv, HomeInv, FreshInv, ReservedInv, FinishInv,
         AbortInv, DirectInv, HolderInv, AloneInv, CallInv, Unfinished, DropStart
    <2>3. ReservedInv'
      BY <1>21 DEF TypeOK, GateInv, HomeInv, FreshInv, ReservedInv, FinishInv,
         AbortInv, DirectInv, HolderInv, AloneInv, CallInv, Unfinished, DropStart
    <2>4. FinishInv'
      BY <1>21 DEF TypeOK, GateInv, HomeInv, FreshInv, ReservedInv, FinishInv,
         AbortInv, DirectInv, HolderInv, AloneInv, CallInv, Unfinished, DropStart
    <2>5. AbortInv'
      BY <1>21 DEF TypeOK, GateInv, HomeInv, FreshInv, ReservedInv, FinishInv,
         AbortInv, DirectInv, HolderInv, AloneInv, CallInv, Unfinished, DropStart
    <2>6. DirectInv'
      BY <1>21 DEF TypeOK, GateInv, HomeInv, FreshInv, ReservedInv, FinishInv,
         AbortInv, DirectInv, HolderInv, AloneInv, CallInv, Unfinished, DropStart
    <2>7. HolderInv'
      BY <1>21 DEF TypeOK, GateInv, HomeInv, FreshInv, ReservedInv, FinishInv,
         AbortInv, DirectInv, HolderInv, AloneInv, CallInv, Unfinished, DropStart
    <2>8. AloneInv'
      BY <1>21 DEF TypeOK, GateInv, HomeInv, FreshInv, ReservedInv, FinishInv,
         AbortInv, DirectInv, HolderInv, AloneInv, CallInv, Unfinished, DropStart
    <2>9. CallInv'
      BY <1>21 DEF TypeOK, GateInv, HomeInv, FreshInv, ReservedInv, FinishInv,
         AbortInv, DirectInv, HolderInv, AloneInv, CallInv, Unfinished, DropStart
    <2>. QED
      BY <2>1, <2>2, <2>3, <2>4, <2>5, <2>6, <2>7, <2>8, <2>9 DEF GateInv
  <1>22. ASSUME NEW s \in Sessions, RelaySend(s) PROVE GateInv'
    BY <1>22 DEF TypeOK, GateInv, HomeInv, FreshInv, ReservedInv, FinishInv, AbortInv,
       DirectInv, HolderInv, AloneInv, CallInv, Unfinished, RelaySend
  <1>23. ASSUME NEW s \in Sessions, RelaySent(s) PROVE GateInv'
    BY <1>23, SMTT(30) DEF TypeOK, GateInv, HomeInv, FreshInv, ReservedInv, FinishInv, AbortInv,
       DirectInv, HolderInv, AloneInv, CallInv, Unfinished, RelaySent
  <1>24. ASSUME NEW s \in Sessions, RelayStop(s) PROVE GateInv'
    BY <1>24 DEF TypeOK, GateInv, HomeInv, FreshInv, ReservedInv, FinishInv, AbortInv,
       DirectInv, HolderInv, AloneInv, CallInv, Unfinished, RelayStop
  <1>25. ASSUME NEW d \in Deleters, Delete(d) PROVE GateInv'
    BY <1>25 DEF TypeOK, GateInv, HomeInv, FreshInv, ReservedInv, FinishInv, AbortInv,
       DirectInv, HolderInv, AloneInv, CallInv, Unfinished, Delete, DeleteFound
  <1>26. ASSUME NEW d \in Deleters, DeleteDone(d) PROVE GateInv'
    BY <1>26 DEF TypeOK, GateInv, HomeInv, FreshInv, ReservedInv, FinishInv, AbortInv,
       DirectInv, HolderInv, AloneInv, CallInv, Unfinished, DeleteDone
  <1>27. ASSUME NEW d \in Deleters, DeleteGivesUp(d) PROVE GateInv'
    BY <1>27 DEF TypeOK, GateInv, HomeInv, FreshInv, ReservedInv, FinishInv, AbortInv,
       DirectInv, HolderInv, AloneInv, CallInv, Unfinished, DeleteGivesUp
  <1>28. ASSUME NEW r \in Runtimes, CooldownOver(r) PROVE GateInv'
    BY <1>28 DEF TypeOK, GateInv, HomeInv, FreshInv, ReservedInv, FinishInv, AbortInv,
       DirectInv, HolderInv, AloneInv, CallInv, Unfinished, CooldownOver
  <1>29. CASE Discover
    BY <1>29 DEF TypeOK, GateInv, HomeInv, FreshInv, ReservedInv, FinishInv, AbortInv,
       DirectInv, HolderInv, AloneInv, CallInv, Unfinished, Discover
  <1>30. CASE UNCHANGED vars
    BY <1>30 DEF TypeOK, GateInv, HomeInv, FreshInv, ReservedInv, FinishInv, AbortInv,
       DirectInv, HolderInv, AloneInv, CallInv, Unfinished, vars
  <1>. QED
    BY <1>1, <1>2, <1>3, <1>4, <1>5, <1>6, <1>7, <1>8, <1>9, <1>10, <1>11, <1>12,
       <1>13, <1>14, <1>15, <1>16, <1>17, <1>18, <1>19, <1>20, <1>21, <1>22, <1>23,
       <1>24, <1>25, <1>26, <1>27, <1>28, <1>29, <1>30 DEF Next, FrontStep, WorkerStep

\* The type of every variable is an invariant of the specification.
THEOREM TypeCorrect == Spec => []TypeOK
  <1>1. Init => TypeOK /\ GateInv
    BY InitType, InitGate
  <1>2. (TypeOK /\ GateInv) /\ [Next]_vars => (TypeOK /\ GateInv)'
    BY TypeStep, GateStep
  <1>. QED  BY <1>1, <1>2, PTL DEF Spec

\* The invariant of the gate and its holders, for every number of sessions.
THEOREM GateInvariant == Spec => [](TypeOK /\ GateInv)
  <1>1. Init => TypeOK /\ GateInv
    BY InitType, InitGate
  <1>2. (TypeOK /\ GateInv) /\ [Next]_vars => (TypeOK /\ GateInv)'
    BY TypeStep, GateStep
  <1>. QED  BY <1>1, <1>2, PTL DEF Spec

\* SessionGate: the sessions of one runtime never have two calls open at Ring.
THEOREM GateAdmitsOne == Spec => []OneCallPerGate
  <1>1. TypeOK /\ GateInv => OneCallPerGate
    BY DEF GateInv, CallInv, AloneInv, Unfinished, OneCallPerGate
  <1>. QED  BY <1>1, GateInvariant, PTL

-----------------------------------------------------------------------------
\* The permit stays with a session that will return it, or with a start dropped
\* while it waited for the table's mutex.
LEMMA BackedStep == TypeOK /\ GateInv /\ PermitBacked /\ [Next]_vars => PermitBacked'
  <1>. SUFFICES ASSUME TypeOK, GateInv, PermitBacked, [Next]_vars PROVE PermitBacked'
    OBVIOUS
  <1>. USE SessionAssumption, RuntimeAssumption, DropAssumption DEF Sessions,
     Runtimes, Front, Worker, Runs, routeVars, gateVars, sideVars, delVars
  <1>1. ASSUME NEW s \in Sessions, Request(s) PROVE PermitBacked'
    BY <1>1 DEF TypeOK, GateInv, FreshInv, AbortInv, PermitBacked, Leaked, Request
  <1>2. ASSUME NEW s \in Sessions, Reserve(s) PROVE PermitBacked'
    <2>1. CASE GateFree(home[s])
      BY <1>2, <2>1 DEF TypeOK, GateInv, FreshInv, AbortInv, PermitBacked, Leaked, Reserve,
         GateFree
    <2>2. CASE ~GateFree(home[s])
      BY <1>2, <2>2 DEF TypeOK, GateInv, FreshInv, AbortInv, PermitBacked, Leaked, Reserve,
         GateFree
    <2>. QED  BY <2>1, <2>2
  <1>3. ASSUME NEW s \in Sessions, Spawn(s) PROVE PermitBacked'
    BY <1>3 DEF TypeOK, GateInv, FreshInv, AbortInv, PermitBacked, Leaked, Spawn
  <1>4. ASSUME NEW s \in Sessions, StartOk(s) PROVE PermitBacked'
    BY <1>4 DEF TypeOK, GateInv, FreshInv, AbortInv, PermitBacked, Leaked, StartOk
  <1>5. ASSUME NEW s \in Sessions, StartError(s) PROVE PermitBacked'
    BY <1>5 DEF TypeOK, GateInv, FreshInv, AbortInv, PermitBacked, Leaked, StartError, GiveUp
  <1>6. ASSUME NEW s \in Sessions, StartStopped(s) PROVE PermitBacked'
    BY <1>6 DEF TypeOK, GateInv, FreshInv, AbortInv, PermitBacked, Leaked, StartStopped
  <1>7. ASSUME NEW s \in Sessions, RelayConnect(s) PROVE PermitBacked'
    <2>1. CASE Front(s, "waiting") /\ Worker(s, "negotiating")
      BY <1>7, <2>1 DEF TypeOK, GateInv, FreshInv, AbortInv, PermitBacked, Leaked,
         RelayConnect, RelayUnreachable
    <2>2. CASE RelayUnreachable(s) /\ UNCHANGED worker
      BY <1>7, <2>2 DEF TypeOK, GateInv, FreshInv, AbortInv, PermitBacked, Leaked,
         RelayConnect, RelayUnreachable
    <2>. QED  BY <1>7, <2>1, <2>2 DEF RelayConnect
  <1>8. ASSUME NEW s \in Sessions, RelayWorkerEnded(s) PROVE PermitBacked'
    BY <1>8 DEF TypeOK, GateInv, FreshInv, AbortInv, PermitBacked, Leaked, RelayWorkerEnded
  <1>9. ASSUME NEW s \in Sessions, RelayAbort(s) PROVE PermitBacked'
    BY <1>9 DEF TypeOK, GateInv, FreshInv, AbortInv, PermitBacked, Leaked, RelayAbort
  <1>10. ASSUME NEW s \in Sessions, RelayFinish(s) PROVE PermitBacked'
    <2>1. CASE active[home[s]] = s
      BY <1>10, <2>1 DEF TypeOK, GateInv, FreshInv, AbortInv, PermitBacked, Leaked,
         RelayFinish, Release
    <2>2. CASE active[home[s]] # s
      BY <1>10, <2>2 DEF TypeOK, GateInv, FreshInv, AbortInv, PermitBacked, Leaked,
         RelayFinish, Release
    <2>. QED  BY <2>1, <2>2
  <1>11. ASSUME NEW s \in Sessions, Offer(s) PROVE PermitBacked'
    BY <1>11 DEF TypeOK, GateInv, FreshInv, AbortInv, PermitBacked, Leaked, Offer
  <1>12. ASSUME NEW s \in Sessions, NegotiationFailed(s) PROVE PermitBacked'
    BY <1>12 DEF TypeOK, GateInv, FreshInv, AbortInv, PermitBacked, Leaked, NegotiationFailed,
       CloseCall
  <1>13. ASSUME NEW s \in Sessions, NegotiationCancelled(s) PROVE PermitBacked'
    BY <1>13 DEF TypeOK, GateInv, FreshInv, AbortInv, PermitBacked, Leaked,
       NegotiationCancelled, DropCall
  <1>14. ASSUME NEW s \in Sessions, Negotiated(s) PROVE PermitBacked'
    BY <1>14 DEF TypeOK, GateInv, FreshInv, AbortInv, PermitBacked, Leaked, Negotiated
  <1>15. ASSUME NEW s \in Sessions, HangupAsked(s) PROVE PermitBacked'
    BY <1>15 DEF TypeOK, GateInv, FreshInv, AbortInv, PermitBacked, Leaked, HangupAsked
  <1>16. ASSUME NEW s \in Sessions, HangupAlone(s) PROVE PermitBacked'
    BY <1>16 DEF TypeOK, GateInv, FreshInv, AbortInv, PermitBacked, Leaked, HangupAlone,
       CallOver
  <1>17. ASSUME NEW s \in Sessions, Close(s) PROVE PermitBacked'
    BY <1>17 DEF TypeOK, GateInv, FreshInv, AbortInv, PermitBacked, Leaked, Close, CloseCall
  <1>18. ASSUME NEW s \in Sessions, Remove(s) PROVE PermitBacked'
    BY <1>18 DEF TypeOK, GateInv, FreshInv, AbortInv, PermitBacked, Leaked, Remove
  <1>19. ASSUME NEW s \in Sessions, WorkerDone(s) PROVE PermitBacked'
    BY <1>19 DEF TypeOK, GateInv, FreshInv, AbortInv, PermitBacked, Leaked, WorkerDone,
       Release
  <1>20. ASSUME NEW s \in Sessions, TaskAborted(s) PROVE PermitBacked'
    BY <1>20 DEF TypeOK, GateInv, FreshInv, AbortInv, PermitBacked, Leaked, TaskAborted,
       DropCall
  <1>21. ASSUME NEW s \in Sessions, DropStart(s) PROVE PermitBacked'
    BY <1>21 DEF TypeOK, GateInv, FreshInv, AbortInv, PermitBacked, Leaked, DropStart
  <1>22. ASSUME NEW s \in Sessions, RelaySend(s) PROVE PermitBacked'
    BY <1>22 DEF TypeOK, GateInv, FreshInv, AbortInv, PermitBacked, Leaked, RelaySend
  <1>23. ASSUME NEW s \in Sessions, RelaySent(s) PROVE PermitBacked'
    BY <1>23 DEF TypeOK, GateInv, FreshInv, AbortInv, PermitBacked, Leaked, RelaySent
  <1>24. ASSUME NEW s \in Sessions, RelayStop(s) PROVE PermitBacked'
    BY <1>24 DEF TypeOK, GateInv, FreshInv, AbortInv, PermitBacked, Leaked, RelayStop
  <1>25. ASSUME NEW d \in Deleters, Delete(d) PROVE PermitBacked'
    BY <1>25 DEF TypeOK, GateInv, FreshInv, AbortInv, PermitBacked, Leaked, Delete,
       DeleteFound
  <1>26. ASSUME NEW d \in Deleters, DeleteDone(d) PROVE PermitBacked'
    BY <1>26 DEF TypeOK, GateInv, FreshInv, AbortInv, PermitBacked, Leaked, DeleteDone
  <1>27. ASSUME NEW d \in Deleters, DeleteGivesUp(d) PROVE PermitBacked'
    BY <1>27 DEF TypeOK, GateInv, FreshInv, AbortInv, PermitBacked, Leaked, DeleteGivesUp
  <1>28. ASSUME NEW r \in Runtimes, CooldownOver(r) PROVE PermitBacked'
    BY <1>28 DEF TypeOK, GateInv, FreshInv, AbortInv, PermitBacked, Leaked, CooldownOver
  <1>29. CASE Discover
    BY <1>29 DEF TypeOK, GateInv, FreshInv, AbortInv, PermitBacked, Leaked, Discover
  <1>30. CASE UNCHANGED vars
    BY <1>30 DEF TypeOK, GateInv, FreshInv, AbortInv, PermitBacked, Leaked, vars
  <1>. QED
    BY <1>1, <1>2, <1>3, <1>4, <1>5, <1>6, <1>7, <1>8, <1>9, <1>10, <1>11, <1>12,
       <1>13, <1>14, <1>15, <1>16, <1>17, <1>18, <1>19, <1>20, <1>21, <1>22, <1>23,
       <1>24, <1>25, <1>26, <1>27, <1>28, <1>29, <1>30 DEF Next, FrontStep, WorkerStep

\* ring_session_gate.rs, with starts dropped at any await point: a device is busy
\* only for a session that is served, or for a start that was dropped between its
\* permit and its entry in the table.
THEOREM PermitsAreBacked == Spec => []PermitBacked
  <1>1. Init => PermitBacked
    BY DEF Init, PermitBacked
  <1>2. TypeOK /\ GateInv /\ PermitBacked /\ [Next]_vars => PermitBacked'
    BY BackedStep
  <1>. QED  BY <1>1, <1>2, GateInvariant, PTL DEF Spec

-----------------------------------------------------------------------------
\* What a DELETE relies on holds initially.
LEMMA InitDelete == Configured /\ Init => DeleteInv
  BY SessionAssumption DEF Init, DeleteInv, RouteInv, TableInv, AckInv, Unfinished, Sessions

\* Every step keeps what a DELETE relies on.
LEMMA DeleteStep ==
    Configured /\ TypeOK /\ GateInv /\ DeleteInv /\ [Next]_vars => DeleteInv'
  <1>. SUFFICES ASSUME Configured, TypeOK, GateInv, DeleteInv, [Next]_vars
                PROVE  DeleteInv'
    OBVIOUS
  <1>. USE SessionAssumption, RuntimeAssumption, DropAssumption DEF Sessions,
     Runtimes, Front, Worker, Runs, routeVars, gateVars, sideVars, delVars
  <1>1. ASSUME NEW s \in Sessions, Request(s) PROVE DeleteInv'
    BY <1>1 DEF TypeOK, GateInv, FreshInv, DirectInv, RouteInv, TableInv, AckInv,
       DeleteInv, Unfinished, Request
  <1>2. ASSUME NEW s \in Sessions, Reserve(s) PROVE DeleteInv'
    BY <1>2 DEF TypeOK, GateInv, FreshInv, DirectInv, RouteInv, TableInv, AckInv,
       DeleteInv, Unfinished, Reserve, GateFree
  <1>3. ASSUME NEW s \in Sessions, Spawn(s) PROVE DeleteInv'
    BY <1>3 DEF TypeOK, GateInv, FreshInv, DirectInv, RouteInv, TableInv, AckInv,
       DeleteInv, Unfinished, Spawn
  <1>4. ASSUME NEW s \in Sessions, StartOk(s) PROVE DeleteInv'
    BY <1>4 DEF TypeOK, GateInv, FreshInv, DirectInv, RouteInv, TableInv, AckInv,
       DeleteInv, Unfinished, StartOk
  <1>5. ASSUME NEW s \in Sessions, StartError(s) PROVE DeleteInv'
    BY <1>5 DEF TypeOK, GateInv, FreshInv, DirectInv, RouteInv, TableInv, AckInv,
       DeleteInv, Unfinished, StartError, GiveUp
  <1>6. ASSUME NEW s \in Sessions, StartStopped(s) PROVE DeleteInv'
    BY <1>6 DEF TypeOK, GateInv, FreshInv, DirectInv, RouteInv, TableInv, AckInv,
       DeleteInv, Unfinished, StartStopped
  <1>7. ASSUME NEW s \in Sessions, RelayConnect(s) PROVE DeleteInv'
    <2>1. CASE Front(s, "waiting") /\ Worker(s, "negotiating")
      BY <1>7, <2>1 DEF TypeOK, GateInv, FreshInv, DirectInv, RouteInv, TableInv,
         AckInv, DeleteInv, Unfinished, RelayConnect, RelayUnreachable
    <2>2. CASE RelayUnreachable(s) /\ UNCHANGED worker
      BY <1>7, <2>2 DEF TypeOK, GateInv, FreshInv, DirectInv, RouteInv, TableInv,
         AckInv, DeleteInv, Unfinished, RelayConnect, RelayUnreachable
    <2>. QED  BY <1>7, <2>1, <2>2 DEF RelayConnect
  <1>8. ASSUME NEW s \in Sessions, RelayWorkerEnded(s) PROVE DeleteInv'
    BY <1>8 DEF TypeOK, GateInv, FreshInv, DirectInv, RouteInv, TableInv, AckInv,
       DeleteInv, Unfinished, RelayWorkerEnded
  <1>9. ASSUME NEW s \in Sessions, RelayAbort(s) PROVE DeleteInv'
    BY <1>9 DEF TypeOK, GateInv, FreshInv, DirectInv, RouteInv, TableInv, AckInv,
       DeleteInv, Unfinished, RelayAbort
  <1>10. ASSUME NEW s \in Sessions, RelayFinish(s) PROVE DeleteInv'
    BY <1>10 DEF TypeOK, GateInv, FreshInv, DirectInv, RouteInv, TableInv, AckInv,
       DeleteInv, Unfinished, RelayFinish, Release
  <1>11. ASSUME NEW s \in Sessions, Offer(s) PROVE DeleteInv'
    BY <1>11 DEF TypeOK, GateInv, FreshInv, DirectInv, RouteInv, TableInv, AckInv,
       DeleteInv, Unfinished, Offer
  <1>12. ASSUME NEW s \in Sessions, NegotiationFailed(s) PROVE DeleteInv'
    <2>1. RouteInv'
      BY <1>12 DEF DeleteInv, RouteInv, NegotiationFailed
    <2>2. TableInv'
      BY <1>12 DEF TypeOK, DeleteInv, TableInv, Unfinished, NegotiationFailed
    <2>3. AckInv'
      BY <1>12 DEF TypeOK, DeleteInv, AckInv, NegotiationFailed
    <2>. QED  BY <2>1, <2>2, <2>3 DEF DeleteInv
  <1>13. ASSUME NEW s \in Sessions, NegotiationCancelled(s) PROVE DeleteInv'
    BY <1>13 DEF TypeOK, GateInv, FreshInv, DirectInv, RouteInv, TableInv, AckInv,
       DeleteInv, Unfinished, NegotiationCancelled, DropCall
  <1>14. ASSUME NEW s \in Sessions, Negotiated(s) PROVE DeleteInv'
    BY <1>14, SMTT(30) DEF TypeOK, GateInv, FreshInv, DirectInv, RouteInv, TableInv, AckInv,
       DeleteInv, Unfinished, Negotiated
  <1>15. ASSUME NEW s \in Sessions, HangupAsked(s) PROVE DeleteInv'
    BY <1>15 DEF TypeOK, GateInv, FreshInv, DirectInv, RouteInv, TableInv, AckInv,
       DeleteInv, Unfinished, HangupAsked
  <1>16. ASSUME NEW s \in Sessions, HangupAlone(s) PROVE DeleteInv'
    BY <1>16 DEF TypeOK, GateInv, FreshInv, DirectInv, RouteInv, TableInv, AckInv,
       DeleteInv, Unfinished, HangupAlone, CallOver
  <1>17. ASSUME NEW s \in Sessions, Close(s) PROVE DeleteInv'
    BY <1>17 DEF TypeOK, GateInv, FreshInv, DirectInv, RouteInv, TableInv, AckInv,
       DeleteInv, Unfinished, Close, CloseCall
  <1>18. ASSUME NEW s \in Sessions, Remove(s) PROVE DeleteInv'
    BY <1>18 DEF TypeOK, GateInv, FreshInv, DirectInv, RouteInv, TableInv, AckInv,
       DeleteInv, Unfinished, Remove
  <1>19. ASSUME NEW s \in Sessions, WorkerDone(s) PROVE DeleteInv'
    BY <1>19 DEF TypeOK, GateInv, FreshInv, DirectInv, RouteInv, TableInv, AckInv,
       DeleteInv, Unfinished, WorkerDone, Release
  <1>20. ASSUME NEW s \in Sessions, TaskAborted(s) PROVE DeleteInv'
    BY <1>20 DEF TypeOK, GateInv, FreshInv, DirectInv, RouteInv, TableInv, AckInv,
       DeleteInv, Unfinished, TaskAborted, DropCall
  <1>21. ASSUME NEW s \in Sessions, DropStart(s) PROVE DeleteInv'
    BY <1>21 DEF TypeOK, GateInv, FreshInv, DirectInv, RouteInv, TableInv, AckInv,
       DeleteInv, Unfinished, DropStart
  <1>22. ASSUME NEW s \in Sessions, RelaySend(s) PROVE DeleteInv'
    BY <1>22 DEF TypeOK, GateInv, FreshInv, DirectInv, RouteInv, TableInv, AckInv,
       DeleteInv, Unfinished, RelaySend
  <1>23. ASSUME NEW s \in Sessions, RelaySent(s) PROVE DeleteInv'
    BY <1>23 DEF TypeOK, GateInv, FreshInv, DirectInv, RouteInv, TableInv, AckInv,
       DeleteInv, Unfinished, RelaySent
  <1>24. ASSUME NEW s \in Sessions, RelayStop(s) PROVE DeleteInv'
    BY <1>24 DEF TypeOK, GateInv, FreshInv, DirectInv, RouteInv, TableInv, AckInv,
       DeleteInv, Unfinished, RelayStop
  <1>25. ASSUME NEW d \in Deleters, Delete(d) PROVE DeleteInv'
    <2>1. PICK s \in Directs : /\ front[s] = "answered"
                             /\ IF s \in table /\ home[s] = route
                                   THEN DeleteFound(d, s)
                                   ELSE acked' = acked \cup {s}
      BY <1>25 DEF Delete
    <2>2. UNCHANGED <<route, home, worker, front, table, done>>
      BY <1>25 DEF Delete
    <2>3. home[s] = route
      BY <2>1, RuntimeAssumption DEF GateInv, HomeInv, DeleteInv, RouteInv
    <2>4. s \in table \/ worker[s] \in {"removed", "over"}
      BY <2>1 DEF TypeOK, Workers, DeleteInv, TableInv, Unfinished
    <2>5. RouteInv' /\ TableInv'
      BY <2>2 DEF DeleteInv, RouteInv, TableInv, Unfinished
    <2>6. AckInv'
      BY <2>1, <2>2, <2>3, <2>4 DEF DeleteInv, AckInv, DeleteFound
    <2>. QED  BY <2>5, <2>6 DEF DeleteInv
  <1>26. ASSUME NEW d \in Deleters, DeleteDone(d) PROVE DeleteInv'
    BY <1>26 DEF TypeOK, GateInv, FreshInv, DirectInv, RouteInv, TableInv, AckInv,
       DeleteInv, Unfinished, DeleteDone
  <1>27. ASSUME NEW d \in Deleters, DeleteGivesUp(d) PROVE DeleteInv'
    BY <1>27 DEF TypeOK, GateInv, FreshInv, DirectInv, RouteInv, TableInv, AckInv,
       DeleteInv, Unfinished, DeleteGivesUp
  <1>28. ASSUME NEW r \in Runtimes, CooldownOver(r) PROVE DeleteInv'
    BY <1>28 DEF TypeOK, GateInv, FreshInv, DirectInv, RouteInv, TableInv, AckInv,
       DeleteInv, Unfinished, CooldownOver
  <1>29. CASE Discover
    BY <1>29 DEF TypeOK, GateInv, FreshInv, DirectInv, RouteInv, TableInv, AckInv,
       DeleteInv, Unfinished, Discover
  <1>30. CASE UNCHANGED vars
    BY <1>30 DEF TypeOK, GateInv, FreshInv, DirectInv, RouteInv, TableInv, AckInv,
       DeleteInv, Unfinished, vars
  <1>. QED
    BY <1>1, <1>2, <1>3, <1>4, <1>5, <1>6, <1>7, <1>8, <1>9, <1>10, <1>11, <1>12,
       <1>13, <1>14, <1>15, <1>16, <1>17, <1>18, <1>19, <1>20, <1>21, <1>22, <1>23,
       <1>24, <1>25, <1>26, <1>27, <1>28, <1>29, <1>30 DEF Next, FrontStep, WorkerStep

\* What a DELETE relies on, for a device whose alias is configured.
THEOREM DeleteInvariant == ASSUME Configured PROVE Spec => []DeleteInv
  <1>1. Init => DeleteInv
    BY InitDelete
  <1>2. TypeOK /\ GateInv /\ DeleteInv /\ [Next]_vars => DeleteInv'
    BY DeleteStep
  <1>. QED  BY <1>1, <1>2, GateInvariant, PTL DEF Spec

\* RingAudioSessions::delete on a configured route: when a DELETE is answered 204 the
\* call with Ring is over, whether it waited for the worker or did not find it.
THEOREM AcksAreTrue == ASSUME Configured PROVE Spec => []AckMeansHungUp
  <1>1. TypeOK /\ GateInv /\ DeleteInv => AckMeansHungUp
    BY DEF TypeOK, GateInv, CallInv, DeleteInv, AckInv, AckMeansHungUp, Sessions
  <1>. QED  BY <1>1, GateInvariant, DeleteInvariant, PTL

\* The configured route leads to one gate, so the device has one call at a time.
THEOREM ConfiguredDevice == ASSUME Configured PROVE Spec => []OneCallPerDevice
  <1>1. TypeOK /\ GateInv /\ DeleteInv => OneCallPerDevice
    <2>. SUFFICES ASSUME TypeOK, GateInv, DeleteInv,
                         NEW s \in Sessions, NEW t \in Sessions,
                         call[s] = "open", call[t] = "open"
                  PROVE  s = t
      BY DEF OneCallPerDevice
    <2>1. Unfinished(s) /\ Unfinished(t)
      BY DEF GateInv, CallInv, Unfinished
    <2>2. home[s] = 1 /\ home[t] = 1
      BY <2>1, RuntimeAssumption
         DEF GateInv, HomeInv, FreshInv, DeleteInv, RouteInv, Unfinished, Runtimes
    <2>. QED  BY <2>1, <2>2 DEF GateInv, AloneInv
  <1>. QED  BY <1>1, GateInvariant, DeleteInvariant, PTL

-----------------------------------------------------------------------------
\* Every step keeps a failed start's worker on its way out.
LEMMA StopStep == TypeOK /\ GateInv /\ StopInv /\ [Next]_vars => StopInv'
  <1>. SUFFICES ASSUME TypeOK, GateInv, StopInv, [Next]_vars PROVE StopInv'
    OBVIOUS
  <1>. USE SessionAssumption DEF Sessions, Front, Worker, Runs, routeVars, gateVars, sideVars,
     delVars
  <1>1. ASSUME NEW s \in Sessions, Request(s) \/ Reserve(s) PROVE StopInv'
    <2>1. worker[s] = "none" /\ front[s] \in {"new", "reserving"}
      BY <1>1 DEF Request, Reserve, GateInv, FreshInv
    <2>2. PICK point \in {"reserving", "reserved", "failed"} : front' = [front EXCEPT ![s] = point]
      BY <1>1 DEF Request, Reserve
    <2>3. UNCHANGED <<worker, table, cancelled>>
      BY <1>1 DEF Request, Reserve
    <2>. QED  BY <2>1, <2>2, <2>3 DEF TypeOK, StopInv, Unfinished
  <1>2. ASSUME NEW s \in Sessions, Spawn(s) PROVE StopInv'
    BY <1>2 DEF TypeOK, StopInv, Unfinished, Spawn
  <1>3. ASSUME NEW s \in Sessions, StartOk(s) \/ StartStopped(s) \/ DropStart(s) PROVE StopInv'
    BY <1>3 DEF TypeOK, StopInv, Unfinished, StartOk, StartStopped, DropStart
  <1>4. ASSUME NEW s \in Sessions, StartError(s) PROVE StopInv'
    <2>1. s \in Directs /\ UNCHANGED <<worker, table>>
      BY <1>4 DEF StartError
    <2>2. CASE s \in table
      BY <1>4, <2>1, <2>2 DEF TypeOK, StopInv, Unfinished, StartError, GiveUp
    <2>3. CASE s \notin table
      <3>1. front' = [front EXCEPT ![s] = "failed"] /\ UNCHANGED cancelled
        BY <1>4, <2>3 DEF StartError, GiveUp
      <3>2. worker[s] \in {"none", "removed", "over"}
        BY <2>1, <2>3 DEF StopInv, Unfinished
      <3>. QED  BY <2>1, <3>1, <3>2 DEF TypeOK, StopInv, Unfinished
    <2>. QED  BY <2>2, <2>3
  <1>5. ASSUME NEW s \in Relays,
               \A t \in Directs : front'[t] = front[t] /\ worker'[t] = worker[t],
               UNCHANGED table, cancelled \subseteq cancelled'
        PROVE  StopInv'
    BY <1>5 DEF StopInv, Unfinished
  <1>6. ASSUME NEW s \in Sessions,
               \/ RelayConnect(s) \/ RelaySend(s) \/ RelaySent(s) \/ RelayStop(s)
               \/ RelayWorkerEnded(s) \/ RelayAbort(s) \/ RelayFinish(s)
        PROVE  StopInv'
    <2>1. s \in Relays /\ UNCHANGED table /\ cancelled \subseteq cancelled'
      BY <1>6 DEF RelayConnect, RelaySend, RelaySent, RelayStop, RelayWorkerEnded, RelayAbort,
                  RelayFinish
    <2>2. \/ UNCHANGED worker
          \/ worker' = [worker EXCEPT ![s] = "negotiating"]
      BY <1>6 DEF RelayConnect, RelaySend, RelaySent, RelayStop, RelayWorkerEnded, RelayAbort,
                  RelayFinish
    <2>3. \E point \in Fronts : front' = [front EXCEPT ![s] = point]
      BY <1>6 DEF RelayConnect, RelayUnreachable, RelaySend, RelaySent, RelayStop,
                  RelayWorkerEnded, RelayAbort, RelayFinish, Fronts
    <2>4. \A t \in Directs : t # s /\ front'[t] = front[t] /\ worker'[t] = worker[t]
      BY <2>1, <2>2, <2>3 DEF TypeOK
    <2>. QED  BY <1>5, <2>1, <2>4
  <1>7. ASSUME NEW s \in Sessions, Offer(s) PROVE StopInv'
    BY <1>7 DEF TypeOK, StopInv, Unfinished, Offer
  <1>8. ASSUME NEW s \in Sessions, NegotiationFailed(s) \/ NegotiationCancelled(s) \/ Close(s)
        PROVE  StopInv'
    <2>1. /\ worker' = [worker EXCEPT ![s] = IF s \in Directs THEN "leaving" ELSE "over"]
          /\ worker[s] \in {"negotiating", "closing"}
          /\ UNCHANGED <<front, table, cancelled>>
      BY <1>8 DEF NegotiationFailed, NegotiationCancelled, Close
    <2>. QED  BY <2>1 DEF TypeOK, StopInv, Unfinished
  <1>9. ASSUME NEW s \in Sessions, Negotiated(s) PROVE StopInv'
    BY <1>9 DEF TypeOK, StopInv, Unfinished, Negotiated
  <1>10. ASSUME NEW s \in Sessions, HangupAsked(s) \/ HangupAlone(s) PROVE StopInv'
    BY <1>10 DEF TypeOK, StopInv, Unfinished, HangupAsked, HangupAlone, CallOver
  <1>11. ASSUME NEW s \in Sessions, Remove(s) \/ WorkerDone(s) PROVE StopInv'
    BY <1>11 DEF TypeOK, StopInv, Unfinished, Remove, WorkerDone
  <1>12. ASSUME NEW s \in Sessions, TaskAborted(s) PROVE StopInv'
    BY <1>12 DEF TypeOK, StopInv, Unfinished, TaskAborted
  <1>13. ASSUME NEW d \in Deleters, Delete(d) \/ DeleteDone(d) \/ DeleteGivesUp(d)
         PROVE  StopInv'
    <2>1. UNCHANGED <<front, worker, table>> /\ cancelled \subseteq cancelled'
      BY <1>13 DEF Delete, DeleteFound, DeleteDone, DeleteGivesUp
    <2>. QED  BY <2>1 DEF StopInv, Unfinished
  <1>14. CASE Discover \/ (\E r \in Runtimes : CooldownOver(r)) \/ UNCHANGED vars
    <2>1. UNCHANGED <<front, worker, table, cancelled>>
      BY <1>14 DEF Discover, CooldownOver, vars
    <2>. QED  BY <2>1 DEF StopInv, Unfinished
  <1>. QED
    BY <1>1, <1>2, <1>3, <1>4, <1>6, <1>7, <1>8, <1>9, <1>10, <1>11, <1>12, <1>13, <1>14
       DEF Next, FrontStep, WorkerStep

\* A start that was answered with an error (a timeout that wins against a late result
\* included) leaves no call behind that was not told to stop.
THEOREM FailedStartsStop == Spec => []FailedStartStops
  <1>1. Init => StopInv
    BY SessionAssumption DEF Init, StopInv, Unfinished, Sessions
  <1>2. TypeOK /\ GateInv /\ StopInv /\ [Next]_vars => StopInv'
    BY StopStep
  <1>3. StopInv => FailedStartStops
    BY DEF StopInv, FailedStartStops
  <1>. QED  BY <1>1, <1>2, <1>3, GateInvariant, PTL DEF Spec
=============================================================================
