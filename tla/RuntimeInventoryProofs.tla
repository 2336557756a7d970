----------------------- MODULE RuntimeInventoryProofs ------------------------
(***************************************************************************)
(* Proofs about RuntimeInventory for any configuration, any accounts and   *)
(* inventories and any number of handlers and requests: the limits on      *)
(* routes and camera sessions, that an alias always leads to the device it *)
(* means, and that a request reaches the device its caller expects in the  *)
(* account that is enrolled at that moment, at most once.                  *)
(*                                                                         *)
(* The argument: a task holds a client of the enrolled account only, since *)
(* an enrollment waits for every client; a route never changes the device  *)
(* it stands for, since discovery keeps known aliases and refuses an alias *)
(* that is configured otherwise; so what a request resolved before its     *)
(* awaits is still right when it acts.                                     *)
(***************************************************************************)
EXTENDS RuntimeInventory, FiniteSetTheorems, TLAPS

\* The points at which a task holds a client.
Holding == {"inventory", "provision", "verify", "send", "again", "acted"}

\* The points of a request that knows its device.
Requesting == {"slot", "client", "verify", "send", "again", "acted"}

MaybeAccount == Accounts \cup {NoAccount}
DeviceIds == Ids \cup Cameras \cup {NoId}
Told == [from : MaybeAccount, intercoms : SUBSET Ids]
Req == [kind : Kinds, alias : Aliases \cup {NoId}, pin : DeviceIds, sel : DeviceIds,
        want : DeviceIds, id : DeviceIds]
Effect == [id : DeviceIds, by : MaybeAccount, under : MaybeAccount]

\* The types of all variables but the routes and the camera slots.
ShapeInv ==
    /\ config \in Configs /\ ValidDevices(config)
    /\ account \in MaybeAccount /\ holdings \in [Accounts -> Inventories]
    /\ permit \in BOOLEAN /\ pc \in [Tasks -> Points]
    /\ as \in [Tasks -> MaybeAccount]
    /\ changes \in 0..MaxChanges /\ source \in MaybeAccount
    /\ seen \in [Refreshers -> Told]
    /\ req \in [Callers -> Req]
    /\ effects \in [Callers -> Seq(Effect)]

\* Camera session managers, up to their limit.
SlotInv == slots \subseteq Cameras /\ IsFiniteSet(slots) /\ Cardinality(slots) <= MaxCameras

\* A client is of the account that is enrolled now.
ClientInv ==
    /\ \A t \in Tasks : as[t] # NoAccount => as[t] = account
    /\ \A t \in Tasks : pc[t] \in Holding => as[t] # NoAccount

\* What a refresh is about to publish is of that account, and within the limit.
SeenInv ==
    \A t \in Refreshers : pc[t] = "provision" =>
        /\ seen[t].from = account
        /\ IsFiniteSet(seen[t].intercoms) /\ Cardinality(seen[t].intercoms) <= MaxIntercoms

\* A route leads to what its alias means; configured aliases are always routed.
RouteInv ==
    /\ DOMAIN config \subseteq DOMAIN routes
    /\ DOMAIN routes \subseteq DOMAIN config \cup Range(Generated)
    /\ \A a \in DOMAIN routes : routes[a] = Meaning(a)
    /\ IsFiniteSet(DOMAIN routes)
    /\ Cardinality(DOMAIN routes) <= Cardinality(DOMAIN config) + MaxIntercoms

\* What a request must find, and that it found it.
Wants(c) ==
    /\ req[c].kind = "camera" => req[c].want = req[c].pin /\ req[c].want \in Cameras
    /\ req[c].kind = "status" => req[c].pin = NoId
    /\ req[c].kind \in {"control", "call"} =>
          req[c].want # NoId /\ req[c].want = ExpectedId(Meaning(req[c].alias), req[c].pin)
    /\ pc[c] = "slot" => req[c].kind = "camera"
    /\ pc[c] \in {"send", "again", "acted"} /\ req[c].kind # "status" => req[c].id = req[c].want
WantInv == \A c \in Callers : pc[c] \in Requesting => Wants(c)

\* Ring was made to do something once, when the request has acted.
EffectInv ==
    \A c \in Callers :
        /\ pc[c] # "acted" => effects[c] = <<>>
        /\ pc[c] = "acted" =>
              \E x \in MaybeAccount : effects[c] = <<[id |-> req[c].id, by |-> x, under |-> x]>>

IndInv == ShapeInv /\ SlotInv /\ ClientInv /\ SeenInv /\ RouteInv /\ WantInv /\ EffectInv

USE DEF world

-----------------------------------------------------------------------------
(* Aliases.                                                                *)

\* Functions::AntiFunction of an injective function is its inverse.
LEMMA AntiFunctionOf ==
    ASSUME NEW f, IsInjective(f), NEW x \in DOMAIN f
    PROVE  /\ AntiFunction(f)[f[x]] = x
           /\ f[x] \in Range(f)
    BY DEF AntiFunction, Inverse, Range, IsInjective

\* The values of a function are where its inverse is defined.
LEMMA AntiFunctionIn ==
    ASSUME NEW f, NEW y \in Range(f)
    PROVE  AntiFunction(f)[y] \in DOMAIN f /\ f[AntiFunction(f)[y]] = y
    BY DEF AntiFunction, Inverse, Range

\* The alias of a device that may be routed leads to that device.
LEMMA AliasMeans ==
    ASSUME ShapeInv, NEW d \in Ids, ~ Conflicting(d)
    PROVE  /\ Meaning(Alias(d)) = d
           /\ Alias(d) \in DOMAIN config \cup Range(Generated)
  <1>1. IsInjective(config)
    BY DEF ShapeInv, ValidDevices
  <1>2. IsInjective(Generated) /\ DOMAIN Generated = Ids
    BY IdAssumption DEF Injection
  <1>3. CASE d \in Range(config)
    <2>1. Alias(d) \in DOMAIN config /\ config[Alias(d)] = d
      BY <1>3, AntiFunctionIn DEF Alias
    <2> QED
      BY <2>1 DEF Meaning
  <1>4. CASE d \notin Range(config)
    <2>1. Alias(d) = Generated[d]
      BY <1>4 DEF Alias
    <2>2. Alias(d) \in Range(Generated) /\ AntiFunction(Generated)[Alias(d)] = d
      BY <1>2, <2>1, AntiFunctionOf
    <2>3. Alias(d) \in DOMAIN config => config[Alias(d)] = d
      BY DEF Conflicting
    <2> QED
      BY <2>2, <2>3 DEF Meaning
  <1> QED
    BY <1>3, <1>4

\* The aliases of a finite set of devices are no more than the devices.
LEMMA PlannedBound ==
    ASSUME NEW found, IsFiniteSet(found)
    PROVE  /\ IsFiniteSet({Alias(d) : d \in found})
           /\ Cardinality({Alias(d) : d \in found}) <= Cardinality(found)
  <1> DEFINE planned == {Alias(d) : d \in found}
             f == [d \in found |-> Alias(d)]
  <1>1. f \in Surjection(found, planned)
    BY DEF Surjection
  <1> QED
    BY <1>1, FS_Surjection

\* provision_intercoms keeps the meaning of every route and the limit on routes.
LEMMA ProvisionRoutes ==
    ASSUME ShapeInv, RouteInv, NEW found \in SUBSET Ids, IsFiniteSet(found),
           Cardinality(found) <= MaxIntercoms, ~ Refused(found),
           routes' = Provisioned(found), UNCHANGED config
    PROVE  /\ RouteInv'
           /\ \A d \in found : Alias(d) \in DOMAIN routes' /\ routes'[Alias(d)] = d
  <1> DEFINE planned == {Alias(d) : d \in found}
             choice(a) == CHOOSE d \in found : Alias(d) = a
  <1>1. \A d \in found : Meaning(Alias(d)) = d /\ Alias(d) \in DOMAIN config \cup Range(Generated)
    BY AliasMeans DEF Refused
  <1>2. /\ DOMAIN routes' = DOMAIN config \cup planned
        /\ \A a \in DOMAIN routes' : routes'[a] = IF a \in DOMAIN routes THEN routes[a] ELSE choice(a)
    BY DEF Provisioned
  <1>3. \A a \in planned : choice(a) \in found /\ Alias(choice(a)) = a
    OBVIOUS
  <1>4. \A a \in DOMAIN routes' : routes'[a] = Meaning(a)
    <2> SUFFICES ASSUME NEW a \in DOMAIN routes' PROVE routes'[a] = Meaning(a)
      OBVIOUS
    <2>1. CASE a \in DOMAIN routes
      BY <1>2, <2>1 DEF RouteInv
    <2>2. CASE a \notin DOMAIN routes
      <3>1. a \in planned /\ routes'[a] = choice(a)
        BY <1>2, <2>2 DEF RouteInv
      <3>2. choice(a) \in found /\ Alias(choice(a)) = a
        BY <1>3, <3>1
      <3> HIDE DEF choice
      <3> QED
        BY <1>1, <3>1, <3>2
    <2> QED
      BY <2>1, <2>2
  <1>5. /\ IsFiniteSet(planned) /\ Cardinality(planned) <= Cardinality(found)
        /\ IsFiniteSet(DOMAIN config)
    BY PlannedBound, IdAssumption DEF ShapeInv
  <1>6. /\ IsFiniteSet(DOMAIN routes')
        /\ Cardinality(DOMAIN routes') <= Cardinality(DOMAIN config) + MaxIntercoms
    <2> DEFINE A == DOMAIN config
               P == planned
    <2>1. IsFiniteSet(A \cup P)
          /\ Cardinality(A \cup P) = Cardinality(A) + Cardinality(P) - Cardinality(A \cap P)
      BY <1>5, FS_Union
    <2>2. /\ Cardinality(A) \in Nat /\ Cardinality(P) \in Nat /\ Cardinality(found) \in Nat
          /\ Cardinality(A \cap P) \in Nat /\ MaxIntercoms \in Nat
      BY <1>5, FS_CardinalityType, FS_Intersection, BoundAssumption
    <2> HIDE DEF A, P
    <2>3. Cardinality(A \cup P) <= Cardinality(A) + MaxIntercoms
      BY <1>5, <2>1, <2>2 DEF P
    <2> QED
      BY <1>2, <2>1, <2>3 DEF A, P
  <1> QED
    BY <1>1, <1>2, <1>4, <1>6 DEF RouteInv, Meaning

-----------------------------------------------------------------------------
(* Types.                                                                  *)

\* What Ring tells of a device is one of its ids.
LEMMA HoldingsType ==
    ASSUME ShapeInv, NEW a \in Accounts
    PROVE  /\ holdings[a].intercoms \subseteq Ids /\ IsFiniteSet(holdings[a].intercoms)
           /\ holdings[a].cameras \subseteq Cameras
    BY InventoryAssumption DEF ShapeInv

\* A task that holds a client holds one of an account.
LEMMA HeldAccount ==
    ASSUME ShapeInv, ClientInv, NEW t \in Tasks, pc[t] \in Holding
    PROVE  as[t] \in Accounts /\ as[t] = account
    BY DEF ShapeInv, ClientInv, MaybeAccount

\* Callers and refreshers are different tasks.
LEMMA TaskKinds == Callers \subseteq Tasks /\ Refreshers \subseteq Tasks /\ Callers \cap Refreshers = {}
    BY TaskAssumption DEF Tasks, Refreshers

\* What a request verified is an id of a device, and the one it wants.
LEMMA VerifiedId ==
    ASSUME ShapeInv, ClientInv, WantInv, NEW c \in Callers, pc[c] = "verify", NEW d \in Verified(c)
    PROVE  /\ d \in DeviceIds
           /\ req[c].kind # "status" => d = req[c].want
  <1>1. as[c] \in Accounts
    BY TaskKinds, HeldAccount DEF Holding
  <1>2. Wants(c) /\ req[c] \in Req /\ req[c].kind \in Kinds
    BY DEF WantInv, Requesting, ShapeInv, Req
  <1>3. CASE req[c].kind = "camera"
    BY <1>1, <1>3, HoldingsType DEF Verified, FoundCamera, DeviceIds
  <1>4. CASE req[c].kind # "camera"
    <2>1. d \in holdings[as[c]].intercoms /\ req[c].want \in {NoId, d}
      BY <1>4 DEF Verified, VerifiedDevice, Discovered
    <2>2. d \in Ids
      BY <1>1, <2>1, HoldingsType
    <2> QED
      BY <1>2, <1>4, <2>1, <2>2 DEF Wants, DeviceIds, Kinds
  <1> QED
    BY <1>3, <1>4

\* The end of a request forgets it.
LEMMA EndType ==
    ASSUME ShapeInv, NEW c \in Callers, End(c)
    PROVE  /\ pc' \in [Tasks -> Points] /\ as' \in [Tasks -> MaybeAccount]
           /\ req' \in [Callers -> Req] /\ effects' \in [Callers -> Seq(Effect)]
  <1>1. NoReq \in Req
    BY DEF NoReq, Req, Kinds, DeviceIds
  <1>2. pc' \in [Tasks -> Points] /\ as' \in [Tasks -> MaybeAccount]
    BY DEF End, Goto, Release, ShapeInv, Points, MaybeAccount
  <1>3. req' \in [Callers -> Req]
    BY <1>1 DEF End, ShapeInv
  <1>4. effects' \in [Callers -> Seq(Effect)]
    BY DEF End, ShapeInv
  <1> QED
    BY <1>2, <1>3, <1>4

\* So does what a request makes Ring do keep its type.
LEMMA ActType ==
    ASSUME ShapeInv, NEW c \in Callers, NEW d \in DeviceIds, Act(c, d)
    PROVE  effects' \in [Callers -> Seq(Effect)]
  <1>1. c \in Tasks
    BY TaskKinds
  <1>2. [id |-> d, by |-> as[c], under |-> account] \in Effect
    BY <1>1 DEF ShapeInv, Effect
  <1>3. Append(effects[c], [id |-> d, by |-> as[c], under |-> account]) \in Seq(Effect)
    BY <1>2 DEF ShapeInv
  <1> QED
    BY <1>3 DEF Act, ShapeInv

\* Every step keeps the types.
LEMMA ShapeStep == IndInv /\ [Next]_vars => ShapeInv'
<1> SUFFICES ASSUME IndInv, [Next]_vars PROVE ShapeInv'
    OBVIOUS
<1>0. /\ ShapeInv /\ ClientInv /\ WantInv
      /\ \A a \in Accounts : a \in MaybeAccount
      /\ NoAccount \in MaybeAccount /\ Worker \in Tasks /\ Worker \in Refreshers
      /\ MaxChanges \in Nat
    BY BoundAssumption DEF IndInv, MaybeAccount, Tasks, Refreshers
<1>1. CASE Notified
    BY <1>0, <1>1 DEF Notified, Goto, ShapeInv, Points, ValidDevices
<1>2. CASE Loop
    BY <1>0, <1>2 DEF Loop, Goto, ShapeInv, Points
<1>3. ASSUME NEW t \in Listers, List(t) PROVE ShapeInv'
    BY <1>0, <1>3, TaskKinds DEF List, Goto, ShapeInv, Points
<1>4. ASSUME NEW t \in Refreshers, TakeClient(t) PROVE ShapeInv'
    BY <1>0, <1>4, TaskKinds DEF TakeClient, Connect, Goto, ShapeInv, Points
<1>5. ASSUME NEW t \in Refreshers, Inventory(t) PROVE ShapeInv'
  <2>1. as[t] \in Accounts
    BY <1>0, <1>5, TaskKinds, HeldAccount DEF Inventory, Holding
  <2>2. [from |-> as[t], intercoms |-> holdings[as[t]].intercoms] \in Told
    BY <1>0, <2>1, HoldingsType DEF Told
  <2>3. seen' \in [Refreshers -> Told]
    BY <1>0, <1>5, <2>2 DEF Inventory, ShapeInv
  <2> QED
    BY <1>0, <1>5, <2>3, TaskKinds DEF Inventory, ClientKept, Goto, ShapeInv, Points
<1>6. ASSUME NEW t \in Refreshers, NotRefreshed(t) \/ Refreshed(t)
      PROVE  permit' \in BOOLEAN /\ pc' \in [Tasks -> Points]
  <2>1. permit' \in BOOLEAN
    BY <1>0, <1>6 DEF NotRefreshed, Refreshed, StartDiscovery, ShapeInv
  <2>2. pc' \in [Tasks -> Points]
    BY <1>0, <1>6, TaskKinds DEF NotRefreshed, Refreshed, Goto, ShapeInv, Points
  <2> QED
    BY <2>1, <2>2
<1>7. ASSUME NEW t \in Refreshers, RefreshFails(t) PROVE ShapeInv'
  <2>1. as' \in [Tasks -> MaybeAccount]
    BY <1>0, <1>7, TaskKinds DEF RefreshFails, Release, ShapeInv
  <2> QED
    BY <1>0, <1>6, <1>7, <2>1 DEF RefreshFails, ShapeInv
<1>8. ASSUME NEW t \in Refreshers, Provision(t) \/ ProvisionFails(t) PROVE ShapeInv'
  <2>1. as' \in [Tasks -> MaybeAccount]
    BY <1>0, <1>8, TaskKinds DEF Provision, ProvisionFails, Release, ShapeInv
  <2>2. NothingSeen \in Told
    BY <1>0 DEF NothingSeen, Told
  <2>3. seen' \in [Refreshers -> Told]
    BY <1>0, <1>8, <2>2 DEF Provision, ProvisionFails, ShapeInv
  <2>4. source' \in MaybeAccount
    BY <1>0, <1>8 DEF Provision, ProvisionFails, ShapeInv, Told
  <2>5. NotRefreshed(t) \/ Refreshed(t)
    BY <1>8 DEF Provision, ProvisionFails
  <2> QED
    BY <1>0, <1>6, <1>8, <2>1, <2>3, <2>4, <2>5 DEF Provision, ProvisionFails, ShapeInv
<1>9. ASSUME NEW t \in Enrollers, NEW a \in Accounts, Enroll(t, a) PROVE ShapeInv'
  <2>1. t \in Tasks
    BY DEF Tasks, Refreshers
  <2> QED
    BY <1>0, <1>9, <2>1 DEF Enroll, Goto, ShapeInv, Points
<1>10. ASSUME NEW t \in Enrollers, Disconnect(t) PROVE ShapeInv'
  <2>1. t \in Tasks
    BY DEF Tasks, Refreshers
  <2> QED
    BY <1>0, <1>10, <2>1 DEF Disconnect, Release, Goto, ShapeInv, Points
<1>11. ASSUME NEW i \in Inventories, Change(i) PROVE ShapeInv'
  <2>1. account \in Accounts
    BY <1>0, <1>11 DEF Change, ShapeInv, MaybeAccount
  <2>2. holdings' \in [Accounts -> Inventories]
    BY <1>0, <1>11, <2>1 DEF Change, ShapeInv
  <2>3. changes' \in 0..MaxChanges
    BY <1>0, <1>11 DEF Change, ShapeInv
  <2>4. UNCHANGED <<config, account, permit, pc, as, seen, req, source, effects>>
    BY <1>11 DEF Change
  <2> QED
    BY <1>0, <2>2, <2>3, <2>4 DEF ShapeInv
<1>12. CASE Restart
  <2>1. NothingSeen \in Told /\ NoReq \in Req
    BY <1>0 DEF NothingSeen, Told, NoReq, Req, Kinds, DeviceIds
  <2>2. seen' \in [Refreshers -> Told] /\ req' \in [Callers -> Req]
    BY <1>12, <2>1 DEF Restart
  <2>3. effects' \in [Callers -> Seq(Effect)]
    BY <1>12 DEF Restart
  <2>4. pc' \in [Tasks -> Points] /\ as' \in [Tasks -> MaybeAccount]
    BY <1>0, <1>12 DEF Restart, Points
  <2>5. permit' \in BOOLEAN
    BY <1>12 DEF Restart
  <2> QED
    BY <1>0, <1>12, <2>2, <2>3, <2>4, <2>5 DEF Restart, ShapeInv
<1>13. ASSUME NEW c \in Callers, NEW kind \in Kinds, NEW a \in Aliases, NEW pin \in Ids \cup {NoId},
              Resolve(c, kind, a, pin)
       PROVE  ShapeInv'
  <2>1. pc' \in [Tasks -> Points]
    BY <1>0, <1>13, TaskKinds DEF Resolve, Goto, ShapeInv, Points
  <2>2. ASSUME NEW sel, NEW want,
               want = IF kind = "status" THEN NoId ELSE ExpectedId(routes[a], pin),
               sel \in Scopes(kind, routes[a], want), a \in DOMAIN routes
        PROVE  [kind |-> kind, alias |-> a, pin |-> pin, sel |-> sel, want |-> want,
                id |-> NoId] \in Req
    <3>1. routes[a] = Meaning(a) /\ a \in DOMAIN config \cup Range(Generated)
      BY <2>2 DEF IndInv, RouteInv
    <3>2. routes[a] \in Ids \cup {NoId}
      <4>1. CASE a \in DOMAIN config
        BY <1>0, <3>1, <4>1, IdAssumption DEF Meaning, ShapeInv
      <4>2. CASE a \notin DOMAIN config
        <5>1. AntiFunction(Generated)[a] \in DOMAIN Generated
          BY <3>1, <4>2, AntiFunctionIn
        <5> QED
          BY <3>1, <4>2, <5>1, IdAssumption DEF Meaning, Injection
      <4> QED
        BY <4>1, <4>2
    <3>3. want \in Ids \cup {NoId}
      BY <2>2, <3>2 DEF ExpectedId
    <3>4. sel \in Ids \cup {NoId}
      BY <2>2, <3>2, <3>3 DEF Scopes
    <3> QED
      BY <3>3, <3>4 DEF Req, DeviceIds
  <2>3. req' \in [Callers -> Req]
    <3> DEFINE w == IF kind = "status" THEN NoId ELSE ExpectedId(routes[a], pin)
               picked(sel) == [kind |-> kind, alias |-> a, pin |-> pin, sel |-> sel, want |-> w, id |-> NoId]
    <3>1. a \in DOMAIN routes
      BY <1>13 DEF Resolve
    <3>2. UNCHANGED req \/ \E sel \in Scopes(kind, routes[a], w) : req' = [req EXCEPT ![c] = picked(sel)]
      BY <1>13 DEF Resolve
    <3>3. \A sel \in Scopes(kind, routes[a], w) : picked(sel) \in Req
      BY <2>2, <3>1
    <3> HIDE DEF picked, w
    <3> QED
      BY <1>0, <3>2, <3>3 DEF ShapeInv
  <2>4. UNCHANGED <<config, account, holdings, changes, permit, as, seen, source, effects>>
    BY <1>13 DEF Resolve
  <2> QED
    BY <1>0, <2>1, <2>3, <2>4 DEF ShapeInv
<1>14. ASSUME NEW c \in Callers, NEW id \in Cameras, ResolveCamera(c, id) PROVE ShapeInv'
  <2>1. pc' \in [Tasks -> Points]
    BY <1>0, <1>14, TaskKinds DEF ResolveCamera, Goto, ShapeInv, Points
  <2>2. [kind |-> "camera", alias |-> NoId, pin |-> id, sel |-> id, want |-> id, id |-> NoId] \in Req
    BY DEF Req, Kinds, DeviceIds
  <2>3. req' \in [Callers -> Req]
    BY <1>0, <1>14, <2>2 DEF ResolveCamera, ShapeInv
  <2> QED
    BY <1>0, <1>14, <2>1, <2>3 DEF ResolveCamera, ShapeInv
<1>15. ASSUME NEW c \in Callers, TakeSlot(c) \/ CallerClient(c) \/ Answered(c) \/ SendRefused(c)
       PROVE  ShapeInv'
  <2>1. UNCHANGED <<world, permit, seen, source>>
    BY <1>15 DEF TakeSlot, CallerClient, Answered, SendRefused
  <2>2. CASE End(c)
    BY <1>0, <2>1, <2>2, EndType DEF ShapeInv
  <2>3. ASSUME NEW point \in {"client", "verify", "again"}, Goto(c, point),
               UNCHANGED <<req, effects>>, UNCHANGED as \/ Connect(c)
        PROVE  ShapeInv'
    BY <1>0, <2>1, <2>3, TaskKinds DEF Goto, Connect, ShapeInv, Points
  <2> QED
    BY <1>15, <2>2, <2>3 DEF TakeSlot, CallerClient, Answered, SendRefused
<1>16. ASSUME NEW c \in Callers, Verify(c) PROVE ShapeInv'
  <2>1. UNCHANGED <<world, permit, seen, source>> /\ pc[c] = "verify"
    BY <1>16 DEF Verify
  <2>2. CASE End(c)
    BY <1>0, <2>1, <2>2, EndType DEF ShapeInv
  <2>3. ASSUME NEW d \in Verified(c), req' = [req EXCEPT ![c].id = d],
               IF req[c].kind = "status" THEN Act(c, d) /\ Goto(c, "acted")
                  ELSE Goto(c, "send") /\ UNCHANGED effects,
               UNCHANGED as
        PROVE  ShapeInv'
    <3>1. d \in DeviceIds
      BY <1>0, <2>1, VerifiedId
    <3>2. req' \in [Callers -> Req]
      BY <1>0, <2>3, <3>1 DEF ShapeInv, Req
    <3>3. effects' \in [Callers -> Seq(Effect)]
      BY <1>0, <2>3, <3>1, ActType DEF ShapeInv
    <3>4. pc' \in [Tasks -> Points]
      BY <1>0, <2>3, TaskKinds DEF ShapeInv, Goto, Points
    <3> QED
      BY <1>0, <2>1, <2>3, <3>2, <3>3, <3>4 DEF ShapeInv
  <2> QED
    BY <1>16, <2>2, <2>3 DEF Verify
<1>17. ASSUME NEW c \in Callers, Send(c) \/ StreamGrant(c) PROVE ShapeInv'
  <2>1. /\ Act(c, req[c].id) /\ Goto(c, "acted")
        /\ UNCHANGED <<world, permit, as, seen, req, source>>
    BY <1>17 DEF Send, StreamGrant
  <2>2. req[c].id \in DeviceIds
    BY <1>0 DEF ShapeInv, Req
  <2>3. effects' \in [Callers -> Seq(Effect)]
    BY <1>0, <2>1, <2>2, ActType
  <2> QED
    BY <1>0, <2>1, <2>3, TaskKinds DEF ShapeInv, Goto, Points
<1>18. CASE UNCHANGED vars
    BY <1>0, <1>18 DEF vars, ShapeInv
<1> QED
    BY <1>1, <1>2, <1>3, <1>4, <1>5, <1>7, <1>8, <1>9, <1>10, <1>11, <1>12, <1>13, <1>14,
       <1>15, <1>16, <1>17, <1>18
    DEF Next, Refresh, Request


-----------------------------------------------------------------------------
(* The steps in short: what a step of one task leaves alone.               *)

\* A step that is not a request's leaves every request where it is.
LEMMA OtherSteps ==
    ASSUME ShapeInv, NEW t \in Refreshers,
           \/ Notified \/ Loop \/ List(t) \/ Refresh(t) \/ Disconnect(t)
           \/ \E a \in Accounts : Enroll(t, a)
           \/ \E i \in Inventories : Change(i)
    PROVE  /\ UNCHANGED <<config, slots, req, effects>>
           /\ \A c \in Callers : pc'[c] = pc[c]
  <1>1. \A c \in Callers : c # t /\ c # Worker /\ c \in Tasks
    BY TaskAssumption DEF Refreshers, Tasks
  <1>2. UNCHANGED <<config, slots, req, effects>>
    BY DEF Notified, Loop, List, Refresh, TakeClient, Inventory, RefreshFails, Provision,
           ProvisionFails, Disconnect, Enroll, Change
  <1>3. UNCHANGED pc \/ (\E p : Goto(t, p)) \/ (\E p : Goto(Worker, p))
    BY DEF Notified, Loop, List, Refresh, TakeClient, Inventory, RefreshFails, Provision,
           ProvisionFails, Disconnect, Enroll, Change, Refreshed, NotRefreshed
  <1> QED
    BY <1>1, <1>2, <1>3 DEF Goto, ShapeInv

\* A request's step leaves the routes, the refreshers and the world alone.
LEMMA RequestSteps ==
    ASSUME ShapeInv, NEW c \in Callers, Request(c)
    PROVE  /\ UNCHANGED <<world, routes, permit, seen, source>>
           /\ \A t \in Tasks \ {c} : pc'[t] = pc[t] /\ as'[t] = as[t]
           /\ \A b \in Callers \ {c} : req'[b] = req[b] /\ effects'[b] = effects[b]
  <1>0. c \in Tasks
    BY TaskKinds
  <1>1. ASSUME \E kind \in Kinds, a \in Aliases, pin \in Ids \cup {NoId} : Resolve(c, kind, a, pin)
        PROVE  /\ UNCHANGED <<world, routes, permit, seen, source, as, effects>>
               /\ \E p : Goto(c, p)
               /\ UNCHANGED req \/ \E r : req' = [req EXCEPT ![c] = r]
    BY <1>1 DEF Resolve
  <1>2. ASSUME \E id \in Cameras : ResolveCamera(c, id)
        PROVE  /\ UNCHANGED <<world, routes, permit, seen, source, as, effects>>
               /\ \E p : Goto(c, p)
               /\ UNCHANGED req \/ \E r : req' = [req EXCEPT ![c] = r]
    BY <1>2 DEF ResolveCamera
  <1>3. ASSUME TakeSlot(c) \/ CallerClient(c) \/ Answered(c) \/ SendRefused(c)
        PROVE  /\ UNCHANGED <<world, routes, permit, seen, source>>
               /\ \/ End(c)
                  \/ UNCHANGED <<req, effects>> /\ (UNCHANGED as \/ Connect(c)) /\ \E p : Goto(c, p)
    BY <1>3 DEF TakeSlot, CallerClient, Answered, SendRefused
  <1>4. ASSUME Verify(c)
        PROVE  /\ UNCHANGED <<world, routes, permit, seen, source>>
               /\ \/ End(c)
                  \/ /\ \E d : req' = [req EXCEPT ![c].id = d]
                     /\ UNCHANGED effects \/ \E d : Act(c, d)
                     /\ \E p : Goto(c, p)
                     /\ UNCHANGED as
    BY <1>4 DEF Verify
  <1>5. ASSUME Send(c) \/ StreamGrant(c)
        PROVE  /\ UNCHANGED <<world, routes, permit, seen, source, as, req>>
               /\ \E d : Act(c, d)
               /\ \E p : Goto(c, p)
    BY <1>5 DEF Send, StreamGrant
  <1>6. UNCHANGED <<world, routes, permit, seen, source>>
    BY <1>1, <1>2, <1>3, <1>4, <1>5 DEF Request
  <1>7. \E p : Goto(c, p)
    BY <1>1, <1>2, <1>3, <1>4, <1>5 DEF Request, End
  <1>8. UNCHANGED as \/ Connect(c) \/ Release(c)
    BY <1>1, <1>2, <1>3, <1>4, <1>5 DEF Request, End
  <1>9. UNCHANGED req \/ (\E r : req' = [req EXCEPT ![c] = r]) \/ (\E d : req' = [req EXCEPT ![c].id = d])
    BY <1>1, <1>2, <1>3, <1>4, <1>5 DEF Request, End
  <1>10. UNCHANGED effects \/ (\E e : effects' = [effects EXCEPT ![c] = e])
    BY <1>1, <1>2, <1>3, <1>4, <1>5 DEF Request, End, Act
  <1>11. \A t \in Tasks \ {c} : pc'[t] = pc[t] /\ as'[t] = as[t]
    BY <1>7, <1>8 DEF Goto, Connect, Release, ShapeInv
  <1>12. \A b \in Callers \ {c} : req'[b] = req[b] /\ effects'[b] = effects[b]
    BY <1>9, <1>10 DEF ShapeInv
  <1> QED
    BY <1>6, <1>11, <1>12

\* Every step is a request's, a restart, or one of the others.
LEMMA StepKinds ==
    ASSUME Next
    PROVE  \/ Restart
           \/ \E c \in Callers : Request(c)
           \/ \E t \in Refreshers : \/ Notified \/ Loop \/ List(t) \/ Refresh(t) \/ Disconnect(t)
                                    \/ \E a \in Accounts : Enroll(t, a)
                                    \/ \E i \in Inventories : Change(i)
    BY DEF Next, Refreshers

-----------------------------------------------------------------------------
(* Camera session managers.                                                *)

\* A camera's manager is added within the limit, and none is ever removed.
LEMMA SlotStep == IndInv /\ [Next]_vars => SlotInv'
<1> SUFFICES ASSUME IndInv, [Next]_vars PROVE SlotInv'
    OBVIOUS
<1>0. ShapeInv /\ SlotInv /\ WantInv /\ MaxCameras \in Nat
    BY BoundAssumption DEF IndInv
<1>1. CASE UNCHANGED slots
    BY <1>0, <1>1 DEF SlotInv
<1>2. CASE Restart
    BY <1>0, <1>2, FS_EmptySet DEF Restart, SlotInv
<1>3. ASSUME NEW c \in Callers, TakeSlot(c), slots' # slots PROVE SlotInv'
  <2> DEFINE w == req[c].want
  <2>1. slots' = slots \cup {w} /\ Room(w) /\ pc[c] = "slot"
    BY <1>3 DEF TakeSlot
  <2>2. w \in Cameras
    BY <1>0, <2>1 DEF WantInv, Wants, Requesting
  <2>3. w \notin slots /\ Cardinality(slots) < MaxCameras
    BY <1>3, <2>1 DEF Room
  <2>4. IsFiniteSet(slots') /\ Cardinality(slots') = Cardinality(slots) + 1
    BY <1>0, <2>1, <2>3, FS_AddElement DEF SlotInv
  <2>5. Cardinality(slots) \in Nat
    BY <1>0, FS_CardinalityType DEF SlotInv
  <2> HIDE DEF w
  <2> QED
    BY <1>0, <2>1, <2>2, <2>3, <2>4, <2>5 DEF SlotInv
<1>4. ASSUME NEW c \in Callers, Request(c), slots' # slots PROVE TakeSlot(c)
    BY <1>4 DEF Request, Resolve, ResolveCamera, CallerClient, Verify, Send, StreamGrant, Answered, SendRefused
<1> QED
    BY <1>0, <1>1, <1>2, <1>3, <1>4, StepKinds, OtherSteps DEF vars

-----------------------------------------------------------------------------
(* Clients.                                                                *)

\* A task moves with the client it has, connects, or lets its client go.
LEMMA ClientMove ==
    ASSUME ShapeInv, ClientInv, NEW t \in Tasks, NEW p, Goto(t, p), UNCHANGED account,
           \/ UNCHANGED as /\ (p \in Holding => pc[t] \in Holding)
           \/ Connect(t) /\ account # NoAccount
           \/ Release(t) /\ p \notin Holding
    PROVE  ClientInv'
    BY DEF ShapeInv, ClientInv, Goto, Connect, Release

\* A client is of the account that is enrolled: an enrollment waits for every client.
LEMMA ClientStep == IndInv /\ [Next]_vars => ClientInv'
<1> SUFFICES ASSUME IndInv, [Next]_vars PROVE ClientInv'
    OBVIOUS
<1>0. ShapeInv /\ ClientInv /\ Worker \in Tasks
    BY DEF IndInv, Tasks, Refreshers
<1>1. CASE Notified
    BY <1>0, <1>1, ClientMove DEF Notified, Holding
<1>2. CASE Loop
  <2>1. UNCHANGED <<as, account>> /\ \E p \in {"notified", "client"} : Goto(Worker, p)
    BY <1>2 DEF Loop
  <2> QED
    BY <1>0, <2>1, ClientMove DEF Holding
<1>3. ASSUME NEW t \in Listers, List(t) PROVE ClientInv'
  <2>1. t \in Tasks
    BY DEF Tasks, Refreshers
  <2> QED
    BY <1>0, <1>3, <2>1, ClientMove DEF List, Holding
<1>4. ASSUME NEW t \in Refreshers, TakeClient(t) PROVE ClientInv'
    BY <1>0, <1>4, TaskKinds, ClientMove DEF TakeClient
<1>5. ASSUME NEW t \in Refreshers, Inventory(t) PROVE ClientInv'
    BY <1>0, <1>5, TaskKinds, ClientMove DEF Inventory, ClientKept, Holding
<1>6. ASSUME NEW t \in Refreshers, RefreshFails(t) \/ Provision(t) \/ ProvisionFails(t)
      PROVE  ClientInv'
  <2>1. /\ Release(t) /\ UNCHANGED account
        /\ \E p \in {"looping", "backoff", "done", "failed"} : Goto(t, p)
    BY <1>6 DEF RefreshFails, Provision, ProvisionFails, Refreshed, NotRefreshed
  <2> QED
    BY <1>0, <2>1, TaskKinds, ClientMove DEF Holding
<1>7. ASSUME NEW t \in Enrollers, NEW a \in Accounts, Enroll(t, a) PROVE ClientInv'
  <2>1. /\ \A u \in Tasks : as[u] = NoAccount
        /\ UNCHANGED as /\ Goto(t, "client") /\ t \in Tasks
    BY <1>7 DEF Enroll, HoldsClient, Tasks, Refreshers
  <2>2. \A u \in Tasks : pc'[u] \notin Holding
    BY <1>0, <2>1 DEF ClientInv, ShapeInv, Goto, Holding
  <2> QED
    BY <2>1, <2>2 DEF ClientInv
<1>8. ASSUME NEW t \in Enrollers, Disconnect(t) PROVE ClientInv'
  <2>1. t \in Tasks
    BY DEF Tasks, Refreshers
  <2> QED
    BY <1>0, <1>8, <2>1, ClientMove DEF Disconnect, Holding
<1>9. ASSUME NEW i \in Inventories, Change(i) PROVE ClientInv'
    BY <1>0, <1>9 DEF Change, ClientInv
<1>10. CASE Restart
  <2>1. \A t \in Tasks : as'[t] = NoAccount /\ pc'[t] \in {"notified", "new", "done"}
    BY <1>10 DEF Restart
  <2> QED
    BY <2>1 DEF ClientInv, Holding
<1>11. ASSUME NEW c \in Callers, Request(c) PROVE ClientInv'
  <2>0. c \in Tasks /\ UNCHANGED account
    BY <1>0, <1>11, TaskKinds, RequestSteps
  <2>1. CASE End(c)
    BY <1>0, <2>0, <2>1, ClientMove DEF End, Holding
  <2>2. CASE \E kind \in Kinds, a \in Aliases, pin \in Ids \cup {NoId} : Resolve(c, kind, a, pin)
    <3>1. UNCHANGED as /\ \E p \in {"client", "done"} : Goto(c, p)
      BY <2>2 DEF Resolve
    <3> QED
      BY <1>0, <2>0, <3>1, ClientMove DEF Holding
  <2>3. CASE \E id \in Cameras : ResolveCamera(c, id)
    <3>1. UNCHANGED as /\ \E p \in {"slot", "done"} : Goto(c, p)
      BY <2>3 DEF ResolveCamera
    <3> QED
      BY <1>0, <2>0, <3>1, ClientMove DEF Holding
  <2>4. CASE TakeSlot(c) /\ ~ End(c)
    <3>1. UNCHANGED as /\ Goto(c, "client")
      BY <2>4 DEF TakeSlot
    <3> QED
      BY <1>0, <2>0, <3>1, ClientMove DEF Holding
  <2>5. CASE CallerClient(c) /\ ~ End(c)
    BY <1>0, <2>0, <2>5, ClientMove DEF CallerClient
  <2>6. CASE (Verify(c) \/ Send(c) \/ StreamGrant(c) \/ SendRefused(c)) /\ ~ End(c)
    <3>1. /\ UNCHANGED as /\ pc[c] \in Holding
          /\ \E p : Goto(c, p)
      BY <2>6 DEF Verify, Send, StreamGrant, SendRefused, Holding
    <3> QED
      BY <1>0, <2>0, <3>1, ClientMove
  <2> QED
    BY <1>11, <2>1, <2>2, <2>3, <2>4, <2>5, <2>6 DEF Request, Answered
<1>12. CASE UNCHANGED vars
    BY <1>0, <1>12 DEF vars, ClientInv
<1> QED
    BY <1>1, <1>2, <1>3, <1>4, <1>5, <1>6, <1>7, <1>8, <1>9, <1>10, <1>11, <1>12 DEF Next, Refresh


-----------------------------------------------------------------------------
(* What a refresh was told, and the routes.                                *)

\* A refresher moves, to anywhere but its publication, with what it was told kept.
LEMMA SeenMove ==
    ASSUME ShapeInv, SeenInv, NEW t \in Tasks, NEW p, p # "provision", Goto(t, p),
           UNCHANGED account,
           \A u \in Refreshers \ {t} : seen'[u] = seen[u]
    PROVE  SeenInv'
  <1>1. \A u \in Refreshers : u \in Tasks
    BY TaskKinds
  <1>2. ASSUME NEW u \in Refreshers, pc'[u] = "provision"
        PROVE  pc[u] = "provision" /\ seen'[u] = seen[u]
    BY <1>1, <1>2 DEF ShapeInv, Goto
  <1> QED
    BY <1>2 DEF SeenInv

\* What a refresh publishes is of the enrolled account: no enrollment comes between.
LEMMA SeenStep == IndInv /\ [Next]_vars => SeenInv'
<1> SUFFICES ASSUME IndInv, [Next]_vars PROVE SeenInv'
    OBVIOUS
<1>0. ShapeInv /\ ClientInv /\ SeenInv /\ Worker \in Tasks /\ \A u \in Refreshers : u \in Tasks
    BY TaskKinds DEF IndInv, Tasks, Refreshers
<1>1. CASE Notified
    BY <1>0, <1>1, SeenMove DEF Notified
<1>2. CASE Loop
  <2>1. UNCHANGED <<seen, account>> /\ \E p \in {"notified", "client"} : Goto(Worker, p)
    BY <1>2 DEF Loop
  <2> QED
    BY <1>0, <2>1, SeenMove
<1>3. ASSUME NEW t \in Refreshers, List(t) \/ TakeClient(t) \/ Disconnect(t) PROVE SeenInv'
    BY <1>0, <1>3, SeenMove DEF List, TakeClient, Disconnect
<1>4. ASSUME NEW t \in Refreshers, Inventory(t) PROVE SeenInv'
  <2>1. as[t] \in Accounts /\ as[t] = account
    BY <1>0, <1>4, HeldAccount DEF Inventory, Holding
  <2>2. IsFiniteSet(holdings[as[t]].intercoms) /\ Cardinality(holdings[as[t]].intercoms) <= MaxIntercoms
    BY <1>0, <1>4, <2>1, HoldingsType DEF Inventory
  <2>3. UNCHANGED account
    BY <1>4 DEF Inventory
  <2>4. /\ seen'[t] = [from |-> as[t], intercoms |-> holdings[as[t]].intercoms]
        /\ \A u \in Refreshers \ {t} : seen'[u] = seen[u] /\ pc'[u] = pc[u]
    BY <1>0, <1>4 DEF Inventory, Goto, ShapeInv
  <2> QED
    BY <1>0, <2>1, <2>2, <2>3, <2>4 DEF SeenInv
<1>5. ASSUME NEW t \in Refreshers, RefreshFails(t) \/ Provision(t) \/ ProvisionFails(t)
      PROVE  SeenInv'
  <2>1. /\ UNCHANGED account
        /\ \A u \in Refreshers \ {t} : seen'[u] = seen[u]
        /\ \E p \in {"looping", "backoff", "done", "failed"} : Goto(t, p)
    BY <1>0, <1>5 DEF RefreshFails, Provision, ProvisionFails, Refreshed, NotRefreshed, ShapeInv
  <2> QED
    BY <1>0, <2>1, SeenMove
<1>6. ASSUME NEW t \in Enrollers, NEW a \in Accounts, Enroll(t, a) PROVE SeenInv'
  <2>1. \A u \in Tasks : pc[u] # "provision"
    BY <1>0, <1>6 DEF Enroll, HoldsClient, ClientInv, Holding
  <2>2. \A u \in Refreshers : pc'[u] # "provision"
    BY <1>0, <1>6, <2>1 DEF Enroll, Goto, ShapeInv
  <2> QED
    BY <2>2 DEF SeenInv
<1>7. CASE Restart
  <2>1. \A u \in Refreshers : pc'[u] \in {"notified", "new", "done"}
    BY <1>0, <1>7 DEF Restart
  <2> QED
    BY <2>1 DEF SeenInv
<1>8. ASSUME NEW c \in Callers, Request(c) PROVE SeenInv'
  <2>1. UNCHANGED <<account, seen>> /\ \A u \in Refreshers : pc'[u] = pc[u]
    BY <1>0, <1>8, RequestSteps, TaskKinds
  <2> QED
    BY <1>0, <2>1 DEF SeenInv
<1>9. CASE UNCHANGED vars \/ \E i \in Inventories : Change(i)
    BY <1>0, <1>9 DEF vars, Change, SeenInv
<1> QED
    BY <1>1, <1>2, <1>3, <1>4, <1>5, <1>6, <1>7, <1>8, <1>9 DEF Next, Refresh, Refreshers

\* The configured routes are a good start.
LEMMA ConfigRoutes ==
    ASSUME config \in Configs, routes = config
    PROVE  RouteInv
  <1>1. IsFiniteSet(DOMAIN config)
    BY IdAssumption
  <1>2. Cardinality(DOMAIN config) \in Nat /\ MaxIntercoms \in Nat
    BY <1>1, FS_CardinalityType, BoundAssumption
  <1> QED
    BY <1>1, <1>2 DEF RouteInv, Meaning

\* A route keeps leading to what its alias means.
LEMMA RouteStep == IndInv /\ [Next]_vars => RouteInv'
<1> SUFFICES ASSUME IndInv, [Next]_vars PROVE RouteInv'
    OBVIOUS
<1>0. ShapeInv /\ SeenInv /\ RouteInv
    BY DEF IndInv
<1>1. CASE UNCHANGED <<config, routes>>
    BY <1>0, <1>1 DEF RouteInv, Meaning
<1>2. ASSUME NEW t \in Refreshers, Provision(t) PROVE RouteInv'
  <2>1. /\ routes' = Provisioned(seen[t].intercoms) /\ UNCHANGED config
        /\ pc[t] = "provision" /\ ~ Refused(seen[t].intercoms)
    BY <1>2 DEF Provision
  <2>2. seen[t].intercoms \in SUBSET Ids
    BY <1>0 DEF ShapeInv, Told
  <2>3. IsFiniteSet(seen[t].intercoms) /\ Cardinality(seen[t].intercoms) <= MaxIntercoms
    BY <1>0, <2>1 DEF SeenInv
  <2> QED
    BY <1>0, <2>1, <2>2, <2>3, ProvisionRoutes
<1>3. CASE Restart
  <2>1. config' \in Configs /\ routes' = config'
    BY <1>0, <1>3 DEF Restart, ShapeInv
  <2>2. IsFiniteSet(DOMAIN config')
    BY <2>1, IdAssumption
  <2>3. Cardinality(DOMAIN config') \in Nat /\ MaxIntercoms \in Nat
    BY <2>2, FS_CardinalityType, BoundAssumption
  <2> QED
    BY <2>1, <2>2, <2>3 DEF RouteInv, Meaning
<1>4. CASE \E c \in Callers : Request(c)
    BY <1>0, <1>1, <1>4, RequestSteps
<1>5. ASSUME Next, ~ Restart, ~ \E c \in Callers : Request(c), ~ \E t \in Refreshers : Provision(t)
      PROVE  UNCHANGED <<config, routes>>
    BY <1>5 DEF Next, Notified, Loop, List, Refresh, TakeClient, Inventory, RefreshFails,
                ProvisionFails, Disconnect, Enroll, Change
<1> QED
    BY <1>1, <1>2, <1>3, <1>4, <1>5 DEF vars

-----------------------------------------------------------------------------
(* Requests.                                                               *)

\* A request knows what it must find, and has found it before it acts.
LEMMA WantStep == IndInv /\ [Next]_vars => WantInv'
<1> SUFFICES ASSUME IndInv, [Next]_vars PROVE WantInv'
    OBVIOUS
<1>0. ShapeInv /\ ClientInv /\ WantInv /\ RouteInv
    BY DEF IndInv
<1>1. ASSUME UNCHANGED <<config, req>>, \A c \in Callers : pc'[c] = pc[c] PROVE WantInv'
    BY <1>0, <1>1 DEF WantInv, Wants, Meaning
<1>2. CASE Restart
  <2>1. \A c \in Callers : pc'[c] \in {"notified", "new", "done"}
    BY <1>2, TaskKinds DEF Restart
  <2> QED
    BY <2>1 DEF WantInv, Requesting
<1>3. ASSUME NEW c \in Callers, Request(c) PROVE WantInv'
  <2>1. UNCHANGED config /\ \A b \in Callers \ {c} : pc'[b] = pc[b] /\ req'[b] = req[b]
    BY <1>0, <1>3, RequestSteps, TaskKinds
  <2>2. SUFFICES ASSUME pc'[c] \in Requesting PROVE Wants(c)'
    BY <1>0, <2>1 DEF WantInv, Wants, Meaning
  <2>3. c \in Tasks /\ req[c] \in Req
    BY <1>0, TaskKinds DEF ShapeInv
  <2>4. ~ End(c)
    BY <1>0, <2>2, <2>3 DEF End, Goto, ShapeInv, Requesting
  <2>5. ASSUME NEW kind \in Kinds, NEW a \in Aliases, NEW pin \in Ids \cup {NoId}, Resolve(c, kind, a, pin)
        PROVE  Wants(c)'
    <3> DEFINE w == IF kind = "status" THEN NoId ELSE ExpectedId(routes[a], pin)
    <3>1. Goto(c, "client") \/ Goto(c, "done")
      BY <2>5 DEF Resolve
    <3>2. pc'[c] = "client"
      BY <1>0, <2>2, <2>3, <3>1 DEF Goto, ShapeInv, Requesting
    <3>3. pc' # [pc EXCEPT ![c] = "done"]
      BY <1>0, <2>3, <3>2 DEF ShapeInv
    <3>4. PICK sel : req' = [req EXCEPT ![c] = [kind |-> kind, alias |-> a, pin |-> pin, sel |-> sel,
                                                 want |-> w, id |-> NoId]]
                     /\ ~(kind # "status" /\ w = NoId)
      BY <2>5, <3>3 DEF Resolve, Goto
    <3>5. /\ a \in DOMAIN routes /\ kind \in {"control", "status", "call"}
          /\ kind = "status" => pin = NoId
      BY <2>5 DEF Resolve
    <3>6. routes[a] = Meaning(a)
      BY <1>0, <3>5 DEF RouteInv
    <3>7. /\ req'[c].kind = kind /\ req'[c].alias = a /\ req'[c].pin = pin /\ req'[c].want = w
      BY <1>0, <3>4 DEF ShapeInv
    <3>8. Meaning(a)' = Meaning(a)
      BY <2>1 DEF Meaning
    <3>9. kind # "status" => w # NoId /\ w = ExpectedId(Meaning(a), pin)
      BY <3>4, <3>6
    <3> HIDE DEF w
    <3> QED
      BY <3>2, <3>5, <3>7, <3>8, <3>9 DEF Wants, Meaning, ExpectedId
  <2>6. ASSUME NEW id \in Cameras, ResolveCamera(c, id) PROVE Wants(c)'
    <3>1. Goto(c, "slot") \/ Goto(c, "done")
      BY <2>6 DEF ResolveCamera
    <3>2. pc'[c] = "slot"
      BY <1>0, <2>2, <2>3, <3>1 DEF Goto, ShapeInv, Requesting
    <3>3. pc' # [pc EXCEPT ![c] = "done"]
      BY <1>0, <2>3, <3>2 DEF ShapeInv
    <3>4. req' = [req EXCEPT ![c] = [kind |-> "camera", alias |-> NoId, pin |-> id, sel |-> id,
                                     want |-> id, id |-> NoId]]
      BY <2>6, <3>3 DEF ResolveCamera, Goto
    <3>5. req'[c].kind = "camera" /\ req'[c].pin = id /\ req'[c].want = id
      BY <1>0, <3>4 DEF ShapeInv
    <3> QED
      BY <3>2, <3>5 DEF Wants
  <2>7. CASE TakeSlot(c) \/ CallerClient(c) \/ SendRefused(c) \/ Send(c) \/ StreamGrant(c)
    <3>0. /\ UNCHANGED req /\ pc[c] \in Requesting
          /\ \/ \E p \in {"client", "verify"} : Goto(c, p)
             \/ pc[c] \in {"send", "again"} /\ \E p \in {"again", "acted"} : Goto(c, p)
      <4>1. CASE TakeSlot(c)
        BY <2>4, <4>1 DEF TakeSlot, Requesting
      <4>2. CASE CallerClient(c)
        BY <2>4, <4>2 DEF CallerClient, Requesting
      <4>3. CASE SendRefused(c)
        BY <2>4, <4>3 DEF SendRefused, Requesting
      <4>4. CASE Send(c) \/ StreamGrant(c)
        BY <4>4 DEF Send, StreamGrant, Requesting
      <4> QED
        BY <2>7, <4>1, <4>2, <4>3, <4>4
    <3>1. /\ UNCHANGED req /\ pc[c] \in Requesting
          /\ \E p : /\ Goto(c, p) /\ p # "slot"
                    /\ p \in {"send", "again", "acted"} => pc[c] \in {"send", "again", "acted"}
      BY <3>0
    <3>2. /\ pc'[c] # "slot"
          /\ pc'[c] \in {"send", "again", "acted"} => pc[c] \in {"send", "again", "acted"}
      BY <1>0, <2>3, <3>1 DEF Goto, ShapeInv
    <3> QED
      BY <1>0, <2>1, <3>1, <3>2 DEF WantInv, Wants, Meaning
  <2>8. CASE Verify(c)
    <3>1. PICK d \in Verified(c) : /\ req' = [req EXCEPT ![c].id = d]
                                   /\ Goto(c, "acted") \/ Goto(c, "send")
      BY <2>4, <2>8 DEF Verify
    <3>2. pc[c] = "verify" /\ pc'[c] # "slot"
      BY <1>0, <2>3, <2>8, <3>1 DEF Verify, Goto, ShapeInv
    <3>3. req[c].kind # "status" => d = req[c].want
      BY <1>0, <3>2, VerifiedId
    <3>4. /\ req'[c].kind = req[c].kind /\ req'[c].alias = req[c].alias /\ req'[c].pin = req[c].pin
          /\ req'[c].want = req[c].want /\ req'[c].id = d
      BY <1>0, <2>3, <3>1 DEF ShapeInv, Req
    <3> QED
      BY <1>0, <2>1, <3>2, <3>3, <3>4 DEF WantInv, Wants, Meaning, Requesting
  <2> QED
    BY <1>3, <2>4, <2>5, <2>6, <2>7, <2>8 DEF Request, Answered
<1> QED
    BY <1>0, <1>1, <1>2, <1>3, StepKinds, OtherSteps DEF vars

\* A request acts once, as the account that is enrolled then.
LEMMA EffectStep == IndInv /\ [Next]_vars => EffectInv'
<1> SUFFICES ASSUME IndInv, [Next]_vars PROVE EffectInv'
    OBVIOUS
<1>0. ShapeInv /\ ClientInv /\ WantInv /\ EffectInv
    BY DEF IndInv
<1>1. ASSUME UNCHANGED <<req, effects>>, \A c \in Callers : pc'[c] = pc[c] PROVE EffectInv'
    BY <1>0, <1>1 DEF EffectInv
<1>2. CASE Restart
  <2>1. \A c \in Callers : pc'[c] # "acted" /\ effects'[c] = <<>>
    BY <1>2, TaskKinds DEF Restart
  <2> QED
    BY <2>1 DEF EffectInv
<1>3. ASSUME NEW c \in Callers, Request(c) PROVE EffectInv'
  <2> DEFINE Once == /\ pc'[c] # "acted" => effects'[c] = <<>>
                     /\ pc'[c] = "acted" =>
                          \E x \in MaybeAccount : effects'[c] = <<[id |-> req'[c].id, by |-> x, under |-> x]>>
  <2>1. \A b \in Callers \ {c} : pc'[b] = pc[b] /\ req'[b] = req[b] /\ effects'[b] = effects[b]
    BY <1>0, <1>3, RequestSteps, TaskKinds
  <2>2. SUFFICES Once
    BY <1>0, <2>1 DEF EffectInv
  <2>3. c \in Tasks /\ req[c] \in Req
    BY <1>0, TaskKinds DEF ShapeInv
  <2>4. CASE End(c)
    BY <1>0, <2>3, <2>4 DEF End, Goto, ShapeInv
  <2>5. ASSUME NEW p, p # "acted", pc[c] # "acted", Goto(c, p), UNCHANGED effects PROVE Once
    BY <1>0, <2>3, <2>5 DEF EffectInv, Goto, ShapeInv
  <2>6. ASSUME NEW d, pc[c] \in {"verify", "send", "again"}, Act(c, d), Goto(c, "acted"), req'[c].id = d
        PROVE  Once
    <3>1. as[c] = account /\ account \in MaybeAccount
      BY <1>0, <2>3, <2>6, HeldAccount DEF Holding, ShapeInv
    <3>2. effects[c] = <<>>
      BY <1>0, <2>6 DEF EffectInv
    <3>3. effects'[c] = Append(effects[c], [id |-> d, by |-> as[c], under |-> account])
      BY <1>0, <2>6 DEF Act, ShapeInv
    <3>4. effects'[c] = <<[id |-> d, by |-> account, under |-> account]>>
      BY <3>1, <3>2, <3>3
    <3>5. pc'[c] = "acted"
      BY <1>0, <2>3, <2>6 DEF Goto, ShapeInv
    <3> QED
      BY <2>6, <3>1, <3>4, <3>5
  <2> HIDE DEF Once
  <2>7. CASE \E kind \in Kinds, a \in Aliases, pin \in Ids \cup {NoId} : Resolve(c, kind, a, pin)
    BY <2>5, <2>7 DEF Resolve
  <2>8. CASE \E id \in Cameras : ResolveCamera(c, id)
    BY <2>5, <2>8 DEF ResolveCamera
  <2>9. CASE TakeSlot(c) \/ CallerClient(c) \/ SendRefused(c) \/ Answered(c)
    BY <2>4, <2>5, <2>9 DEF TakeSlot, CallerClient, SendRefused, Answered
  <2>10. CASE Send(c) \/ StreamGrant(c)
    <3>1. /\ pc[c] \in {"send", "again"} /\ Act(c, req[c].id) /\ Goto(c, "acted")
          /\ req'[c].id = req[c].id
      BY <2>10 DEF Send, StreamGrant
    <3> QED
      BY <2>6, <3>1
  <2>11. CASE Verify(c) /\ ~ End(c)
    <3>1. PICK d \in Verified(c) :
            /\ req' = [req EXCEPT ![c].id = d] /\ pc[c] = "verify"
            /\ \/ Act(c, d) /\ Goto(c, "acted")
               \/ Goto(c, "send") /\ UNCHANGED effects
      BY <2>11 DEF Verify
    <3>2. req'[c].id = d
      BY <1>0, <2>3, <3>1 DEF ShapeInv, Req
    <3> QED
      BY <2>5, <2>6, <3>1, <3>2
  <2> QED
    BY <1>3, <2>4, <2>7, <2>8, <2>9, <2>10, <2>11 DEF Request
<1> QED
    BY <1>0, <1>1, <1>2, <1>3, StepKinds, OtherSteps DEF vars


-----------------------------------------------------------------------------
(* The theorems.                                                           *)

\* The inductive invariant: clients of the enrolled account, routes that lead to what
\* their aliases mean, and requests that know what they must find.
THEOREM InventoryInvariant == Spec => []IndInv
<1>1. Init => IndInv
  <2> SUFFICES ASSUME Init PROVE IndInv
    OBVIOUS
  <2>0. NoAccount \in MaybeAccount /\ MaxChanges \in Nat /\ MaxCameras \in Nat
    BY BoundAssumption DEF MaybeAccount
  <2>1. account \in MaybeAccount /\ holdings \in [Accounts -> Inventories]
    BY AccountAssumption DEF Init, MaybeAccount
  <2>2. NothingSeen \in Told /\ NoReq \in Req
    BY <2>0 DEF NothingSeen, Told, NoReq, Req, Kinds, DeviceIds
  <2>3. seen \in [Refreshers -> Told] /\ req \in [Callers -> Req]
    BY <2>2 DEF Init
  <2>4. effects \in [Callers -> Seq(Effect)]
    BY DEF Init
  <2>5. pc \in [Tasks -> Points] /\ as \in [Tasks -> MaybeAccount]
    BY <2>0 DEF Init, Points
  <2>6. permit \in BOOLEAN
    BY DEF Init
  <2>7. ShapeInv
    BY <2>0, <2>1, <2>3, <2>4, <2>5, <2>6 DEF Init, ShapeInv
  <2>8. SlotInv
    BY <2>0, FS_EmptySet DEF Init, SlotInv
  <2>9. \A t \in Tasks : pc[t] \in {"notified", "new"} /\ as[t] = NoAccount
    BY DEF Init
  <2>10. ClientInv /\ SeenInv
    BY <2>9, TaskKinds DEF ClientInv, SeenInv, Holding
  <2>11. RouteInv
    BY <2>7, ConfigRoutes DEF Init, ShapeInv
  <2>12. WantInv
    BY <2>9, TaskKinds DEF WantInv, Requesting
  <2>13. EffectInv
    BY <2>9, TaskKinds DEF Init, EffectInv
  <2> QED
    BY <2>7, <2>8, <2>10, <2>11, <2>12, <2>13 DEF IndInv
<1>2. IndInv /\ [Next]_vars => IndInv'
    BY ShapeStep, SlotStep, ClientStep, SeenStep, RouteStep, WantStep, EffectStep DEF IndInv
<1> QED
    BY <1>1, <1>2, PTL DEF Spec

\* What an alias means is a device of Ring's, or none for an unbound alias.
LEMMA MeaningType ==
    ASSUME ShapeInv, NEW a \in DOMAIN config \cup Range(Generated)
    PROVE  Meaning(a) \in Ids \cup {NoId} /\ a \in Aliases
  <1>1. CASE a \in DOMAIN config
    BY <1>1, IdAssumption DEF Meaning, ShapeInv, Aliases
  <1>2. CASE a \notin DOMAIN config
    <2>1. AntiFunction(Generated)[a] \in DOMAIN Generated
      BY <1>2, AntiFunctionIn
    <2> QED
      BY <1>2, <2>1, IdAssumption DEF Meaning, Injection, Aliases
  <1> QED
    BY <1>1, <1>2

\* TypeOK: at most MAX_INTERCOMS routes besides the configured ones however often the
\* account's devices change, since provision_intercoms prunes what is gone; and at
\* most MAX_CAMERAS camera session managers.
THEOREM InventoryTypes == Spec => []TypeOK
<1>1. IndInv => TypeOK
  <2> SUFFICES ASSUME IndInv PROVE TypeOK
    OBVIOUS
  <2>1. ShapeInv /\ SlotInv /\ RouteInv
    BY DEF IndInv
  <2>2. DOMAIN routes \subseteq Aliases
    BY <2>1, MeaningType DEF RouteInv
  <2>3. Range(routes) \subseteq Ids \cup {NoId}
    BY <2>1, MeaningType DEF RouteInv, Range
  <2> QED
    BY <2>1, <2>2, <2>3 DEF TypeOK, ShapeInv, SlotInv, RouteInv, MaybeAccount
<1> QED
    BY <1>1, InventoryInvariant, PTL

\* RightDoor: an unlock, a call or a setting reaches the device its caller expects and
\* its alias means, in the account that is enrolled when Ring acts, once; whatever
\* discovery, enrollments and restarts do between its awaits.
THEOREM RequestsReachTheirDevice == Spec => []RightDoor
<1>1. IndInv => RightDoor
  <2> SUFFICES ASSUME IndInv, NEW c \in Callers
               PROVE  ExpectedDoor(c) /\ EnrolledAccount(c) /\ OneShot(c)
    BY DEF RightDoor
  <2>0. ShapeInv /\ WantInv /\ EffectInv
    BY DEF IndInv
  <2>1. CASE pc[c] # "acted"
    <3>1. effects[c] = <<>>
      BY <2>0, <2>1 DEF EffectInv
    <3>2. Range(effects[c]) = {} /\ Len(effects[c]) = 0
      BY <3>1 DEF Range
    <3> QED
      BY <3>2 DEF ExpectedDoor, EnrolledAccount, OneShot
  <2>2. CASE pc[c] = "acted"
    <3>1. PICK x \in MaybeAccount : effects[c] = <<[id |-> req[c].id, by |-> x, under |-> x]>>
      BY <2>0, <2>2 DEF EffectInv
    <3>2. Range(effects[c]) = {[id |-> req[c].id, by |-> x, under |-> x]} /\ Len(effects[c]) = 1
      BY <3>1 DEF Range
    <3>3. Wants(c) /\ (req[c].kind # "status" => req[c].id = req[c].want)
      BY <2>0, <2>2 DEF WantInv, Wants, Requesting
    <3>4. req[c].kind \in Kinds
      BY <2>0 DEF ShapeInv, Req
    <3>5. req[c].pin \in {NoId, req[c].id}
      BY <3>3, <3>4 DEF Wants, Kinds, ExpectedId
    <3>6. req[c].kind \in {"control", "call"} =>
            /\ Meaning(req[c].alias) \in {NoId, req[c].id}
            /\ ~(Meaning(req[c].alias) = NoId /\ req[c].pin = NoId)
      BY <3>3 DEF Wants, ExpectedId
    <3>7. ExpectedDoor(c)
      BY <3>2, <3>5, <3>6 DEF ExpectedDoor
    <3> QED
      BY <3>2, <3>7 DEF EnrolledAccount, OneShot
  <2> QED
    BY <2>1, <2>2
<1> QED
    BY <1>1, InventoryInvariant, PTL

\* ToldAliasLeads: provision_intercoms gives every Intercom of an inventory it accepts
\* an alias that leads to it, and the inventory is the enrolled account's.
THEOREM ToldAliasesLead == Spec => ToldAliasLeads
<1> DEFINE Leads(t) ==
      pc[t] = "provision" /\ pc'[t] \in {"looping", "done"} /\ changes' = changes =>
          /\ \A d \in seen[t].intercoms : Alias(d) \in DOMAIN routes' /\ routes'[Alias(d)] = d
          /\ source' = account
<1>1. IndInv /\ [Next]_vars => [\A t \in Refreshers : Leads(t)]_vars
  <2> SUFFICES ASSUME IndInv, Next, NEW t \in Refreshers,
                      pc[t] = "provision", pc'[t] \in {"looping", "done"}, changes' = changes
               PROVE  /\ \A d \in seen[t].intercoms :
                            Alias(d) \in DOMAIN routes' /\ routes'[Alias(d)] = d
                      /\ source' = account
    OBVIOUS
  <2>0. /\ ShapeInv /\ SeenInv /\ RouteInv
        /\ t \in Tasks /\ pc'[t] # pc[t] /\ Worker \in Tasks /\ Worker \in Refreshers
    BY TaskKinds DEF IndInv, Tasks, Refreshers
  <2>1. ~ Restart /\ ~ \E i \in Inventories : Change(i)
    <3>1. changes \in Nat
      BY <2>0 DEF ShapeInv
    <3>2. changes' # changes + 1
      BY <3>1
    <3> QED
      BY <3>2 DEF Restart, Change
  <2>2. ~ \E c \in Callers : Request(c)
    BY <2>0, RequestSteps, TaskKinds
  <2>3. ASSUME NEW u \in Tasks, NEW p, Goto(u, p) PROVE u = t
    BY <2>0, <2>3 DEF Goto, ShapeInv
  <2>4. ~ Notified /\ ~ Loop
    BY <2>0, <2>3 DEF Notified, Loop
  <2>5. ASSUME NEW u \in Refreshers, \/ List(u) \/ TakeClient(u) \/ Inventory(u) \/ Disconnect(u)
                                     \/ RefreshFails(u) \/ \E a \in Accounts : Enroll(u, a)
        PROVE  FALSE
    <3>1. pc[u] # "provision" /\ \E p : Goto(u, p)
      BY <2>5 DEF List, TakeClient, Inventory, Disconnect, RefreshFails, NotRefreshed, Enroll
    <3> QED
      BY <2>3, <3>1, TaskKinds
  <2>6. ASSUME NEW u \in Refreshers, ProvisionFails(u) PROVE FALSE
    <3>1. \E p \in {"backoff", "failed"} : Goto(u, p)
      BY <2>6 DEF ProvisionFails, NotRefreshed
    <3>2. pc'[t] \in {"backoff", "failed"}
      BY <2>0, <2>3, <3>1, TaskKinds DEF Goto, ShapeInv
    <3> QED
      BY <3>2
  <2>7. PICK u \in Refreshers : Provision(u)
    BY <2>1, <2>2, <2>4, <2>5, <2>6 DEF Next, Refresh, Refreshers
  <2>8. u = t
    BY <2>3, <2>7, TaskKinds DEF Provision, Refreshed
  <2>9. /\ routes' = Provisioned(seen[t].intercoms) /\ source' = seen[t].from /\ UNCHANGED config
        /\ ~ Refused(seen[t].intercoms)
    BY <2>7, <2>8 DEF Provision
  <2>10. /\ seen[t].intercoms \in SUBSET Ids /\ seen[t].from = account
        /\ IsFiniteSet(seen[t].intercoms) /\ Cardinality(seen[t].intercoms) <= MaxIntercoms
    BY <2>0 DEF ShapeInv, Told, SeenInv
  <2> QED
    BY <2>0, <2>9, <2>10, ProvisionRoutes
<1> QED
    BY <1>1, InventoryInvariant, PTL DEF Spec, ToldAliasLeads

=============================================================================
