-------------------------- MODULE RuntimeInventory ---------------------------
(***************************************************************************)
(* Which physical device a request reaches.  Discovery turns the account's *)
(* Intercoms into routes (ring_runtime_inventory.rs); a route has the id   *)
(* of a device or, for the one alias of an old configuration, none; and a  *)
(* request goes through a route or a camera id, with the id its caller     *)
(* expects, to the account (ring_expected_device.rs, ring_control_api.rs,  *)
(* ring_camera_api.rs and the providers behind them).                      *)
(*                                                                         *)
(* Everything that talks to Ring holds a client and with it the read guard *)
(* of the lifecycle lock; an enrollment takes that lock for writing.  How  *)
(* the lock is handed on, and the OAuth traffic, are module RingAccount;   *)
(* here an enrollment is one step.  A step is the code between two awaits. *)
(***************************************************************************)
EXTENDS Naturals, FiniteSets, Sequences, Functions

CONSTANTS Ids,           \* Ring's Intercom ids
          Cameras,       \* Ring's camera ids
          NoId,          \* an unbound alias; a request without an expected id
          Generated,     \* the alias intercom-<id> of every id
          Configs,       \* config.devices: functions from alias to id or NoId
          Accounts,      \* Ring accounts
          NoAccount,
          AtStart,       \* what there may be at first: [account, holdings]
          Inventories,   \* what an account may contain: [intercoms, cameras]
          Worker,        \* the discovery worker
          Enrollers,     \* enrollment handlers, run to the end or dropped
          Listers,       \* GET /v1/intercoms handlers
          Callers,       \* control, call and camera requests
          MaxIntercoms,  \* MAX_INTERCOMS
          MaxCameras,    \* MAX_CAMERAS
          MaxChanges     \* bound: devices that come and go, and restarts

Refreshers == {Worker} \cup Enrollers \cup Listers
Tasks == Refreshers \cup Callers
Aliases == Range(Generated) \cup UNION {DOMAIN c : c \in Configs}
Kinds == {"control", "status", "call", "camera"}

\* BridgeConfig::new, validate_devices.
ValidDevices(c) ==
    /\ Cardinality(DOMAIN c) <= MaxIntercoms
    /\ (\E a \in DOMAIN c : c[a] = NoId) => Cardinality(DOMAIN c) = 1
    /\ IsInjective(c)

ASSUME IdAssumption ==
    /\ Generated \in Injection(Ids, Range(Generated))
    /\ NoId \notin Ids \cup Cameras /\ Ids \cap Cameras = {}
    /\ \A c \in Configs : IsFiniteSet(DOMAIN c) /\ \A a \in DOMAIN c : c[a] \in Ids \cup {NoId}
ASSUME TaskAssumption ==
    /\ Worker \notin Enrollers \cup Listers \cup Callers
    /\ Enrollers \cap Listers = {} /\ (Enrollers \cup Listers) \cap Callers = {}
ASSUME AccountAssumption ==
    /\ NoAccount \notin Accounts
    /\ AtStart \subseteq [account : Accounts \cup {NoAccount}, holdings : [Accounts -> Inventories]]
ASSUME InventoryAssumption ==
    \A i \in Inventories : /\ i.intercoms \subseteq Ids /\ IsFiniteSet(i.intercoms)
                           /\ i.cameras \subseteq Cameras
ASSUME BoundAssumption ==
    {MaxIntercoms, MaxCameras, MaxChanges} \subseteq Nat

VARIABLES
    config,     \* config.devices
    account,    \* whose session the file holds
    holdings,   \* Ring: what every account contains
    routes,     \* device_runtimes: alias to device_id
    slots,      \* camera_sessions: its keys
    permit,     \* the stored notification of discovery_wakeup
    pc,         \* where a task is
    as,         \* the account of a task's client; NoAccount: it has none
    seen,       \* the Intercoms a refresh was told
    req,        \* a request: kind, alias, pin; then sel, the id its provider is
                \*   scoped to, want, the id it must find, and id, what it found
    changes,    \* devices that came or went, and restarts, so far
    source,     \* history: the account the routes were last made from
    effects     \* history: what a request made Ring do, and for whom

world == <<config, account, holdings, changes>>
vars == <<world, routes, slots, permit, pc, as, seen, req, source, effects>>

NothingSeen == [from |-> NoAccount, intercoms |-> {}]
NoReq == [kind |-> "control", alias |-> NoId, pin |-> NoId, sel |-> NoId, want |-> NoId, id |-> NoId]

Init ==
    /\ config \in {c \in Configs : ValidDevices(c)}
    /\ \E s \in AtStart : account = s.account /\ holdings = s.holdings
    /\ routes = config /\ slots = {} /\ permit = TRUE
    /\ pc = [t \in Tasks |-> IF t = Worker THEN "notified" ELSE "new"]
    /\ as = [t \in Tasks |-> NoAccount]
    /\ seen = [t \in Refreshers |-> NothingSeen]
    /\ req = [c \in Callers |-> NoReq]
    /\ changes = 0 /\ source = NoAccount
    /\ effects = [c \in Callers |-> <<>>]

Goto(t, point) == pc' = [pc EXCEPT ![t] = point]

\* The task's last clone of the client goes, and the read guard with it.
Release(t) == as' = [as EXCEPT ![t] = NoAccount]

\* RingProvider::client: the read guard, and a client of the stored session.
HoldsClient(t) == as[t] # NoAccount
Connect(t) == as' = [as EXCEPT ![t] = account]

-----------------------------------------------------------------------------
(* Discovery: refresh_intercoms and who calls it.                          *)

\* Mutation: the wakeup is sent to a worker that waits, and is not stored.
StartDiscoveryLoud == permit' = (permit \/ pc[Worker] = "notified")

\* start_discovery: notify_one.  The worker was spawned when the process started.
StartDiscovery == permit' = TRUE

\* The worker's loop takes the notification.
Notified ==
    /\ pc[Worker] = "notified" /\ permit
    /\ permit' = FALSE /\ Goto(Worker, "client")
    /\ UNCHANGED <<world, routes, slots, as, seen, req, source, effects>>

\* A refresh ends well or badly.  The worker sleeps and tries again until it succeeds
\* (restore_intercoms); an enrollment handler leaves a failure to the worker.
Refreshed(t) == Goto(t, IF t = Worker THEN "looping" ELSE "done") /\ UNCHANGED permit

NotRefreshed(t) ==
    /\ Goto(t, IF t = Worker THEN "backoff" ELSE "failed")
    /\ IF t \in Enrollers THEN StartDiscovery ELSE UNCHANGED permit

Loop ==
    /\ pc[Worker] \in {"looping", "backoff"}
    /\ Goto(Worker, IF pc[Worker] = "looping" THEN "notified" ELSE "client")
    /\ UNCHANGED <<world, routes, slots, permit, as, seen, req, source, effects>>

\* GET /v1/intercoms.
List(t) ==
    /\ t \in Listers /\ pc[t] = "new"
    /\ Goto(t, "client")
    /\ UNCHANGED <<world, routes, slots, permit, as, seen, req, source, effects>>

\* Mutation: the client is dropped once it has answered.
ClientKeptNot(t) == Release(t)

\* refresh_intercoms keeps its client until the routes are published.
ClientKept(t) == UNCHANGED as

\* provider.client, then intercom_inventory: discovery, and the names of the
\* locations, without which it does as well.
TakeClient(t) ==
    /\ t \in Refreshers /\ pc[t] = "client" /\ account # NoAccount
    /\ Connect(t) /\ Goto(t, "inventory")
    /\ UNCHANGED <<world, routes, slots, permit, seen, req, source, effects>>

Inventory(t) ==
    /\ pc[t] = "inventory"
    /\ Cardinality(holdings[as[t]].intercoms) <= MaxIntercoms
    /\ seen' = [seen EXCEPT ![t] = [from |-> as[t], intercoms |-> holdings[as[t]].intercoms]]
    /\ Goto(t, "provision") /\ ClientKept(t)
    /\ UNCHANGED <<world, routes, slots, permit, req, source, effects>>

\* No session file, no answer of Ring, or too long an inventory.
RefreshFails(t) ==
    /\ \/ t \in Refreshers /\ pc[t] = "client" /\ account = NoAccount
       \/ pc[t] = "inventory"
    /\ NotRefreshed(t) /\ Release(t)
    /\ UNCHANGED <<world, routes, slots, seen, req, source, effects>>

\* The alias of a discovered Intercom: the configured one, or intercom-<id>.
Alias(d) == IF d \in Range(config) THEN AntiFunction(config)[d] ELSE Generated[d]

\* The configuration uses that alias otherwise.
Conflicting(d) == Alias(d) \in DOMAIN config /\ config[Alias(d)] # d

Refused(found) == \/ \E d \in found : Conflicting(d)
                  \/ \E d, e \in found : d # e /\ Alias(d) = Alias(e)

\* Mutation: Intercoms that are gone keep their routes.
ProvisionedMore(found) ==
    LET planned == {Alias(d) : d \in found} IN
    [a \in DOMAIN routes \cup planned |->
        IF a \in DOMAIN routes THEN routes[a] ELSE CHOOSE d \in found : Alias(d) = a]

\* What the routes become: configured ones stay, discovered ones that are gone are
\* pruned, a known alias keeps its runtime, a new one gets its own.
Provisioned(found) ==
    LET planned == {Alias(d) : d \in found} IN
    [a \in DOMAIN config \cup planned |->
        IF a \in DOMAIN routes THEN routes[a] ELSE CHOOSE d \in found : Alias(d) = a]

\* provision_intercoms: all of it under the lock of the routes.
Provision(t) ==
    /\ pc[t] = "provision" /\ ~ Refused(seen[t].intercoms)
    /\ routes' = Provisioned(seen[t].intercoms) /\ source' = seen[t].from
    /\ Refreshed(t)
    /\ Release(t) /\ seen' = [seen EXCEPT ![t] = NothingSeen]
    /\ UNCHANGED <<world, slots, req, effects>>

\* It fails before it publishes any: what was found cannot be routed, or the archive
\* directory of a new Intercom is not one (build_devices).
ProvisionFails(t) ==
    /\ pc[t] = "provision"
    /\ NotRefreshed(t)
    /\ Release(t) /\ seen' = [seen EXCEPT ![t] = NothingSeen]
    /\ UNCHANGED <<world, routes, slots, req, source, effects>>

-----------------------------------------------------------------------------
(* Enrollment, restarts, and what happens at Ring.                         *)

\* start_enrollment and verify_enrollment up to drop(guard): the write guard waits
\* for every client.  The handler then refreshes.  That the new session is stored and
\* the old client forgotten in one step is what RingAccount shows for its SafeDrops;
\* a handler dropped between the two (ring_enrollment.rs:130) is left to that module.
Enroll(t, a) ==
    /\ t \in Enrollers /\ pc[t] = "new"
    /\ \A u \in Tasks : ~ HoldsClient(u)
    /\ account' = a /\ Goto(t, "client")
    /\ UNCHANGED <<config, holdings, changes, routes, slots, permit, as, seen, req, source, effects>>

\* The consumer disconnects and the handler is dropped where it awaits.
Disconnect(t) ==
    /\ t \in Enrollers /\ pc[t] \in {"client", "inventory"}
    /\ Goto(t, "dropped") /\ Release(t)
    /\ UNCHANGED <<world, routes, slots, permit, seen, req, source, effects>>

\* External.  A device is added to the enrolled account or removed from it; what an
\* account contains before it is enrolled is Init's choice.
Change(i) ==
    /\ changes < MaxChanges /\ account # NoAccount /\ holdings[account] # i
    /\ holdings' = [holdings EXCEPT ![account] = i] /\ changes' = changes + 1
    /\ UNCHANGED <<config, account, routes, slots, permit, pc, as, seen, req, source, effects>>

\* Runtime::new and start_background.  Handlers of the old process are gone.
Restart ==
    /\ changes < MaxChanges /\ changes' = changes + 1
    /\ routes' = config /\ slots' = {} /\ permit' = TRUE /\ source' = NoAccount
    /\ pc' = [t \in Tasks |-> IF t = Worker THEN "notified"
                              ELSE IF pc[t] = "new" THEN "new" ELSE "done"]
    /\ as' = [t \in Tasks |-> NoAccount] /\ seen' = [t \in Refreshers |-> NothingSeen]
    /\ req' = [c \in Callers |-> NoReq] /\ effects' = [c \in Callers |-> <<>>]
    /\ UNCHANGED <<config, account, holdings>>

-----------------------------------------------------------------------------
(* Requests for one device.                                                *)

\* Mutation: a request that names no id for an unbound alias is let through.
ExpectedIdAny(bound, pin) ==
    IF bound = NoId /\ pin = NoId THEN CHOOSE d \in Ids : TRUE
    ELSE IF bound = NoId THEN pin ELSE IF pin \in {NoId, bound} THEN bound ELSE NoId

\* RingDeviceRuntime::expected_id; NoId: the request is refused.
ExpectedId(bound, pin) ==
    IF bound = NoId THEN pin ELSE IF pin \in {NoId, bound} THEN bound ELSE NoId

\* The provider a request uses: that of its route, or of the route that is bound
\* to the expected id when a call names an unbound alias (audio_target).
Scopes(kind, bound, want) ==
    IF kind = "call" /\ bound = NoId THEN Range(routes) \cap {want} ELSE {bound}

\* A handler resolves its alias and its id: unlock, settings and history
\* ("control"), status, which takes no id, and calls of both kinds.
Resolve(c, kind, a, pin) ==
    /\ pc[c] = "new" /\ kind \in {"control", "status", "call"} /\ a \in DOMAIN routes
    /\ kind = "status" => pin = NoId
    /\ LET want == IF kind = "status" THEN NoId ELSE ExpectedId(routes[a], pin)
           scopes == IF kind # "status" /\ want = NoId THEN {} ELSE Scopes(kind, routes[a], want)
       IN \/ /\ scopes = {} /\ Goto(c, "done") /\ UNCHANGED req
          \/ \E sel \in scopes :
                /\ req' = [req EXCEPT ![c] = [kind |-> kind, alias |-> a, pin |-> pin,
                                              sel |-> sel, want |-> want, id |-> NoId]]
                /\ Goto(c, "client")
    /\ UNCHANGED <<world, routes, slots, permit, as, seen, source, effects>>

\* The camera handler: exact_id, and the id must be in the account's inventory.
ResolveCamera(c, id) ==
    /\ pc[c] = "new" /\ account # NoAccount
    /\ IF id \in holdings[account].cameras
          THEN /\ req' = [req EXCEPT ![c] = [kind |-> "camera", alias |-> NoId, pin |-> id,
                                             sel |-> id, want |-> id, id |-> NoId]]
               /\ Goto(c, "slot")
          ELSE Goto(c, "done") /\ UNCHANGED req
    /\ UNCHANGED <<world, routes, slots, permit, as, seen, source, effects>>

\* The request is answered, or its answer is lost; its locals are forgotten.
End(c) == /\ Goto(c, "done") /\ Release(c)
          /\ req' = [req EXCEPT ![c] = NoReq] /\ effects' = [effects EXCEPT ![c] = <<>>]

Room(id) == id \in slots \/ Cardinality(slots) < MaxCameras

\* The camera's session manager, under the lock of camera_sessions.  Nothing ever
\* leaves that map.
TakeSlot(c) ==
    /\ pc[c] = "slot"
    /\ IF Room(req[c].want)
          THEN /\ slots' = slots \cup {req[c].want} /\ Goto(c, "client")
               /\ UNCHANGED <<as, req, effects>>
          ELSE End(c) /\ UNCHANGED slots
    /\ UNCHANGED <<world, routes, permit, seen, source>>

\* The handler, or a call's worker, gets its scoped client.
CallerClient(c) ==
    /\ c \in Callers /\ pc[c] = "client"
    /\ IF account = NoAccount THEN End(c)
          ELSE Connect(c) /\ Goto(c, "verify") /\ UNCHANGED <<req, effects>>
    /\ UNCHANGED <<world, routes, slots, permit, seen, source>>

\* discover_intercoms of a scoped client.
Discovered(c) == {d \in holdings[as[c]].intercoms : req[c].sel \in {NoId, d}}

\* verified_device, only_device: the one device there is, if it is the expected one.
VerifiedDevice(c) ==
    IF Cardinality(Discovered(c)) = 1
       THEN {d \in Discovered(c) : req[c].want \in {NoId, d}} ELSE {}

\* prepare_camera_call: the camera is still in the account's inventory.
FoundCamera(c) == holdings[as[c]].cameras \cap {req[c].want}

Verified(c) == IF req[c].kind = "camera" THEN FoundCamera(c) ELSE VerifiedDevice(c)

Act(c, id) ==
    effects' = [effects EXCEPT ![c] = Append(@, [id |-> id, by |-> as[c], under |-> account])]

\* A request that found its device; a status request has its answer with that.
Verify(c) ==
    /\ pc[c] = "verify"
    /\ \/ Verified(c) = {} /\ End(c)
       \/ \E d \in Verified(c) :
            /\ req' = [req EXCEPT ![c].id = d]
            /\ IF req[c].kind = "status" THEN Act(c, d) /\ Goto(c, "acted")
                  ELSE Goto(c, "send") /\ UNCHANGED effects
            /\ UNCHANGED as
    /\ UNCHANGED <<world, routes, slots, permit, seen, source>>

\* vendor_request: Ring does it.
Send(c) ==
    /\ pc[c] \in {"send", "again"} /\ req[c].kind = "control"
    /\ Act(c, req[c].id) /\ Goto(c, "acted")
    /\ UNCHANGED <<world, routes, slots, permit, as, seen, req, source>>

\* stream_grant: the ticket for a call with the device that was found.  (Direct and
\* camera calls keep their client until they are up, the relay only until here.)
StreamGrant(c) ==
    /\ pc[c] = "send" /\ req[c].kind \in {"call", "camera"}
    /\ Act(c, req[c].id) /\ Goto(c, "acted")
    /\ UNCHANGED <<world, routes, slots, permit, as, seen, req, source>>

Answered(c) ==
    /\ pc[c] = "acted" /\ End(c)
    /\ UNCHANGED <<world, routes, slots, permit, seen, source>>

\* Ring refuses.  A 401 to a control request is tried once more.
SendRefused(c) ==
    /\ pc[c] \in {"send", "again"}
    /\ \/ End(c)
       \/ /\ pc[c] = "send" /\ req[c].kind = "control" /\ Goto(c, "again")
          /\ UNCHANGED <<as, req, effects>>
    /\ UNCHANGED <<world, routes, slots, permit, seen, source>>

-----------------------------------------------------------------------------
Refresh(t) ==
    TakeClient(t) \/ Inventory(t) \/ RefreshFails(t) \/ Provision(t) \/ ProvisionFails(t)

Request(c) ==
    \/ \E kind \in Kinds, a \in Aliases, pin \in Ids \cup {NoId} : Resolve(c, kind, a, pin)
    \/ \E id \in Cameras : ResolveCamera(c, id)
    \/ TakeSlot(c) \/ CallerClient(c) \/ Verify(c) \/ Send(c) \/ StreamGrant(c)
    \/ Answered(c) \/ SendRefused(c)

Next ==
    \/ Notified \/ Loop
    \/ \E t \in Listers : List(t)
    \/ \E t \in Refreshers : Refresh(t)
    \/ \E t \in Enrollers, a \in Accounts : Enroll(t, a)
    \/ \E t \in Enrollers : Disconnect(t)
    \/ \E i \in Inventories : Change(i)
    \/ Restart
    \/ \E c \in Callers : Request(c)

\* Tasks run; and neither Ring refuses the worker's discovery for ever, nor the disk
\* what it found.
Fairness ==
    /\ WF_vars(Notified) /\ WF_vars(Loop)
    /\ \A t \in Refreshers : WF_vars(Refresh(t))
    /\ SF_vars(Inventory(Worker)) /\ SF_vars(Provision(Worker))

Spec == Init /\ [][Next]_vars /\ Fairness

-----------------------------------------------------------------------------
Points == {"new", "notified", "looping", "backoff", "client", "inventory", "provision",
           "slot", "verify", "send", "again", "acted", "done", "failed", "dropped"}

\* The type invariant, with the limits on routes (discovery prunes what is gone) and
\* on camera session managers.
TypeOK ==
    /\ config \in Configs /\ ValidDevices(config)
    /\ account \in Accounts \cup {NoAccount} /\ holdings \in [Accounts -> Inventories]
    /\ Cardinality(DOMAIN routes) <= Cardinality(DOMAIN config) + MaxIntercoms
    /\ DOMAIN routes \subseteq Aliases /\ Range(routes) \subseteq Ids \cup {NoId}
    /\ slots \subseteq Cameras /\ Cardinality(slots) <= MaxCameras
    /\ permit \in BOOLEAN /\ pc \in [Tasks -> Points]
    /\ as \in [Tasks -> Accounts \cup {NoAccount}]
    /\ changes \in 0..MaxChanges /\ source \in Accounts \cup {NoAccount}

\* What an alias means, whatever discovery does: its configured device or the one
\* whose id is in its name.
Meaning(a) == IF a \in DOMAIN config THEN config[a] ELSE AntiFunction(Generated)[a]

\* A request other than a status reaches the device its caller expects and its alias
\* means, and none when neither says which.
ExpectedDoor(c) ==
    LET r == req[c] IN
    \A e \in Range(effects[c]) :
        /\ r.pin \in {NoId, e.id}
        /\ r.kind \in {"control", "call"} =>
              /\ Meaning(r.alias) \in {NoId, e.id}
              /\ ~(Meaning(r.alias) = NoId /\ r.pin = NoId)

\* It acts on the account that is enrolled at that moment, never on the previous one.
EnrolledAccount(c) == \A e \in Range(effects[c]) : e.by = e.under

\* Unlocks, calls and settings have the effect once, or not at all.
OneShot(c) == Len(effects[c]) <= 1

\* RightDoor: across discovery, enrollment, restarts and retries a request opens,
\* calls or sets the expected device of the enrolled account, once.
RightDoor == \A c \in Callers : ExpectedDoor(c) /\ EnrolledAccount(c) /\ OneShot(c)

\* ToldAliasLeads: an inventory that is answered gives every Intercom an alias which
\* leads to it, and it is the inventory of the account enrolled then.
ToldAliasLeads ==
    [][\A t \in Refreshers :
        pc[t] = "provision" /\ pc'[t] \in {"looping", "done"} /\ changes' = changes =>
            /\ \A d \in seen[t].intercoms : Alias(d) \in DOMAIN routes' /\ routes'[Alias(d)] = d
            /\ source' = account]_vars

\* RoutesFollow: once enrollments and device changes are over, the routes are made
\* from the enrolled account's inventory, if it is one that can be routed: a wakeup
\* of the discovery worker is not lost, whatever it is doing.  The exception is an
\* enrollment whose consumer disconnected before the refresh.
Routable == Cardinality(holdings[account].intercoms) <= MaxIntercoms
            /\ ~ Refused(holdings[account].intercoms)
RoutesFollow ==
    <>[](\/ account = NoAccount
         \/ \E t \in Enrollers : pc[t] = "dropped"
         \/ Routable => source = account)

=============================================================================
