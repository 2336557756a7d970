# Formal models of Vistoda Ring

TLA+ models of the bridge under `src/`, the TLC runs that check them on small
instances, and theorems that TLAPS proves for all instances.  Paths below are
relative to the repository; Rust files are those of its `src/` directory unless
another directory is named.

## 1. The system

Vistoda Ring is one tokio process between a home automation system and Ring's
cloud.  Everything it does for a consumer goes through a Ring account that was
enrolled once with password and SMS code, and through a handful of long-lived
tasks.  Most of the code is request shaping; what can go wrong lies where
tasks share state across `await` points.

### Inventory

| Component | State | Operations | Correct when |
| --- | --- | --- | --- |
| Client provider (`ring_provider.rs`) | lifecycle `RwLock`, cached `RingClient` | `client`, `enrollment_guard`, `reset` | no task works with a client of an earlier enrollment; nobody waits for ever |
| Ring client, OAuth rotation, session file (`ring_client.rs`, `ring_oauth_refresh.rs`, `ring_session.rs`) | state mutex over access token, session, `rotation_pending`, `reauth_until`, `registered_until`; the file | `ensure_authenticated`, `accept_oauth`, `ensure_registered`, request with one retry, `persist` | the single valid refresh token is on disk or owed to it; a refused one is not sent again |
| Enrollment (`ring_enrollment.rs`, `ring_enrollment_api.rs`) | `pending`, `in_flight`, `last_start` | `start`, `verify`, `cancel`, expiry | a challenge is used once; an enrollment is not undone by an older client |
| Session gate and audio manager (`ring_session_gate.rs`, `ring_audio_manager.rs`, `ring_audio_worker.rs`) | gate per device, table of sessions, worker tasks, oneshots | `reserve`, `release`, `start`, `delete`, worker loop | one call per device; an acknowledged call is over; permits come back |
| Native relay (`ring_relay_api.rs`, `ring_relay_worker.rs`) | permit, worker, WebSocket | `serve`, `stop_worker`, `finish_relay` | shares the gate; ends in time |
| Runtime inventory and discovery (`ring_runtime_inventory.rs`, `ring_expected_device.rs`, `ring_enrollment_api.rs`) | alias map, one runtime with one gate per device, stored wakeup of the discovery worker | `provision_intercoms`, `refresh_intercoms`, `start_discovery`, `audio_target` | an alias leads to its device and no other; the routes are those of the enrolled account |
| Push registration and worker (`ring_push_worker.rs`, `ring_push_rotation.rs`, `ring_push_session.rs`, `ring_push_provider.rs`, `ring_push_store.rs`) | registration file, client's `push_token`, reload channel, Ring's device record | load, register, hand off, rotate, listen, reload | what is listened with is what Ring was handed; make-before-break |
| Reconnect policy (`ring_push_policy.rs`) | delay, count of suspect endings | `next` | rotation only on repeated quick endings |
| Event queues and long poll (`ring_push_event.rs`, `ring_push_queues.rs`, `ring_push_dispatch.rs`, `ring_push_api.rs`) | queue of 128 per device, generation, watch channel, queue map | `include`, `publish`, `wait_after`, `events` | a consumer misses only what was evicted; no lost wake-up; an unlock is kept once |
| Unlock and ding watch (`ring_unlock_watch.rs`, `ring_ding_watch.rs`, `ring_ding_watchdog.rs`) | cursor per device, windows of dings | poll, `advance`, `observe`, `record_push` | each unlock once; a miss is judged once |
| Recordings (`ring_recording*.rs`) | directory of media and manifests, no lock | `commit`, `list`, `read`, `delete`, `cleanup` | listed means readable; nothing is left that is neither listed nor counted; the limit holds |
| Signaling and media (`ring_signaling.rs`, `ring_media_*.rs`) | socket dialog, WebRTC peer, detached audio task | connect, offer, `collect`, `drive`, activate, close | reported up means complete; all that was opened is closed |
| Cameras (`ring_camera*.rs`, `ring_video.rs`) | one audio manager per camera, never dropped | start, delete, list | as the sessions; the camera of the request |
| Controls, settings, history requests (`ring_control*.rs`, `ring_history*.rs`) | none | resolve, verify, one vendor request with one retry | the expected device of the enrolled account, once |
| Wire formats, configuration, authentication, metrics, API canary, probes | none or counters | pure | unit-tested |

Interactions: every vendor request takes a client, and with it a read guard of
the lifecycle lock; an enrollment takes the write guard, stores a session, resets
the provider, reloads the push worker and then refreshes the inventory, which
takes a client again.  The inventory provisions routes and gates, and tells the
push service which queues exist, which reloads the worker too.  The push worker
and the unlock watch publish into the queues; the long poll waits on them.
Direct sessions, relays and DELETE handlers meet at the gate and at the session
table.

What is hard here: futures that axum drops at any `await` when a peer
disconnects; the two halves of an operation around an `await`; reload and wake-up
channels that may be subscribed too late; refresh tokens that are valid once;
aborted tasks that are not gone yet; the process stopping between two writes.
The hazards are listed in `PROJECT.json` at their lines.

### Plan

Done, in this order: `RingAccount`, `AudioSessions`, `EventFeed` and `PushEvents`,
`PushRegistration`, `RecordingStore`, `HistoryWatch`, `RuntimeInventory`,
`CallSignaling`.  Each has a module of proofs, and every safety property that a run
checks is a theorem.  Next:

1. The refinement's side for the consumers: that what the feed promises over a whole
   behaviour (nothing twice, nothing out of order) follows from `EventFeed`.
2. `AckMeansHungUp` for discovered devices: a DELETE that reaches the route of a second
   runtime does not find the session of the first, so the statement has to name the route.
3. Steps of the liveness arguments that are safety properties, such as that the head of
   the lifecycle queue can always be granted.

## 2. Modules

### RingAccount

Tasks (`Procs`) are HTTP handlers or background workers.  A task is at a point
(`pc`), which is where its code awaits; one step runs from one await to the next.
`queue`, `readers`, `writer` are tokio's fair `RwLock`; `slot` is the provider's
cached client; `session`, `access`, `registered`, `reauth`, `rotationPending`,
`owner` are the `ClientState` of every client in memory and the mutex around it;
`file` is the session file; `pending`, `expired`, `cooldown`, `inFlight` are the
`EnrollmentState`.  `valid` and `issued` are Ring: one refresh token per hardware
id is accepted, once, and answered with its successor.  `enrolled`, `refused`,
`quiet`, `spent`, `lost` are history: `refused` are the tokens Ring refused less than
15 minutes ago, `quiet` those of them that this run of the process was told of.

`RequestClient`, `Grant`, `GetClient`, `ReleaseClient` are `RingProvider::client`;
`LockState` to `SendRequest` are one request with `ensure_authenticated`,
`accept_oauth`, `ensure_registered` and the retry; `StartCheck`,
`PasswordAnswer`, `StartUpdate` are the two critical sections of `start` and the
grant between them; `VerifyTake`, `OtpAnswer` are `verify`; `ResetClient` is the
handlers' tail.  `Persist` models a write that fails before or after the rename.
`Disconnect` drops a future at one of `DropPoints`, `Restart` is a crash.
Deadlines are steps that may come at any time, which covers every length of them.

### AudioSessions

One physical device.  A session has a front (the handler of a direct start, or a
relay's `serve`) and a worker.  `active` and `cooldown` are the gates of the
runtimes built for the device, `route` the runtime its alias leads to; `table`,
`cancelled`, `done`, `ready` are the manager's table and the channels between the
two tasks; `call` is what Ring sees.  `Remove` and `WorkerDone` keep the code's
order of leaving the table, returning the permit and saying done.  `RelayAbort`
and `TaskAborted` separate `abort` from the moment the runtime drops the task.
`DropStart` drops a start at any of its waits, also at the one for the table's mutex
between permit and table entry: that permit is then lost (`Leaked`), and the
properties name it as the one that is.

### EventFeed and PushEvents

`EventFeed` is what the event API promises: per generation one growing log; a
consumer joins at the tail, is given everything after its position, starts a new
generation at its first event, and misses only events it fell more than
`EventLimit` behind.  `PushEvents` is the code: queue map, publishers that look
up, push under the lock and notify after it, and a long poll that takes its queue,
compares the cursor, subscribes, looks, waits and reads, each in a step of its
own.  `Lose` drops an answer, `Include` prunes and rebuilds the queue under the
feet of all of them, `Restart` loses everything but the consumers' cursors.
`FeedSpec` is the refinement; the mapping is the identity on log, position and
inbox.

### PushRegistration

The worker's attempt (`pc`, `held`, `cand`, `ids`): subscribe to the reload
channel, take a client, load the file, register if there is nothing to reuse or a
rotation is due, hand the token over, subscribe the Intercoms, replace the file,
check in, connect, listen.  Every step may fail; a failed rotation falls back to
the registration it would have replaced.  `changed` is the receiver's unseen
value, `pushToken` and `registered` the cached client, `record` Ring's device
record, which every session registration empties.  `EnsureRegistered` is any other
request that registers the session; it sends the remembered token again and goes
on if that fails.  Enrollment and inventory change state first and reload after,
in two steps.  Registrations are recycled: one that nobody remembers counts as
new, so no counter is needed.

A client call that holds the state mutex from start to end (`register_push_token`)
is one step with all its outcomes; a crash inside a step is its failure followed
by `Restart`.

### RecordingStore

The directory (`media`, `manifests`) and any number of requests on it.  The store
has no lock, so a step is one file operation: a rename of `atomic_write`, the
opening of the directory, one entry of it, one removal.  `StartUpload`,
`WriteMedia`, `WriteManifest`, `Undo` are `commit`; `OpenDir`, `ReadEntry`, `EndScan`
are `list`, for a client or at the start of `cleanup`; `Sweep`, `EndSweep` are the
loop of `cleanup`, and `RemoveMp4`, `RemoveWebm`, `RemoveJson` are `delete`, which
both use.  A directory read sees everything that was there throughout and may or may
not see what came or went meanwhile; an entry that is gone when it is read fails the
whole listing.  Every operation may fail and the process may die anywhere.
`orphans`, `torn`, `unswept` are history: what such an accident may leave behind, and
nothing else may.

### HistoryWatch

The two sources of events of an account with one or two Intercoms.  A `record` is a
ring or an unlock at a second; Ring puts it into the history (`Index`) and pushes it
(`Handle`), each at any later time and in any order, or never, the push more than once,
with or without its time, or unreadable.  `Publish` routes like `RingPushService::publish`, to the Intercom's queue
and, if it is the only one the caller knows, to the queue of the unbound alias.
`Acknowledge` is the write of the persistent ids, a step after the publication.
`StartPoll`, `ReadPage`, `HandlePage`, `PublishUnlock`, `EndPoll` are one cycle of
`watch_unlocks`; pages may fail one by one.  `Fresh` and `Advanced` are
`UnlockCursor::advance`; `Proven`, `Due`, `Undelivered`, `Observed` are
`DingWatchdog::observe`.  `Include` changes the queue map under both tasks, `Restart`
loses everything but the file, and may start in the second the process died in.  `told`,
`pub`, `settled`, `byHistory`, `pushed`, `reports`, `gone`, `overdue` are history: what
was published in which life, by whom, which Intercoms have left the queue map at some
time, and which records Ring indexed behind an unlock newer by more than
`LATE_TOLERANCE`.

### RuntimeInventory

Which device a request reaches.  `routes` is `device_runtimes`; `permit` is the stored
notification of `discovery_wakeup`; `as` is the account of a task's client, that is,
its read guard, and `Enroll` waits until nobody holds one (the lock itself is
`RingAccount`).  Discovery, the enrollment's own refresh and `GET /v1/intercoms` run
`TakeClient`, `Inventory`, `Provision`, each of which may fail.  A request resolves its alias and expected id
(`Resolve`, `ResolveCamera`), takes a client, verifies the device it finds and acts
(`Send`, `StreamGrant`), with one retry after a 401.  `effects` is history: what
Ring was made to do by a request, with which account, under which enrollment.

### CallSignaling

One call of a direct session, a relay or the canary.  The three share `Signaling` and
differ in `Hear`, `Fatal`, `Options`, `Reaction` and in when they are up.  Ring's
messages are arbitrary, also about another device (one that names no device counts as
the call's own, as in `decode_signal`).  `Prepare` and `Connect` build peer and socket and
fail at any point, also in the middle of building the peer, which nobody closes then; `React` sends what is due and may fail after any part of it;
`Cancelled` drops a negotiation, `Abort` a relay's task.  `Arm`, `NotifyWaiters` and
`PeerConnects` split the wait for the peer's connection into registering, looking at
the flag and waiting, against storing the flag and waking.  `SenderStarts` to
`SenderWrite` are the detached audio task.

### How they fit together

Each module takes the others' promises as its environment: `RuntimeInventory` and
`PushRegistration` take the enrollment as one step under the write guard, which
`RingAccount` justifies (`NoStaleClient`, proved under `SafeDrops`: the handler that is
dropped at `ring_enrollment.rs:130` is in that module only); `HistoryWatch` publishes in one
step, which `PushEvents` justifies (`UnlockOnce`, `FeedSpec`); `CallSignaling` has one
call per device, which `AudioSessions` justifies (`OneCallPerGate`); `AudioSessions`
takes a worker's end as an event that comes once the handshake is over, which
`CallSignaling` justifies (`MediaEnds`).

## 3. Runs

| Run | Shows | Instance | States |
| --- | --- | --- | --- |
| `account_safety` | no stale client, enrollment kept, token durable before use, rotation accounted for, refusal remembered, challenge used once | 2 tasks, 2 clients, 3 tokens, 2 enrollments | 1,426,394 |
| `account_liveness` | every waiter for the lifecycle lock is served | 2 tasks, 2 tokens, 1 enrollment | 62,279 |
| `audio_safety` | one call per device, permits backed or leaked by a dropped start, acknowledged means hung up, failed starts stop | 2 direct sessions, 2 relays, 2 DELETEs, configured device | 557,933 |
| `audio_liveness` | one call per gate, permits return but in three named cases, calls end | 1 direct, 1 relay, 1 DELETE, 2 runtimes, discovered device | 49,723 |
| `push_events` | refinement of the feed, no lost wake-up, unlock kept once | 1 consumer, 2 publishers, limit 2, 3 + 1 events in 2 generations | 1,137,886 |
| `push_registration` | hand-off current, no foreign token in the record, make-before-break, a hand-off of the present enrollment is reached and stays | 4 registrations, 2 inventories, rotation after 1 | 206,032 |
| `recordings` | listed has media, media accounted for, readers served, limit, deleted stays gone | 2 requests, 2 recordings, room for one, 2 faults, 3 seconds | 1,125,349 |
| `history` | unlocks reported, not replayed, acknowledged means published, a miss once and never against a push | 1 or 2 Intercoms with two rings, two unlocks or one, 5 seconds, 1 fault | 2,926,848 |
| `inventory` | right door, told alias leads, routes follow the enrollment; limits | 2 Intercoms, 2 cameras, 2 accounts, 2 configurations, worker, enrollment, listing, request, 1 change | 559,885 |
| `signaling` | call sound, torn down, no lost connect, media ends | 3 users, 8 messages, 2 candidates | 70,877 |
| `account_busy` | what the code does against a document (section 5) | 2 tasks, 1 enrollment | |
| `account_refused` | the same, of refused tokens and restarts (section 5) | 2 tasks, 2 clients, 2 tokens, 1 enrollment | |

Each property of a passing run has a mutant: a changed form of one definition,
defined in front of it, under which the run finds the property violated.  The type
invariants are theorems and are not run, except those of `HistoryWatch` and
`RuntimeInventory`, which contain the limits of the watchdog's memory, of the routes and
of the camera managers.

### Bounds

- Two tasks are enough for each race between an enrollment and a request, and
  between two requests on one client; a restart renews them.  Three tokens allow a
  rotation before and after an enrollment, two enrollments allow one to replace
  another and one challenge to be used after another was dropped.
- Sessions are named in advance and used once, like the code's random ids.  Two of
  each kind let any two kinds meet at the gate while a third waits.  Two runtimes
  are one rebuilt route.  The instances end when the sessions are used up, so
  these runs have `CHECK_DEADLOCK FALSE`.
- The queue's limit is 2 and the first generation gets 3 events: it evicts.  The
  second generation gets one: a consumer with an old cursor has something to lose.
  Two unlocks are exactly as far apart as the comparison allows.  One consumer is
  enough, since consumers share nothing they write; the proofs are for any number.
  The publishers stop at the bound, hence `CHECK_DEADLOCK FALSE`.
- When a registration is made, the file, the client and Ring's record can hold three
  different ones, so the fourth is always new: none of the run's registrations fails for
  want of one.  The safety properties are theorems for any number.  Two inventories are one
  change and back.  The rotation threshold is 1 instead of the code's 3; only that it
  is reached matters.
- Two recordings of two bytes and an archive of three make every second upload clean
  up; two requests are one that removes while the other reads, lists or cleans up.
  Two faults are a failure and a crash, or a failure of the undo of a failure.
- The windows of `history` are scaled so that each pair of limits that the code
  compares (match window and grace, observation age and retention, late tolerance and
  poll) keeps its order, and records lie on both sides and on the edge of each.  The clock
  runs long enough for a push to pass its retention.  Of the two unlocks the older is
  within the late tolerance of the newer in one world and past it in another, so that
  the newer one raises the floor past the older.  The memory holds one ring where an
  Intercom has two.  The clock stops at the bound, hence
  `CHECK_DEADLOCK FALSE`.
- In `inventory` one configuration has an unbound alias and the other gives one device
  the name that discovery would give the other, which is the conflict the code refuses.
  The two accounts may hold different or the same devices.  Tasks are used once.
- Eight messages are enough for every order of session, answer, camera and close with
  repetitions and foreign ones between; two candidates reach the limit.

### Fairness

- `RingAccount`: a running task runs on and every vendor call ends (the HTTP client
  has connect and total timeouts); lock and mutex are FIFO, so a waiter at the head
  is served (`SF` on `LockState` because others come and go); no caller uses one
  client for ever (`SF` on `ReleaseClient`).  Nothing is assumed of peers,
  deadlines or restarts.
- `AudioSessions`: from the offer on, everything a worker does has a deadline in the
  code, and so has everything a front waits for but its client (`WF` on `Prompt` and on
  the fronts that are not `Blocked`); `tokio::select!` chooses at random, hence `SF` on
  seeing that the relay's worker ended.  Not assumed: that Ring answers a handshake
  (`connect_async` has no timeout) or that a relay's client takes what it is sent
  (`ring_relay_api.rs:122` has none either).  `PermitReturned` says what these two, and a
  start dropped before its table entry, cost; without any one of the three disjuncts
  it is violated.
- `PushRegistration`: the worker loop, the handlers and the select over the reload
  channel are scheduled (`WF`).  Ring, Google and the disk do not refuse for
  ever: each step of the hand-off that is tried again and again succeeds at some
  time (`SF`).  Nothing else is assumed to succeed; in particular a rotation
  need never succeed, and connections may drop for ever.
- `RuntimeInventory`: tasks run on (`WF`), and neither Ring refuses the worker's
  discovery nor the disk the archive of what it found for ever (`SF`); the worker
  retries without limit.
- `CallSignaling`: tasks run on and requests over HTTP end (`WF`); the handshake of the
  WebSocket (`ring_signaling.rs:50`) has no timeout and need never end; `tokio::select!` and the
  `while` of the audio task look at a timer that has fired (`SF` on `Expire` and
  `SenderDone`).  Nothing is assumed of Ring.

## 4. Proofs

All theorems are proved for every value of the constants.

**RingAccountProofs.** `LockInv` says who holds which guard: writers exclude
readers, a held client is the cached one and is held under a read guard, handlers
work under the write guard.  With it `TypeOK` is inductive (`TypeCorrect`).  On
top, `EnrollInv`: hardware ids are used in the order they are drawn (`IdInv`); the
id of a flow without a session is on no disk and in no client (`UnusedInv`); the
cached client is of the last enrollment unless that enrollment's handler still
holds the write guard (`FreshInv`); a challenge whose code was sent is not pending
(`SpentInv`).  `NoStaleClient` and `EnrollmentSticks` follow
(`ClientsAreFresh`, `EnrollmentIsKept`) under the assumption `SafeDrops`: no
handler is dropped between storing a session and resetting the provider.  The
strengthening is needed because neither property says anything of the moment
between the write of the file and the reset.  That the assumption is needed, too,
can be seen by adding `"completed"` to the drop points (section 5).
`ChallengesAreUsedOnce` needs no
assumption on disconnections.

The refresh token has an invariant of its own, `TokenInv`, which needs no assumption on
disconnections either.  Sessions in use have drawn ids and issued tokens
(`SessionInv`); a client that owes nothing is not ahead of it (`OwedInv`), and one whose
token is being presented or used owes nothing (`OwnerInv`, because the state mutex has one
owner); the cached client has the token Ring accepts unless an answer was lost
(`AccountedInv`); a refused token that this run of the process knows of is that of a client
in its retry window, or of no client and then not the file's (`QuietInv`), which is why a
client that is built from the file after a reset does not present it either.
`TokensAreDurable`, `RotationsAreAccounted` and `RefusalsAreRespected` follow; the last is
about one run of the process, and `account_refused` shows that it cannot be about more.  `RotationAccounted` alone is not inductive: it says nothing
of a client that is in memory and owes nothing, whose next rotation starts from its own
token and not from the file's.

**AudioSessionsProofs.** `GateInv` ties a permit to its session: a reserved front
and a running worker own their gate, an aborted relay's front is past its loop, a
worker that has not ended while another session could enter is covered by the
cooldown.  `GateAdmitsOne` follows for any number of sessions and any drops.
`PermitsAreBacked` holds wherever handlers are dropped: a permit has a task that will
return it or is `Leaked`, and only a direct start that was dropped before its table entry
is that.  `ConfiguredDevice` assumes
`Configured`: then there is one runtime, hence one call per device.  `AcksAreTrue`
assumes it too, since a DELETE looks in the table of the runtime its alias leads to now:
`DeleteInv` says that a direct session is in that table until its call is over, and says
done only after that.  `FailedStartsStop` needs no assumption: `StopInv` follows a start
that gave up to the cancellation of its worker, also when the timeout wins against a
worker that has just come up.

**PushEventsProofs.** `Inv`: a queue has dropped exactly what exceeds the limit,
publishers and requests hold queues that exist, cursors are not ahead of their
queue.  `WakeInv` strengthens `NoLostWakeup` to every point from the subscription
on, also for the channel's value; it needs that the newest event is always
retained.  `ImplementsFeed` is step simulation: `Push` is `Publish`, `LiveTail` is
`Join`, `Read` is `Take`, everything else leaves the feed alone.

**PushRegistrationProofs.** `Inv` has four parts: which registrations an attempt
holds at which point, with an empty file while the first one is made
(`AttemptInv`); that the last complete hand-off is that of the attempt
(`HandedInv`); that a hand-off which is no longer of now has a reload behind it or
on its way (`ReloadInv`); and that client and record remember the attempt's token
or none (`RecordInv`).  The four theorems follow in a step each.

**RecordingStoreProofs.** `DrawnInv`: every id on disk, in a request or in the history
was drawn.  `OwnInv`: while an upload is between its files nobody else has its id, and
none was removed, so nobody can take its media file away before the manifest is there.
`FileInv`: which manifest has its file, which file its manifest, and what the
exceptions are.  The four properties are false of single steps without `OwnInv`: a
reader or a cleanup could hold the id of a half-written recording.

`ArchiveFits` (`ArchiveStaysWithinLimit`) is about uploads that overlap without a lock:
each cleans up what it found, and none finds everything.  The argument is that openings
of the directory are ordered: of two tasks, the later found all that is left of what the
earlier found (`NestInv`).  `SweptInv` says that there is a set `C`, what the latest
cleanup that ended had found, of which what is left fits; whatever else is listed has its
cleanup ahead or failed it; and `C` is nested with what every running cleanup found.  A
cleanup that ends either found less than `C`, and nothing changes, or more, and becomes
the new `C`, because what it found and did not remove is in its listing (`ScanInv`) and
the listing fits.  `Total` counts bytes one by one instead of folding a sum, so that the
theorems on cardinality give the only fact needed of it: a part has no more bytes than
the whole.

**CallSignalingProofs.** `Dialogued` relates the stages to the point where the worker
is: activation comes after session and answer, and where a call counts as up its camera
has the options.  `Owned` says what is open where, and that a peer which nobody closed is
one whose construction failed, before there was a socket or an audio task.  `LateInv` says that a sample after
the end is the one that was on its way.  `WaitInv` is `NoLostConnect` with the order of
flag and announcement.  `CallsAreSound`, `WorkersTearDown`, `ConnectionsAreNoticed`
follow for any limits.

**RuntimeInventoryProofs.** `IndInv`: a held client is of the enrolled account
(`ClientInv`, because `Enroll` waits for the guards); what a refresh is about to publish
is that account's and within the limit (`SeenInv`); every route leads to what its alias
means, which configuration and naming fix for ever, so that a route read before an await
is still right after it although `provision_intercoms` ran meanwhile (`RouteInv`); a
request knows what it must find and, from `verify` on, has found it (`WantInv`); effects
happen when the request has acted and only then (`EffectInv`).  `RequestsReachTheirDevice`
and `ToldAliasesLead` follow for any configurations, accounts, devices and tasks.  Assumed
of the constants is that an account's inventory is finite (`InventoryAssumption`).

**HistoryWatchProofs.** Three arguments share `IndInv`.

- *Unlocks.*  A cursor's floor is raised by a page to `Late` behind the page's newest
  unlock (`Raised`, in `CursorInv`), and Ring may index anything behind it afterwards.
  `FloorInv`: below the floor, the history has nothing the cursor has not seen, but what
  is `overdue`, or `Deep`, that is, has a full page of newer records before it and will not
  be shown again.  `PageInv` says the same of a page that was read and not handled, while
  Ring goes on indexing.  `UnlockReported` needs both, because the set of seen ids is
  replaced by every page.  `ReplayInv` separates lives: what was published earlier is not
  younger than the start, what the poll publishes is not older.
- *Acknowledgements.*  `AckInv`: connection and file leave out only Intercoms that have
  left the queue map.  An earlier form of `AckedWasPublished` allowed only for the
  Intercoms outside the map *now*.  It passed with one fault and was not inductive: an
  Intercom leaves the map, the worker connects without it and acknowledges its message
  unpublished, a restart brings it back.  That takes two faults.  The code does this on
  purpose (a message for nobody is not asked for again), so the property now says *at some
  time* (`gone`).
- *Rings.*  `MissInv`: a ring that was reported is remembered as judged or too old to be
  read again.  `PushInv`: the push of a ring is remembered until the ring is judged or too
  old.  They rest on `WindowAssumption`: the retention is at least the match window and
  the longest time a ring may wait for its judgement, which holds of the code's constants
  (7200 s against 90 + 120 and 90 + 3600 + 15).  Without it a push could be forgotten
  before its ring is judged.

Only model-checked: the liveness properties (`GuardGranted`, `PermitReturned`,
`CallEnds`, `HandedOver`, `RoutesFollow`, `MediaEnds`), since fairness and ENABLED are out
of the prover's reach.

## 5. Where code and documents differ

`account_busy` is a run that must find its property violated: `start` sets
`in_flight` and clears it only after the password grant; a handler dropped in between
leaves every later start at 409, which `openapi.yaml` explains as "Another enrollment
is active".

`account_refused` is another: `docs/OPERATIONS.md:204` and `openapi.yaml:183` say that the
bridge does not present a rejected token again for 15 minutes.  The window is a field of
the client (`reauth_until`), so a restart forgets it and the first request presents the
token from the file.  What holds is `RefusalRemembered`: one run of the process does not.

Observed while modelling, with the change of a run's constants that shows it:

- `start` stores the new session and then waits for the state mutex; if that is
  contended (a concurrent cancel) and the peer disconnects, the provider is never reset
  and the old client writes its session over the new (`ring_enrollment.rs:130`;
  `"completed"` among the drop points of `account_safety` breaks `EnrollmentSticks`).
- A discovered device that one inventory omits and the next reports gets a second gate,
  and a second call beside the first, although relay and direct calls "share one
  per-device slot" (`docs/OPERATIONS.md:122`; `Configured = FALSE` and two runtimes in
  `audio_safety` break `OneCallPerDevice`).

Observed without a run:

- A relay worker that does not stop within five seconds is aborted, and the cooldown
  committed, without signaling or peer being closed
  (`docs/adr/0015-native-apple-audio-relay.md:38` says "always"); its audio task goes on
  sending silence until its own deadline.
- The relay awaits its send without a deadline, so a client that takes nothing keeps the
  device beyond the documented 120 seconds (`docs/openapi/audio-paths.yaml:47`; `Blocked`
  in `PermitReturned`).
- The WebSocket handshake has no timeout (`ring_signaling.rs:50`).  `START_TIMEOUT` ends it
  for a direct session whose consumer waits; a direct session whose consumer has gone, a
  relay and the canary wait as long as the connection does (`Forsaken` in
  `PermitReturned`, and the second disjunct of `MediaEnds`).
- `MediaPeer::build_on` returns without `close` when a track cannot be added to the peer it
  has built (`ring_media_peer.rs:118-125`; the peer `"dropped"` in `TornDown`).
- The cursor's floor drops an unlock that Ring indexes behind one newer by more than
  `LATE_TOLERANCE`, although it is not older than the start; its own test expects that
  (`ring_unlock_watch.rs:216`).
- Times are whole seconds: an unlock of the second in which the process starts may have
  been published before the restart and is published again (`>=` at
  `ring_unlock_watch.rs:56`), where its comment says that "restarts do not repeat
  notifications" (`NotReplayed` allows for that second).
- An archive directory that is not a proper directory fails the whole discovery, for all
  Intercoms, at each attempt (`ring_device_runtime.rs:52`).
- An enrollment whose consumer disconnects before the refresh leaves the routes of the
  previous account, and nothing wakes the discovery worker (`ring_enrollment_api.rs:46`;
  this is the exception in `RoutesFollow`).  Requests are still refused rather than sent
  elsewhere (`RightDoor`).
- A relay gives its client back once it has its ticket (`ring_relay_worker.rs:75`), so an
  enrollment may come between the ticket and the call made with it; direct and camera
  calls keep their client until they are up.
- An unlock is sent again after a 401 (`ring_control_provider.rs:188`), where `README.md`
  says it is "never retried"; it takes effect once (`RightDoor`).
- A queue that is rebuilt starts with an empty watchdog, so a ring that push delivered to
  the old queue is reported as missed by the new one; `PushedNotMissed` is about one
  queue.  A poll in which one of two Intercoms fails knows one device only and feeds the
  alias queue.  An Intercom that fails in the first cycle only starts one poll back and
  misses what happened before.
- If the camera connects before the session is created the canary never sends camera
  options.
- `camera_sessions` keeps a manager for every camera ever called; at the limit new
  cameras are refused until a restart.
- An expired challenge stays in memory until the next call looks at it; a DELETE between
  a worker's removal from the table and its release of the gate is answered before the
  cooldown starts; a start dropped exactly at a contended table mutex leaks its permit
  (`ring_audio_manager.rs:99`; `Leaked` in `PermitBacked` and `PermitReturned`); a session registration whose PATCH fails leaves Ring's record empty while the worker
  listens on.

## 6. What is left out

- Payload parsing and validation, wire formats, close reasons, metrics, logging:
  sequential, without shared state, unit-tested.
- Opus and RTP, the WebRTC library, the FCM library's protocol: third-party; only
  their outcomes (success, failure, lost answer) are modelled.
- Durations.  Deadlines may pass at any moment; what must hold only because one
  limit is longer than another is not covered, except that an aborted task is
  dropped before its cooldown ends.
- Power loss: the recording directory is not synced after a rename; the models' crashes
  are of the process.  Symbolic links, permissions and damaged manifests.
- The legacy device record of push, the reauth gauge and backoff lengths of the poll, the
  cache of resolved Intercoms for the unbound alias (which is never renewed), more than
  one queue of rings at the watchdog's limit of push times.
- Location names, response shaping and single-request diagnostics (the API canary, the
  activity and settings probes, protocol research).
- Overflow: sequence numbers are 64 bits and saturate; a queue would have to be
  given 2^64 events.
