----------------------------- MODULE RingAccount -----------------------------
(***************************************************************************)
(* The account side of the bridge: the lifecycle lock that separates       *)
(* enrollment from every user of a Ring client (ring_provider.rs), the     *)
(* cached client with its OAuth rotation (ring_client.rs,                  *)
(* ring_oauth_refresh.rs), the session file both of them write             *)
(* (ring_session.rs), and the enrollment manager with its HTTP handlers    *)
(* (ring_enrollment.rs, ring_enrollment_api.rs).                           *)
(*                                                                         *)
(* A process is a task of the bridge: an HTTP handler or a background      *)
(* worker.  One step is the code between two await points.  Deadlines      *)
(* (access expiry, the reauth window, challenge TTL, start cooldown) are   *)
(* environment steps that may come at any moment.  Tokens are numbered in  *)
(* the order Ring issues them, hardware ids in the order they are drawn.   *)
(***************************************************************************)
EXTENDS Naturals, FiniteSets, SequencesExt

CONSTANTS Procs,           \* tasks: HTTP handlers and background workers
          Clients,         \* identities of RingClient states in memory
          NoProc, NoClient,
          MaxTokens,       \* bound: refresh tokens Ring issues
          MaxEnrollments,  \* bound: hardware ids drawn by enrollment starts
          DropPoints       \* await points where the peer may disconnect

ASSUME NoProcAssumption == NoProc \notin Procs
ASSUME NoClientAssumption == NoClient \notin Clients
ASSUME BoundAssumption == /\ MaxTokens \in Nat \ {0}
                          /\ MaxEnrollments \in Nat \ {0}

VARIABLES
    file,             \* the session file: hardware id and refresh token, or NoSession
    valid,            \* Ring: the refresh token it accepts, by hardware id
    issued,           \* Ring: number of refresh tokens issued
    lastHw,           \* hardware ids drawn so far
    queue,            \* lifecycle RwLock: tasks waiting, in arrival order
    readers,          \* lifecycle RwLock: holders of a read guard
    writer,           \* lifecycle RwLock: holder of the write guard
    slot,             \* RingProvider.client, the cached client
    session,          \* ClientState.session of every client in memory
    access,           \* clients with a good access token
    registered,       \* clients with a registered Ring session
    reauth,           \* clients whose refusal window runs (reauth_until)
    rotationPending,  \* clients that owe their rotated token to the file
    owner,            \* holder of a client's state mutex
    pc, op,           \* where a task is, and on whose behalf
    held,             \* the client a task holds
    attempt,          \* pass of a task's retry loop
    hw,               \* hardware id of a task's enrollment flow
    pending,          \* EnrollmentState.pending: hardware id of the challenge, or 0
    expired,          \* the pending challenge is past its TTL
    cooldown,         \* last_start is less than START_COOLDOWN ago
    inFlight,         \* EnrollmentState.in_flight
    enrolled,         \* history: hardware id of the last session enrollment stored
    refused,          \* history: refresh tokens Ring refused less than 15 minutes ago
    quiet,            \* history: those whose refusal this run of the process was told
    spent,            \* history: challenges whose code went to Ring
    lost              \* history: hardware ids whose rotated token never reached the file

ringVars   == <<valid, issued>>
diskVars   == <<file, ringVars, lastHw>>
lockVars   == <<queue, readers, writer>>
flagVars   == <<access, registered, reauth, rotationPending>>
clientVars == <<slot, session, flagVars>>
enrollVars == <<pending, expired, cooldown, inFlight>>
ghostVars  == <<enrolled, refused, quiet, spent, lost>>
procVars   == <<pc, op, held, attempt, hw>>
vars == <<diskVars, lockVars, clientVars, owner, procVars, enrollVars, ghostVars>>

-----------------------------------------------------------------------------
Session == [hw : Nat, token : Nat]
NoSession == [hw |-> 0, token |-> 0]

CallOps == {"discovery", "vendor"}

\* Where a task may be: not running; waiting for the lifecycle lock; holding its
\* guard; between two requests; waiting for the state mutex; in one request (4);
\* in the password grant; at the second critical section of a start, by outcome
\* (3); in the code's grant; about to reset the provider.
Points == {"idle", "queued", "granted", "held", "locking",
           "auth", "refresh", "register", "request",
           "password", "challenged", "completed", "failed", "otp", "reset"}

Init ==
    /\ file \in {NoSession, [hw |-> 1, token |-> 1]}
    /\ valid = [h \in 1..MaxEnrollments |-> IF h = file.hw THEN file.token ELSE 0]
    /\ issued = file.token /\ lastHw = file.hw
    /\ queue = <<>> /\ readers = {} /\ writer = NoProc
    /\ slot = NoClient
    /\ session = [c \in Clients |-> NoSession]
    /\ access = {} /\ registered = {} /\ reauth = {} /\ rotationPending = {}
    /\ owner = [c \in Clients |-> NoProc]
    /\ pc = [p \in Procs |-> "idle"]
    /\ op = [p \in Procs |-> "discovery"]
    /\ held = [p \in Procs |-> NoClient]
    /\ attempt = [p \in Procs |-> 0]
    /\ hw = [p \in Procs |-> 0]
    /\ pending = 0 /\ expired = FALSE /\ cooldown = FALSE /\ inFlight = FALSE
    /\ enrolled = file.hw /\ refused = {} /\ quiet = {} /\ spent = {} /\ lost = {}

-----------------------------------------------------------------------------
(* RingSessionStore::persist: temporary file, fsync, rename, directory     *)
(* fsync.  A failure before the rename leaves the file alone, a failure of *)
(* the last fsync is reported although the file was replaced.              *)
Persist(s, ok) == file' \in IF ok THEN {s} ELSE {file, s}

SessionOf(p) == session[held[p]]

\* The task lets go of the state mutex of its client.
FreeOwner(p) == owner' = [c \in Clients |-> IF owner[c] = p THEN NoProc ELSE owner[c]]

Goto(p, point) == pc' = [pc EXCEPT ![p] = point]

\* The task's future is done or dropped: every guard it owns goes with it.
Finish(p) ==
    /\ Goto(p, "idle")
    /\ op' = [op EXCEPT ![p] = "discovery"]
    /\ held' = [held EXCEPT ![p] = NoClient]
    /\ attempt' = [attempt EXCEPT ![p] = 0]
    /\ hw' = [hw EXCEPT ![p] = 0]
    /\ readers' = readers \ {p}
    /\ writer' = IF writer = p THEN NoProc ELSE writer
    /\ FreeOwner(p)

\* A request on a client is over, well or badly; the task still holds the client.
EndRequest(p) ==
    /\ Goto(p, "held")
    /\ FreeOwner(p)
    /\ UNCHANGED <<op, held, attempt, hw>>

\* The task goes on to another point with all it holds.
Continue(p, point) ==
    /\ Goto(p, point)
    /\ UNCHANGED <<op, held, attempt, hw, owner>>

\* The same, for a task that runs under a lifecycle guard and no client.
Proceed(p, point) == Continue(p, point) /\ UNCHANGED <<readers, writer>>

-----------------------------------------------------------------------------
(* RingProvider: the fair lifecycle lock and the cached client.            *)

\* A task joins the lock's queue for an operation k on the enrollment of h.
Enqueue(p, k, h) ==
    /\ Goto(p, "queued")
    /\ op' = [op EXCEPT ![p] = k]
    /\ hw' = [hw EXCEPT ![p] = h]
    /\ queue' = Append(queue, p)
    /\ UNCHANGED <<diskVars, readers, held, attempt, session, flagVars, owner,
                   enrollVars, ghostVars>>

\* A task asks the provider for a client.
RequestClient(p) ==
    /\ pc[p] = "idle"
    /\ \E k \in CallOps : Enqueue(p, k, 0)
    /\ UNCHANGED <<writer, slot>>

\* POST /v1/enrollments: the handler asks for the write guard.
RequestStart(p) ==
    /\ pc[p] = "idle"
    /\ lastHw + Cardinality({q \in Procs : op[q] = "start"}) < MaxEnrollments
    /\ Enqueue(p, "start", 0)
    /\ UNCHANGED <<writer, slot>>

\* POST /v1/enrollments/{id}, with the id of any enrollment started so far.
RequestVerify(p) ==
    /\ pc[p] = "idle"
    /\ \E h \in 1..lastHw : Enqueue(p, "verify", h)
    /\ UNCHANGED <<writer, slot>>

\* Mutation: a reader does not wait for the writer.
AdmitsReaderEarly(p) == op[p] \notin CallOps => writer = NoProc /\ readers = {}

\* Whether the lock admits the task at the head of the queue.
Admits(p) ==
    /\ writer = NoProc
    /\ op[p] \notin CallOps => readers = {}

\* tokio's RwLock hands itself to waiters strictly in arrival order.
Grant(p) ==
    /\ pc[p] = "queued" /\ queue # <<>> /\ Head(queue) = p
    /\ Admits(p)
    /\ queue' = Tail(queue)
    /\ IF op[p] \in CallOps
          THEN readers' = readers \cup {p} /\ UNCHANGED writer
          ELSE writer' = p /\ UNCHANGED readers
    /\ Continue(p, "granted")
    /\ UNCHANGED <<diskVars, clientVars, enrollVars, ghostVars>>

\* RingClient::build: a client starts from the stored session, unauthenticated,
\* in memory that no task refers to.
Build(c) ==
    /\ \A q \in Procs : held[q] # c
    /\ slot' = c
    /\ session' = [session EXCEPT ![c] = file]
    /\ access' = access \ {c} /\ registered' = registered \ {c}
    /\ reauth' = reauth \ {c} /\ rotationPending' = rotationPending \ {c}

\* RingProvider::client under its read guard: the cached client, or one built
\* from the session file; a missing or unreadable file fails the call.
GetClient(p) ==
    /\ pc[p] = "granted" /\ op[p] \in CallOps
    /\ \/ /\ slot # NoClient
          /\ Goto(p, "locking") /\ held' = [held EXCEPT ![p] = slot]
          /\ UNCHANGED <<clientVars, op, attempt, hw, owner, readers, writer>>
       \/ /\ slot = NoClient /\ file # NoSession
          /\ \E c \in Clients :
                Build(c) /\ Goto(p, "locking") /\ held' = [held EXCEPT ![p] = c]
          /\ UNCHANGED <<op, attempt, hw, owner, readers, writer>>
       \/ /\ slot = NoClient
          /\ Finish(p)
          /\ UNCHANGED clientVars
    /\ UNCHANGED <<diskVars, queue, enrollVars, ghostVars>>

\* The last clone of the scoped client is dropped, and the read guard with it.
ReleaseClient(p) ==
    /\ pc[p] = "held"
    /\ Finish(p)
    /\ UNCHANGED <<diskVars, queue, clientVars, enrollVars, ghostVars>>

\* Another request with the client the task already holds.
NextRequest(p) ==
    /\ pc[p] = "held"
    /\ Goto(p, "locking")
    /\ \E k \in CallOps : op' = [op EXCEPT ![p] = k]
    /\ attempt' = [attempt EXCEPT ![p] = 0]
    /\ UNCHANGED <<diskVars, lockVars, clientVars, owner, held, hw, enrollVars, ghostVars>>

-----------------------------------------------------------------------------
(* RingClient: one request, with the state mutex held over its awaits.     *)

LockState(p) ==
    /\ pc[p] = "locking" /\ owner[held[p]] = NoProc
    /\ owner' = [owner EXCEPT ![held[p]] = p]
    /\ Goto(p, "auth")
    /\ UNCHANGED <<diskVars, lockVars, clientVars, op, held, attempt, hw, enrollVars,
                   ghostVars>>

\* ensure_authenticated: a rotation that is not on disk yet is stored first.
FlushRotation(p) ==
    /\ pc[p] = "auth" /\ held[p] \in rotationPending
    /\ \E ok \in BOOLEAN :
          /\ Persist(SessionOf(p), ok)
          /\ IF ok THEN /\ rotationPending' = rotationPending \ {held[p]}
                        /\ UNCHANGED <<procVars, owner>>
                   ELSE EndRequest(p) /\ UNCHANGED rotationPending
    /\ UNCHANGED <<ringVars, lastHw, lockVars, slot, session, access, registered, reauth,
                   enrollVars, ghostVars>>

\* Mutation: a good access token is used while a rotation is owed to the file.
AccessGoodUnflushed(c) == c \in access

AccessGood(c) == c \notin rotationPending /\ c \in access

\* ensure_authenticated: the access token is still good.
UseAccess(p) ==
    /\ pc[p] = "auth" /\ AccessGood(held[p])
    /\ Continue(p, "register")
    /\ UNCHANGED <<diskVars, lockVars, clientVars, enrollVars, ghostVars>>

\* ensure_authenticated: Ring is not contacted while a refusal is recent.
StayQuiet(p) ==
    /\ pc[p] = "auth" /\ held[p] \notin rotationPending \cup access
    /\ held[p] \in reauth
    /\ EndRequest(p)
    /\ UNCHANGED <<diskVars, lockVars, clientVars, enrollVars, ghostVars>>

\* Mutation: the refusal is not remembered.
MayPresentRefused(c) == c \notin rotationPending \cup access

MayPresent(c) == c \notin rotationPending \cup access \cup reauth

\* ensure_authenticated: the session is stored, then the refresh token presented.
PresentToken(p) ==
    /\ pc[p] = "auth" /\ MayPresent(held[p])
    /\ \E ok \in BOOLEAN :
          /\ Persist(SessionOf(p), ok)
          /\ IF ok THEN Continue(p, "refresh") ELSE EndRequest(p)
    /\ UNCHANGED <<ringVars, lastHw, lockVars, clientVars, enrollVars, ghostVars>>

\* Ring accepts the current refresh token of a hardware id once and answers with
\* its successor.
Rotates(s) ==
    /\ s.hw \in 1..MaxEnrollments /\ s.token = valid[s.hw] /\ issued < MaxTokens
    /\ issued' = issued + 1
    /\ valid' = [valid EXCEPT ![s.hw] = issued + 1]

\* Mutation: rotation_pending is not set before the write.
OwesForgotten(c, ok) == rotationPending

\* accept_oauth sets rotation_pending before the write and clears it after.
Owes(c, ok) == IF ok THEN rotationPending \ {c} ELSE rotationPending \cup {c}

\* RingSession::replace_refresh_token, with the token Ring has just issued.
Successor(s) == [hw |-> s.hw, token |-> issued + 1]

\* accept_oauth: the token is replaced in memory, then on disk; the request goes
\* on only when the file was written.
RefreshGranted(p) ==
    /\ pc[p] = "refresh"
    /\ Rotates(SessionOf(p))
    /\ session' = [session EXCEPT ![held[p]] = Successor(@)]
    /\ access' = access \cup {held[p]}
    /\ reauth' = reauth \ {held[p]}
    /\ \E ok \in BOOLEAN :
          /\ Persist(Successor(SessionOf(p)), ok)
          /\ rotationPending' = Owes(held[p], ok)
          /\ IF ok THEN Continue(p, "register") ELSE EndRequest(p)
    /\ UNCHANGED <<lastHw, lockVars, slot, registered, enrollVars, ghostVars>>

\* Ring rotated the token, but its answer was lost, cut short or malformed.
RefreshLost(p) ==
    /\ pc[p] = "refresh"
    /\ Rotates(SessionOf(p))
    /\ EndRequest(p)
    /\ lost' = lost \cup {SessionOf(p).hw}
    /\ UNCHANGED <<file, lastHw, lockVars, clientVars, enrollVars, enrolled,
                   refused, quiet, spent>>

\* 401, or 400 with invalid_grant, justified or not.
RefreshRefused(p) ==
    /\ pc[p] = "refresh"
    /\ reauth' = reauth \cup {held[p]}
    /\ quiet' = quiet \cup {SessionOf(p).token}
    /\ refused' = refused \cup {SessionOf(p).token}
    /\ EndRequest(p)
    /\ UNCHANGED <<diskVars, lockVars, slot, session, access, registered, rotationPending,
                   enrollVars, enrolled, spent, lost>>

\* Transport error, timeout or another status before Ring touched the token.
RefreshFailed(p) ==
    /\ pc[p] = "refresh"
    /\ EndRequest(p)
    /\ UNCHANGED <<diskVars, lockVars, clientVars, enrollVars, ghostVars>>

\* invalidate_auth and the second pass of the retry loop.
Retry(p) ==
    /\ attempt[p] = 0
    /\ attempt' = [attempt EXCEPT ![p] = @ + 1]
    /\ access' = access \ {held[p]} /\ registered' = registered \ {held[p]}
    /\ Goto(p, "auth")
    /\ UNCHANGED <<op, held, hw, owner>>

\* ensure_registered: only the discovery loop retries a 401 of the registration.
Register(p) ==
    /\ pc[p] = "register"
    /\ \/ /\ registered' = registered \cup {held[p]}
          /\ Continue(p, "request")
          /\ UNCHANGED access
       \/ held[p] \notin registered /\ op[p] = "discovery" /\ Retry(p)
       \/ /\ held[p] \notin registered
          /\ EndRequest(p)
          /\ UNCHANGED <<access, registered>>
    /\ UNCHANGED <<diskVars, lockVars, slot, session, reauth, rotationPending, enrollVars,
                   ghostVars>>

\* The request itself: a first 401 is retried once with fresh credentials.
SendRequest(p) ==
    /\ pc[p] = "request"
    /\ \/ Retry(p)
       \/ EndRequest(p) /\ UNCHANGED <<access, registered>>
    /\ UNCHANGED <<diskVars, lockVars, slot, session, reauth, rotationPending, enrollVars,
                   ghostVars>>

-----------------------------------------------------------------------------
(* RingEnrollmentManager and its handlers, all under the write guard.      *)

\* expire_pending: a challenge past its TTL is dropped when somebody looks.
LivePending == IF expired THEN 0 ELSE pending

\* start: one flow at a time and a cooldown; then the password grant is sent.
StartCheck(p) ==
    /\ pc[p] = "granted" /\ op[p] = "start"
    /\ expired' = FALSE
    /\ IF LivePending # 0 \/ inFlight \/ cooldown
          THEN /\ pending' = LivePending
               /\ Finish(p)
               /\ UNCHANGED <<lastHw, cooldown, inFlight>>
          ELSE /\ lastHw < MaxEnrollments
               /\ pending' = 0 /\ cooldown' = TRUE /\ inFlight' = TRUE
               /\ lastHw' = lastHw + 1
               /\ hw' = [hw EXCEPT ![p] = lastHw + 1]
               /\ Goto(p, "password")
               /\ UNCHANGED <<op, held, attempt, owner, readers, writer>>
    /\ UNCHANGED <<file, ringVars, queue, clientVars, ghostVars>>

\* Ring opens a session for a hardware id and answers with its first refresh
\* token; persist_session stores it in the step that reads the answer.
StoreEnrolled(h, ok) ==
    /\ h \in 1..MaxEnrollments /\ issued < MaxTokens
    /\ issued' = issued + 1
    /\ valid' = [valid EXCEPT ![h] = issued + 1]
    /\ Persist([hw |-> h, token |-> issued + 1], ok)
    /\ enrolled' = IF ok THEN h ELSE enrolled

\* The password grant's answer: a challenge, a session, or an error (also an
\* answer that was lost or malformed after Ring opened the session).
PasswordAnswer(p) ==
    /\ pc[p] = "password"
    /\ \/ /\ \E point \in {"challenged", "failed"} : Proceed(p, point)
          /\ UNCHANGED <<file, ringVars, enrolled>>
       \/ \E ok \in BOOLEAN :
             /\ StoreEnrolled(hw[p], ok)
             /\ Proceed(p, IF ok THEN "completed" ELSE "failed")
    /\ UNCHANGED <<lastHw, queue, clientVars, enrollVars, refused, quiet, spent,
                   lost>>

\* start, second critical section: the flow ends, or waits for its code.
StartUpdate(p) ==
    /\ pc[p] \in {"challenged", "completed", "failed"}
    /\ inFlight' = FALSE
    /\ pending' = IF pc[p] = "challenged" THEN hw[p] ELSE pending
    /\ IF pc[p] = "completed" THEN Proceed(p, "reset") ELSE Finish(p)
    /\ UNCHANGED <<diskVars, queue, clientVars, expired, cooldown, ghostVars>>

\* Mutation: the challenge survives its verification.
ChallengeKept == pending

\* The state after the challenge was taken out.
ChallengeTaken == 0

\* verify: the challenge is taken out before any vendor I/O.
VerifyTake(p) ==
    /\ pc[p] = "granted" /\ op[p] = "verify"
    /\ expired' = FALSE
    /\ IF LivePending = hw[p]
          THEN /\ pending' = ChallengeTaken
               /\ spent' = spent \cup {hw[p]}
               /\ Proceed(p, "otp")
          ELSE /\ pending' = LivePending
               /\ Finish(p)
               /\ UNCHANGED spent
    /\ UNCHANGED <<diskVars, queue, clientVars, cooldown, inFlight, enrolled,
                   refused, quiet, lost>>

\* The code's answer: a stored session, or an error that ends the flow.
OtpAnswer(p) ==
    /\ pc[p] = "otp"
    /\ \/ \E ok \in BOOLEAN :
             /\ StoreEnrolled(hw[p], ok)
             /\ IF ok THEN Proceed(p, "reset") ELSE Finish(p)
       \/ Finish(p) /\ UNCHANGED <<file, ringVars, enrolled>>
    /\ UNCHANGED <<lastHw, queue, clientVars, enrollVars, refused, quiet, spent,
                   lost>>

\* Mutation: the handler leaves the old client in the provider.
ResetClientMissing(p) ==
    /\ pc[p] = "reset"
    /\ writer' = NoProc
    /\ Enqueue(p, "discovery", 0)
    /\ UNCHANGED slot

\* Mutation: refresh_intercoms is called before the guard is dropped.
ResetClientHolding(p) ==
    /\ pc[p] = "reset"
    /\ slot' = NoClient
    /\ Enqueue(p, "discovery", 0)
    /\ UNCHANGED writer

\* The handlers' tail: provider.reset, drop the guard, then refresh_intercoms,
\* which asks for a client like any other caller.
ResetClient(p) ==
    /\ pc[p] = "reset"
    /\ slot' = NoClient
    /\ writer' = NoProc
    /\ Enqueue(p, "discovery", 0)

\* DELETE /v1/enrollments/{id}: takes no lifecycle guard.
CancelEnrollment ==
    /\ pending # 0
    /\ pending' = 0 /\ expired' = FALSE
    /\ UNCHANGED <<diskVars, lockVars, clientVars, owner, procVars, cooldown, inFlight,
                   ghostVars>>

-----------------------------------------------------------------------------
(* The environment: deadlines, disconnecting peers, process loss.          *)

\* A deadline kept by a client: access expiry, session lifetime, reauth window.
\* The window of a refusal only an earlier run of the process was told ends too.
ClientDeadline ==
    /\ \E c \in Clients :
          /\ access' \in {access, access \ {c}}
          /\ registered' \in {registered, registered \ {c}}
          /\ \/ /\ reauth' = reauth \ {c}
                /\ quiet' = quiet \ {session[c].token}
                /\ refused' = refused \ {session[c].token}
             \/ /\ refused' \in {refused} \cup {refused \ {n} : n \in refused \ quiet}
                /\ UNCHANGED <<reauth, quiet>>
    /\ UNCHANGED <<diskVars, lockVars, slot, session, rotationPending, owner, procVars,
                   enrollVars, enrolled, spent, lost>>

\* A deadline kept by the enrollment manager: challenge TTL or start cooldown.
EnrollmentDeadline ==
    /\ \/ pending # 0 /\ expired' = TRUE /\ UNCHANGED cooldown
       \/ cooldown' = FALSE /\ UNCHANGED expired
    /\ UNCHANGED <<diskVars, lockVars, clientVars, owner, procVars, pending, inFlight,
                   ghostVars>>

\* The HTTP peer disconnects: axum drops the handler's future where it awaits.
\* EnrollmentState.in_flight is not a guard and stays as it is.
Disconnect(p) ==
    /\ pc[p] \in DropPoints
    /\ IF pc[p] = "queued"
          THEN \E i \in 1..Len(queue) : queue[i] = p /\ queue' = RemoveAt(queue, i)
          ELSE UNCHANGED queue
    /\ Finish(p)
    /\ UNCHANGED <<diskVars, clientVars, enrollVars, ghostVars>>

\* The process dies and is started again; the file and Ring's view remain.
\* reauth_until is kept in memory only, so the new process does not know that the
\* token in the file was refused; the others are in nobody's hands any more.
Restart ==
    /\ queue' = <<>> /\ readers' = {} /\ writer' = NoProc
    /\ slot' = NoClient
    /\ session' = [c \in Clients |-> NoSession]
    /\ access' = {} /\ registered' = {} /\ reauth' = {} /\ rotationPending' = {}
    /\ owner' = [c \in Clients |-> NoProc]
    /\ pc' = [p \in Procs |-> "idle"]
    /\ op' = [p \in Procs |-> "discovery"]
    /\ held' = [p \in Procs |-> NoClient]
    /\ attempt' = [p \in Procs |-> 0]
    /\ hw' = [p \in Procs |-> 0]
    /\ pending' = 0 /\ expired' = FALSE /\ cooldown' = FALSE /\ inFlight' = FALSE
    /\ quiet' = {} /\ refused' = refused \cap {file.token}
    /\ lost' = lost \cup (IF slot \in rotationPending THEN {session[slot].hw} ELSE {})
    /\ UNCHANGED <<diskVars, enrolled, spent>>

-----------------------------------------------------------------------------
\* What a running task does next on its own, with the answers it gets from Ring.
Call(p) ==
    \/ GetClient(p) \/ NextRequest(p) \/ FlushRotation(p)
    \/ UseAccess(p) \/ StayQuiet(p) \/ PresentToken(p)
    \/ RefreshGranted(p) \/ RefreshLost(p) \/ RefreshRefused(p) \/ RefreshFailed(p)
    \/ Register(p) \/ SendRequest(p)

Enrollment(p) ==
    \/ StartCheck(p) \/ PasswordAnswer(p) \/ StartUpdate(p)
    \/ VerifyTake(p) \/ OtpAnswer(p) \/ ResetClient(p)

Next ==
    \/ \E p \in Procs :
          \/ RequestClient(p) \/ RequestStart(p) \/ RequestVerify(p)
          \/ Grant(p) \/ LockState(p) \/ ReleaseClient(p)
          \/ Call(p) \/ Enrollment(p)
          \/ Disconnect(p)
    \/ CancelEnrollment \/ ClientDeadline \/ EnrollmentDeadline \/ Restart

Spec == Init /\ [][Next]_vars

\* A running task runs on and every vendor call ends (reqwest timeouts of 5 s and
\* 20 s); the lock and the mutex serve their waiters in FIFO order; no caller
\* makes requests with one client for ever.
Fairness ==
    \A p \in Procs : /\ WF_vars(Grant(p))
                     /\ WF_vars(Call(p))
                     /\ WF_vars(Enrollment(p))
                     /\ SF_vars(LockState(p))
                     /\ SF_vars(ReleaseClient(p))

FairSpec == Spec /\ Fairness

-----------------------------------------------------------------------------
(* Properties.                                                             *)

\* Every variable keeps its type; bounds are those of the guards.
TypeOK ==
    /\ file \in Session
    /\ valid \in [1..MaxEnrollments -> Nat]
    /\ issued \in Nat /\ lastHw \in Nat
    /\ queue \in Seq(Procs)
    /\ readers \subseteq Procs /\ writer \in Procs \cup {NoProc}
    /\ slot \in Clients \cup {NoClient}
    /\ session \in [Clients -> Session]
    /\ access \subseteq Clients /\ registered \subseteq Clients
    /\ reauth \subseteq Clients /\ rotationPending \subseteq Clients
    /\ owner \in [Clients -> Procs \cup {NoProc}]
    /\ pc \in [Procs -> Points]
    /\ op \in [Procs -> CallOps \cup {"start", "verify"}]
    /\ held \in [Procs -> Clients \cup {NoClient}]
    /\ attempt \in [Procs -> {0, 1}]
    /\ hw \in [Procs -> Nat]
    /\ pending \in Nat
    /\ expired \in BOOLEAN /\ cooldown \in BOOLEAN /\ inFlight \in BOOLEAN
    /\ enrolled \in Nat
    /\ refused \subseteq Nat /\ quiet \subseteq refused
    /\ spent \subseteq Nat /\ lost \subseteq Nat

\* Enrollment refreshes every scoped client: once an enrollment stored its
\* session, no task works with a client of an earlier one
\* (ring_provider.rs: client, reset; ring_enrollment_api.rs).
NoStaleClient ==
    \A p \in Procs : held[p] # NoClient => SessionOf(p).hw >= enrolled

\* A client of an earlier enrollment never writes its session over the one an
\* enrollment stored, although ensure_authenticated persists on every refresh.
EnrollmentSticks == file.hw >= enrolled

\* ensure_authenticated: whenever a request is sent with an access token, the
\* refresh token that came with it (or a later one) is already in the file.
DurableBeforeUse ==
    \A p \in Procs : pc[p] \in {"register", "request"} =>
        file.token >= SessionOf(p).token

\* The file holds the refresh token Ring accepts, or the client in memory still
\* owes it to the file (rotation_pending); the exceptions are an answer that
\* never arrived and a process that died while it owed the token.
RotationAccounted ==
    file # NoSession =>
        \/ file.hw \in lost
        \/ file.token = valid[file.hw]
        \/ /\ slot \in rotationPending
           /\ session[slot] = [hw |-> file.hw, token |-> valid[file.hw]]

\* Once this run of the process was told that Ring refuses a refresh token, none of
\* its tasks sends that token again before the window is over: not with the client
\* that was told, nor with one that is built from the file later
\* (ring_oauth_refresh.rs: reauth_until; ring_provider.rs: reset).
RefusalRemembered ==
    [][\A p \in Procs :
          pc[p] # "refresh" /\ pc'[p] = "refresh" =>
              SessionOf(p).token \notin quiet]_vars

\* "The bridge does not present a rejected token again for 15 minutes"
\* (docs/OPERATIONS.md, openapi.yaml): no task sends Ring a refresh token that Ring
\* refused less than 15 minutes ago, restarts of the process included.
RefusedStaysQuiet ==
    [][\A p \in Procs :
          pc[p] # "refresh" /\ pc'[p] = "refresh" =>
              SessionOf(p).token \notin refused]_vars

\* "One verification request consumes the challenge before any vendor I/O": no
\* code is sent to Ring twice for one challenge.
ChallengeUsedOnce ==
    [][\A p \in Procs :
          pc[p] # "otp" /\ pc'[p] = "otp" => hw[p] \notin spent]_vars

\* The lifecycle lock starves nobody: every task that waits for a client or for
\* the enrollment guard stops waiting.
GuardGranted ==
    \A p \in Procs : (pc[p] = "queued") ~> (pc[p] # "queued")

\* "409: Another enrollment is active": a start is answered EnrollmentBusy by
\* in_flight only while some start is really between its two critical sections.
BusyMeansActive ==
    inFlight => \E p \in Procs : pc[p] \in {"password", "challenged", "completed", "failed"}

=============================================================================
