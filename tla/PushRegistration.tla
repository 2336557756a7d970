-------------------------- MODULE PushRegistration ---------------------------
(***************************************************************************)
(* The push worker's registration: one attempt after another loads the     *)
(* stored FCM registration or makes one (ring_push_rotation.rs), hands its *)
(* token to Ring and subscribes the Intercoms (ring_push_session.rs), and  *)
(* listens until the connection ends (ring_push_worker.rs); the policy     *)
(* decides when the registration is rotated (ring_push_policy.rs).  Beside *)
(* it run the enrollment and inventory handlers, which reload the worker,  *)
(* and every other Ring request, which may have to register the session    *)
(* again and so replaces the device record Ring keeps the token in         *)
(* (ring_client.rs).                                                       *)
(*                                                                         *)
(* A registration is its token.  The backoff delays are left out: between  *)
(* two attempts any time may pass.  A crash inside a step is the step's    *)
(* failure followed by Restart.                                            *)
(***************************************************************************)
EXTENDS Naturals

CONSTANTS Tokens,        \* FCM registrations; one nobody remembers counts as new
          NoToken,
          Inventories,   \* what the queue map may list: sets of Intercoms
          RotateAfter    \* ROTATE_AFTER

ASSUME TokenAssumption == NoToken \notin Tokens
ASSUME InventoryAssumption == Inventories # {}
ASSUME RotateAssumption == RotateAfter \in Nat \ {0}

VARIABLES
    pc,          \* the worker
    held,        \* the registration this attempt connects with
    cand,        \* the registration being handed to Ring; differs from held in a rotation
    ids,         \* the Intercoms being subscribed
    rotate,      \* rotate the registration in the next attempt
    suspect,     \* consecutive quick endings
    changed,     \* the worker's receiver has an unseen reload
    disk,        \* the stored registration
    corrupt,     \* the stored file does not parse
    pushToken,   \* the cached client's push_token
    registered,  \* the cached client's session registration has not run out
    record,      \* the token in Ring's device record of this enrollment
    enrolling,   \* an enrollment handler is between reset and reload
    wanted,      \* the Intercoms the queue map lists
    including,   \* include_devices is between the map and the reload
    handed       \* history: the last completed hand-off, and whether it was made
                 \*   with the enrollment of now; its token until the next attempt

attemptVars == <<held, cand, ids>>
policyVars  == <<rotate, suspect>>
fileVars    == <<disk, corrupt>>
clientVars  == <<pushToken, registered, record>>
apiVars     == <<enrolling, wanted, including>>
vars == <<pc, attemptVars, policyVars, changed, fileVars, clientVars, apiVars, handed>>

MaybeToken == Tokens \cup {NoToken}

HandOff == [token : MaybeToken, devices : Inventories, current : BOOLEAN]

\* The worker holds a client, and with it the lifecycle lock for reading.
Guarded == {"load", "register", "persist", "token", "subscribe", "replace"}

Init ==
    /\ pc = "open" /\ held = NoToken /\ cand = NoToken
    /\ rotate = FALSE /\ suspect = 0 /\ changed = FALSE
    /\ disk = NoToken /\ corrupt = FALSE
    /\ pushToken = NoToken /\ registered = FALSE /\ record = NoToken
    /\ enrolling = FALSE /\ wanted \in Inventories /\ including = FALSE
    /\ ids = wanted
    /\ handed = [token |-> NoToken, devices |-> wanted, current |-> FALSE]

-----------------------------------------------------------------------------
(* How an attempt ends.                                                    *)

\* ReconnectPolicy::next, without the delays: a stable connection clears the
\* count, a quick drop or a refused check-in adds to it.
Suspicion(ending, stable) ==
    (IF stable THEN 0 ELSE suspect)
      + (IF ending = "rejected" \/ (ending = "dropped" /\ ~stable) THEN 1 ELSE 0)

\* A rotation clears the count.
Count(s) == IF s >= RotateAfter THEN 0 ELSE s

\* run_once returns and run asks the policy.  The endings Reload, Reauth, Idle and
\* Failed differ in their delay only and are all "other".
End(ending, stable) ==
    LET s == Suspicion(ending, stable) IN
    /\ pc' = "open" /\ held' = NoToken /\ cand' = NoToken
    /\ suspect' = Count(s)
    /\ rotate' = (rotate \/ s >= RotateAfter)
    /\ UNCHANGED <<ids, changed>>

\* An error inside prepare: a rotation falls back to the registration it would
\* have replaced, anything else ends the attempt.
FallBack ==
    IF cand # held
    THEN /\ pc' = "token" /\ cand' = held
         /\ UNCHANGED <<held, ids, policyVars, changed>>
    ELSE End("other", FALSE)

-----------------------------------------------------------------------------
(* One attempt.                                                            *)

\* connect subscribes to the reload channel before it takes a client.
Open ==
    /\ pc = "open"
    /\ pc' = "client" /\ changed' = FALSE
    /\ handed' = [handed EXCEPT !.token = NoToken]
    /\ UNCHANGED <<attemptVars, policyVars, fileVars, clientVars, apiVars>>

\* RingProvider::client waits for the enrollment handlers.
TakeClient ==
    /\ pc = "client" /\ ~enrolling
    /\ pc' = "load"
    /\ UNCHANGED <<attemptVars, policyVars, changed, fileVars, clientVars, apiVars, handed>>

\* prepare reads the file; a rotation that is due is taken up only if there is
\* something to rotate.
Load ==
    /\ pc = "load"
    /\ IF disk = NoToken \/ corrupt
       THEN /\ pc' = "register"
            /\ disk' = NoToken /\ corrupt' = FALSE
            /\ UNCHANGED <<attemptVars, rotate>>
       ELSE /\ pc' = IF rotate THEN "register" ELSE "token"
            /\ held' = disk /\ cand' = disk
            /\ rotate' = FALSE
            /\ UNCHANGED <<ids, fileVars>>
    /\ UNCHANGED <<suspect, changed, clientVars, apiVars, handed>>

\* RingPushStore::persist replaces the file by a rename.
Written(token) == disk' = token /\ corrupt' = FALSE

\* It may fail before the rename, or after it when the directory is synced.
WriteFails(token) == Written(token) \/ UNCHANGED fileVars

\* No client, no readable file, no check-in or no connection: nothing was changed,
\* unless the error came after the file was moved aside or replaced.
Unavailable ==
    /\ pc \in {"client", "load", "checkin", "connect"}
    /\ \/ UNCHANGED fileVars
       \/ pc = "load" /\ corrupt /\ Written(NoToken)
       \/ pc = "checkin" /\ Written(held)
    /\ End("other", FALSE)
    /\ UNCHANGED <<clientVars, apiVars, handed>>

\* Registrations that someone may still come back to.
Remembered == {disk, held, pushToken, record, handed.token}

\* A registration unlike all of those.
Fresh == CHOOSE t \in Tokens : t \notin Remembered

\* Mutation: a rotation is written down before Ring has the new token.
AfterRegisterEagerly == "persist"

\* Without a stored registration the new one is stored first.
AfterRegister == IF held = NoToken THEN "persist" ELSE "token"

RegisterOk ==
    /\ pc = "register"
    /\ Tokens \ Remembered # {} /\ cand' = Fresh
    /\ pc' = AfterRegister
    /\ UNCHANGED <<held, ids, policyVars, changed, fileVars, clientVars, apiVars, handed>>

RegisterFails ==
    /\ pc = "register"
    /\ IF held = NoToken
       THEN End("other", FALSE)
       ELSE pc' = "token" /\ UNCHANGED <<attemptVars, policyVars, changed>>
    /\ UNCHANGED <<fileVars, clientVars, apiVars, handed>>

\* The first registration is stored.
PersistOk ==
    /\ pc = "persist"
    /\ Written(cand)
    /\ held' = cand /\ pc' = "token"
    /\ UNCHANGED <<cand, ids, policyVars, changed, clientVars, apiVars, handed>>

PersistFails ==
    /\ pc = "persist"
    /\ WriteFails(cand)
    /\ End("other", FALSE)
    /\ UNCHANGED <<clientVars, apiVars, handed>>

\* Mutation: the client goes on remembering the token it had.
TokenKept == IF pushToken = NoToken THEN cand ELSE pushToken

\* replace_push_token remembers the new token for later session registrations.
TokenRemembered == cand

\* register_push_token succeeds: the session is registered and Ring's record has
\* the token.  The Intercoms to subscribe are read next, without an await.
TokenOk ==
    /\ pc = "token"
    /\ record' = cand /\ pushToken' = TokenRemembered /\ registered' = TRUE
    /\ ids' = wanted
    /\ pc' = "subscribe"
    /\ UNCHANGED <<held, cand, policyVars, changed, fileVars, apiVars, handed>>

\* register_push_token fails: the client gets its previous token back.  The session
\* may have been registered anew, which empties the record, and a PATCH whose answer
\* was lost may have filled it.
TokenFails ==
    /\ pc = "token"
    /\ registered' \in BOOLEAN
    /\ \/ record' \in {NoToken, cand}
       \/ record' = record /\ (registered' => registered)
    /\ FallBack
    /\ UNCHANGED <<pushToken, fileVars, apiVars, handed>>

\* Every Intercom is subscribed: the hand-off is complete.
SubscribeOk ==
    /\ pc = "subscribe"
    /\ handed' = [token |-> cand, devices |-> ids, current |-> TRUE]
    /\ IF cand # held
       THEN pc' = "replace" /\ UNCHANGED rotate
       ELSE pc' = "checkin" /\ rotate' = FALSE
    /\ UNCHANGED <<attemptVars, suspect, changed, fileVars, clientVars, apiVars>>

SubscribeFails ==
    /\ pc = "subscribe"
    /\ FallBack
    /\ UNCHANGED <<fileVars, clientVars, apiVars, handed>>

\* The rotation ends by replacing the stored registration.
ReplaceOk ==
    /\ pc = "replace"
    /\ Written(cand)
    /\ held' = cand /\ pc' = "checkin"
    /\ UNCHANGED <<cand, ids, policyVars, changed, clientVars, apiVars, handed>>

ReplaceFails ==
    /\ pc = "replace"
    /\ WriteFails(cand)
    /\ FallBack
    /\ UNCHANGED <<clientVars, apiVars, handed>>

\* The GCM check-in; a session it changed is stored.
CheckinOk ==
    /\ pc = "checkin"
    /\ Written(held) \/ UNCHANGED fileVars
    /\ pc' = "connect"
    /\ UNCHANGED <<attemptVars, policyVars, changed, clientVars, apiVars, handed>>

CheckinRejected ==
    /\ pc = "checkin"
    /\ End("rejected", FALSE)
    /\ UNCHANGED <<fileVars, clientVars, apiVars, handed>>

\* Mutation: the reload channel is subscribed to only now.
ConnectedSubscribes ==
    /\ pc = "connect"
    /\ pc' = "listen" /\ changed' = FALSE
    /\ UNCHANGED <<attemptVars, policyVars, fileVars, clientVars, apiVars, handed>>

\* The MCS connection is up.
Connected ==
    /\ pc = "connect"
    /\ pc' = "listen"
    /\ UNCHANGED <<attemptVars, policyVars, changed, fileVars, clientVars, apiVars, handed>>

\* A message is acknowledged: its id is stored with the registration, or the
\* connection is given up.
Acknowledge ==
    /\ pc = "listen"
    /\ \/ /\ Written(held)
          /\ UNCHANGED <<pc, attemptVars, policyVars, changed>>
       \/ /\ WriteFails(held)
          /\ \E stable \in BOOLEAN : End("other", stable)
    /\ UNCHANGED <<clientVars, apiVars, handed>>

\* The server drops the connection, it falls silent, or a heartbeat cannot be sent.
Disconnected ==
    /\ pc = "listen"
    /\ \E ending \in {"dropped", "other"}, stable \in BOOLEAN : End(ending, stable)
    /\ UNCHANGED <<fileVars, clientVars, apiVars, handed>>

Reload ==
    /\ pc = "listen" /\ changed
    /\ \E stable \in BOOLEAN : End("other", stable)
    /\ UNCHANGED <<fileVars, clientVars, apiVars, handed>>

-----------------------------------------------------------------------------
(* The handlers, the other requests, and the world.                        *)

\* An enrollment completes under the write lock: the cached client is dropped and
\* the new device record is empty.
Enroll ==
    /\ pc \notin Guarded /\ ~enrolling
    /\ enrolling' = TRUE
    /\ pushToken' = NoToken /\ registered' = FALSE /\ record' = NoToken
    /\ handed' = [handed EXCEPT !.current = FALSE]
    /\ UNCHANGED <<pc, attemptVars, policyVars, changed, fileVars, wanted, including>>

Enrolled ==
    /\ enrolling
    /\ enrolling' = FALSE /\ changed' = TRUE
    /\ UNCHANGED <<pc, attemptVars, policyVars, fileVars, clientVars, wanted, including, handed>>

\* RingPushService::include_devices: the map, then the reload.
IncludeDevices ==
    /\ ~including
    /\ wanted' \in Inventories \ {wanted}
    /\ including' = TRUE
    /\ UNCHANGED <<pc, attemptVars, policyVars, changed, fileVars, clientVars, enrolling, handed>>

Included ==
    /\ including
    /\ including' = FALSE /\ changed' = TRUE
    /\ UNCHANGED <<pc, attemptVars, policyVars, fileVars, clientVars, enrolling, wanted, handed>>

\* SESSION_LIFETIME has passed, or a request was answered 401.
SessionExpires ==
    /\ registered
    /\ registered' = FALSE
    /\ UNCHANGED <<pc, attemptVars, policyVars, changed, fileVars, pushToken, record,
                   apiVars, handed>>

\* ensure_registered for any other request: the new record is empty until the
\* remembered token is sent again; when that fails the request goes on regardless.
\* The client's mutex is free, so register_push_token is not under way.
EnsureRegistered ==
    /\ ~registered /\ ~enrolling
    /\ \/ registered' = TRUE /\ record' \in {NoToken, pushToken}
       \/ UNCHANGED registered /\ record' = NoToken
    /\ UNCHANGED <<pc, attemptVars, policyVars, changed, fileVars, pushToken, apiVars, handed>>

\* Something outside damages the file.
Damage ==
    /\ disk # NoToken
    /\ corrupt' = TRUE
    /\ UNCHANGED <<pc, attemptVars, policyVars, changed, disk, clientVars, apiVars, handed>>

\* The process is started again, with the queues its configuration lists.
Restart ==
    /\ pc' = "open" /\ held' = NoToken /\ cand' = NoToken
    /\ rotate' = FALSE /\ suspect' = 0 /\ changed' = FALSE
    /\ pushToken' = NoToken /\ registered' = FALSE
    /\ enrolling' = FALSE /\ including' = FALSE /\ wanted' \in Inventories
    /\ UNCHANGED <<ids, fileVars, record, handed>>

Success == \/ TakeClient \/ Load \/ RegisterOk \/ PersistOk \/ TokenOk \/ SubscribeOk
           \/ ReplaceOk \/ CheckinOk \/ Connected
Failure == \/ Unavailable \/ RegisterFails \/ PersistFails \/ TokenFails
           \/ SubscribeFails \/ ReplaceFails \/ CheckinRejected \/ Disconnected
Worker == Open \/ Success \/ Failure \/ Acknowledge \/ Reload

\* What the bridge's owner and host do to the worker.
Disturbance == Enroll \/ IncludeDevices \/ Restart

Next == Worker \/ Disturbance \/ Enrolled \/ Included
          \/ SessionExpires \/ EnsureRegistered \/ Damage

Spec == Init /\ [][Next]_vars

\* The worker's task, the handlers and the select over the reload channel are
\* scheduled.  Google, Ring and the disk do not refuse for ever: a step that is tried
\* again and again succeeds at some time.
Fairness ==
    /\ WF_vars(Worker) /\ WF_vars(Reload) /\ WF_vars(Enrolled) /\ WF_vars(Included)
    /\ SF_vars(TakeClient) /\ SF_vars(Load) /\ SF_vars(RegisterOk) /\ SF_vars(PersistOk)
    /\ SF_vars(TokenOk) /\ SF_vars(SubscribeOk)

LiveSpec == Spec /\ Fairness

-----------------------------------------------------------------------------
(* Properties.                                                             *)

Attempts == Guarded \cup {"open", "client", "checkin", "connect", "listen"}

\* Every variable has its type; in particular the count of suspect endings stays
\* below the threshold.
TypeOK ==
    /\ pc \in Attempts
    /\ held \in MaybeToken /\ cand \in MaybeToken /\ ids \in Inventories
    /\ rotate \in BOOLEAN /\ suspect \in 0..(RotateAfter - 1) /\ changed \in BOOLEAN
    /\ disk \in MaybeToken /\ corrupt \in BOOLEAN
    /\ pushToken \in MaybeToken /\ registered \in BOOLEAN /\ record \in MaybeToken
    /\ enrolling \in BOOLEAN /\ wanted \in Inventories /\ including \in BOOLEAN
    /\ handed \in HandOff

\* A worker that listens and has no reload to come was handed over completely: Ring
\* got the token it listens with, from the client of the enrollment of now, for the
\* Intercoms the map lists now.  A reload may arrive at any point of an attempt; the
\* receiver is taken before the client so that none is missed.
SubscriptionCurrent ==
    (pc = "listen" /\ ~changed /\ ~enrolling /\ ~including)
      => handed = [token |-> held, devices |-> wanted, current |-> TRUE]

\* Make before break: a good stored registration is only ever replaced by one whose
\* hand-off to Ring was completed in the same attempt, whatever fails or crashes on the way.
MakeBeforeBreak ==
    [][ disk # NoToken /\ ~corrupt /\ disk' # disk
          => disk' # NoToken /\ disk' = handed.token ]_vars

\* While the worker listens, Ring's record never has a token of another registration:
\* neither an abandoned rotation nor a session registered later brings one back.
NoForeignToken == pc = "listen" => record \in {NoToken, held}

\* Once enrollments, inventory changes and restarts stop for good, Ring ends up with a
\* completed hand-off of the present enrollment and the present Intercoms, and keeps it:
\* no reload is lost, no failed rotation loops, no damaged file stops the worker.
HandedOver ==
    <>[][~Disturbance]_vars => <>[](handed.current /\ handed.devices = wanted)
=============================================================================
