----------------------- MODULE PushRegistrationProofs ------------------------
(* Proofs about PushRegistration, for any registrations and inventories.   *)
EXTENDS PushRegistration, TLAPS

\* Where the token of an attempt is with Ring, and where its hand-off is complete.
Sent == {"subscribe", "replace", "checkin", "connect", "listen"}
Complete == {"checkin", "connect", "listen"}

\* Which registrations an attempt holds: none before the file is read; while the
\* first one is made the file is empty; from the hand-off on there is one.
AttemptInv ==
    /\ pc \in Guarded => ~enrolling
    /\ pc \in {"open", "client", "load"} => held = NoToken /\ cand = NoToken
    /\ pc = "persist" => held = NoToken /\ cand # NoToken
    /\ pc = "register" => cand = held
    /\ pc \in {"register", "persist"} /\ held = NoToken => disk = NoToken
    /\ pc \in Sent \cup {"token"} => held # NoToken /\ cand # NoToken

\* What the last completed hand-off gave to Ring.
HandedInv ==
    /\ pc = "replace" => handed.token = cand
    /\ pc \in Complete => cand = held /\ handed.token = held

\* A hand-off that is no longer that of now has a reload behind it or on its way.
ReloadInv ==
    /\ pc = "subscribe" => ids = wanted \/ changed \/ including
    /\ pc \in Complete \cup {"replace"} =>
          /\ handed.devices = wanted \/ changed \/ including
          /\ handed.current \/ changed \/ enrolling

\* From the hand-off on the client remembers the attempt's token, or none after an
\* enrollment, and so does Ring's record.
RecordInv == pc \in Sent => pushToken \in {NoToken, cand} /\ record \in {NoToken, cand}

Inv == TypeOK /\ AttemptInv /\ HandedInv /\ ReloadInv /\ RecordInv

USE DEF attemptVars, policyVars, fileVars, clientVars, apiVars, Sent, Complete, Guarded

\* Every initial state satisfies the invariant.
LEMMA InitInv == Init => Inv
<1> SUFFICES ASSUME Init PROVE Inv
    OBVIOUS
<1>1. handed \in HandOff /\ suspect \in 0..(RotateAfter - 1)
    BY RotateAssumption DEF Init, HandOff, MaybeToken
<1>2. TypeOK
    BY <1>1 DEF Init, TypeOK, Attempts, MaybeToken
<1>3. AttemptInv /\ HandedInv /\ ReloadInv /\ RecordInv
    BY DEF Init, AttemptInv, HandedInv, ReloadInv, RecordInv
<1> QED
    BY <1>2, <1>3 DEF Inv

\* The count of suspect endings stays below the threshold.
LEMMA CountType ==
  ASSUME TypeOK, NEW ending, NEW stable \in BOOLEAN
  PROVE  Count(Suspicion(ending, stable)) \in 0..(RotateAfter - 1)
  BY RotateAssumption DEF TypeOK, Count, Suspicion

\* An attempt that ends leaves nothing the invariant speaks of.
LEMMA EndInv ==
  ASSUME Inv, NEW ending, NEW stable \in BOOLEAN, End(ending, stable),
         disk' \in MaybeToken, corrupt' \in BOOLEAN, record' \in MaybeToken,
         registered' \in BOOLEAN, UNCHANGED <<pushToken, apiVars, handed>>
  PROVE  Inv'
  BY CountType
  DEF Inv, TypeOK, AttemptInv, HandedInv, ReloadInv, RecordInv, End, Attempts, MaybeToken

\* A rotation that falls back is at the token step with the registration it holds.
LEMMA FallBackInv ==
  ASSUME Inv, FallBack, pc \in {"token", "subscribe", "replace"},
         disk' \in MaybeToken, corrupt' \in BOOLEAN, record' \in MaybeToken,
         registered' \in BOOLEAN, UNCHANGED <<pushToken, apiVars, handed>>
  PROVE  Inv'
<1>1. CASE cand # held
    BY <1>1
    DEF FallBack, Inv, TypeOK, AttemptInv, HandedInv, ReloadInv, RecordInv, Attempts, MaybeToken
<1>2. CASE cand = held
    BY <1>2, EndInv DEF FallBack
<1> QED
    BY <1>1, <1>2

\* A write that succeeds or fails leaves a typed file.
LEMMA WriteType ==
  ASSUME TypeOK, NEW t \in MaybeToken, WriteFails(t) \/ Written(t) \/ UNCHANGED fileVars
  PROVE  disk' \in MaybeToken /\ corrupt' \in BOOLEAN
  BY DEF TypeOK, WriteFails, Written

\* The steps of an attempt that go well.
LEMMA SuccessInv == Inv /\ Success => Inv'
<1> SUFFICES ASSUME Inv, Success PROVE Inv'
    OBVIOUS
<1> USE DEF Inv, TypeOK, AttemptInv, HandedInv, ReloadInv, RecordInv, Attempts, MaybeToken
<1>1. CASE TakeClient
    BY <1>1 DEF TakeClient
<1>2. CASE Load
  <2>1. TypeOK'
      BY <1>2 DEF Load, Inv, TypeOK, Attempts, MaybeToken
  <2>2. AttemptInv'
    <3>1. CASE disk = NoToken \/ corrupt
        BY <1>2, <3>1 DEF Load, Inv, AttemptInv
    <3>2. CASE ~(disk = NoToken \/ corrupt)
        BY <1>2, <3>2 DEF Load, Inv, AttemptInv
    <3> QED
        BY <3>1, <3>2
  <2>4. HandedInv' /\ RecordInv'
      BY <1>2 DEF Load, HandedInv, RecordInv
  <2>3. ReloadInv'
      BY <1>2 DEF Load, Inv, TypeOK, ReloadInv
  <2> QED
      BY <2>1, <2>2, <2>3, <2>4 DEF Inv
<1>3. CASE RegisterOk
    BY <1>3, TokenAssumption DEF RegisterOk, AfterRegister, Fresh
<1>4. CASE PersistOk
    BY <1>4 DEF PersistOk, Written
<1>5. CASE TokenOk
    BY <1>5 DEF TokenOk, TokenRemembered
<1>6. CASE SubscribeOk
    BY <1>6, ZenonT(60) DEF SubscribeOk, HandOff
<1>7. CASE ReplaceOk
    BY <1>7 DEF ReplaceOk, Written
<1>8. CASE CheckinOk
    BY <1>8, ZenonT(60) DEF CheckinOk, Written
<1>9. CASE Connected
    BY <1>9 DEF Connected
<1> QED
    BY <1>1, <1>2, <1>3, <1>4, <1>5, <1>6, <1>7, <1>8, <1>9 DEF Success

\* The steps of an attempt that fail.
LEMMA FailureInv == Inv /\ Failure => Inv'
<1> SUFFICES ASSUME Inv, Failure PROVE Inv'
    OBVIOUS
<1>0. /\ TypeOK /\ cand \in MaybeToken /\ held \in MaybeToken /\ NoToken \in MaybeToken
      /\ disk \in MaybeToken /\ corrupt \in BOOLEAN /\ record \in MaybeToken
      /\ registered \in BOOLEAN
    BY DEF Inv, TypeOK, MaybeToken
<1>1. CASE Unavailable
    BY <1>0, <1>1, EndInv DEF Unavailable, Written
<1>2. CASE RegisterFails
  <2>1. CASE held = NoToken
      BY <1>0, <1>2, <2>1, EndInv DEF RegisterFails
  <2>2. CASE held # NoToken
      BY <1>2, <2>2
      DEF RegisterFails, Inv, TypeOK, AttemptInv, HandedInv, ReloadInv, RecordInv, Attempts,
          MaybeToken
  <2> QED
      BY <2>1, <2>2
<1>3. CASE PersistFails
    BY <1>0, <1>3, EndInv, WriteType DEF PersistFails
<1>4. CASE TokenFails
    BY <1>0, <1>4, FallBackInv DEF TokenFails
<1>5. CASE SubscribeFails
    BY <1>0, <1>5, FallBackInv DEF SubscribeFails
<1>6. CASE ReplaceFails
    BY <1>0, <1>6, FallBackInv, WriteType DEF ReplaceFails
<1>7. CASE CheckinRejected
    BY <1>0, <1>7, EndInv DEF CheckinRejected
<1>8. CASE Disconnected
    BY <1>0, <1>8, EndInv DEF Disconnected
<1> QED
    BY <1>1, <1>2, <1>3, <1>4, <1>5, <1>6, <1>7, <1>8 DEF Failure

\* Every step keeps the invariant.
LEMMA NextInv == Inv /\ [Next]_vars => Inv'
<1> SUFFICES ASSUME Inv, [Next]_vars PROVE Inv'
    OBVIOUS
<1>0. /\ TypeOK /\ held \in MaybeToken /\ record \in MaybeToken /\ registered \in BOOLEAN
      /\ disk \in MaybeToken /\ corrupt \in BOOLEAN
    BY DEF Inv, TypeOK
<1>1. CASE Open
  <2>0. /\ handed' \in HandOff /\ handed'.devices = handed.devices
        /\ handed'.current = handed.current
      BY <1>1 DEF Open, Inv, TypeOK, HandOff, MaybeToken
  <2>1. TypeOK'
      BY <1>1, <2>0 DEF Open, Inv, TypeOK, Attempts, MaybeToken
  <2>2. AttemptInv' /\ HandedInv' /\ RecordInv'
      BY <1>1 DEF Open, Inv, TypeOK, AttemptInv, HandedInv, RecordInv
  <2>3. ReloadInv'
      BY <1>1 DEF Open, Inv, TypeOK, ReloadInv
  <2> QED
      BY <2>1, <2>2, <2>3 DEF Inv
<1>2. CASE Success \/ Failure
    BY <1>2, SuccessInv, FailureInv
<1>3. CASE Acknowledge
  <2>1. CASE Written(held) /\ UNCHANGED <<pc, attemptVars, policyVars, changed>>
      BY <1>3, <2>1
      DEF Acknowledge, Written, Inv, TypeOK, AttemptInv, HandedInv, ReloadInv, RecordInv,
          Attempts, MaybeToken
  <2>2. CASE WriteFails(held) /\ \E stable \in BOOLEAN : End("other", stable)
      BY <1>0, <1>3, <2>2, EndInv, WriteType DEF Acknowledge
  <2> QED
      BY <1>3, <2>1, <2>2 DEF Acknowledge
<1>4. CASE Reload
    BY <1>0, <1>4, EndInv DEF Reload
<1>5. CASE Enroll
  <2>1. /\ handed' \in HandOff /\ handed'.token = handed.token
        /\ handed'.devices = handed.devices
      BY <1>5 DEF Enroll, Inv, TypeOK, HandOff
  <2>2. TypeOK'
      BY <1>5, <2>1 DEF Enroll, Inv, TypeOK, MaybeToken
  <2>3. AttemptInv' /\ HandedInv' /\ RecordInv'
      BY <1>5, <2>1 DEF Enroll, Inv, TypeOK, AttemptInv, HandedInv, RecordInv
  <2>4. ReloadInv'
      BY <1>5, <2>1 DEF Enroll, Inv, TypeOK, ReloadInv
  <2> QED
      BY <2>2, <2>3, <2>4 DEF Inv
<1>6. CASE IncludeDevices
  <2>1. TypeOK'
      BY <1>6 DEF IncludeDevices, Inv, TypeOK, Attempts, MaybeToken
  <2>2. AttemptInv' /\ HandedInv' /\ RecordInv'
      BY <1>6 DEF IncludeDevices, Inv, TypeOK, AttemptInv, HandedInv, RecordInv
  <2>3. ReloadInv'
      BY <1>6 DEF IncludeDevices, Inv, TypeOK, ReloadInv
  <2> QED
      BY <2>1, <2>2, <2>3 DEF Inv
<1>7. CASE Restart
  <2>0. "open" \in Attempts /\ NoToken \in MaybeToken /\ 0 \in 0..(RotateAfter - 1)
      BY RotateAssumption DEF Attempts, MaybeToken
  <2>1. TypeOK'
      BY <1>7, <2>0 DEF Restart, Inv, TypeOK
  <2>2. AttemptInv' /\ HandedInv' /\ RecordInv'
      BY <1>7 DEF Restart, Inv, TypeOK, AttemptInv, HandedInv, RecordInv
  <2>3. ReloadInv'
      BY <1>7 DEF Restart, Inv, TypeOK, ReloadInv
  <2> QED
      BY <2>1, <2>2, <2>3 DEF Inv
<1>8. CASE Enrolled
  <2>1. TypeOK'
      BY <1>8 DEF Enrolled, Inv, TypeOK
  <2>2. AttemptInv' /\ HandedInv' /\ RecordInv'
      BY <1>8 DEF Enrolled, Inv, TypeOK, AttemptInv, HandedInv, RecordInv
  <2>3. ReloadInv'
      BY <1>8 DEF Enrolled, Inv, TypeOK, ReloadInv
  <2> QED
      BY <2>1, <2>2, <2>3 DEF Inv
<1>9. CASE Included
  <2>1. TypeOK'
      BY <1>9 DEF Included, Inv, TypeOK
  <2>2. AttemptInv' /\ HandedInv' /\ RecordInv'
      BY <1>9 DEF Included, Inv, TypeOK, AttemptInv, HandedInv, RecordInv
  <2>3. ReloadInv'
      BY <1>9 DEF Included, Inv, TypeOK, ReloadInv
  <2> QED
      BY <2>1, <2>2, <2>3 DEF Inv
<1>10. CASE SessionExpires
  <2>1. TypeOK'
      BY <1>10 DEF SessionExpires, Inv, TypeOK
  <2>2. AttemptInv' /\ HandedInv' /\ RecordInv'
      BY <1>10 DEF SessionExpires, Inv, TypeOK, AttemptInv, HandedInv, RecordInv
  <2>3. ReloadInv'
      BY <1>10 DEF SessionExpires, Inv, TypeOK, ReloadInv
  <2> QED
      BY <2>1, <2>2, <2>3 DEF Inv
<1>11. CASE EnsureRegistered
  <2>0. NoToken \in MaybeToken
      BY DEF MaybeToken
  <2>1. TypeOK'
      BY <1>11, <2>0 DEF EnsureRegistered, Inv, TypeOK
  <2>2. AttemptInv' /\ HandedInv' /\ RecordInv'
      BY <1>11 DEF EnsureRegistered, Inv, TypeOK, AttemptInv, HandedInv, RecordInv
  <2>3. ReloadInv'
      BY <1>11 DEF EnsureRegistered, Inv, TypeOK, ReloadInv
  <2> QED
      BY <2>1, <2>2, <2>3 DEF Inv
<1>12. CASE Damage
  <2>1. TypeOK'
      BY <1>12 DEF Damage, Inv, TypeOK, Attempts, MaybeToken
  <2>2. AttemptInv' /\ HandedInv' /\ RecordInv'
      BY <1>12 DEF Damage, Inv, TypeOK, AttemptInv, HandedInv, RecordInv
  <2>3. ReloadInv'
      BY <1>12 DEF Damage, Inv, TypeOK, ReloadInv
  <2> QED
      BY <2>1, <2>2, <2>3 DEF Inv
<1>13. CASE UNCHANGED vars
    BY <1>13
    DEF vars, Inv, TypeOK, AttemptInv, HandedInv, ReloadInv, RecordInv
<1> QED
    BY <1>1, <1>2, <1>3, <1>4, <1>5, <1>6, <1>7, <1>8, <1>9, <1>10, <1>11, <1>12, <1>13
    DEF Next, Worker, Disturbance

\* The invariant holds in every reachable state.
THEOREM RegistrationInvariant == Spec => []Inv
  BY InitInv, NextInv, PTL DEF Spec

\* Type correctness, whatever fails and whoever interferes.
THEOREM TypeCorrect == Spec => []TypeOK
<1>1. Inv => TypeOK
    BY DEF Inv
<1> QED
    BY <1>1, RegistrationInvariant, PTL

\* A worker that listens without a reload to come was handed over for the enrollment
\* and the Intercoms of now: the receiver is older than all it was handed over with.
THEOREM NoReloadIsMissed == Spec => []SubscriptionCurrent
<1>1. Inv => SubscriptionCurrent
  <2> SUFFICES ASSUME Inv, pc = "listen", ~changed, ~enrolling, ~including
               PROVE  handed = [token |-> held, devices |-> wanted, current |-> TRUE]
      BY DEF SubscriptionCurrent
  <2>1. handed.token = held /\ handed.devices = wanted /\ handed.current
      BY DEF Inv, HandedInv, ReloadInv
  <2>2. /\ handed = [token |-> handed.token, devices |-> handed.devices,
                      current |-> handed.current]
        /\ handed.current \in BOOLEAN
      BY DEF Inv, TypeOK, HandOff
  <2> QED
      BY <2>1, <2>2
<1> QED
    BY <1>1, RegistrationInvariant, PTL

\* While the worker listens, Ring's record has its token or none.
THEOREM RecordIsOwn == Spec => []NoForeignToken
<1>1. Inv => NoForeignToken
    BY DEF Inv, HandedInv, RecordInv, NoForeignToken
<1> QED
    BY <1>1, RegistrationInvariant, PTL

\* Only the writes of a complete hand-off replace a good file.
LEMMA DiskStep ==
  Inv /\ [Next]_vars =>
    (disk # NoToken /\ ~corrupt /\ disk' # disk => disk' # NoToken /\ disk' = handed.token)
<1> SUFFICES ASSUME Inv, [Next]_vars, disk # NoToken, ~corrupt, disk' # disk
             PROVE  disk' # NoToken /\ disk' = handed.token
    OBVIOUS
<1> USE DEF Inv, AttemptInv, HandedInv
<1>1. CASE Success
    BY <1>1
    DEF Success, TakeClient, Load, RegisterOk, PersistOk, TokenOk, SubscribeOk, ReplaceOk,
        CheckinOk, Connected, Written
<1>2. CASE Failure
    BY <1>2
    DEF Failure, Unavailable, RegisterFails, PersistFails, TokenFails, SubscribeFails,
        ReplaceFails, CheckinRejected, Disconnected, Written, WriteFails
<1>3. CASE Open \/ Acknowledge \/ Reload
    BY <1>3 DEF Open, Acknowledge, Reload, Written, WriteFails
<1>4. CASE Disturbance \/ Enrolled \/ Included
    BY <1>4 DEF Disturbance, Enroll, IncludeDevices, Restart, Enrolled, Included
<1>5. CASE SessionExpires \/ EnsureRegistered \/ Damage \/ UNCHANGED vars
    BY <1>5 DEF SessionExpires, EnsureRegistered, Damage, vars
<1> QED
    BY <1>1, <1>2, <1>3, <1>4, <1>5 DEF Next, Worker

\* A good stored registration is only replaced by one Ring was completely handed.
THEOREM RotationMakesBeforeItBreaks == Spec => MakeBeforeBreak
<1>1. Inv /\ [Next]_vars =>
        [disk # NoToken /\ ~corrupt /\ disk' # disk
           => disk' # NoToken /\ disk' = handed.token]_vars
    BY DiskStep
<1> QED
    BY <1>1, RegistrationInvariant, PTL DEF Spec, MakeBeforeBreak
=============================================================================
