-------------------------- MODULE RingAccountProofs --------------------------
(***************************************************************************)
(* Proofs about RingAccount, for any number of tasks, clients, tokens and  *)
(* enrollments: type correctness, that enrollment reaches every client and *)
(* its session is never overwritten, that no challenge is verified twice,  *)
(* that a rotated refresh token is accounted for and durable before it is  *)
(* used, and that a refused one is not presented in its retry window.      *)
(***************************************************************************)
EXTENDS RingAccount, SequenceTheorems, TLAPS

\* The points at which a task owns the client's state mutex.
Owning == {"auth", "refresh", "register", "request"}

\* The points at which a task works with a client.
Working == Owning \cup {"locking", "held"}

\* The points of an enrollment handler past its checks.
Handling == {"password", "challenged", "completed", "failed", "otp", "reset"}

\* ... where its session is stored and the client is yet to be reset,
Storing == {"completed", "reset"}

\* ... and where its session is yet to be stored.
Unstored == {"password", "challenged", "otp"}

\* Who holds which guard: writers exclude readers, a client is only held under
\* a read guard and is the cached one, handlers run under the write guard.
LockInv ==
    /\ writer # NoProc => readers = {}
    /\ \A p \in Procs :
          /\ held[p] # NoClient <=> pc[p] \in Working
          /\ held[p] # NoClient => p \in readers /\ held[p] = slot
          /\ pc[p] = "granted" /\ op[p] \in CallOps => p \in readers
          /\ pc[p] = "granted" /\ op[p] \notin CallOps => writer = p
          /\ pc[p] \in Handling => writer = p

\* Hardware ids are used in the order they are drawn: the one flow that is
\* pending or in progress has the last id, and no session carries it before
\* the flow has stored one.
IdInv ==
    /\ enrolled <= lastHw /\ lastHw <= MaxEnrollments
    /\ file.hw <= lastHw
    /\ slot # NoClient => session[slot].hw <= lastHw
    /\ pending \in {0, lastHw}
    /\ \A p \in Procs :
          /\ pc[p] \in Handling => hw[p] = lastHw /\ pending = 0
          /\ pc[p] \in {"queued", "granted"} /\ op[p] = "verify" => hw[p] > 0

\* The id of a flow without a session is on no disk and in no client.
UnusedInv ==
    /\ pending # 0 \/ (\E p \in Procs : pc[p] \in Unstored) =>
          /\ file.hw < lastHw
          /\ slot # NoClient => session[slot].hw < lastHw
    /\ \A p \in Procs : pc[p] \in Storing =>
          /\ file.hw = lastHw
          /\ slot # NoClient => session[slot].hw < lastHw

\* The assumption on disconnections: a start whose session is stored is not
\* dropped before it has reset the provider.
SafeDrops == DropPoints \cap Storing = {}

\* Then the cached client is of the last enrollment, or that enrollment's handler
\* still holds the write guard.
FreshInv == SafeDrops =>
    /\ file.hw >= enrolled
    /\ slot # NoClient =>
          \/ session[slot].hw >= enrolled
          \/ \E p \in Procs : pc[p] \in Storing

\* A challenge whose code was sent is not pending again.
SpentInv ==
    /\ \A h \in spent : h <= lastHw
    /\ lastHw \in spent =>
          /\ pending = 0
          /\ \A p \in Procs : pc[p] \notin {"password", "challenged"}

\* The enrollment part of the inductive invariant.
EnrollInv == IdInv /\ UnusedInv /\ FreshInv /\ SpentInv

\* Every session in use is of a hardware id that was drawn, with a token that Ring
\* has issued.
SessionInv ==
    /\ file = NoSession \/ file.hw \in 1..MaxEnrollments
    /\ file.token <= issued
    /\ slot # NoClient => /\ session[slot].hw \in 1..MaxEnrollments
                          /\ session[slot].token <= issued

\* A client that owes nothing to the file is not ahead of it, and one whose token is
\* being presented or used owes nothing: its mutex has one owner.
OwedInv == slot # NoClient /\ slot \notin rotationPending => file.token >= session[slot].token
OwnerInv ==
    \A p \in Procs : pc[p] \in Owning =>
        /\ owner[held[p]] = p
        /\ pc[p] # "auth" => held[p] \notin rotationPending

\* The cached client has the token Ring accepts, unless an answer was lost.
AccountedInv ==
    /\ RotationAccounted
    /\ slot # NoClient =>
          \/ session[slot].hw \in lost
          \/ session[slot].token = valid[session[slot].hw]

\* A refused token is that of a client in its retry window, or of no client at all
\* and then it is not the one the next client will be built with.
QuietInv ==
    /\ \A n \in quiet : n <= issued
    /\ slot # NoClient /\ session[slot].token \in quiet => slot \in reauth
    /\ slot = NoClient \/ (\E p \in Procs : pc[p] \in Storing) => file.token \notin quiet

\* The token part of the inductive invariant.
TokenInv == SessionInv /\ OwedInv /\ AccountedInv /\ QuietInv

USE DEF ringVars, diskVars, lockVars, flagVars, clientVars, enrollVars, ghostVars, procVars

-----------------------------------------------------------------------------
(* Types.                                                                  *)

\* What the end of a task leaves behind is well typed.
LEMMA FinishType ==
    ASSUME TypeOK, NEW p \in Procs, Finish(p)
    PROVE  /\ readers' \subseteq Procs /\ writer' \in Procs \cup {NoProc}
           /\ owner' \in [Clients -> Procs \cup {NoProc}]
           /\ pc' \in [Procs -> Points]
           /\ op' \in [Procs -> CallOps \cup {"start", "verify"}]
           /\ held' \in [Procs -> Clients \cup {NoClient}]
           /\ attempt' \in [Procs -> {0, 1}]
           /\ hw' \in [Procs -> Nat]
    BY DEF TypeOK, Finish, FreeOwner, Goto, Points, CallOps

\* So is what the end of a request leaves behind.
LEMMA EndRequestType ==
    ASSUME TypeOK, NEW p \in Procs, EndRequest(p)
    PROVE  /\ owner' \in [Clients -> Procs \cup {NoProc}]
           /\ pc' \in [Procs -> Points]
           /\ UNCHANGED <<op, held, attempt, hw>>
    BY DEF TypeOK, EndRequest, FreeOwner, Goto, Points

\* And what a task passes on when it continues.
LEMMA ContinueType ==
    ASSUME TypeOK, NEW p \in Procs, NEW point \in Points, Continue(p, point)
    PROVE  /\ pc' \in [Procs -> Points]
           /\ UNCHANGED <<op, held, attempt, hw, owner>>
    BY DEF TypeOK, Continue, Goto

\* A task that works with a client holds one, with a well-formed session.
LEMMA WorkingType ==
    ASSUME TypeOK, LockInv, NEW p \in Procs, pc[p] \in Working
    PROVE  /\ held[p] \in Clients
           /\ SessionOf(p) \in Session
           /\ SessionOf(p).hw \in Nat /\ SessionOf(p).token \in Nat
  <1>1. held[p] \in Clients
    BY DEF TypeOK, LockInv
  <1>2. SessionOf(p) \in Session
    BY <1>1 DEF TypeOK, SessionOf
  <1> QED
    BY <1>1, <1>2 DEF Session

\* The session file after a write of a session, whatever its outcome.
LEMMA PersistType ==
    ASSUME file \in Session, NEW s \in Session, NEW ok \in BOOLEAN, Persist(s, ok)
    PROVE  file' \in Session
    BY DEF Persist

\* What the answer of an enrollment stores.
LEMMA StoreEnrolledType ==
    ASSUME TypeOK, NEW h \in Nat, NEW ok \in BOOLEAN, StoreEnrolled(h, ok)
    PROVE  /\ file' \in Session /\ issued' \in Nat /\ enrolled' \in Nat
           /\ valid' \in [1..MaxEnrollments -> Nat]
  <1>1. [hw |-> h, token |-> issued + 1] \in Session
    BY DEF TypeOK, Session
  <1>2. file' \in Session
    BY <1>1, PersistType DEF TypeOK, StoreEnrolled
  <1>3. issued' \in Nat /\ valid' \in [1..MaxEnrollments -> Nat]
    BY DEF TypeOK, StoreEnrolled
  <1>4. enrolled' \in Nat
    <2>1. CASE ok = TRUE
      BY <2>1 DEF TypeOK, StoreEnrolled
    <2>2. CASE ok = FALSE
      BY <2>2 DEF TypeOK, StoreEnrolled
    <2> QED
      BY <2>1, <2>2
  <1> QED
    BY <1>2, <1>3, <1>4

\* What is left of a challenge when somebody looks at it.
LEMMA LivePendingType == TypeOK => LivePending \in {0, pending} /\ LivePending \in Nat
    BY DEF TypeOK, LivePending

\* Every step keeps the types: the write guard's exclusion is what keeps a task in
\* a client call apart from the enrollment points.
LEMMA TypeStep == TypeOK /\ LockInv /\ [Next]_vars => TypeOK'
<1> SUFFICES ASSUME TypeOK, LockInv, [Next]_vars PROVE TypeOK'
    OBVIOUS
<1> USE DEF TypeOK
<1>1. ASSUME NEW p \in Procs, RequestClient(p) PROVE TypeOK'
    BY <1>1 DEF RequestClient, Enqueue, CallOps, Goto, Points
<1>2. ASSUME NEW p \in Procs, RequestStart(p) PROVE TypeOK'
    BY <1>2 DEF RequestStart, Enqueue, Goto, Points
<1>3. ASSUME NEW p \in Procs, RequestVerify(p) PROVE TypeOK'
    BY <1>3 DEF RequestVerify, Enqueue, Goto, Points
<1>4. ASSUME NEW p \in Procs, Grant(p) PROVE TypeOK'
    BY <1>4 DEF Grant, Continue, Goto, Points
<1>5. ASSUME NEW p \in Procs, LockState(p) PROVE TypeOK'
    BY <1>5 DEF LockState, Goto, Points
<1>6. ASSUME NEW p \in Procs, ReleaseClient(p) PROVE TypeOK'
    BY <1>6, FinishType DEF ReleaseClient
<1>7. ASSUME NEW p \in Procs, NextRequest(p) PROVE TypeOK'
    BY <1>7 DEF NextRequest, CallOps, Goto, Points
<1>8. ASSUME NEW p \in Procs, UseAccess(p) PROVE TypeOK'
    BY <1>8 DEF UseAccess, Continue, Goto, Points
<1>9. ASSUME NEW p \in Procs, StayQuiet(p) PROVE TypeOK'
    BY <1>9, EndRequestType DEF StayQuiet
<1>10. ASSUME NEW p \in Procs, RefreshFailed(p) PROVE TypeOK'
    BY <1>10, EndRequestType DEF RefreshFailed
<1>11. ASSUME NEW p \in Procs, ResetClient(p) PROVE TypeOK'
    BY <1>11 DEF ResetClient, Enqueue, CallOps, Goto, Points
<1>12. ASSUME NEW p \in Procs, GetClient(p) PROVE TypeOK'
  <2>1. CASE Finish(p) /\ UNCHANGED clientVars
    BY <1>12, <2>1, FinishType DEF GetClient
  <2>2. CASE slot # NoClient /\ ~Finish(p)
    BY <1>12, <2>2, ZenonT(60) DEF GetClient, Goto, Points
  <2>3. ASSUME NEW c \in Clients, Build(c), Goto(p, "locking"),
               held' = [held EXCEPT ![p] = c],
               UNCHANGED <<op, attempt, hw, owner, readers, writer>>
        PROVE  TypeOK'
    BY <1>12, <2>3 DEF GetClient, Build, Goto, Points
  <2> QED
    BY <1>12, <2>1, <2>2, <2>3 DEF GetClient
<1>13. ASSUME NEW p \in Procs, FlushRotation(p) PROVE TypeOK'
  <2>1. PICK ok \in BOOLEAN : Persist(SessionOf(p), ok)
    BY <1>13 DEF FlushRotation
  <2>2. file' \in Session
    BY <1>13, <2>1, WorkingType, PersistType DEF FlushRotation, Working, Owning
  <2> QED
    BY <1>13, <2>2, EndRequestType DEF FlushRotation
<1>14. ASSUME NEW p \in Procs, PresentToken(p) PROVE TypeOK'
  <2>1. PICK ok \in BOOLEAN : Persist(SessionOf(p), ok)
    BY <1>14 DEF PresentToken
  <2>2. file' \in Session
    BY <1>14, <2>1, WorkingType, PersistType DEF PresentToken, Working, Owning
  <2>3. "refresh" \in Points
    BY DEF Points
  <2> QED
    BY <1>14, <2>2, <2>3, EndRequestType, ContinueType DEF PresentToken
<1>15. ASSUME NEW p \in Procs, RefreshGranted(p) PROVE TypeOK'
  <2>1. held[p] \in Clients /\ SessionOf(p) \in Session
    BY <1>15, WorkingType DEF RefreshGranted, Working, Owning
  <2>2. PICK ok \in BOOLEAN :
          /\ Persist(Successor(SessionOf(p)), ok)
          /\ rotationPending' = Owes(held[p], ok)
          /\ IF ok THEN Continue(p, "register") ELSE EndRequest(p)
    BY <1>15 DEF RefreshGranted
  <2>3. Successor(SessionOf(p)) \in Session
    BY <2>1 DEF Session, Successor
  <2>4. file' \in Session
    BY <2>2, <2>3, PersistType
  <2>5. session' \in [Clients -> Session]
    BY <1>15, <2>3 DEF RefreshGranted, SessionOf
  <2>6. issued' \in Nat /\ valid' \in [1..MaxEnrollments -> Nat]
    BY <1>15 DEF RefreshGranted, Rotates
  <2>7. rotationPending' \subseteq Clients
    BY <2>1, <2>2 DEF Owes
  <2>8. "register" \in Points
    BY DEF Points
  <2> QED
    BY <1>15, <2>1, <2>2, <2>4, <2>5, <2>6, <2>7, <2>8, EndRequestType, ContinueType
    DEF RefreshGranted
<1>16. ASSUME NEW p \in Procs, RefreshLost(p) PROVE TypeOK'
  <2>1. SessionOf(p).hw \in Nat
    BY <1>16, WorkingType DEF RefreshLost, Working, Owning
  <2>2. issued' \in Nat /\ valid' \in [1..MaxEnrollments -> Nat]
    BY <1>16 DEF RefreshLost, Rotates
  <2> QED
    BY <1>16, <2>1, <2>2, EndRequestType DEF RefreshLost
<1>17. ASSUME NEW p \in Procs, RefreshRefused(p) PROVE TypeOK'
  <2>1. held[p] \in Clients /\ SessionOf(p).token \in Nat
    BY <1>17, WorkingType DEF RefreshRefused, Working, Owning
  <2> QED
    BY <1>17, <2>1, EndRequestType DEF RefreshRefused
<1>18. ASSUME NEW p \in Procs, Register(p) PROVE TypeOK'
  <2>1. held[p] \in Clients
    BY <1>18, WorkingType DEF Register, Working, Owning
  <2>2. CASE Retry(p)
    BY <1>18, <2>1, <2>2 DEF Register, Retry, Goto, Points
  <2>3. CASE EndRequest(p) /\ UNCHANGED <<access, registered>>
    BY <1>18, <2>1, <2>3, EndRequestType DEF Register
  <2>4. CASE /\ Continue(p, "request") /\ registered' = registered \cup {held[p]}
             /\ UNCHANGED access
    BY <1>18, <2>1, <2>4 DEF Register, Continue, Goto, Points
  <2> QED
    BY <1>18, <2>2, <2>3, <2>4 DEF Register
<1>19. ASSUME NEW p \in Procs, SendRequest(p) PROVE TypeOK'
  <2>1. held[p] \in Clients
    BY <1>19, WorkingType DEF SendRequest, Working, Owning
  <2>2. CASE Retry(p)
    BY <1>19, <2>1, <2>2 DEF SendRequest, Retry, Goto, Points
  <2>3. CASE EndRequest(p) /\ UNCHANGED <<access, registered>>
    BY <1>19, <2>1, <2>3, EndRequestType DEF SendRequest
  <2> QED
    BY <1>19, <2>2, <2>3 DEF SendRequest
<1>20. ASSUME NEW p \in Procs, StartCheck(p) PROVE TypeOK'
  <2>1. CASE LivePending # 0 \/ inFlight \/ cooldown
    <3>1. /\ Finish(p) /\ pending' = LivePending /\ expired' = FALSE
          /\ UNCHANGED <<file, ringVars, lastHw, queue, clientVars, cooldown, inFlight,
                         ghostVars>>
      BY <1>20, <2>1 DEF StartCheck
    <3> QED
      BY <3>1, FinishType, LivePendingType
  <2>2. CASE ~(LivePending # 0 \/ inFlight \/ cooldown)
    <3>1. /\ pending' = 0 /\ cooldown' = TRUE /\ inFlight' = TRUE /\ expired' = FALSE
          /\ lastHw' = lastHw + 1 /\ hw' = [hw EXCEPT ![p] = lastHw + 1]
          /\ Goto(p, "password")
          /\ UNCHANGED <<op, held, attempt, owner, readers, writer, file, ringVars, queue,
                         clientVars, ghostVars>>
      BY <1>20, <2>2 DEF StartCheck
    <3>2. cooldown' \in BOOLEAN /\ inFlight' \in BOOLEAN /\ expired' \in BOOLEAN
      BY <3>1
    <3>3. pc' \in [Procs -> Points] /\ hw' \in [Procs -> Nat] /\ lastHw' \in Nat
      BY <3>1 DEF Goto, Points
    <3> QED
      BY <3>1, <3>2, <3>3
  <2> QED
    BY <2>1, <2>2
<1>21. ASSUME NEW p \in Procs, PasswordAnswer(p) PROVE TypeOK'
  <2>1. ASSUME NEW point \in Points, Proceed(p, point),
               UNCHANGED <<file, ringVars, enrolled>>
        PROVE  TypeOK'
    BY <1>21, <2>1, ContinueType DEF PasswordAnswer, Proceed
  <2>2. ASSUME NEW ok \in BOOLEAN, NEW point \in Points, StoreEnrolled(hw[p], ok),
               Proceed(p, point)
        PROVE  TypeOK'
    BY <1>21, <2>2, StoreEnrolledType, ContinueType DEF PasswordAnswer, Proceed
  <2> QED
    BY <1>21, <2>1, <2>2 DEF PasswordAnswer, Points
<1>22. ASSUME NEW p \in Procs, StartUpdate(p) PROVE TypeOK'
  <2>1. "reset" \in Points
    BY DEF Points
  <2> QED
    BY <1>22, <2>1, FinishType, ContinueType DEF StartUpdate, Proceed
<1>23. ASSUME NEW p \in Procs, VerifyTake(p) PROVE TypeOK'
  <2>1. "otp" \in Points
    BY DEF Points
  <2>2. CASE Finish(p) /\ pending' = LivePending /\ UNCHANGED spent
    BY <1>23, <2>2, FinishType DEF VerifyTake, LivePending
  <2>3. CASE Proceed(p, "otp") /\ pending' = 0 /\ spent' = spent \cup {hw[p]}
    BY <1>23, <2>1, <2>3, ContinueType DEF VerifyTake, Proceed
  <2> QED
    BY <1>23, <2>2, <2>3 DEF VerifyTake, ChallengeTaken
<1>24. ASSUME NEW p \in Procs, OtpAnswer(p) PROVE TypeOK'
  <2>1. "reset" \in Points
    BY DEF Points
  <2>2. CASE Finish(p) /\ UNCHANGED <<file, ringVars, enrolled>>
    BY <1>24, <2>2, FinishType DEF OtpAnswer
  <2>3. ASSUME NEW ok \in BOOLEAN, StoreEnrolled(hw[p], ok), Proceed(p, "reset")
        PROVE  TypeOK'
    BY <1>24, <2>1, <2>3, StoreEnrolledType, ContinueType DEF OtpAnswer, Proceed
  <2>4. ASSUME NEW ok \in BOOLEAN, StoreEnrolled(hw[p], ok), Finish(p)
        PROVE  TypeOK'
    BY <1>24, <2>4, StoreEnrolledType, FinishType, SMTT(30) DEF OtpAnswer
  <2>5. ASSUME NEW ok \in BOOLEAN, StoreEnrolled(hw[p], ok),
               IF ok THEN Proceed(p, "reset") ELSE Finish(p)
        PROVE  TypeOK'
    <3>1. CASE ok
      BY <2>3, <2>5, <3>1
    <3>2. CASE ~ok
      BY <2>4, <2>5, <3>2
    <3> QED
      BY <3>1, <3>2
  <2> QED
    BY <1>24, <2>2, <2>5 DEF OtpAnswer
<1>25. ASSUME NEW p \in Procs, Disconnect(p) PROVE TypeOK'
  <2>1. ASSUME NEW i \in 1..Len(queue) PROVE RemoveAt(queue, i) \in Seq(Procs)
    <3>1. /\ SubSeq(queue, 1, i - 1) \in Seq(Procs)
          /\ SubSeq(queue, i + 1, Len(queue)) \in Seq(Procs)
      BY <2>1, SubSeqProperties
    <3> QED
      BY <3>1, ConcatProperties DEF RemoveAt
  <2>2. queue' \in Seq(Procs)
    BY <1>25, <2>1 DEF Disconnect
  <2> QED
    BY <1>25, <2>2, FinishType DEF Disconnect
<1>26. CASE CancelEnrollment
    BY <1>26 DEF CancelEnrollment
<1>27. CASE ClientDeadline
    BY <1>27 DEF ClientDeadline
<1>28. CASE EnrollmentDeadline
    BY <1>28 DEF EnrollmentDeadline
<1>29. CASE UNCHANGED vars
    BY <1>29 DEF vars
<1>30. CASE Restart
  <2>1. NoSession \in Session
    BY DEF NoSession, Session
  <2>2. lost' \subseteq Nat
    BY <1>30, ZenonT(60) DEF Restart, Session
  <2>3. /\ pc' \in [Procs -> Points]
        /\ op' \in [Procs -> CallOps \cup {"start", "verify"}]
    BY <1>30 DEF Restart, CallOps, Points
  <2>4. session' \in [Clients -> Session]
    BY <1>30, <2>1 DEF Restart
  <2>5. /\ readers' \subseteq Procs /\ access' \subseteq Clients
        /\ registered' \subseteq Clients /\ reauth' \subseteq Clients
        /\ rotationPending' \subseteq Clients
        /\ queue' \in Seq(Procs)
    BY <1>30 DEF Restart
  <2>7. refused' \subseteq Nat /\ quiet' \subseteq refused'
    BY <1>30, Zenon DEF Restart
  <2>6. /\ owner' \in [Clients -> Procs \cup {NoProc}]
        /\ held' \in [Procs -> Clients \cup {NoClient}]
        /\ attempt' \in [Procs -> {0, 1}]
        /\ hw' \in [Procs -> Nat]
    BY <1>30 DEF Restart
  <2> QED
    BY <1>30, <2>2, <2>3, <2>4, <2>5, <2>6, <2>7 DEF Restart
<1> QED
    BY <1>1, <1>2, <1>3, <1>4, <1>5, <1>6, <1>7, <1>8, <1>9, <1>10, <1>11, <1>12, <1>13, <1>14, <1>15, <1>16, <1>17, <1>18, <1>19, <1>20, <1>21, <1>22, <1>23, <1>24, <1>25, <1>26, <1>27, <1>28, <1>29, <1>30 DEF Next, Call, Enrollment

-----------------------------------------------------------------------------
(* The lifecycle lock.                                                     *)

\* A task that ends gives back what it holds and disturbs nobody else.
LEMMA FinishLock ==
    ASSUME TypeOK, LockInv, NEW p \in Procs, Finish(p), UNCHANGED slot
    PROVE  LockInv'
    BY NoProcAssumption
    DEF TypeOK, LockInv, Finish, Goto, Working, Owning, Handling

\* A task that works with a client goes on working with it.
LEMMA WorkingLock ==
    ASSUME TypeOK, LockInv, NEW p \in Procs, NEW point \in Working,
           pc[p] \in Working, Goto(p, point),
           UNCHANGED <<held, readers, writer, slot>>,
           op' = op \/ (\E k \in CallOps : op' = [op EXCEPT ![p] = k])
    PROVE  LockInv'
  <1>1. pc' = [pc EXCEPT ![p] = point] /\ point \notin Handling /\ point # "granted"
    BY DEF Goto, Working, Owning, Handling
  <1>2. \A q \in Procs : q # p => op'[q] = op[q] /\ pc'[q] = pc[q]
    BY <1>1 DEF TypeOK
  <1> QED
    BY <1>1, <1>2 DEF TypeOK, LockInv

\* An enrollment handler goes on under its write guard.
LEMMA HandlingLock ==
    ASSUME TypeOK, LockInv, NEW p \in Procs, NEW point \in Handling,
           writer = p, pc[p] \notin Working, Goto(p, point),
           UNCHANGED <<op, held, readers, writer, slot>>
    PROVE  LockInv'
    BY DEF TypeOK, LockInv, Goto, Handling, Working, Owning

\* The end of a request is such a step.
LEMMA EndRequestLock ==
    ASSUME TypeOK, LockInv, NEW p \in Procs, pc[p] \in Working, EndRequest(p),
           UNCHANGED <<lockVars, slot>>
    PROVE  LockInv'
    BY WorkingLock DEF EndRequest, Working

\* So is its continuation.
LEMMA ContinueLock ==
    ASSUME TypeOK, LockInv, NEW p \in Procs, NEW point \in Working,
           pc[p] \in Working, Continue(p, point), UNCHANGED <<lockVars, slot>>
    PROVE  LockInv'
    BY WorkingLock DEF Continue

\* Every step keeps the guards where LockInv says they are.
LEMMA LockStep == TypeOK /\ LockInv /\ [Next]_vars => LockInv'
<1> SUFFICES ASSUME TypeOK, LockInv, [Next]_vars PROVE LockInv'
    OBVIOUS
<1>1. ASSUME NEW p \in Procs, NEW k \in CallOps \cup {"start", "verify"}, NEW h \in Nat,
             pc[p] = "idle", Enqueue(p, k, h), UNCHANGED <<writer, slot>>
      PROVE  LockInv'
    BY <1>1 DEF TypeOK, LockInv, Enqueue, Goto, Working, Owning, Handling
<1>2. ASSUME NEW p \in Procs, RequestClient(p) \/ RequestStart(p) \/ RequestVerify(p)
      PROVE  LockInv'
  <2>1. CASE RequestClient(p)
    BY <1>1, <2>1 DEF RequestClient
  <2>2. CASE RequestStart(p)
    BY <1>1, <2>2 DEF RequestStart
  <2>3. CASE RequestVerify(p)
    <3>1. PICK h \in 1..lastHw : Enqueue(p, "verify", h)
      BY <2>3 DEF RequestVerify
    <3>2. h \in Nat
      BY <3>1 DEF TypeOK
    <3> QED
      BY <1>1, <2>3, <3>1, <3>2 DEF RequestVerify
  <2> QED
    BY <1>2, <2>1, <2>2, <2>3
<1>3. ASSUME NEW p \in Procs, Grant(p) PROVE LockInv'
    BY <1>3, NoProcAssumption
    DEF TypeOK, LockInv, Grant, Admits, Continue, Goto, Working, Owning, Handling
<1>4. ASSUME NEW p \in Procs, GetClient(p) PROVE LockInv'
  <2>1. CASE Finish(p) /\ UNCHANGED clientVars
    BY <1>4, <2>1, FinishLock
  <2>2. ASSUME slot # NoClient, Goto(p, "locking"), held' = [held EXCEPT ![p] = slot],
               UNCHANGED <<slot, op, readers, writer>>
        PROVE  LockInv'
    BY <1>4, <2>2
    DEF TypeOK, LockInv, GetClient, Goto, Working, Owning, Handling
  <2>3. ASSUME NEW c \in Clients, slot = NoClient, slot' = c, Goto(p, "locking"),
               held' = [held EXCEPT ![p] = c], UNCHANGED <<op, readers, writer>>
        PROVE  LockInv'
    BY <1>4, <2>3, NoClientAssumption
    DEF TypeOK, LockInv, GetClient, Goto, Working, Owning, Handling
  <2> QED
    BY <1>4, <2>1, <2>2, <2>3 DEF GetClient, Build
<1>5. ASSUME NEW p \in Procs, ReleaseClient(p) PROVE LockInv'
    BY <1>5, FinishLock DEF ReleaseClient
<1>6. ASSUME NEW p \in Procs, NextRequest(p) PROVE LockInv'
    BY <1>6, WorkingLock DEF NextRequest, Working
<1>7. ASSUME NEW p \in Procs, LockState(p) PROVE LockInv'
    BY <1>7, WorkingLock DEF LockState, Working, Owning
<1>8. ASSUME NEW p \in Procs, FlushRotation(p) PROVE LockInv'
  <2>1. CASE EndRequest(p)
    BY <1>8, <2>1, EndRequestLock DEF FlushRotation, Working, Owning
  <2>2. CASE UNCHANGED <<procVars, owner>>
    BY <1>8, <2>2 DEF FlushRotation, LockInv
  <2> QED
    BY <1>8, <2>1, <2>2 DEF FlushRotation
<1>9. ASSUME NEW p \in Procs, UseAccess(p) PROVE LockInv'
    BY <1>9, ContinueLock DEF UseAccess, Working, Owning
<1>10. ASSUME NEW p \in Procs, StayQuiet(p) PROVE LockInv'
    BY <1>10, EndRequestLock DEF StayQuiet, Working, Owning
<1>11. ASSUME NEW p \in Procs, PresentToken(p) PROVE LockInv'
  <2>1. EndRequest(p) \/ Continue(p, "refresh")
    BY <1>11 DEF PresentToken
  <2> QED
    BY <1>11, <2>1, EndRequestLock, ContinueLock DEF PresentToken, Working, Owning
<1>12. ASSUME NEW p \in Procs, RefreshGranted(p) PROVE LockInv'
  <2>1. EndRequest(p) \/ Continue(p, "register")
    BY <1>12 DEF RefreshGranted
  <2> QED
    BY <1>12, <2>1, EndRequestLock, ContinueLock DEF RefreshGranted, Working, Owning
<1>13. ASSUME NEW p \in Procs, RefreshLost(p) PROVE LockInv'
    BY <1>13, EndRequestLock DEF RefreshLost, Working, Owning
<1>14. ASSUME NEW p \in Procs, RefreshRefused(p) PROVE LockInv'
    BY <1>14, EndRequestLock DEF RefreshRefused, Working, Owning
<1>15. ASSUME NEW p \in Procs, RefreshFailed(p) PROVE LockInv'
    BY <1>15, EndRequestLock DEF RefreshFailed, Working, Owning
<1>16. ASSUME NEW p \in Procs, Register(p) \/ SendRequest(p) PROVE LockInv'
  <2>1. /\ pc[p] \in Working /\ UNCHANGED <<lockVars, slot>>
        /\ Retry(p) \/ EndRequest(p) \/ Continue(p, "request")
    BY <1>16 DEF Register, SendRequest, Working, Owning
  <2>2. CASE Retry(p)
    BY <2>1, <2>2, WorkingLock DEF Retry, Working, Owning
  <2> QED
    BY <2>1, <2>2, EndRequestLock, ContinueLock DEF Working, Owning
<1>17. ASSUME NEW p \in Procs, StartCheck(p) PROVE LockInv'
  <2>1. CASE Finish(p)
    BY <1>17, <2>1, FinishLock DEF StartCheck
  <2>2. CASE Goto(p, "password") /\ UNCHANGED <<op, held, readers, writer>>
    BY <1>17, <2>2, HandlingLock DEF StartCheck, LockInv, Handling, Working, Owning, CallOps
  <2> QED
    BY <1>17, <2>1, <2>2 DEF StartCheck
<1>18. ASSUME NEW p \in Procs, PasswordAnswer(p) PROVE LockInv'
  <2>1. PICK point \in {"challenged", "completed", "failed"} : Proceed(p, point)
    BY <1>18 DEF PasswordAnswer
  <2> QED
    BY <1>18, <2>1, HandlingLock
    DEF PasswordAnswer, Proceed, Continue, LockInv, Handling, Working, Owning
<1>19. ASSUME NEW p \in Procs, StartUpdate(p) PROVE LockInv'
  <2>1. CASE Finish(p)
    BY <1>19, <2>1, FinishLock DEF StartUpdate
  <2>2. CASE Proceed(p, "reset")
    BY <1>19, <2>2, HandlingLock
    DEF StartUpdate, Proceed, Continue, LockInv, Handling, Working, Owning
  <2> QED
    BY <1>19, <2>1, <2>2 DEF StartUpdate
<1>20. ASSUME NEW p \in Procs, VerifyTake(p) PROVE LockInv'
  <2>1. CASE Finish(p)
    BY <1>20, <2>1, FinishLock DEF VerifyTake
  <2>2. CASE Proceed(p, "otp")
    BY <1>20, <2>2, HandlingLock
    DEF VerifyTake, Proceed, Continue, LockInv, Handling, Working, Owning, CallOps
  <2> QED
    BY <1>20, <2>1, <2>2 DEF VerifyTake
<1>21. ASSUME NEW p \in Procs, OtpAnswer(p) PROVE LockInv'
  <2>1. CASE Finish(p)
    BY <1>21, <2>1, FinishLock DEF OtpAnswer
  <2>2. CASE Proceed(p, "reset")
    BY <1>21, <2>2, HandlingLock
    DEF OtpAnswer, Proceed, Continue, LockInv, Handling, Working, Owning
  <2> QED
    BY <1>21, <2>1, <2>2 DEF OtpAnswer
<1>22. ASSUME NEW p \in Procs, ResetClient(p) PROVE LockInv'
  <2>1. writer = p /\ readers = {} /\ \A q \in Procs : held[q] = NoClient
    BY <1>22, NoProcAssumption DEF LockInv, ResetClient, Handling
  <2>2. /\ pc' = [pc EXCEPT ![p] = "queued"] /\ held' = held
        /\ readers' = {} /\ writer' = NoProc
    BY <1>22, <2>1 DEF ResetClient, Enqueue, Goto
  <2>3. \A q \in Procs : q # p => op'[q] = op[q]
    BY <1>22 DEF ResetClient, Enqueue, TypeOK
  <2> QED
    BY <2>1, <2>2, <2>3 DEF TypeOK, LockInv, Working, Owning, Handling
<1>23. ASSUME NEW p \in Procs, Disconnect(p) PROVE LockInv'
    BY <1>23, FinishLock DEF Disconnect
<1>24. CASE CancelEnrollment \/ ClientDeadline \/ EnrollmentDeadline \/ UNCHANGED vars
    BY <1>24 DEF LockInv, CancelEnrollment, ClientDeadline, EnrollmentDeadline, vars
<1>25. CASE Restart
    BY <1>25 DEF LockInv, Restart, Working, Owning, Handling
<1> QED
    BY <1>2, <1>3, <1>4, <1>5, <1>6, <1>7, <1>8, <1>9, <1>10, <1>11, <1>12, <1>13, <1>14,
       <1>15, <1>16, <1>17, <1>18, <1>19, <1>20, <1>21, <1>22, <1>23, <1>24, <1>25
    DEF Next, Call, Enrollment

-----------------------------------------------------------------------------
(* Enrollment.                                                             *)

\* While a task works with a client, no enrollment handler is under way.
LEMMA NoHandler ==
    ASSUME TypeOK, LockInv, NEW p \in Procs, pc[p] \in Working
    PROVE  /\ held[p] = slot /\ slot \in Clients /\ writer = NoProc
           /\ \A q \in Procs : pc[q] \notin Handling
  <1>1. held[p] = slot /\ slot # NoClient /\ p \in readers
    BY DEF LockInv
  <1>2. writer = NoProc
    BY <1>1 DEF LockInv
  <1> QED
    BY <1>1, <1>2, NoProcAssumption DEF TypeOK, LockInv

\* A request may store the session of its own client and nothing else.
LEMMA RequestEnroll ==
    ASSUME TypeOK, LockInv, EnrollInv, NEW p \in Procs, pc[p] \in Working,
           pc' \in [Procs -> Points],
           \A q \in Procs : q # p => pc'[q] = pc[q] /\ op'[q] = op[q] /\ hw'[q] = hw[q],
           pc'[p] \in Working \cup {"idle"},
           file'.hw = file.hw \/ file'.hw = session[slot].hw,
           session'[slot].hw = session[slot].hw,
           UNCHANGED <<slot, lastHw, enrolled, pending, spent>>
    PROVE  EnrollInv'
  <1>1. slot # NoClient /\ \A q \in Procs : pc[q] \notin Handling
    BY NoHandler, NoClientAssumption
  <1>2. \A q \in Procs : pc'[q] \notin Handling
    BY <1>1 DEF Working, Owning, Handling
  <1>3. SafeDrops => session[slot].hw >= enrolled
    BY <1>1 DEF EnrollInv, FreshInv, Handling, Storing
  <1>4. IdInv'
    <2>1. \A q \in Procs : pc'[q] \in {"queued", "granted"} /\ op'[q] = "verify" => hw'[q] > 0
      BY DEF EnrollInv, IdInv, Working, Owning
    <2> QED
      BY <1>1, <1>2, <2>1 DEF EnrollInv, IdInv
  <1>5. UnusedInv'
    BY <1>1, <1>2 DEF EnrollInv, UnusedInv, Unstored, Storing, Handling
  <1>6. FreshInv'
    BY <1>1, <1>3 DEF EnrollInv, FreshInv
  <1>7. SpentInv'
    BY <1>2 DEF EnrollInv, SpentInv, Handling
  <1> QED
    BY <1>4, <1>5, <1>6, <1>7 DEF EnrollInv

\* A task that ends before it has stored a session leaves nothing behind.
LEMMA FinishEnroll ==
    ASSUME TypeOK, EnrollInv, NEW p \in Procs, Finish(p), SafeDrops => pc[p] \notin Storing,
           pending' \in {0, pending},
           UNCHANGED <<file, slot, session, lastHw, enrolled, spent>>
    PROVE  EnrollInv'
  <1>1. /\ pc' = [pc EXCEPT ![p] = "idle"] /\ hw' = [hw EXCEPT ![p] = 0]
        /\ op' = [op EXCEPT ![p] = "discovery"]
    BY DEF Finish, Goto
  <1>2. IdInv'
    BY <1>1 DEF TypeOK, EnrollInv, IdInv, Handling
  <1>3. UnusedInv'
    BY <1>1 DEF TypeOK, EnrollInv, UnusedInv, Unstored, Storing
  <1>4. FreshInv'
    BY <1>1 DEF TypeOK, EnrollInv, FreshInv, Storing
  <1>5. SpentInv'
    BY <1>1 DEF TypeOK, EnrollInv, SpentInv
  <1> QED
    BY <1>2, <1>3, <1>4, <1>5 DEF EnrollInv

\* The answer of an enrollment stores a session under the flow's own id.
LEMMA StoreEnroll ==
    ASSUME TypeOK, LockInv, EnrollInv, NEW p \in Procs, pc[p] \in {"password", "otp"},
           NEW ok \in BOOLEAN, StoreEnrolled(hw[p], ok),
           pc' \in [Procs -> Points],
           \A q \in Procs : q # p => pc'[q] = pc[q] /\ op'[q] = op[q] /\ hw'[q] = hw[q],
           IF ok THEN pc'[p] \in Storing /\ hw'[p] = hw[p]
                 ELSE pc'[p] = "idle" \/ (pc'[p] = "failed" /\ hw'[p] = hw[p]),
           UNCHANGED <<slot, session, lastHw, pending, spent>>
    PROVE  EnrollInv'
  <1>1. /\ hw[p] = lastHw
        /\ file.hw < lastHw
        /\ slot # NoClient => session[slot].hw < lastHw
    BY DEF EnrollInv, IdInv, UnusedInv, Unstored, Handling
  <1>2. \A q \in Procs : q # p => pc[q] \notin Handling
    BY DEF LockInv, Handling
  <1>3. pending = 0
    BY DEF EnrollInv, IdInv, Handling
  <1>4. file'.hw = file.hw \/ file'.hw = lastHw
    BY <1>1 DEF StoreEnrolled, Persist
  <1>5. /\ ok => file'.hw = lastHw /\ enrolled' = lastHw
        /\ ~ok => enrolled' = enrolled
    BY <1>1 DEF StoreEnrolled, Persist
  <1>6. pc'[p] \in {"completed", "reset", "failed", "idle"}
    BY DEF Storing
  <1>7. \A q \in Procs : q # p => pc'[q] \notin Handling
    BY <1>2
  <1>8. IdInv'
    <2>1. file'.hw <= lastHw /\ enrolled' <= lastHw
      BY <1>1, <1>4, <1>5 DEF EnrollInv, IdInv, TypeOK, Session
    <2>2. \A q \in Procs : pc'[q] \in Handling => hw'[q] = lastHw
      BY <1>1, <1>6, <1>7 DEF Handling, Storing
    <2>3. \A q \in Procs : pc'[q] \in {"queued", "granted"} /\ op'[q] = "verify" => hw'[q] > 0
      BY <1>6 DEF EnrollInv, IdInv
    <2> QED
      BY <1>3, <2>1, <2>2, <2>3 DEF EnrollInv, IdInv
  <1>9. UnusedInv'
    <2>1. \A q \in Procs : pc'[q] \notin Unstored
      BY <1>6, <1>7 DEF Unstored, Handling
    <2>2. \A q \in Procs : pc'[q] \in Storing => ok
      BY <1>7 DEF Storing, Handling
    <2> QED
      BY <1>1, <1>3, <1>5, <2>1, <2>2 DEF UnusedInv
  <1>10. FreshInv'
    <2>1. CASE ok
      BY <2>1, <1>5 DEF FreshInv, TypeOK
    <2>2. CASE ~ok
      <3>1. \A q \in Procs : pc[q] \notin Storing
        BY <1>2 DEF Storing, Handling
      <3>2. SafeDrops => file'.hw >= enrolled
        BY <1>4 DEF EnrollInv, FreshInv, IdInv, TypeOK
      <3> QED
        BY <2>2, <1>5, <3>1, <3>2 DEF EnrollInv, FreshInv
    <2> QED
      BY <2>1, <2>2
  <1>11. SpentInv'
    BY <1>3, <1>6, <1>7 DEF EnrollInv, SpentInv, Handling
  <1> QED
    BY <1>8, <1>9, <1>10, <1>11 DEF EnrollInv

\* A task that joins the queue or is admitted by the lock touches no session.
LEMMA WaitEnroll ==
    ASSUME TypeOK, EnrollInv, NEW p \in Procs, pc[p] \in {"idle", "queued"},
           NEW point \in {"queued", "granted"}, Goto(p, point),
           \A q \in Procs : q # p => op'[q] = op[q] /\ hw'[q] = hw[q],
           op'[p] = "verify" => hw'[p] > 0,
           UNCHANGED <<file, slot, session, lastHw, enrolled, pending, spent>>
    PROVE  EnrollInv'
  <1>1. pc' = [pc EXCEPT ![p] = point]
    BY DEF Goto
  <1>2. IdInv'
    BY <1>1 DEF TypeOK, EnrollInv, IdInv, Handling
  <1>3. UnusedInv'
    BY <1>1 DEF TypeOK, EnrollInv, UnusedInv, Unstored, Storing
  <1>4. FreshInv'
    BY <1>1 DEF TypeOK, EnrollInv, FreshInv, Storing
  <1>5. SpentInv'
    BY <1>1 DEF TypeOK, EnrollInv, SpentInv
  <1> QED
    BY <1>2, <1>3, <1>4, <1>5 DEF EnrollInv

\* The end of a request, or its continuation, as RequestEnroll wants it.
LEMMA RequestMoves ==
    ASSUME TypeOK, NEW p \in Procs,
           EndRequest(p) \/ (\E point \in Working : Continue(p, point)) \/ Retry(p)
              \/ UNCHANGED procVars \/ (pc[p] \in Working /\ NextRequest(p)) \/ LockState(p),
           pc[p] \in Working
    PROVE  /\ pc' \in [Procs -> Points]
           /\ \A q \in Procs : q # p => pc'[q] = pc[q] /\ op'[q] = op[q] /\ hw'[q] = hw[q]
           /\ pc'[p] \in Working
  <1>0. /\ pc \in [Procs -> Points]
        /\ op \in [Procs -> CallOps \cup {"start", "verify"}]
        /\ Working \subseteq Points /\ {"held", "auth", "locking"} \subseteq Working
    BY DEF TypeOK, Working, Owning, Points
  <1>1. \/ UNCHANGED <<pc, op, hw>>
        \/ \E point \in Working : pc' = [pc EXCEPT ![p] = point] /\ UNCHANGED <<op, hw>>
        \/ /\ pc' = [pc EXCEPT ![p] = "locking"]
           /\ \E k \in CallOps : op' = [op EXCEPT ![p] = k]
           /\ UNCHANGED hw
    <2>1. CASE EndRequest(p)
      BY <1>0, <2>1 DEF EndRequest, Goto
    <2>2. CASE \E point \in Working : Continue(p, point)
      BY <2>2 DEF Continue, Goto
    <2>3. CASE Retry(p)
      BY <1>0, <2>3 DEF Retry, Goto
    <2>4. CASE NextRequest(p)
      BY <2>4 DEF NextRequest, Goto
    <2>5. CASE LockState(p)
      BY <1>0, <2>5 DEF LockState, Goto
    <2>6. CASE UNCHANGED procVars
      BY <2>6 DEF procVars
    <2> QED
      BY <2>1, <2>2, <2>3, <2>4, <2>5, <2>6
  <1> QED
    BY <1>0, <1>1

\* What a write leaves in the file.
LEMMA PersistHw ==
    ASSUME NEW s, NEW ok, Persist(s, ok)
    PROVE  file' = file \/ file' = s
    BY DEF Persist

\* Every step keeps enrollments in order.
LEMMA EnrollStep == TypeOK /\ LockInv /\ EnrollInv /\ [Next]_vars => EnrollInv'
<1> SUFFICES ASSUME TypeOK, LockInv, EnrollInv, [Next]_vars PROVE EnrollInv'
    OBVIOUS
<1>1. ASSUME NEW p \in Procs, RequestClient(p) PROVE EnrollInv'
    BY <1>1, WaitEnroll DEF RequestClient, Enqueue, CallOps, TypeOK
<1>2. ASSUME NEW p \in Procs, RequestStart(p) PROVE EnrollInv'
    BY <1>2, WaitEnroll DEF RequestStart, Enqueue, TypeOK
<1>3. ASSUME NEW p \in Procs, RequestVerify(p) PROVE EnrollInv'
    BY <1>3, WaitEnroll DEF RequestVerify, Enqueue, TypeOK
<1>4. ASSUME NEW p \in Procs, Grant(p) PROVE EnrollInv'
    BY <1>4, WaitEnroll DEF Grant, Continue, EnrollInv, IdInv
<1>5. ASSUME NEW p \in Procs, GetClient(p) PROVE EnrollInv'
  <2>1. CASE Finish(p) /\ UNCHANGED clientVars
    BY <1>5, <2>1, FinishEnroll DEF GetClient, Storing
  <2>2. pc[p] = "granted" /\ writer = NoProc /\ \A q \in Procs : pc[q] \notin Handling
    <3>1. pc[p] = "granted" /\ p \in readers
      BY <1>5 DEF GetClient, LockInv
    <3> QED
      BY <3>1, NoProcAssumption DEF LockInv
  <2>3. ASSUME Goto(p, "locking"), UNCHANGED <<op, hw>>,
               UNCHANGED <<slot, session>> \/ (slot' # NoClient /\ session'[slot'] = file)
        PROVE  EnrollInv'
    <3>1. pc' = [pc EXCEPT ![p] = "locking"]
          /\ UNCHANGED <<file, lastHw, enrolled, pending, spent>>
      BY <1>5, <2>3 DEF Goto, GetClient
    <3>2. \A q \in Procs : pc'[q] \notin Handling
      BY <2>2, <3>1 DEF TypeOK, Handling
    <3>3. IdInv'
      BY <2>3, <3>1, <3>2 DEF EnrollInv, IdInv, TypeOK
    <3>4. UnusedInv'
      BY <2>3, <3>1, <3>2 DEF EnrollInv, UnusedInv, Unstored, Storing, Handling
    <3>5. FreshInv'
      BY <2>2, <2>3, <3>1 DEF EnrollInv, FreshInv, Storing, Handling
    <3>6. SpentInv'
      BY <3>1, <3>2 DEF EnrollInv, SpentInv, Handling
    <3> QED
      BY <3>3, <3>4, <3>5, <3>6 DEF EnrollInv
  <2>4. ASSUME NEW c \in Clients, Build(c) PROVE slot' # NoClient /\ session'[slot'] = file
    BY <2>4, NoClientAssumption DEF Build, TypeOK
  <2> QED
    BY <1>5, <2>1, <2>3, <2>4 DEF GetClient
<1>6. ASSUME NEW p \in Procs, ReleaseClient(p) PROVE EnrollInv'
    BY <1>6, FinishEnroll DEF ReleaseClient, Storing
<1>7. ASSUME NEW p \in Procs, pc[p] \in Working,
             pc' \in [Procs -> Points],
             \A q \in Procs : q # p => pc'[q] = pc[q] /\ op'[q] = op[q] /\ hw'[q] = hw[q],
             pc'[p] \in Working,
             file' = file \/ file' = SessionOf(p),
             UNCHANGED <<slot, session, lastHw, enrolled, pending, spent>>
      PROVE  EnrollInv'
    BY <1>7, NoHandler, RequestEnroll DEF SessionOf
<1>8. ASSUME NEW p \in Procs, NextRequest(p) PROVE EnrollInv'
    BY <1>7, <1>8, RequestMoves DEF NextRequest, Working
<1>9. ASSUME NEW p \in Procs, LockState(p) PROVE EnrollInv'
    BY <1>7, <1>9, RequestMoves DEF LockState, Working
<1>10. ASSUME NEW p \in Procs, FlushRotation(p) PROVE EnrollInv'
  <2>1. file' = file \/ file' = SessionOf(p)
    BY <1>10, PersistHw DEF FlushRotation
  <2>2. pc[p] \in Working /\ (EndRequest(p) \/ UNCHANGED procVars)
    BY <1>10 DEF FlushRotation, Working, Owning
  <2> QED
    BY <1>7, <1>10, <2>1, <2>2, RequestMoves DEF FlushRotation
<1>11. ASSUME NEW p \in Procs, UseAccess(p) PROVE EnrollInv'
    BY <1>7, <1>11, RequestMoves DEF UseAccess, Working, Owning
<1>12. ASSUME NEW p \in Procs, StayQuiet(p) PROVE EnrollInv'
    BY <1>7, <1>12, RequestMoves DEF StayQuiet, Working, Owning
<1>13. ASSUME NEW p \in Procs, PresentToken(p) PROVE EnrollInv'
  <2>1. file' = file \/ file' = SessionOf(p)
    BY <1>13, PersistHw DEF PresentToken
  <2>2. pc[p] \in Working /\ (EndRequest(p) \/ Continue(p, "refresh"))
    BY <1>13 DEF PresentToken, Working, Owning
  <2>3. "refresh" \in Working
    BY DEF Working, Owning
  <2> QED
    BY <1>7, <1>13, <2>1, <2>2, <2>3, RequestMoves DEF PresentToken
<1>14. ASSUME NEW p \in Procs, RefreshGranted(p) PROVE EnrollInv'
  <2>1. pc[p] \in Working /\ (EndRequest(p) \/ Continue(p, "register")) /\ "register" \in Working
    BY <1>14 DEF RefreshGranted, Working, Owning
  <2>2. held[p] = slot /\ slot \in Clients
    BY <2>1, NoHandler
  <2>3. session'[slot].hw = session[slot].hw
    BY <1>14, <2>2 DEF RefreshGranted, Successor, TypeOK
  <2>4. file' = file \/ file' = Successor(SessionOf(p))
    BY <1>14, PersistHw DEF RefreshGranted
  <2>5. file'.hw = file.hw \/ file'.hw = session[slot].hw
    BY <2>2, <2>4 DEF SessionOf, Successor
  <2> QED
    BY <1>14, <2>1, <2>3, <2>5, RequestMoves, RequestEnroll DEF RefreshGranted
<1>15. ASSUME NEW p \in Procs, RefreshLost(p) PROVE EnrollInv'
    BY <1>7, <1>15, RequestMoves DEF RefreshLost, Working, Owning
<1>16. ASSUME NEW p \in Procs, RefreshRefused(p) PROVE EnrollInv'
    BY <1>7, <1>16, RequestMoves DEF RefreshRefused, Working, Owning
<1>17. ASSUME NEW p \in Procs, RefreshFailed(p) PROVE EnrollInv'
    BY <1>7, <1>17, RequestMoves DEF RefreshFailed, Working, Owning
<1>18. ASSUME NEW p \in Procs, Register(p) \/ SendRequest(p) PROVE EnrollInv'
  <2>1. /\ pc[p] \in Working
        /\ Retry(p) \/ EndRequest(p) \/ Continue(p, "request")
        /\ "request" \in Working
    BY <1>18 DEF Register, SendRequest, Working, Owning
  <2> QED
    BY <1>7, <1>18, <2>1, RequestMoves DEF Register, SendRequest
<1>19. ASSUME NEW p \in Procs, StartCheck(p) PROVE EnrollInv'
  <2>1. CASE Finish(p) /\ pending' = LivePending /\ UNCHANGED lastHw
    BY <1>19, <2>1, FinishEnroll, LivePendingType DEF StartCheck, Storing
  <2>2. ASSUME lastHw < MaxEnrollments, pending' = 0, lastHw' = lastHw + 1,
               hw' = [hw EXCEPT ![p] = lastHw + 1], Goto(p, "password"),
               UNCHANGED op
        PROVE  EnrollInv'
    <3>1. /\ pc' = [pc EXCEPT ![p] = "password"]
          /\ UNCHANGED <<file, slot, session, enrolled, spent>>
      BY <1>19, <2>2 DEF StartCheck, Goto
    <3>2. \A q \in Procs : q # p => pc[q] \notin Handling
      BY <1>19 DEF StartCheck, LockInv, CallOps
    <3>3. \A q \in Procs : pc[q] \notin Storing
      BY <1>19, <3>2 DEF StartCheck, Storing, Handling
    <3>4. IdInv'
      BY <2>2, <3>1, <3>2, BoundAssumption DEF TypeOK, Session, EnrollInv, IdInv, Handling
    <3>5. UnusedInv'
      BY <2>2, <3>1, <3>3 DEF TypeOK, Session, EnrollInv, IdInv, UnusedInv, Storing
    <3>6. FreshInv'
      BY <3>1, <3>3 DEF EnrollInv, FreshInv
    <3>7. SpentInv'
      BY <2>2, <3>1 DEF TypeOK, EnrollInv, SpentInv
    <3> QED
      BY <3>4, <3>5, <3>6, <3>7 DEF EnrollInv
  <2> QED
    BY <1>19, <2>1, <2>2 DEF StartCheck
<1>20. ASSUME NEW p \in Procs, PasswordAnswer(p) PROVE EnrollInv'
  <2>1. ASSUME NEW point \in {"challenged", "failed"}, Proceed(p, point),
               UNCHANGED <<file, ringVars, enrolled>>
        PROVE  EnrollInv'
    <3>1. /\ pc[p] = "password" /\ pc' = [pc EXCEPT ![p] = point]
          /\ UNCHANGED <<file, slot, session, lastHw, enrolled, pending, spent, op, hw>>
      BY <1>20, <2>1 DEF PasswordAnswer, Proceed, Continue, Goto
    <3>2. IdInv'
      BY <3>1 DEF TypeOK, EnrollInv, IdInv, Handling
    <3>3. UnusedInv'
      BY <3>1 DEF TypeOK, EnrollInv, UnusedInv, Unstored, Storing
    <3>4. FreshInv'
      BY <3>1 DEF TypeOK, EnrollInv, FreshInv, Storing
    <3>5. SpentInv'
      BY <3>1 DEF TypeOK, EnrollInv, SpentInv
    <3> QED
      BY <3>2, <3>3, <3>4, <3>5 DEF EnrollInv
  <2>2. ASSUME NEW ok \in BOOLEAN, StoreEnrolled(hw[p], ok),
               Proceed(p, IF ok THEN "completed" ELSE "failed")
        PROVE  EnrollInv'
    <3>1. /\ pc' = [pc EXCEPT ![p] = IF ok THEN "completed" ELSE "failed"]
          /\ UNCHANGED <<slot, session, lastHw, pending, spent, op, hw>>
      BY <1>20, <2>2 DEF PasswordAnswer, Proceed, Continue, Goto
    <3>2. /\ pc' \in [Procs -> Points]
          /\ \A q \in Procs : q # p => pc'[q] = pc[q]
          /\ pc'[p] = IF ok THEN "completed" ELSE "failed"
      BY <3>1 DEF TypeOK, Points
    <3> QED
      BY <1>20, <2>2, <3>1, <3>2, StoreEnroll DEF PasswordAnswer, Storing
  <2> QED
    BY <1>20, <2>1, <2>2 DEF PasswordAnswer
<1>21. ASSUME NEW p \in Procs, StartUpdate(p) PROVE EnrollInv'
  <2>1. hw[p] = lastHw /\ pending = 0 /\ \A q \in Procs : q # p => pc[q] \notin Handling
    BY <1>21 DEF StartUpdate, EnrollInv, IdInv, Handling, LockInv
  <2>2. CASE pc[p] = "failed"
    BY <1>21, <2>2, FinishEnroll DEF StartUpdate, Storing
  <2>3. CASE pc[p] = "completed"
    <3>1. /\ pc' = [pc EXCEPT ![p] = "reset"]
          /\ UNCHANGED <<file, slot, session, lastHw, enrolled, pending, spent, op, hw>>
      BY <1>21, <2>3 DEF StartUpdate, Proceed, Continue, Goto
    <3>2. IdInv'
      BY <2>1, <3>1 DEF TypeOK, EnrollInv, IdInv, Handling
    <3>3. UnusedInv'
      BY <2>3, <3>1 DEF TypeOK, EnrollInv, UnusedInv, Unstored, Storing
    <3>4. FreshInv'
      BY <2>3, <3>1 DEF TypeOK, EnrollInv, FreshInv, Storing
    <3>5. SpentInv'
      BY <3>1 DEF TypeOK, EnrollInv, SpentInv
    <3> QED
      BY <3>2, <3>3, <3>4, <3>5 DEF EnrollInv
  <2>4. CASE pc[p] = "challenged"
    <3>1. /\ pc' = [pc EXCEPT ![p] = "idle"] /\ hw' = [hw EXCEPT ![p] = 0]
          /\ op' = [op EXCEPT ![p] = "discovery"] /\ pending' = lastHw
          /\ UNCHANGED <<file, slot, session, lastHw, enrolled, spent>>
      BY <1>21, <2>1, <2>4 DEF StartUpdate, Finish, Goto
    <3>2. IdInv'
      BY <2>1, <3>1 DEF TypeOK, EnrollInv, IdInv, Handling
    <3>3. UnusedInv'
      BY <2>4, <3>1 DEF TypeOK, EnrollInv, UnusedInv, Unstored, Storing
    <3>4. FreshInv'
      BY <2>4, <3>1 DEF TypeOK, EnrollInv, FreshInv, Storing
    <3>5. SpentInv'
      BY <2>4, <3>1 DEF TypeOK, EnrollInv, SpentInv
    <3> QED
      BY <3>2, <3>3, <3>4, <3>5 DEF EnrollInv
  <2> QED
    BY <1>21, <2>2, <2>3, <2>4 DEF StartUpdate
<1>22. ASSUME NEW p \in Procs, VerifyTake(p) PROVE EnrollInv'
  <2>1. CASE Finish(p) /\ pending' = LivePending /\ UNCHANGED spent
    BY <1>22, <2>1, FinishEnroll, LivePendingType DEF VerifyTake, Storing
  <2>2. ASSUME LivePending = hw[p], pending' = 0, spent' = spent \cup {hw[p]},
               Proceed(p, "otp")
        PROVE  EnrollInv'
    <3>1. /\ pc' = [pc EXCEPT ![p] = "otp"]
          /\ UNCHANGED <<file, slot, session, lastHw, enrolled, op, hw>>
      BY <1>22, <2>2 DEF VerifyTake, Proceed, Continue, Goto
    <3>2. \A q \in Procs : q # p => pc[q] \notin Handling
      BY <1>22 DEF VerifyTake, LockInv, CallOps
    <3>3. pc[p] = "granted" /\ hw[p] = lastHw /\ pending = lastHw /\ lastHw > 0
      BY <1>22, <2>2, LivePendingType DEF VerifyTake, EnrollInv, IdInv, TypeOK
    <3>4. IdInv'
      BY <2>2, <3>1, <3>2, <3>3 DEF TypeOK, EnrollInv, IdInv, Handling
    <3>5. UnusedInv'
      BY <2>2, <3>1, <3>2, <3>3 DEF TypeOK, EnrollInv, UnusedInv, Storing, Handling
    <3>6. FreshInv'
      BY <3>1, <3>3 DEF TypeOK, EnrollInv, FreshInv, Storing
    <3>7. SpentInv'
      BY <2>2, <3>1, <3>2, <3>3 DEF TypeOK, EnrollInv, SpentInv, Handling
    <3> QED
      BY <3>4, <3>5, <3>6, <3>7 DEF EnrollInv
  <2> QED
    BY <1>22, <2>1, <2>2 DEF VerifyTake, ChallengeTaken
<1>23. ASSUME NEW p \in Procs, OtpAnswer(p) PROVE EnrollInv'
  <2>1. CASE Finish(p) /\ UNCHANGED <<file, ringVars, enrolled>>
    BY <1>23, <2>1, FinishEnroll DEF OtpAnswer, Storing
  <2>2. ASSUME NEW ok \in BOOLEAN, StoreEnrolled(hw[p], ok),
               IF ok THEN Proceed(p, "reset") ELSE Finish(p)
        PROVE  EnrollInv'
    <3>1. /\ \A q \in Procs : q # p => pc'[q] = pc[q] /\ op'[q] = op[q] /\ hw'[q] = hw[q]
          /\ pc' \in [Procs -> Points]
      <4>1. CASE Proceed(p, "reset")
        BY <4>1 DEF Proceed, Continue, Goto, TypeOK, Points
      <4>2. CASE Finish(p)
        BY <4>2 DEF Finish, Goto, TypeOK, Points
      <4> QED
        BY <2>2, <4>1, <4>2
    <3>2. IF ok THEN pc'[p] = "reset" /\ hw'[p] = hw[p] ELSE pc'[p] = "idle"
      BY <2>2 DEF Proceed, Continue, Finish, Goto, TypeOK
    <3> QED
      BY <1>23, <2>2, <3>1, <3>2, StoreEnroll DEF OtpAnswer, Storing
  <2> QED
    BY <1>23, <2>1, <2>2 DEF OtpAnswer
<1>24. ASSUME NEW p \in Procs, ResetClient(p) PROVE EnrollInv'
  <2>1. /\ pc' = [pc EXCEPT ![p] = "queued"] /\ op' = [op EXCEPT ![p] = "discovery"]
        /\ hw' = [hw EXCEPT ![p] = 0] /\ slot' = NoClient
        /\ UNCHANGED <<file, session, lastHw, enrolled, pending, spent>>
    BY <1>24 DEF ResetClient, Enqueue, Goto
  <2>2. IdInv'
    BY <2>1 DEF TypeOK, EnrollInv, IdInv, Handling
  <2>3. UnusedInv'
    BY <2>1 DEF TypeOK, EnrollInv, UnusedInv, Unstored, Storing
  <2>4. FreshInv'
    BY <2>1 DEF EnrollInv, FreshInv
  <2>5. SpentInv'
    BY <2>1 DEF TypeOK, EnrollInv, SpentInv
  <2> QED
    BY <2>2, <2>3, <2>4, <2>5 DEF EnrollInv
<1>25. ASSUME NEW p \in Procs, Disconnect(p) PROVE EnrollInv'
    BY <1>25, FinishEnroll DEF Disconnect, SafeDrops
<1>26. CASE CancelEnrollment
    BY <1>26 DEF CancelEnrollment, EnrollInv, IdInv, UnusedInv, FreshInv, SpentInv
<1>27. CASE ClientDeadline \/ EnrollmentDeadline \/ UNCHANGED vars
    BY <1>27 DEF ClientDeadline, EnrollmentDeadline, vars, EnrollInv, IdInv, UnusedInv,
                 FreshInv, SpentInv
<1>28. CASE Restart
    BY <1>28 DEF Restart, EnrollInv, IdInv, UnusedInv, FreshInv, SpentInv, Handling, Unstored,
                 Storing
<1> QED
    BY <1>1, <1>2, <1>3, <1>4, <1>5, <1>6, <1>8, <1>9, <1>10, <1>11, <1>12, <1>13, <1>14,
       <1>15, <1>16, <1>17, <1>18, <1>19, <1>20, <1>21, <1>22, <1>23, <1>24, <1>25, <1>26,
       <1>27, <1>28
    DEF Next, Call, Enrollment

-----------------------------------------------------------------------------
(* Theorems about enrollment.                                              *)

\* The initial states satisfy the invariant.
LEMMA InitInv == Init => TypeOK /\ LockInv /\ EnrollInv
<1> SUFFICES ASSUME Init PROVE TypeOK /\ LockInv /\ EnrollInv
    OBVIOUS
<1>1. file \in Session /\ NoSession \in Session /\ file.hw \in {0, 1} /\ file.token \in {0, 1}
    BY DEF Init, Session, NoSession
<1>2. valid \in [1..MaxEnrollments -> Nat]
    BY <1>1 DEF Init
<1>3. /\ pc \in [Procs -> Points] /\ op \in [Procs -> CallOps \cup {"start", "verify"}]
      /\ held \in [Procs -> Clients \cup {NoClient}] /\ attempt \in [Procs -> {0, 1}]
      /\ hw \in [Procs -> Nat] /\ owner \in [Clients -> Procs \cup {NoProc}]
      /\ session \in [Clients -> Session]
    BY <1>1 DEF Init, Points, CallOps
<1>4. TypeOK
  <2>1. /\ issued \in Nat /\ lastHw \in Nat /\ enrolled \in Nat /\ pending \in Nat
        /\ queue \in Seq(Procs)
    BY <1>1 DEF Init
  <2>2. expired \in BOOLEAN /\ cooldown \in BOOLEAN /\ inFlight \in BOOLEAN
    BY DEF Init
  <2>3. /\ readers \subseteq Procs /\ writer \in Procs \cup {NoProc}
        /\ slot \in Clients \cup {NoClient}
        /\ access \subseteq Clients /\ registered \subseteq Clients
        /\ reauth \subseteq Clients /\ rotationPending \subseteq Clients
        /\ refused \subseteq Nat /\ quiet \subseteq refused
        /\ spent \subseteq Nat /\ lost \subseteq Nat
    BY DEF Init
  <2> QED
    BY <1>1, <1>2, <1>3, <2>1, <2>2, <2>3 DEF TypeOK
<1>5. LockInv
    BY DEF Init, LockInv, Working, Owning, Handling
<1>6. EnrollInv
    BY <1>1, BoundAssumption
    DEF Init, EnrollInv, IdInv, UnusedInv, FreshInv, SpentInv, Handling, Unstored, Storing
<1> QED
    BY <1>4, <1>5, <1>6

\* Type correctness holds whatever point a peer disconnects at.
THEOREM TypeCorrect == Spec => []TypeOK
<1>1. Init => TypeOK /\ LockInv
    BY InitInv
<1>2. TypeOK /\ LockInv /\ [Next]_vars => (TypeOK /\ LockInv)'
    BY TypeStep, LockStep
<1> QED
    BY <1>1, <1>2, PTL DEF Spec

\* The enrollment invariant is inductive together with the lock's.
THEOREM EnrollmentInvariant == Spec => [](TypeOK /\ LockInv /\ EnrollInv)
<1>1. Init => TypeOK /\ LockInv /\ EnrollInv
    BY InitInv
<1>2. TypeOK /\ LockInv /\ EnrollInv /\ [Next]_vars => (TypeOK /\ LockInv /\ EnrollInv)'
    BY TypeStep, LockStep, EnrollStep
<1> QED
    BY <1>1, <1>2, PTL DEF Spec

\* Once an enrollment stored its session, no task works with a client of an
\* earlier enrollment: the write guard is held until the provider is reset.
THEOREM ClientsAreFresh == ASSUME SafeDrops PROVE Spec => []NoStaleClient
<1>1. TypeOK /\ LockInv /\ EnrollInv => NoStaleClient
  <2> SUFFICES ASSUME TypeOK, LockInv, EnrollInv, NEW p \in Procs, held[p] # NoClient
               PROVE  SessionOf(p).hw >= enrolled
    BY DEF NoStaleClient
  <2>1. pc[p] \in Working
    BY DEF LockInv
  <2>2. held[p] = slot /\ slot # NoClient /\ \A q \in Procs : pc[q] \notin Storing
    BY <2>1, NoHandler, NoClientAssumption DEF Storing, Handling
  <2> QED
    BY SafeDrops, <2>2 DEF EnrollInv, FreshInv, SessionOf
<1> QED
    BY <1>1, EnrollmentInvariant, PTL

\* The session an enrollment stored is never replaced by that of an earlier one.
THEOREM EnrollmentIsKept == ASSUME SafeDrops PROVE Spec => []EnrollmentSticks
<1>1. EnrollInv => EnrollmentSticks
    BY SafeDrops DEF EnrollInv, FreshInv, EnrollmentSticks
<1> QED
    BY <1>1, EnrollmentInvariant, PTL

\* A code goes to Ring only in verify, and there the challenge it belongs to was
\* pending, so it was not used before.
LEMMA OtpStep ==
  TypeOK /\ EnrollInv /\ [Next]_vars =>
     \A p \in Procs : pc[p] # "otp" /\ pc'[p] = "otp" => hw[p] \notin spent
<1> SUFFICES ASSUME TypeOK, EnrollInv, [Next]_vars, NEW p \in Procs,
                    pc[p] # "otp", pc'[p] = "otp"
             PROVE  hw[p] \notin spent
    OBVIOUS
<1>1. pc \in [Procs -> Points] /\ hw \in [Procs -> Nat] /\ pending \in Nat
    BY DEF TypeOK
<1>2. ASSUME NEW q \in Procs, VerifyTake(q)
      PROVE  hw[p] \notin spent
  <2>1. p = q
      BY <1>1, <1>2 DEF VerifyTake, Finish, Proceed, Continue, Goto
  <2>2. LivePending = hw[p] /\ hw[p] > 0
      BY <1>1, <1>2, <2>1
      DEF VerifyTake, Finish, Goto, EnrollInv, IdInv
  <2>3. pending = lastHw /\ hw[p] = lastHw /\ lastHw > 0
      BY <1>1, <2>2 DEF LivePending, EnrollInv, IdInv
  <2> QED
      BY <2>3 DEF EnrollInv, SpentInv
<1>3. ASSUME NEW q \in Procs, NEW point \in Points \ {"otp"}
      PROVE  pc' # [pc EXCEPT ![q] = point]
    BY <1>1, <1>3
<1>4. ASSUME NEW q \in Procs
      PROVE  /\ ~RequestClient(q) /\ ~RequestStart(q) /\ ~RequestVerify(q)
             /\ ~Grant(q) /\ ~LockState(q) /\ ~ReleaseClient(q) /\ ~Disconnect(q)
    BY <1>1, <1>3, <1>4
    DEF RequestClient, RequestStart, RequestVerify, Enqueue, Grant, LockState, ReleaseClient,
        Disconnect, Finish, Continue, Goto, Points
<1>5. ASSUME NEW q \in Procs
      PROVE  ~Call(q)
    BY <1>1, <1>3, <1>5
    DEF Call, GetClient, NextRequest, FlushRotation, UseAccess, StayQuiet, PresentToken,
        RefreshGranted, RefreshLost, RefreshRefused, RefreshFailed, Register, SendRequest,
        Retry, EndRequest, Finish, Continue, Goto, Points
<1>6. ASSUME NEW q \in Procs
      PROVE  /\ ~StartCheck(q) /\ ~PasswordAnswer(q) /\ ~StartUpdate(q)
             /\ ~OtpAnswer(q) /\ ~ResetClient(q)
    BY <1>1, <1>3, <1>6
    DEF StartCheck, PasswordAnswer, StartUpdate, OtpAnswer, ResetClient, Enqueue, Proceed,
        Finish, Continue, Goto, Points
<1>7. ~CancelEnrollment /\ ~ClientDeadline /\ ~EnrollmentDeadline /\ ~(UNCHANGED vars)
    BY <1>1 DEF CancelEnrollment, ClientDeadline, EnrollmentDeadline, vars
<1>8. ~Restart
    BY DEF Restart
<1> QED
    BY <1>2, <1>4, <1>5, <1>6, <1>7, <1>8 DEF Next, Enrollment

\* Whatever verifications, cancellations, deadlines and restarts interleave, no code
\* is sent to Ring for a challenge that was used before.
THEOREM ChallengesAreUsedOnce == Spec => ChallengeUsedOnce
<1>1. TypeOK /\ LockInv /\ EnrollInv /\ [Next]_vars =>
        [\A p \in Procs : pc[p] # "otp" /\ pc'[p] = "otp" => hw[p] \notin spent]_vars
    BY OtpStep
<1> QED
    BY <1>1, EnrollmentInvariant, PTL DEF Spec, ChallengeUsedOnce

-----------------------------------------------------------------------------
(* Refresh tokens.                                                         *)

\* What a request works with: the cached client, alone.
LEMMA WorkingClient ==
    ASSUME TypeOK, LockInv, SessionInv, NEW p \in Procs, pc[p] \in Working
    PROVE  /\ held[p] = slot /\ slot \in Clients /\ slot # NoClient
           /\ SessionOf(p) = session[slot] /\ session[slot] \in Session
           /\ session[slot] # NoSession
           /\ \A q \in Procs : pc[q] \notin Storing
  <1>1. held[p] = slot /\ slot \in Clients /\ \A q \in Procs : pc[q] \notin Handling
    BY NoHandler
  <1>2. slot # NoClient
    BY <1>1, NoClientAssumption
  <1>3. session[slot] \in Session /\ SessionOf(p) = session[slot]
    BY <1>1 DEF TypeOK, SessionOf
  <1>4. session[slot] # NoSession
    BY <1>2 DEF SessionInv, NoSession
  <1> QED
    BY <1>1, <1>2, <1>3, <1>4 DEF Storing, Handling

\* A task that lets go of its mutex takes it from nobody else.
LEMMA FreeOwnerKeeps ==
    ASSUME TypeOK, NEW p \in Procs, NEW q \in Procs, q # p, NEW c \in Clients,
           FreeOwner(p), owner[c] = q
    PROVE  owner'[c] = q
    BY DEF FreeOwner, TypeOK

\* The owner of a mutex stays its only owner when one task moves and the others
\* are where they were.
LEMMA OwnerMove ==
    ASSUME TypeOK, LockInv, OwnerInv, NEW p \in Procs,
           pc' \in [Procs -> Points],
           \A q \in Procs : q # p => pc'[q] = pc[q] /\ held'[q] = held[q],
           FreeOwner(p) \/ UNCHANGED owner,
           rotationPending' \subseteq rotationPending,
           pc'[p] \in Owning =>
               /\ owner'[held'[p]] = p
               /\ pc'[p] # "auth" => held'[p] \notin rotationPending'
    PROVE  OwnerInv'
  <1> SUFFICES ASSUME NEW q \in Procs, pc'[q] \in Owning
               PROVE  /\ owner'[held'[q]] = q
                      /\ pc'[q] # "auth" => held'[q] \notin rotationPending'
    BY DEF OwnerInv
  <1>1. CASE q = p
    BY <1>1
  <1>2. CASE q # p
    <2>1. pc'[q] = pc[q] /\ held'[q] = held[q] /\ pc[q] \in Owning
      BY <1>2
    <2>2. owner[held[q]] = q /\ (pc[q] # "auth" => held[q] \notin rotationPending)
      BY <2>1 DEF OwnerInv
    <2>3. held[q] \in Clients
      BY <2>1 DEF LockInv, Working, TypeOK
    <2>4. owner'[held[q]] = q
      BY <1>2, <2>2, <2>3, FreeOwnerKeeps
    <2> QED
      BY <2>1, <2>2, <2>4
  <1> QED
    BY <1>1, <1>2

\* A task that ends owns no mutex any more.
LEMMA FinishOwner ==
    ASSUME TypeOK, LockInv, OwnerInv, NEW p \in Procs, Finish(p), UNCHANGED rotationPending
    PROVE  OwnerInv'
    BY OwnerMove DEF Finish, Goto, TypeOK, Owning, Points

\* Nor does one whose request ends.
LEMMA EndRequestOwner ==
    ASSUME TypeOK, LockInv, OwnerInv, NEW p \in Procs, EndRequest(p),
           rotationPending' \subseteq rotationPending
    PROVE  OwnerInv'
    BY OwnerMove DEF EndRequest, Goto, TypeOK, Owning, Points

\* A task that goes on at a point where it needs no mutex, or has it already.
LEMMA GoOnOwner ==
    ASSUME TypeOK, LockInv, OwnerInv, NEW p \in Procs, NEW point \in Points, Goto(p, point),
           \A q \in Procs : q # p => held'[q] = held[q],
           UNCHANGED owner, rotationPending' \subseteq rotationPending,
           point \in Owning =>
               /\ pc[p] \in Owning /\ held'[p] = held[p]
               /\ point # "auth" => held[p] \notin rotationPending'
    PROVE  OwnerInv'
  <1>1. pc' = [pc EXCEPT ![p] = point]
    BY DEF Goto
  <1>2. pc' \in [Procs -> Points] /\ pc'[p] = point /\ \A q \in Procs : q # p => pc'[q] = pc[q]
    BY <1>1 DEF TypeOK
  <1>3. point \in Owning => owner[held[p]] = p
    BY DEF OwnerInv
  <1> QED
    BY <1>2, <1>3, OwnerMove

\* Every step keeps the mutex of a client with one owner, who has no rotation to
\* store once it is past ensure_authenticated.
LEMMA OwnerStep == TypeOK /\ LockInv /\ OwnerInv /\ [Next]_vars => OwnerInv'
<1> SUFFICES ASSUME TypeOK, LockInv, OwnerInv, [Next]_vars PROVE OwnerInv'
    OBVIOUS
<1>0. /\ Owning \subseteq Points /\ Owning \subseteq Working
      /\ {"queued", "granted", "locking", "password", "challenged", "completed", "failed", "otp",
          "reset"} \subseteq Points \ Owning
    BY DEF Owning, Points, Working
<1>1. ASSUME NEW p \in Procs, RequestClient(p) \/ RequestStart(p) \/ RequestVerify(p)
      PROVE  OwnerInv'
  <2>1. Goto(p, "queued") /\ UNCHANGED <<held, owner, rotationPending>>
    BY <1>1 DEF RequestClient, RequestStart, RequestVerify, Enqueue
  <2> QED
    BY <1>0, <2>1, GoOnOwner
<1>2. ASSUME NEW p \in Procs, Grant(p) PROVE OwnerInv'
    BY <1>0, <1>2, GoOnOwner DEF Grant, Continue
<1>3. ASSUME NEW p \in Procs, LockState(p) PROVE OwnerInv'
  <2>1. /\ pc[p] = "locking" /\ owner[held[p]] = NoProc
        /\ owner' = [owner EXCEPT ![held[p]] = p] /\ pc' = [pc EXCEPT ![p] = "auth"]
        /\ UNCHANGED <<held, rotationPending>>
    BY <1>3 DEF LockState, Goto
  <2> SUFFICES ASSUME NEW q \in Procs, pc'[q] \in Owning
               PROVE  /\ owner'[held'[q]] = q
                      /\ pc'[q] # "auth" => held'[q] \notin rotationPending'
    BY DEF OwnerInv
  <2>2. held[p] \in Clients
    BY <2>1 DEF LockInv, Working, TypeOK
  <2>3. CASE q = p
    BY <2>1, <2>2, <2>3 DEF TypeOK
  <2>4. CASE q # p
    <3>1. pc[q] \in Owning /\ pc'[q] = pc[q]
      BY <2>1, <2>4 DEF TypeOK
    <3>2. owner[held[q]] = q /\ held[q] # held[p]
      BY <2>1, <3>1, NoProcAssumption DEF OwnerInv
    <3> QED
      BY <2>1, <2>2, <3>1, <3>2 DEF OwnerInv, TypeOK
  <2> QED
    BY <2>3, <2>4
<1>4. ASSUME NEW p \in Procs, ReleaseClient(p) PROVE OwnerInv'
    BY <1>4, FinishOwner DEF ReleaseClient
<1>5. ASSUME NEW p \in Procs, GetClient(p) PROVE OwnerInv'
  <2>1. CASE Finish(p) /\ UNCHANGED clientVars
    BY <2>1, FinishOwner
  <2>2. ASSUME NEW c, Goto(p, "locking"), held' = [held EXCEPT ![p] = c], UNCHANGED owner,
               rotationPending' \subseteq rotationPending
        PROVE  OwnerInv'
    BY <1>0, <2>2, GoOnOwner DEF TypeOK
  <2> QED
    BY <1>5, <2>1, <2>2 DEF GetClient, Build
<1>6. ASSUME NEW p \in Procs, NextRequest(p) PROVE OwnerInv'
    BY <1>0, <1>6, GoOnOwner DEF NextRequest
<1>7. ASSUME NEW p \in Procs, FlushRotation(p) PROVE OwnerInv'
  <2>1. CASE EndRequest(p) /\ UNCHANGED rotationPending
    BY <2>1, EndRequestOwner
  <2>2. CASE UNCHANGED <<procVars, owner>> /\ rotationPending' = rotationPending \ {held[p]}
    BY <2>2 DEF OwnerInv
  <2> QED
    BY <1>7, <2>1, <2>2 DEF FlushRotation
<1>8. ASSUME NEW p \in Procs, UseAccess(p) PROVE OwnerInv'
    BY <1>0, <1>8, GoOnOwner DEF UseAccess, Continue, AccessGood, Owning
<1>9. ASSUME NEW p \in Procs, StayQuiet(p) PROVE OwnerInv'
    BY <1>9, EndRequestOwner DEF StayQuiet
<1>10. ASSUME NEW p \in Procs, PresentToken(p) PROVE OwnerInv'
  <2>1. CASE EndRequest(p)
    BY <1>10, <2>1, EndRequestOwner DEF PresentToken
  <2>2. CASE Continue(p, "refresh")
    BY <1>0, <1>10, <2>2, GoOnOwner DEF PresentToken, Continue, MayPresent, Owning
  <2> QED
    BY <1>10, <2>1, <2>2 DEF PresentToken
<1>11. ASSUME NEW p \in Procs, RefreshGranted(p) PROVE OwnerInv'
  <2>1. pc[p] = "refresh" /\ pc[p] \in Owning /\ held[p] \notin rotationPending
    BY <1>11 DEF RefreshGranted, OwnerInv, Owning
  <2>2. PICK ok \in BOOLEAN : /\ rotationPending' = Owes(held[p], ok)
                              /\ IF ok THEN Continue(p, "register") ELSE EndRequest(p)
    BY <1>11 DEF RefreshGranted
  <2>3. CASE ok
    BY <1>0, <2>1, <2>2, <2>3, GoOnOwner DEF Owes, Continue, Owning
  <2>4. CASE ~ok
    <3>1. /\ pc' = [pc EXCEPT ![p] = "held"] /\ FreeOwner(p) /\ UNCHANGED held
          /\ rotationPending' = rotationPending \cup {held[p]}
      BY <2>2, <2>4 DEF Owes, EndRequest, Goto
    <3> SUFFICES ASSUME NEW q \in Procs, pc'[q] \in Owning
                 PROVE  /\ owner'[held[q]] = q
                        /\ pc'[q] # "auth" => held[q] \notin rotationPending'
      BY <3>1 DEF OwnerInv
    <3>2. q # p /\ pc'[q] = pc[q] /\ pc[q] \in Owning
      BY <3>1 DEF TypeOK, Owning
    <3>3. owner[held[q]] = q /\ owner[held[p]] = p /\ (pc[q] # "auth" => held[q] \notin rotationPending)
      BY <2>1, <3>2 DEF OwnerInv
    <3>4. held[q] # held[p]
      BY <3>2, <3>3
    <3>5. held[q] \in Clients
      BY <1>0, <3>2 DEF LockInv, TypeOK
    <3>6. owner'[held[q]] = q
      BY <3>1, <3>2, <3>3, <3>5, FreeOwnerKeeps
    <3> QED
      BY <3>1, <3>2, <3>3, <3>4, <3>6
  <2> QED
    BY <2>3, <2>4
<1>12. ASSUME NEW p \in Procs, RefreshLost(p) \/ RefreshRefused(p) \/ RefreshFailed(p)
       PROVE  OwnerInv'
    BY <1>12, EndRequestOwner DEF RefreshLost, RefreshRefused, RefreshFailed
<1>13. ASSUME NEW p \in Procs, Register(p) \/ SendRequest(p) PROVE OwnerInv'
  <2>1. /\ pc[p] \in {"register", "request"} /\ UNCHANGED rotationPending
        /\ Retry(p) \/ EndRequest(p) \/ Continue(p, "request")
    BY <1>13 DEF Register, SendRequest
  <2>2. pc[p] \in Owning /\ held[p] \notin rotationPending
    BY <2>1 DEF OwnerInv, Owning
  <2>3. CASE Retry(p)
    BY <1>0, <2>1, <2>2, <2>3, GoOnOwner DEF Retry, Owning
  <2>4. CASE EndRequest(p)
    BY <2>1, <2>4, EndRequestOwner
  <2>5. CASE Continue(p, "request")
    BY <1>0, <2>1, <2>2, <2>5, GoOnOwner DEF Continue, Owning
  <2> QED
    BY <2>1, <2>3, <2>4, <2>5
<1>14. ASSUME NEW p \in Procs, Enrollment(p) PROVE OwnerInv'
  <2>1. UNCHANGED rotationPending
    BY <1>14 DEF Enrollment, StartCheck, PasswordAnswer, StartUpdate, VerifyTake, OtpAnswer,
                 ResetClient, Enqueue
  <2>2. \/ Finish(p)
        \/ \E point \in {"queued", "password", "challenged", "completed", "failed", "otp",
                         "reset"} : Goto(p, point) /\ UNCHANGED <<held, owner>>
    <3>1. CASE StartCheck(p)
      BY <3>1 DEF StartCheck
    <3>2. CASE PasswordAnswer(p)
      BY <3>2 DEF PasswordAnswer, Proceed, Continue
    <3>3. CASE StartUpdate(p) \/ VerifyTake(p)
      BY <3>3 DEF StartUpdate, VerifyTake, Proceed, Continue
    <3>4. CASE OtpAnswer(p) \/ ResetClient(p)
      BY <3>4 DEF OtpAnswer, ResetClient, Proceed, Continue, Enqueue
    <3> QED
      BY <1>14, <3>1, <3>2, <3>3, <3>4 DEF Enrollment
  <2> QED
    BY <1>0, <2>1, <2>2, FinishOwner, GoOnOwner
<1>15. ASSUME NEW p \in Procs, Disconnect(p) PROVE OwnerInv'
    BY <1>15, FinishOwner DEF Disconnect
<1>16. CASE CancelEnrollment \/ ClientDeadline \/ EnrollmentDeadline \/ UNCHANGED vars
    BY <1>16 DEF CancelEnrollment, ClientDeadline, EnrollmentDeadline, vars, OwnerInv
<1>17. CASE Restart
    BY <1>17 DEF Restart, OwnerInv, Owning
<1> QED
    BY <1>1, <1>2, <1>3, <1>4, <1>5, <1>6, <1>7, <1>8, <1>9, <1>10, <1>11, <1>12, <1>13,
       <1>14, <1>15, <1>16, <1>17
    DEF Next, Call

\* A step that touches no token keeps the token invariant, unless it brings a start
\* to a point past its answer.
LEMMA TokenFrame ==
    ASSUME TokenInv,
           UNCHANGED <<file, ringVars, slot, session, rotationPending, reauth, quiet, lost>>,
           \A p \in Procs : pc'[p] \in Storing => \E q \in Procs : pc[q] \in Storing
    PROVE  TokenInv'
    BY DEF TokenInv, SessionInv, OwedInv, AccountedInv, RotationAccounted, QuietInv

\* A task that moves to a point outside Storing brings nobody there.
LEMMA MoveFrame ==
    ASSUME TypeOK, TokenInv, NEW p \in Procs, NEW point \in Points \ Storing, Goto(p, point),
           UNCHANGED <<file, ringVars, slot, session, rotationPending, reauth, quiet, lost>>
    PROVE  TokenInv'
    BY TokenFrame DEF TypeOK, Goto

\* A request writes the session of the cached client, whose token Ring accepts; the
\* client then owes nothing, or what it owed before.
LEMMA WriteToken ==
    ASSUME TypeOK, LockInv, TokenInv, NEW p \in Procs, pc[p] \in Working,
           file' = file \/ file' = SessionOf(p),
           \/ UNCHANGED rotationPending
           \/ file' = SessionOf(p) /\ rotationPending' = rotationPending \ {slot},
           \A q \in Procs : pc'[q] \notin Storing,
           UNCHANGED <<ringVars, slot, session, reauth, quiet, lost>>
    PROVE  TokenInv'
  <1>1. /\ slot \in Clients /\ slot # NoClient /\ SessionOf(p) = session[slot]
        /\ session[slot] \in Session /\ session[slot] # NoSession
    BY WorkingClient DEF TokenInv
  <1>2. CASE UNCHANGED <<file, rotationPending>>
    BY <1>2, TokenFrame
  <1>3. CASE file' = session[slot]
    <2>1. session[slot].token \in Nat
      BY <1>1 DEF Session
    <2>2. SessionInv' /\ OwedInv'
      BY <1>1, <1>3, <2>1 DEF TokenInv, SessionInv, OwedInv
    <2>3. AccountedInv'
      BY <1>1, <1>3 DEF TokenInv, AccountedInv, RotationAccounted
    <2>4. QuietInv'
      BY <1>1 DEF TokenInv, QuietInv
    <2> QED
      BY <2>2, <2>3, <2>4 DEF TokenInv
  <1> QED
    BY <1>1, <1>2, <1>3

\* Ring rotates the token of the cached client: the file may be written or not, the
\* answer may be lost.
LEMMA RotateToken ==
    ASSUME TypeOK, LockInv, OwnerInv, TokenInv, NEW p \in Procs, pc[p] = "refresh",
           RefreshGranted(p) \/ RefreshLost(p)
    PROVE  TokenInv'
  <1>1. /\ held[p] = slot /\ slot \in Clients /\ slot # NoClient
        /\ SessionOf(p) = session[slot] /\ session[slot] \in Session
        /\ \A q \in Procs : pc[q] \notin Storing
    BY WorkingClient DEF TokenInv, Working, Owning
  <1>2. slot \notin rotationPending
    BY <1>1 DEF OwnerInv, Owning
  <1> DEFINE s == session[slot]
             n == issued + 1
             succ == [hw |-> s.hw, token |-> n]
  <1>3. /\ s.hw \in 1..MaxEnrollments /\ s.token = valid[s.hw]
        /\ issued' = n /\ valid' = [valid EXCEPT ![s.hw] = n]
        /\ UNCHANGED slot
    BY <1>1 DEF RefreshGranted, RefreshLost, Rotates
  <1>4. /\ issued \in Nat /\ n \in Nat /\ n > issued
        /\ valid'[s.hw] = n
        /\ \A h \in 1..MaxEnrollments : h # s.hw => valid'[h] = valid[h]
        /\ s.token \in Nat /\ file.token \in Nat /\ file \in Session
    BY <1>3 DEF TypeOK, Session
  <1>5. \A q \in Procs : pc'[q] \notin Storing
    <2>1. EndRequest(p) \/ Continue(p, "register")
      BY DEF RefreshGranted, RefreshLost
    <2> QED
      BY <1>1, <2>1 DEF EndRequest, Continue, Goto, TypeOK, Storing
  <1>6. /\ succ.hw = s.hw /\ succ.token = n /\ succ # NoSession
    BY <1>4 DEF NoSession
  <1>7. CASE RefreshGranted(p)
    <2>1. PICK ok \in BOOLEAN : /\ Persist(succ, ok)
                                /\ rotationPending' = Owes(slot, ok)
      BY <1>1, <1>7 DEF RefreshGranted, Successor
    <2>2. session'[slot] = succ /\ reauth' = reauth \ {slot} /\ UNCHANGED <<quiet, lost>>
      BY <1>1, <1>7 DEF RefreshGranted, Successor, TypeOK
    <2>3. file' = succ \/ (file' = file /\ slot \in rotationPending')
      BY <2>1 DEF Persist, Owes
    <2>4. SessionInv' /\ OwedInv'
      BY <1>3, <1>4, <1>6, <2>2, <2>3 DEF TokenInv, SessionInv, OwedInv
    <2>5. AccountedInv'
      <3>1. session'[slot].token = valid'[session'[slot].hw]
        BY <1>4, <1>6, <2>2
      <3>2. CASE file' = succ
        BY <1>3, <1>4, <1>6, <3>1, <3>2 DEF AccountedInv, RotationAccounted
      <3>3. CASE file' = file /\ slot \in rotationPending'
        <4> SUFFICES ASSUME file # NoSession
                     PROVE  \/ file.hw \in lost \/ file.token = valid'[file.hw]
                            \/ session'[slot] = [hw |-> file.hw, token |-> valid'[file.hw]]
          BY <1>3, <2>2, <3>1, <3>3 DEF AccountedInv, RotationAccounted
        <4>1. CASE file.hw = s.hw
          BY <1>4, <2>2, <4>1
        <4>2. CASE file.hw # s.hw
          BY <1>2, <1>4, <4>2 DEF TokenInv, AccountedInv, RotationAccounted, SessionInv
        <4> QED
          BY <4>1, <4>2
      <3> QED
        BY <2>3, <3>2, <3>3
    <2>6. QuietInv'
      <3>1. \A m \in quiet : m \in Nat /\ m < n
        BY <1>4 DEF TokenInv, QuietInv, TypeOK
      <3> QED
        BY <1>1, <1>3, <1>5, <1>6, <2>2, <3>1 DEF QuietInv, TypeOK
    <2> QED
      BY <2>4, <2>5, <2>6 DEF TokenInv
  <1>8. CASE RefreshLost(p)
    <2>1. /\ UNCHANGED <<file, session, rotationPending, reauth, quiet>>
          /\ lost' = lost \cup {s.hw}
      BY <1>1, <1>8 DEF RefreshLost
    <2>2. SessionInv' /\ OwedInv'
      BY <1>3, <1>4, <2>1 DEF TokenInv, SessionInv, OwedInv
    <2>3. AccountedInv'
      BY <1>2, <1>3, <1>4, <2>1 DEF TokenInv, AccountedInv, RotationAccounted, SessionInv
    <2>4. QuietInv'
      <3>1. \A m \in quiet : m \in Nat /\ m < n
        BY <1>4 DEF TokenInv, QuietInv, TypeOK
      <3> QED
        BY <1>1, <1>3, <1>4, <1>5, <2>1, <3>1 DEF TokenInv, QuietInv
    <2> QED
      BY <2>2, <2>3, <2>4 DEF TokenInv
  <1> QED
    BY <1>7, <1>8

\* An enrollment's answer brings the first token of an id that no session has.
LEMMA EnrollToken ==
    ASSUME TypeOK, LockInv, EnrollInv, TokenInv, NEW p \in Procs, pc[p] \in {"password", "otp"},
           NEW ok \in BOOLEAN, StoreEnrolled(hw[p], ok),
           \A q \in Procs : q # p => pc'[q] = pc[q],
           pc'[p] \in Storing => ok,
           UNCHANGED <<slot, session, rotationPending, reauth, quiet, lost>>
    PROVE  TokenInv'
  <1> DEFINE h == hw[p]
             n == issued + 1
             new == [hw |-> h, token |-> n]
  <1>1. /\ file.hw < h
        /\ slot # NoClient => session[slot].hw < h
        /\ h \in Nat /\ file \in Session /\ file.hw \in Nat /\ file.token \in Nat /\ issued \in Nat
        /\ slot # NoClient => session[slot] \in Session /\ session[slot].hw \in Nat /\ session[slot].token \in Nat
    BY DEF EnrollInv, IdInv, UnusedInv, Unstored, Handling, TypeOK, Session
  <1>2. /\ h \in 1..MaxEnrollments /\ issued' = n /\ valid' = [valid EXCEPT ![h] = n]
        /\ file' = new \/ (~ok /\ file' = file)
        /\ new.hw = h /\ new.token = n
    BY DEF StoreEnrolled, Persist
  <1>3. n \in Nat /\ n > issued /\ valid'[h] = n
        /\ \A g \in 1..MaxEnrollments : g # h => valid'[g] = valid[g]
    BY <1>1, <1>2 DEF TypeOK
  <1>4. \A q \in Procs : q # p => pc[q] \notin Storing
    BY DEF LockInv, Handling, Storing
  <1>5. SessionInv' /\ OwedInv'
    BY <1>1, <1>2, <1>3 DEF TokenInv, SessionInv, OwedInv
  <1>6. AccountedInv'
    <2>1. slot # NoClient => session[slot].hw \in lost \/ session[slot].token = valid'[session[slot].hw]
      BY <1>1, <1>3 DEF TokenInv, AccountedInv, SessionInv
    <2>2. CASE file' = new
      BY <1>2, <1>3, <2>1, <2>2 DEF AccountedInv, RotationAccounted
    <2>3. CASE file' = file
      <3>1. file # NoSession => file.hw \in 1..MaxEnrollments /\ valid'[file.hw] = valid[file.hw]
        BY <1>1, <1>3 DEF TokenInv, SessionInv
      <3> QED
        BY <2>1, <2>3, <3>1 DEF TokenInv, AccountedInv, RotationAccounted
    <2> QED
      BY <1>2, <2>2, <2>3
  <1>7. QuietInv'
    <2>1. \A m \in quiet : m \in Nat /\ m < n
      BY <1>3 DEF TokenInv, QuietInv, TypeOK
    <2>2. CASE file' = new
      BY <1>2, <2>1, <2>2 DEF TokenInv, QuietInv
    <2>3. CASE file' = file /\ ~ok
      <3>1. \A q \in Procs : pc'[q] \notin Storing
        BY <1>4, <2>3
      <3> QED
        BY <1>2, <2>1, <2>3, <3>1 DEF TokenInv, QuietInv
    <2> QED
      BY <1>2, <2>2, <2>3
  <1> QED
    BY <1>5, <1>6, <1>7 DEF TokenInv

\* Every step keeps track of the refresh tokens.
LEMMA TokenStep == TypeOK /\ LockInv /\ EnrollInv /\ OwnerInv /\ TokenInv /\ [Next]_vars => TokenInv'
<1> SUFFICES ASSUME TypeOK, LockInv, EnrollInv, OwnerInv, TokenInv, [Next]_vars PROVE TokenInv'
    OBVIOUS
<1>0. /\ Working \subseteq Points \ Storing /\ Owning \subseteq Working
      /\ {"idle", "queued", "granted", "locking", "held", "auth", "refresh", "register", "request",
          "password", "challenged", "failed", "otp"} \subseteq Points \ Storing
    BY DEF Owning, Points, Working, Storing
<1>1. ASSUME NEW p \in Procs, RequestClient(p) \/ RequestStart(p) \/ RequestVerify(p)
      PROVE  TokenInv'
  <2>1. /\ Goto(p, "queued")
        /\ UNCHANGED <<file, ringVars, slot, session, rotationPending, reauth, quiet, lost>>
    BY <1>1 DEF RequestClient, RequestStart, RequestVerify, Enqueue
  <2> QED
    BY <1>0, <2>1, MoveFrame
<1>2. ASSUME NEW p \in Procs, Grant(p) PROVE TokenInv'
    BY <1>0, <1>2, MoveFrame DEF Grant, Continue
<1>3. ASSUME NEW p \in Procs, LockState(p) PROVE TokenInv'
    BY <1>0, <1>3, MoveFrame DEF LockState
<1>4. ASSUME NEW p \in Procs, ReleaseClient(p) PROVE TokenInv'
    BY <1>0, <1>4, MoveFrame DEF ReleaseClient, Finish
<1>5. ASSUME NEW p \in Procs, GetClient(p) PROVE TokenInv'
  <2>1. CASE UNCHANGED clientVars /\ (Finish(p) \/ Goto(p, "locking"))
    BY <1>0, <1>5, <2>1, MoveFrame DEF GetClient, Finish
  <2>2. ASSUME NEW c \in Clients, Build(c), slot = NoClient, file # NoSession, Goto(p, "locking")
        PROVE  TokenInv'
    <3>1. /\ slot' = c /\ c # NoClient /\ session'[c] = file /\ c \notin rotationPending'
          /\ UNCHANGED <<file, ringVars, quiet, lost>>
      BY <1>5, <2>2, NoClientAssumption DEF Build, GetClient, TypeOK
    <3>2. \A q \in Procs : pc'[q] \in Storing => pc[q] \in Storing
      BY <2>2 DEF Goto, TypeOK, Storing
    <3>3. SessionInv' /\ OwedInv'
      BY <2>2, <3>1 DEF TokenInv, SessionInv, OwedInv, TypeOK, Session
    <3>4. AccountedInv'
      BY <2>2, <3>1, NoClientAssumption DEF TokenInv, AccountedInv, RotationAccounted, TypeOK
    <3>5. QuietInv'
      BY <2>2, <3>1, <3>2 DEF TokenInv, QuietInv
    <3> QED
      BY <3>3, <3>4, <3>5 DEF TokenInv
  <2> QED
    BY <1>5, <2>1, <2>2 DEF GetClient
<1>6. ASSUME NEW p \in Procs, NextRequest(p) PROVE TokenInv'
    BY <1>0, <1>6, MoveFrame DEF NextRequest
<1>7. ASSUME NEW p \in Procs, FlushRotation(p) PROVE TokenInv'
  <2>1. /\ pc[p] \in Working /\ held[p] = slot /\ \A q \in Procs : pc[q] \notin Storing
    BY <1>0, <1>7, WorkingClient DEF FlushRotation, TokenInv, Owning
  <2>2. PICK ok \in BOOLEAN :
          /\ Persist(SessionOf(p), ok)
          /\ IF ok THEN /\ rotationPending' = rotationPending \ {held[p]}
                        /\ UNCHANGED <<procVars, owner>>
                   ELSE EndRequest(p) /\ UNCHANGED rotationPending
    BY <1>7 DEF FlushRotation
  <2>3. \A q \in Procs : pc'[q] \notin Storing
    BY <2>1, <2>2 DEF EndRequest, Goto, TypeOK, Storing
  <2>4. /\ file' = file \/ file' = SessionOf(p)
        /\ \/ UNCHANGED rotationPending
           \/ file' = SessionOf(p) /\ rotationPending' = rotationPending \ {slot}
    BY <2>1, <2>2 DEF Persist
  <2> QED
    BY <1>7, <2>1, <2>3, <2>4, WriteToken DEF FlushRotation
<1>8. ASSUME NEW p \in Procs, UseAccess(p) PROVE TokenInv'
    BY <1>0, <1>8, MoveFrame DEF UseAccess, Continue
<1>9. ASSUME NEW p \in Procs, StayQuiet(p) PROVE TokenInv'
    BY <1>0, <1>9, MoveFrame DEF StayQuiet, EndRequest
<1>10. ASSUME NEW p \in Procs, PresentToken(p) PROVE TokenInv'
  <2>1. pc[p] \in Working /\ \A q \in Procs : pc[q] \notin Storing
    BY <1>0, <1>10, WorkingClient DEF PresentToken, TokenInv, Owning
  <2>2. EndRequest(p) \/ Continue(p, "refresh")
    BY <1>10 DEF PresentToken
  <2>3. \A q \in Procs : pc'[q] \notin Storing
    BY <2>1, <2>2 DEF EndRequest, Continue, Goto, TypeOK, Storing
  <2>4. file' = file \/ file' = SessionOf(p)
    BY <1>10, PersistHw DEF PresentToken
  <2> QED
    BY <1>10, <2>1, <2>3, <2>4, WriteToken DEF PresentToken
<1>11. ASSUME NEW p \in Procs, RefreshGranted(p) \/ RefreshLost(p) PROVE TokenInv'
    BY <1>11, RotateToken DEF RefreshGranted, RefreshLost
<1>12. ASSUME NEW p \in Procs, RefreshRefused(p) PROVE TokenInv'
  <2>1. /\ held[p] = slot /\ slot # NoClient /\ SessionOf(p) = session[slot]
        /\ \A q \in Procs : pc[q] \notin Storing
    BY <1>0, <1>12, WorkingClient DEF RefreshRefused, TokenInv, Owning
  <2>2. /\ reauth' = reauth \cup {slot} /\ quiet' = quiet \cup {session[slot].token}
        /\ UNCHANGED <<file, ringVars, slot, session, rotationPending, lost>>
    BY <1>12, <2>1 DEF RefreshRefused
  <2>3. \A q \in Procs : pc'[q] \notin Storing
    BY <1>12, <2>1 DEF RefreshRefused, EndRequest, Goto, TypeOK, Storing
  <2>4. SessionInv' /\ OwedInv' /\ AccountedInv'
    BY <2>2 DEF TokenInv, SessionInv, OwedInv, AccountedInv, RotationAccounted
  <2>5. QuietInv'
    BY <2>1, <2>2, <2>3 DEF TokenInv, QuietInv, SessionInv
  <2> QED
    BY <2>4, <2>5 DEF TokenInv
<1>13. ASSUME NEW p \in Procs, RefreshFailed(p) PROVE TokenInv'
    BY <1>0, <1>13, MoveFrame DEF RefreshFailed, EndRequest
<1>14. ASSUME NEW p \in Procs, Register(p) \/ SendRequest(p) PROVE TokenInv'
  <2>1. /\ UNCHANGED <<file, ringVars, slot, session, rotationPending, reauth, quiet, lost>>
        /\ Retry(p) \/ EndRequest(p) \/ Continue(p, "request")
    BY <1>14 DEF Register, SendRequest
  <2> QED
    BY <1>0, <2>1, MoveFrame DEF Retry, EndRequest, Continue
<1>15. ASSUME NEW p \in Procs, StartCheck(p) PROVE TokenInv'
    BY <1>0, <1>15, MoveFrame DEF StartCheck, Finish
<1>16. ASSUME NEW p \in Procs, PasswordAnswer(p) PROVE TokenInv'
  <2>1. ASSUME NEW point \in {"challenged", "failed"}, Proceed(p, point),
               UNCHANGED <<file, ringVars, enrolled>>
        PROVE  TokenInv'
    BY <1>0, <1>16, <2>1, MoveFrame DEF PasswordAnswer, Proceed, Continue
  <2>2. ASSUME NEW ok \in BOOLEAN, StoreEnrolled(hw[p], ok),
               Proceed(p, IF ok THEN "completed" ELSE "failed")
        PROVE  TokenInv'
    <3>1. /\ \A q \in Procs : q # p => pc'[q] = pc[q]
          /\ pc'[p] \in Storing => ok
      BY <2>2 DEF Proceed, Continue, Goto, TypeOK, Storing
    <3> QED
      BY <1>16, <2>2, <3>1, EnrollToken DEF PasswordAnswer
  <2> QED
    BY <1>16, <2>1, <2>2 DEF PasswordAnswer
<1>17. ASSUME NEW p \in Procs, StartUpdate(p) PROVE TokenInv'
  <2>1. UNCHANGED <<file, ringVars, slot, session, rotationPending, reauth, quiet, lost>>
    BY <1>17 DEF StartUpdate
  <2>2. CASE pc[p] = "completed"
    <3>1. pc' = [pc EXCEPT ![p] = "reset"] /\ pc[p] \in Storing
      BY <1>17, <2>2 DEF StartUpdate, Proceed, Continue, Goto, Storing
    <3> QED
      BY <2>1, <3>1, TokenFrame DEF TypeOK
  <2>3. CASE pc[p] # "completed"
    BY <1>0, <1>17, <2>1, <2>3, MoveFrame DEF StartUpdate, Finish
  <2> QED
    BY <2>2, <2>3
<1>18. ASSUME NEW p \in Procs, VerifyTake(p) PROVE TokenInv'
    BY <1>0, <1>18, MoveFrame DEF VerifyTake, Proceed, Continue, Finish
<1>19. ASSUME NEW p \in Procs, OtpAnswer(p) PROVE TokenInv'
  <2>1. CASE Finish(p) /\ UNCHANGED <<file, ringVars, enrolled>>
    BY <1>0, <1>19, <2>1, MoveFrame DEF OtpAnswer, Finish
  <2>2. ASSUME NEW ok \in BOOLEAN, StoreEnrolled(hw[p], ok),
               IF ok THEN Proceed(p, "reset") ELSE Finish(p)
        PROVE  TokenInv'
    <3>1. pc' = [pc EXCEPT ![p] = IF ok THEN "reset" ELSE "idle"]
      BY <2>2 DEF Proceed, Continue, Finish, Goto
    <3>2. /\ \A q \in Procs : q # p => pc'[q] = pc[q]
          /\ pc'[p] \in Storing => ok
      BY <3>1 DEF TypeOK, Storing
    <3> QED
      BY <1>19, <2>2, <3>2, EnrollToken DEF OtpAnswer
  <2> QED
    BY <1>19, <2>1, <2>2 DEF OtpAnswer
<1>20. ASSUME NEW p \in Procs, ResetClient(p) PROVE TokenInv'
  <2>1. /\ pc[p] \in Storing /\ slot' = NoClient
        /\ UNCHANGED <<file, ringVars, session, rotationPending, reauth, quiet, lost>>
    BY <1>20 DEF ResetClient, Enqueue, Storing
  <2>2. slot # NoClient => session[slot].hw < file.hw
    BY <2>1 DEF EnrollInv, UnusedInv
  <2>3. SessionInv' /\ OwedInv'
    BY <2>1 DEF TokenInv, SessionInv, OwedInv
  <2>4. AccountedInv'
    <3>1. file # NoSession => file.hw \in lost \/ file.token = valid[file.hw]
      <4>1. ASSUME slot \in rotationPending, session[slot].hw = file.hw PROVE FALSE
        <5>1. slot # NoClient
          BY <4>1, NoClientAssumption DEF TypeOK
        <5> QED
          BY <2>2, <4>1, <5>1 DEF TypeOK, Session
      <4> QED
        BY <4>1 DEF TokenInv, AccountedInv, RotationAccounted
    <3> QED
      BY <2>1, <3>1 DEF AccountedInv, RotationAccounted
  <2>5. QuietInv'
    BY <2>1 DEF TokenInv, QuietInv
  <2> QED
    BY <2>3, <2>4, <2>5 DEF TokenInv
<1>21. ASSUME NEW p \in Procs, Disconnect(p) PROVE TokenInv'
    BY <1>0, <1>21, MoveFrame DEF Disconnect, Finish
<1>22. CASE CancelEnrollment \/ EnrollmentDeadline \/ UNCHANGED vars
    BY <1>22, TokenFrame DEF CancelEnrollment, EnrollmentDeadline, vars
<1>23. CASE ClientDeadline
  <2>1. UNCHANGED <<file, ringVars, slot, session, rotationPending, lost, pc>>
    BY <1>23 DEF ClientDeadline
  <2>2. SessionInv' /\ OwedInv' /\ AccountedInv'
    BY <2>1 DEF TokenInv, SessionInv, OwedInv, AccountedInv, RotationAccounted
  <2>3. PICK c \in Clients : \/ reauth' = reauth \ {c} /\ quiet' = quiet \ {session[c].token}
                             \/ UNCHANGED <<reauth, quiet>>
    BY <1>23 DEF ClientDeadline
  <2>4. QuietInv'
    BY <2>1, <2>3 DEF TokenInv, QuietInv
  <2> QED
    BY <2>2, <2>4 DEF TokenInv
<1>24. CASE Restart
  <2>1. /\ slot' = NoClient /\ quiet' = {} /\ UNCHANGED <<file, ringVars>>
        /\ lost' = lost \cup (IF slot \in rotationPending THEN {session[slot].hw} ELSE {})
    BY <1>24 DEF Restart
  <2>2. SessionInv' /\ OwedInv' /\ QuietInv'
    BY <2>1 DEF TokenInv, SessionInv, OwedInv, QuietInv
  <2>3. AccountedInv'
    BY <2>1 DEF TokenInv, AccountedInv, RotationAccounted
  <2> QED
    BY <2>2, <2>3 DEF TokenInv
<1> QED
    BY <1>1, <1>2, <1>3, <1>4, <1>5, <1>6, <1>7, <1>8, <1>9, <1>10, <1>11, <1>12, <1>13,
       <1>14, <1>15, <1>16, <1>17, <1>18, <1>19, <1>20, <1>21, <1>22, <1>23, <1>24
    DEF Next, Call, Enrollment

\* The token invariant is inductive with the others.
THEOREM TokenInvariant == Spec => [](OwnerInv /\ TokenInv)
<1>1. Init => OwnerInv /\ TokenInv
  <2> SUFFICES ASSUME Init PROVE OwnerInv /\ TokenInv
    OBVIOUS
  <2>1. /\ file \in {NoSession, [hw |-> 1, token |-> 1]}
        /\ file.hw \in {0, 1} /\ file.token \in {0, 1}
        /\ file # NoSession => file.hw = 1
    BY DEF Init, NoSession
  <2>2. /\ slot = NoClient /\ quiet = {} /\ issued = file.token
        /\ valid = [h \in 1..MaxEnrollments |-> IF h = file.hw THEN file.token ELSE 0]
    BY DEF Init
  <2>3. OwnerInv
    BY DEF Init, OwnerInv, Owning
  <2>4. SessionInv /\ OwedInv /\ QuietInv
    BY <2>1, <2>2, BoundAssumption DEF SessionInv, OwedInv, QuietInv
  <2>5. AccountedInv
    BY <2>1, <2>2, BoundAssumption DEF AccountedInv, RotationAccounted
  <2> QED
    BY <2>3, <2>4, <2>5 DEF TokenInv
<1>2. TypeOK /\ LockInv /\ EnrollInv /\ OwnerInv /\ TokenInv /\ [Next]_vars =>
        (OwnerInv /\ TokenInv)'
    BY OwnerStep, TokenStep
<1> QED
    BY <1>1, <1>2, EnrollmentInvariant, PTL DEF Spec

\* No request is sent with an access token whose refresh token is not in the file,
\* whatever writes failed before and whichever tasks share the client.
THEOREM TokensAreDurable == Spec => []DurableBeforeUse
<1>1. TypeOK /\ LockInv /\ OwnerInv /\ TokenInv => DurableBeforeUse
  <2> SUFFICES ASSUME TypeOK, LockInv, OwnerInv, TokenInv, NEW p \in Procs,
                      pc[p] \in {"register", "request"}
               PROVE  file.token >= SessionOf(p).token
    BY DEF DurableBeforeUse
  <2>1. held[p] = slot /\ slot # NoClient /\ SessionOf(p) = session[slot]
    BY WorkingClient DEF TokenInv, Working, Owning
  <2>2. held[p] \notin rotationPending
    BY DEF OwnerInv, Owning
  <2> QED
    BY <2>1, <2>2 DEF TokenInv, OwedInv
<1> QED
    BY <1>1, TokenInvariant, TypeCorrect, EnrollmentInvariant, PTL

\* The token Ring accepts is in the file or owed to it by the cached client, unless an
\* answer was lost or the process died while it owed the token; disconnections and
\* failing writes lose none.
THEOREM RotationsAreAccounted == Spec => []RotationAccounted
<1>1. TokenInv => RotationAccounted
    BY DEF TokenInv, AccountedInv
<1> QED
    BY <1>1, TokenInvariant, PTL

\* A task goes to "refresh" only through PresentToken, and there the client is not in
\* its retry window.
LEMMA PresentStep ==
  TypeOK /\ LockInv /\ TokenInv /\ [Next]_vars =>
     \A p \in Procs : pc[p] # "refresh" /\ pc'[p] = "refresh" => SessionOf(p).token \notin quiet
<1> SUFFICES ASSUME TypeOK, LockInv, TokenInv, [Next]_vars, NEW p \in Procs,
                    pc[p] # "refresh", pc'[p] = "refresh"
             PROVE  SessionOf(p).token \notin quiet
    OBVIOUS
<1>1. pc \in [Procs -> Points]
    BY DEF TypeOK
<1>2. ASSUME NEW q \in Procs, PresentToken(q) PROVE SessionOf(p).token \notin quiet
  <2>1. p = q
    BY <1>1, <1>2 DEF PresentToken, EndRequest, Continue, Goto
  <2>2. pc[p] \in Working /\ held[p] \notin reauth
    BY <1>2, <2>1 DEF PresentToken, MayPresent, Working, Owning
  <2>3. held[p] = slot /\ slot # NoClient /\ SessionOf(p) = session[slot]
    BY <2>2, WorkingClient DEF TokenInv
  <2> QED
    BY <2>2, <2>3 DEF TokenInv, QuietInv
<1>3. ASSUME NEW q \in Procs, NEW point \in Points \ {"refresh"}
      PROVE  pc' # [pc EXCEPT ![q] = point]
    BY <1>1, <1>3
<1>4. ASSUME NEW q \in Procs
      PROVE  /\ ~RequestClient(q) /\ ~RequestStart(q) /\ ~RequestVerify(q)
             /\ ~Grant(q) /\ ~LockState(q) /\ ~ReleaseClient(q) /\ ~Disconnect(q)
    BY <1>1, <1>3, <1>4
    DEF RequestClient, RequestStart, RequestVerify, Enqueue, Grant, LockState, ReleaseClient,
        Disconnect, Finish, Continue, Goto, Points
<1>5. ASSUME NEW q \in Procs
      PROVE  /\ ~GetClient(q) /\ ~NextRequest(q) /\ ~FlushRotation(q) /\ ~UseAccess(q)
             /\ ~StayQuiet(q) /\ ~RefreshGranted(q) /\ ~RefreshLost(q) /\ ~RefreshRefused(q)
             /\ ~RefreshFailed(q) /\ ~Register(q) /\ ~SendRequest(q)
    BY <1>1, <1>3, <1>5
    DEF GetClient, NextRequest, FlushRotation, UseAccess, StayQuiet,
        RefreshGranted, RefreshLost, RefreshRefused, RefreshFailed, Register, SendRequest,
        Retry, EndRequest, Finish, Continue, Goto, Points
<1>6. ASSUME NEW q \in Procs
      PROVE  /\ ~StartCheck(q) /\ ~PasswordAnswer(q) /\ ~StartUpdate(q) /\ ~VerifyTake(q)
             /\ ~OtpAnswer(q) /\ ~ResetClient(q)
    BY <1>1, <1>3, <1>6
    DEF StartCheck, PasswordAnswer, StartUpdate, VerifyTake, OtpAnswer, ResetClient, Enqueue,
        Proceed, Finish, Continue, Goto, Points
<1>7. ~CancelEnrollment /\ ~ClientDeadline /\ ~EnrollmentDeadline /\ ~(UNCHANGED vars)
    BY <1>1 DEF CancelEnrollment, ClientDeadline, EnrollmentDeadline, vars
<1>8. ~Restart
    BY DEF Restart
<1> QED
    BY <1>2, <1>4, <1>5, <1>6, <1>7, <1>8 DEF Next, Call, Enrollment

\* Until the process ends, a token it knows Ring refused is not presented again
\* before the window is over, by the client that was told or by one built from the
\* file later, also across enrollments, failed writes and dropped handlers.  Nothing
\* is said of the process that is started next: reauth_until is not stored.
THEOREM RefusalsAreRespected == Spec => RefusalRemembered
<1>1. TypeOK /\ LockInv /\ TokenInv /\ [Next]_vars =>
        [\A p \in Procs : pc[p] # "refresh" /\ pc'[p] = "refresh" =>
            SessionOf(p).token \notin quiet]_vars
    BY PresentStep
<1> QED
    BY <1>1, EnrollmentInvariant, TokenInvariant, PTL DEF Spec, RefusalRemembered

=============================================================================
