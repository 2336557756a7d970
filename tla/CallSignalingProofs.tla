------------------------- MODULE CallSignalingProofs -------------------------
(***************************************************************************)
(* Proofs about CallSignaling, for any limits on candidates and messages.  *)
(***************************************************************************)
EXTENDS CallSignaling, TLAPS

USE UserAssumption, LimitAssumption

\* What the stages that were reached say of each other: an activation follows the
\* session and its answer, and where a call is taken to be up its camera has the
\* options.
Dialogued ==
    /\ Has("activated") => Has("session") /\ Has("answer")
    /\ pc \in {"settle", "live"} =>
          {"session", "answer", "camera", "activated", "options"} \subseteq stages
    /\ user = "relay" /\ pc = "check" /\ Has("session") /\ Has("camera") => Has("options")

\* What is open where: nothing before it is opened, nothing dropped but with the
\* whole worker or while the peer was being built, no audio task before the offer,
\* and none after the peer is closed that has not been told.
Owned ==
    /\ pc \in {"start", "offer", "connect"} => socket = "none"
    /\ pc = "start" => peer = "none"
    /\ pc \in {"start", "offer", "connect", "say"} => sender = "none"
    /\ pc = "close_peer" => socket # "open"
    /\ socket = "dropped" => abrupt
    /\ peer = "dropped" /\ ~abrupt => pc = "over" /\ socket = "none" /\ sender = "none"
    /\ abrupt => pc = "over"
    /\ pc = "over" /\ ~abrupt => /\ socket \in {"none", "closed"} /\ peer # "open"
                                 /\ stopped \/ sender = "none"

\* A sample after the end is the one the audio task was about to write.
LateInv ==
    /\ late > 0 => pc = "over" /\ ~abrupt /\ stopped
    /\ late > 0 => sender \in {"loop", "over"}
    /\ late <= 1

\* Who waits has looked at the flag before it was announced.
WaitInv == /\ signalled => flag
           /\ NoLostConnect

\* The inductive invariant.
Inv == TypeOK /\ CallSound /\ Dialogued /\ Owned /\ LateInv /\ WaitInv

\* A failed set-up leaves everything within its type.
LEMMA SetupFailsTyped ==
  ASSUME TypeOK, SetupFails
  PROVE  /\ pc' = "over" /\ told' = "ended"
         /\ socket' \in {"none", "open", "closed", "dropped"}
         /\ peer' \in {"none", "open", "closed", "dropped"} /\ stopped' \in BOOLEAN
         /\ ~Media => peer' = "none"
<1>1. CASE Media
  BY <1>1 DEF TypeOK, SetupFails, CloseSocket, ClosePeer
<1>2. CASE ~Media
  BY <1>2 DEF TypeOK, SetupFails, CloseSocket
<1> QED BY <1>1, <1>2

\* The worker prepares.
LEMMA PrepareKeeps ==
  ASSUME Inv, Prepare
  PROVE  Inv'
<1>1. TypeOK'
  BY DEF Inv, Prepare, TypeOK, Media, Has
<1>2. CallSound'
  BY DEF Inv, Prepare, TypeOK, CallSound, Dialogued, Has
<1>3. Dialogued'
  BY DEF Inv, Prepare, TypeOK, Dialogued, Has
<1>4. Owned'
  BY DEF Inv, Prepare, TypeOK, Owned, Media
<1>5. LateInv'
  BY DEF Inv, Prepare, TypeOK, Owned, LateInv, Media
<1>6. WaitInv'
  BY DEF Inv, Prepare, TypeOK, WaitInv, NoLostConnect
<1> QED BY <1>1, <1>2, <1>3, <1>4, <1>5, <1>6 DEF Inv

\* The peer makes its offer.
LEMMA PeerOfferKeeps ==
  ASSUME Inv, PeerOffer
  PROVE  Inv'
<1>1. TypeOK'
  <2>1. CASE pc' = "connect" /\ UNCHANGED <<told, socket, peer, stopped>>
    BY <2>1 DEF Inv, PeerOffer, TypeOK, Media
  <2>2. CASE SetupFails
    BY <2>2, SetupFailsTyped DEF Inv, PeerOffer, TypeOK, Media
  <2> QED BY <2>1, <2>2 DEF PeerOffer
<1>2. CallSound'
  BY DEF Inv, PeerOffer, SetupFails, CloseSocket, ClosePeer, TypeOK, CallSound,
         Dialogued, Has
<1>3. Dialogued'
  BY DEF Inv, PeerOffer, SetupFails, CloseSocket, ClosePeer, TypeOK, Dialogued, Has
<1>4. Owned'
  BY DEF Inv, PeerOffer, SetupFails, CloseSocket, ClosePeer, TypeOK, Owned, Media
<1>5. LateInv'
  BY DEF Inv, PeerOffer, SetupFails, CloseSocket, ClosePeer, TypeOK, Owned, LateInv,
         Media
<1>6. WaitInv'
  BY DEF Inv, PeerOffer, SetupFails, CloseSocket, ClosePeer, TypeOK, WaitInv,
         NoLostConnect
<1> QED BY <1>1, <1>2, <1>3, <1>4, <1>5, <1>6 DEF Inv

\* The socket is opened.
LEMMA ConnectKeeps ==
  ASSUME Inv, Connect
  PROVE  Inv'
<1>1. TypeOK'
  <2>1. CASE pc' = "say" /\ socket' = "open" /\ UNCHANGED <<told, peer, stopped>>
    BY <2>1 DEF Inv, Connect, TypeOK, Media
  <2>2. CASE SetupFails
    BY <2>2, SetupFailsTyped DEF Inv, Connect, TypeOK, Media
  <2> QED BY <2>1, <2>2 DEF Connect
<1>2. CallSound'
  BY DEF Inv, Connect, SetupFails, CloseSocket, ClosePeer, TypeOK, CallSound, Dialogued,
         Has
<1>3. Dialogued'
  BY DEF Inv, Connect, SetupFails, CloseSocket, ClosePeer, TypeOK, Dialogued, Has
<1>4. Owned'
  BY DEF Inv, Connect, SetupFails, CloseSocket, ClosePeer, TypeOK, Owned, Media
<1>5. LateInv'
  BY DEF Inv, Connect, SetupFails, CloseSocket, ClosePeer, TypeOK, Owned, LateInv, Media
<1>6. WaitInv'
  BY DEF Inv, Connect, SetupFails, CloseSocket, ClosePeer, TypeOK, WaitInv,
         NoLostConnect
<1> QED BY <1>1, <1>2, <1>3, <1>4, <1>5, <1>6 DEF Inv

\* The offer is sent.
LEMMA SayOfferKeeps ==
  ASSUME Inv, SayOffer
  PROVE  Inv'
<1>1. TypeOK'
  <2>1. CASE /\ pc' = "listen" /\ sender' = IF Media THEN "wait" ELSE "none"
             /\ UNCHANGED <<told, socket, peer, stopped>>
    BY <2>1 DEF Inv, SayOffer, TypeOK, Media
  <2>2. CASE SetupFails /\ UNCHANGED sender
    BY <2>2, SetupFailsTyped DEF Inv, SayOffer, TypeOK, Media
  <2> QED BY <2>1, <2>2 DEF SayOffer
<1>2. CallSound'
  BY DEF Inv, SayOffer, SetupFails, CloseSocket, ClosePeer, TypeOK, CallSound,
         Dialogued, Has
<1>3. Dialogued'
  BY DEF Inv, SayOffer, SetupFails, CloseSocket, ClosePeer, TypeOK, Dialogued, Has
<1>4. Owned'
  BY DEF Inv, SayOffer, SetupFails, CloseSocket, ClosePeer, TypeOK, Owned, Media
<1>5. LateInv'
  BY DEF Inv, SayOffer, SetupFails, CloseSocket, ClosePeer, TypeOK, Owned, LateInv,
         Media
<1>6. WaitInv'
  BY DEF Inv, SayOffer, SetupFails, CloseSocket, ClosePeer, TypeOK, WaitInv,
         NoLostConnect
<1> QED BY <1>1, <1>2, <1>3, <1>4, <1>5, <1>6 DEF Inv

\* A message is heard.
LEMMA ReceiveKeeps ==
  ASSUME Inv, NEW type \in Types, NEW own \in BOOLEAN, NEW refused \in BOOLEAN,
         Receive(type, own, refused)
  PROVE  Inv'
<1>1. TypeOK'
  <2>1. CASE Fatal(Decode(type, own), refused)
    <3>1. pc' = "close" /\ told' \in {told, "ended"}
      BY <2>1 DEF Receive, Hangup
    <3>2. heard' \in 0..MaxHeard
      BY <2>1 DEF Inv, Receive, TypeOK
    <3>3. UNCHANGED <<sid, answered, stages, ice>>
      BY <2>1 DEF Receive
    <3> QED BY <3>1, <3>2, <3>3 DEF Inv, Receive, mediaVars, TypeOK, Media
  <2>2. CASE ~ Fatal(Decode(type, own), refused)
    <3>1. pc' \in {"camera", "react"} /\ told' = told /\ heard' = heard + 1 /\ heard < MaxHeard
      BY <2>2 DEF Receive, Hear
    <3>2. ice' \in 0..MaxIce
      BY <2>2 DEF Inv, Receive, Hear, Decode, Fatal, Types, TypeOK
    <3>3. /\ sid' \in {"none", "ours", "another's"} /\ answered' \in {"none", "ours", "another's"}
          /\ stages' \subseteq stages \cup {"session", "answer", "camera"}
      BY <2>2 DEF Inv, Receive, Hear, TypeOK
    <3> QED BY <3>1, <3>2, <3>3 DEF Inv, Receive, mediaVars, TypeOK, Media
  <2> QED BY <2>1, <2>2
<1>2. CallSound'
  BY DEF Inv, Receive, Hear, Decode, Fatal, Hangup, mediaVars, Types, TypeOK, CallSound,
         Dialogued, Has
<1>3. Dialogued'
  BY DEF Inv, Receive, Hear, Decode, Fatal, Hangup, mediaVars, Types, TypeOK, Dialogued,
         Has
<1>4. Owned'
  BY DEF Inv, Receive, Hear, Decode, Fatal, Hangup, mediaVars, Types, TypeOK, Owned,
         Media
<1>5. LateInv'
  BY DEF Inv, Receive, Hear, Decode, Fatal, Hangup, mediaVars, Types, TypeOK, Owned,
         LateInv, Media
<1>6. WaitInv'
  BY DEF Inv, Receive, Hear, Decode, Fatal, Hangup, mediaVars, Types, TypeOK, WaitInv,
         NoLostConnect
<1> QED BY <1>1, <1>2, <1>3, <1>4, <1>5, <1>6 DEF Inv

\* A ping is sent or fails.
LEMMA PingKeeps ==
  ASSUME Inv, Ping
  PROVE  Inv'
<1>1. TypeOK'
  BY DEF Inv, Ping, Hangup, mediaVars, TypeOK, Media, Has
<1>2. CallSound'
  BY DEF Inv, Ping, Hangup, mediaVars, TypeOK, CallSound, Dialogued, Has
<1>3. Dialogued'
  BY DEF Inv, Ping, Hangup, mediaVars, TypeOK, Dialogued, Has
<1>4. Owned'
  BY DEF Inv, Ping, Hangup, mediaVars, TypeOK, Owned, Media
<1>5. LateInv'
  BY DEF Inv, Ping, Hangup, mediaVars, TypeOK, Owned, LateInv, Media
<1>6. WaitInv'
  BY DEF Inv, Ping, Hangup, mediaVars, TypeOK, WaitInv, NoLostConnect
<1> QED BY <1>1, <1>2, <1>3, <1>4, <1>5, <1>6 DEF Inv

\* A direct session settles its candidates and answers.
LEMMA SettleKeeps ==
  ASSUME Inv, Settle
  PROVE  Inv'
<1>1. TypeOK'
  BY DEF Inv, Settle, Hangup, Decode, mediaVars, Types, TypeOK, Media, Has
<1>2. CallSound'
  BY DEF Inv, Settle, Hangup, Decode, mediaVars, Types, TypeOK, CallSound, Dialogued,
         Has
<1>3. Dialogued'
  BY DEF Inv, Settle, Hangup, Decode, mediaVars, Types, TypeOK, Dialogued, Has
<1>4. Owned'
  BY DEF Inv, Settle, Hangup, Decode, mediaVars, Types, TypeOK, Owned, Media
<1>5. LateInv'
  BY DEF Inv, Settle, Hangup, Decode, mediaVars, Types, TypeOK, Owned, LateInv, Media
<1>6. WaitInv'
  BY DEF Inv, Settle, Hangup, Decode, mediaVars, Types, TypeOK, WaitInv, NoLostConnect
<1> QED BY <1>1, <1>2, <1>3, <1>4, <1>5, <1>6 DEF Inv

\* The relay looks whether it is active.
LEMMA CheckActiveKeeps ==
  ASSUME Inv, CheckActive
  PROVE  Inv'
<1>1. TypeOK'
  <2>1. /\ pc' \in {"listen", "close"} /\ stages' \subseteq stages \cup {"active"}
        /\ told' \in {told, "active", "ended"}
    BY DEF CheckActive, Hangup
  <2> QED BY <2>1 DEF Inv, CheckActive, mediaVars, TypeOK, Media
<1>2. CallSound'
  BY DEF Inv, CheckActive, Hangup, mediaVars, TypeOK, CallSound, Dialogued, Has
<1>3. Dialogued'
  BY DEF Inv, CheckActive, Hangup, mediaVars, TypeOK, Dialogued, Has
<1>4. Owned'
  BY DEF Inv, CheckActive, Hangup, mediaVars, TypeOK, Owned, Media
<1>5. LateInv'
  BY DEF Inv, CheckActive, Hangup, mediaVars, TypeOK, Owned, LateInv, Media
<1>6. WaitInv'
  BY DEF Inv, CheckActive, Hangup, mediaVars, TypeOK, WaitInv, NoLostConnect
<1> QED BY <1>1, <1>2, <1>3, <1>4, <1>5, <1>6 DEF Inv

\* A direct session is up.
LEMMA LiveKeeps ==
  ASSUME Inv, Live
  PROVE  Inv'
<1>1. TypeOK'
  BY DEF Inv, Live, Hangup, mediaVars, TypeOK, Media, Has
<1>2. CallSound'
  BY DEF Inv, Live, Hangup, mediaVars, TypeOK, CallSound, Dialogued, Has
<1>3. Dialogued'
  BY DEF Inv, Live, Hangup, mediaVars, TypeOK, Dialogued, Has
<1>4. Owned'
  BY DEF Inv, Live, Hangup, mediaVars, TypeOK, Owned, Media
<1>5. LateInv'
  BY DEF Inv, Live, Hangup, mediaVars, TypeOK, Owned, LateInv, Media
<1>6. WaitInv'
  BY DEF Inv, Live, Hangup, mediaVars, TypeOK, WaitInv, NoLostConnect
<1> QED BY <1>1, <1>2, <1>3, <1>4, <1>5, <1>6 DEF Inv

\* The relay sees its peer connected.
LEMMA NoticeConnectedKeeps ==
  ASSUME Inv, NoticeConnected
  PROVE  Inv'
<1>1. TypeOK'
  BY DEF Inv, NoticeConnected, Waiting, mediaVars, TypeOK, Media, Has
<1>2. CallSound'
  BY DEF Inv, NoticeConnected, Waiting, mediaVars, TypeOK, CallSound, Dialogued, Has
<1>3. Dialogued'
  BY DEF Inv, NoticeConnected, Waiting, mediaVars, TypeOK, Dialogued, Has
<1>4. Owned'
  BY DEF Inv, NoticeConnected, Waiting, mediaVars, TypeOK, Owned, Media
<1>5. LateInv'
  BY DEF Inv, NoticeConnected, Waiting, mediaVars, TypeOK, Owned, LateInv, Media
<1>6. WaitInv'
  BY DEF Inv, NoticeConnected, Waiting, mediaVars, TypeOK, WaitInv, NoLostConnect
<1> QED BY <1>1, <1>2, <1>3, <1>4, <1>5, <1>6 DEF Inv

\* A deadline passes.
LEMMA ExpireKeeps ==
  ASSUME Inv, Expire
  PROVE  Inv'
<1>1. TypeOK'
  BY DEF Inv, Expire, Hangup, mediaVars, TypeOK, Media, Has
<1>2. CallSound'
  BY DEF Inv, Expire, Hangup, mediaVars, TypeOK, CallSound, Dialogued, Has
<1>3. Dialogued'
  BY DEF Inv, Expire, Hangup, mediaVars, TypeOK, Dialogued, Has
<1>4. Owned'
  BY DEF Inv, Expire, Hangup, mediaVars, TypeOK, Owned, Media
<1>5. LateInv'
  BY DEF Inv, Expire, Hangup, mediaVars, TypeOK, Owned, LateInv, Media
<1>6. WaitInv'
  BY DEF Inv, Expire, Hangup, mediaVars, TypeOK, WaitInv, NoLostConnect
<1> QED BY <1>1, <1>2, <1>3, <1>4, <1>5, <1>6 DEF Inv

\* The consumer cancels.
LEMMA CancelKeeps ==
  ASSUME Inv, Cancel
  PROVE  Inv'
<1>1. TypeOK'
  BY DEF Inv, Cancel, signalVars, mediaVars, TypeOK, Media, Has
<1>2. CallSound'
  BY DEF Inv, Cancel, signalVars, mediaVars, TypeOK, CallSound, Dialogued, Has
<1>3. Dialogued'
  BY DEF Inv, Cancel, signalVars, mediaVars, TypeOK, Dialogued, Has
<1>4. Owned'
  BY DEF Inv, Cancel, signalVars, mediaVars, TypeOK, Owned, Media
<1>5. LateInv'
  BY DEF Inv, Cancel, signalVars, mediaVars, TypeOK, Owned, LateInv, Media
<1>6. WaitInv'
  BY DEF Inv, Cancel, signalVars, mediaVars, TypeOK, WaitInv, NoLostConnect
<1> QED BY <1>1, <1>2, <1>3, <1>4, <1>5, <1>6 DEF Inv

\* The worker notices.
LEMMA CancelledKeeps ==
  ASSUME Inv, Cancelled
  PROVE  Inv'
<1>1. TypeOK'
  <2>1. /\ pc' \in {"over", "close"} /\ told' \in {told, "ended"}
        /\ socket' \in {socket, "dropped"}
    BY DEF Cancelled, Hangup
  <2>2. abrupt' \in BOOLEAN
    BY DEF Inv, TypeOK, Cancelled
  <2> QED BY <2>1, <2>2 DEF Inv, Cancelled, mediaVars, TypeOK, Media
<1>2. CallSound'
  BY DEF Inv, Cancelled, Hangup, mediaVars, TypeOK, CallSound, Dialogued, Has
<1>3. Dialogued'
  BY DEF Inv, Cancelled, Hangup, mediaVars, TypeOK, Dialogued, Has
<1>4. Owned'
  BY DEF Inv, Cancelled, Hangup, mediaVars, TypeOK, Owned, Media
<1>5. LateInv'
  BY DEF Inv, Cancelled, Hangup, mediaVars, TypeOK, Owned, LateInv, Media
<1>6. WaitInv'
  BY DEF Inv, Cancelled, Hangup, mediaVars, TypeOK, WaitInv, NoLostConnect
<1> QED BY <1>1, <1>2, <1>3, <1>4, <1>5, <1>6 DEF Inv

\* The worker is aborted.
LEMMA AbortKeeps ==
  ASSUME Inv, Abort
  PROVE  Inv'
<1>1. TypeOK'
  BY DEF Inv, Abort, TypeOK, Media, Has
<1>2. CallSound'
  BY DEF Inv, Abort, TypeOK, CallSound, Dialogued, Has
<1>3. Dialogued'
  BY DEF Inv, Abort, TypeOK, Dialogued, Has
<1>4. Owned'
  BY DEF Inv, Abort, TypeOK, Owned, Media
<1>5. LateInv'
  BY DEF Inv, Abort, TypeOK, Owned, LateInv, Media
<1>6. WaitInv'
  BY DEF Inv, Abort, TypeOK, WaitInv, NoLostConnect
<1> QED BY <1>1, <1>2, <1>3, <1>4, <1>5, <1>6 DEF Inv

\* The socket is closed.
LEMMA CloseKeeps ==
  ASSUME Inv, Close
  PROVE  Inv'
<1>1. TypeOK'
  BY DEF Inv, Close, CloseSocket, mediaVars, TypeOK, Media, Has
<1>2. CallSound'
  BY DEF Inv, Close, CloseSocket, mediaVars, TypeOK, CallSound, Dialogued, Has
<1>3. Dialogued'
  BY DEF Inv, Close, CloseSocket, mediaVars, TypeOK, Dialogued, Has
<1>4. Owned'
  BY DEF Inv, Close, CloseSocket, mediaVars, TypeOK, Owned, Media
<1>5. LateInv'
  BY DEF Inv, Close, CloseSocket, mediaVars, TypeOK, Owned, LateInv, Media
<1>6. WaitInv'
  BY DEF Inv, Close, CloseSocket, mediaVars, TypeOK, WaitInv, NoLostConnect
<1> QED BY <1>1, <1>2, <1>3, <1>4, <1>5, <1>6 DEF Inv

\* The peer is closed.
LEMMA EndPeerKeeps ==
  ASSUME Inv, EndPeer
  PROVE  Inv'
<1>1. TypeOK'
  BY DEF Inv, EndPeer, ClosePeer, signalVars, TypeOK, Media, Has
<1>2. CallSound'
  BY DEF Inv, EndPeer, ClosePeer, signalVars, TypeOK, CallSound, Dialogued, Has
<1>3. Dialogued'
  BY DEF Inv, EndPeer, ClosePeer, signalVars, TypeOK, Dialogued, Has
<1>4. Owned'
  BY DEF Inv, EndPeer, ClosePeer, signalVars, TypeOK, Owned, Media
<1>5. LateInv'
  BY DEF Inv, EndPeer, ClosePeer, signalVars, TypeOK, Owned, LateInv, Media
<1>6. WaitInv'
  BY DEF Inv, EndPeer, ClosePeer, signalVars, TypeOK, WaitInv, NoLostConnect
<1> QED BY <1>1, <1>2, <1>3, <1>4, <1>5, <1>6 DEF Inv

\* The peer connects.
LEMMA PeerConnectsKeeps ==
  ASSUME Inv, PeerConnects
  PROVE  Inv'
<1>1. TypeOK'
  BY DEF Inv, PeerConnects, signalVars, TypeOK, Media, Has
<1>2. CallSound'
  BY DEF Inv, PeerConnects, signalVars, TypeOK, CallSound, Dialogued, Has
<1>3. Dialogued'
  BY DEF Inv, PeerConnects, signalVars, TypeOK, Dialogued, Has
<1>4. Owned'
  BY DEF Inv, PeerConnects, signalVars, TypeOK, Owned, Media
<1>5. LateInv'
  BY DEF Inv, PeerConnects, signalVars, TypeOK, Owned, LateInv, Media
<1>6. WaitInv'
  BY DEF Inv, PeerConnects, signalVars, TypeOK, WaitInv, NoLostConnect
<1> QED BY <1>1, <1>2, <1>3, <1>4, <1>5, <1>6 DEF Inv

\* Its waiters are woken.
LEMMA NotifyWaitersKeeps ==
  ASSUME Inv, NotifyWaiters
  PROVE  Inv'
<1>1. TypeOK'
  BY DEF Inv, NotifyWaiters, signalVars, Waiters, TypeOK, Media, Has
<1>2. CallSound'
  BY DEF Inv, NotifyWaiters, signalVars, Waiters, TypeOK, CallSound, Dialogued, Has
<1>3. Dialogued'
  BY DEF Inv, NotifyWaiters, signalVars, Waiters, TypeOK, Dialogued, Has
<1>4. Owned'
  BY DEF Inv, NotifyWaiters, signalVars, Waiters, TypeOK, Owned, Media
<1>5. LateInv'
  BY DEF Inv, NotifyWaiters, signalVars, Waiters, TypeOK, Owned, LateInv, Media
<1>6. WaitInv'
  BY DEF Inv, NotifyWaiters, signalVars, Waiters, TypeOK, WaitInv, NoLostConnect
<1> QED BY <1>1, <1>2, <1>3, <1>4, <1>5, <1>6 DEF Inv

\* A waiter registers, looks, waits.
LEMMA WaitConnectedKeeps ==
  ASSUME Inv, NEW w \in Waiters, WaitConnected(w)
  PROVE  Inv'
<1>1. TypeOK'
  BY DEF Inv, WaitConnected, Arm, Waiting, Waiters, signalVars, TypeOK, Media, Has
<1>2. CallSound'
  BY DEF Inv, WaitConnected, Arm, Waiting, Waiters, signalVars, TypeOK, CallSound,
         Dialogued, Has
<1>3. Dialogued'
  BY DEF Inv, WaitConnected, Arm, Waiting, Waiters, signalVars, TypeOK, Dialogued, Has
<1>4. Owned'
  BY DEF Inv, WaitConnected, Arm, Waiting, Waiters, signalVars, TypeOK, Owned, Media
<1>5. LateInv'
  BY DEF Inv, WaitConnected, Arm, Waiting, Waiters, signalVars, TypeOK, Owned, LateInv,
         Media
<1>6. WaitInv'
  BY DEF Inv, WaitConnected, Arm, Waiting, Waiters, signalVars, TypeOK, WaitInv,
         NoLostConnect
<1> QED BY <1>1, <1>2, <1>3, <1>4, <1>5, <1>6 DEF Inv

\* The audio task starts or gives up.
LEMMA SenderStartsKeeps ==
  ASSUME Inv, SenderStarts
  PROVE  Inv'
<1>1. TypeOK'
  BY DEF Inv, SenderStarts, signalVars, Waiters, TypeOK, Media, Has
<1>2. CallSound'
  BY DEF Inv, SenderStarts, signalVars, Waiters, TypeOK, CallSound, Dialogued, Has
<1>3. Dialogued'
  BY DEF Inv, SenderStarts, signalVars, Waiters, TypeOK, Dialogued, Has
<1>4. Owned'
  BY DEF Inv, SenderStarts, signalVars, Waiters, TypeOK, Owned, Media
<1>5. LateInv'
  BY DEF Inv, SenderStarts, signalVars, Waiters, TypeOK, Owned, LateInv, Media
<1>6. WaitInv'
  BY DEF Inv, SenderStarts, signalVars, Waiters, TypeOK, WaitInv, NoLostConnect
<1> QED BY <1>1, <1>2, <1>3, <1>4, <1>5, <1>6 DEF Inv

\* Another sample.
LEMMA SenderLoopKeeps ==
  ASSUME Inv, SenderLoop
  PROVE  Inv'
<1>1. TypeOK'
  BY DEF Inv, SenderLoop, signalVars, TypeOK, Media, Has
<1>2. CallSound'
  BY DEF Inv, SenderLoop, signalVars, TypeOK, CallSound, Dialogued, Has
<1>3. Dialogued'
  BY DEF Inv, SenderLoop, signalVars, TypeOK, Dialogued, Has
<1>4. Owned'
  BY DEF Inv, SenderLoop, signalVars, TypeOK, Owned, Media
<1>5. LateInv'
  BY DEF Inv, SenderLoop, signalVars, TypeOK, Owned, LateInv, Media
<1>6. WaitInv'
  BY DEF Inv, SenderLoop, signalVars, TypeOK, WaitInv, NoLostConnect
<1> QED BY <1>1, <1>2, <1>3, <1>4, <1>5, <1>6 DEF Inv

\* The audio task ends.
LEMMA SenderDoneKeeps ==
  ASSUME Inv, SenderDone
  PROVE  Inv'
<1>1. TypeOK'
  BY DEF Inv, SenderDone, signalVars, TypeOK, Media, Has
<1>2. CallSound'
  BY DEF Inv, SenderDone, signalVars, TypeOK, CallSound, Dialogued, Has
<1>3. Dialogued'
  BY DEF Inv, SenderDone, signalVars, TypeOK, Dialogued, Has
<1>4. Owned'
  BY DEF Inv, SenderDone, signalVars, TypeOK, Owned, Media
<1>5. LateInv'
  BY DEF Inv, SenderDone, signalVars, TypeOK, Owned, LateInv, Media
<1>6. WaitInv'
  BY DEF Inv, SenderDone, signalVars, TypeOK, WaitInv, NoLostConnect
<1> QED BY <1>1, <1>2, <1>3, <1>4, <1>5, <1>6 DEF Inv

\* The sample is written.
LEMMA SenderWriteKeeps ==
  ASSUME Inv, SenderWrite
  PROVE  Inv'
<1>1. TypeOK'
  BY DEF Inv, SenderWrite, signalVars, TypeOK, Media, Has
<1>2. CallSound'
  BY DEF Inv, SenderWrite, signalVars, TypeOK, CallSound, Dialogued, Has
<1>3. Dialogued'
  BY DEF Inv, SenderWrite, signalVars, TypeOK, Dialogued, Has
<1>4. Owned'
  BY DEF Inv, SenderWrite, signalVars, TypeOK, Owned, Media
<1>5. LateInv'
  BY DEF Inv, SenderWrite, signalVars, TypeOK, Owned, LateInv, Media
<1>6. WaitInv'
  BY DEF Inv, SenderWrite, signalVars, TypeOK, WaitInv, NoLostConnect
<1> QED BY <1>1, <1>2, <1>3, <1>4, <1>5, <1>6 DEF Inv

\* What is sent in reaction: an activation that is due and options that are due.
LEMMA ReactionSends ==
  ASSUME NEW n \in 0..Len(Reaction)
  PROVE  LET sent == {Reaction[i] : i \in 1..n} IN
         /\ sent \subseteq {"activated", "options"}
         /\ "activated" \in sent => Has("session") /\ Has("answer")
         /\ n = Len(Reaction) =>
               /\ "activated" \in sent <=> Activates # <<>>
               /\ "options" \in sent <=> Options # <<>>
<1>1. Activates = <<>> \/ (Activates = <<"activated">> /\ Has("session") /\ Has("answer"))
  BY DEF Activates
<1>2. Options \in {<<>>, <<"options">>}
  BY DEF Options
<1>3. Reaction \in {Activates \o Options, Options \o Activates}
  BY DEF Reaction
<1>4. CASE Activates = <<>> /\ Options = <<>>
  BY <1>3, <1>4
<1>5. CASE Activates = <<>> /\ Options = <<"options">>
  BY <1>3, <1>5
<1>6. CASE Activates = <<"activated">> /\ Options = <<>>
  BY <1>1, <1>3, <1>6
<1>7. CASE Activates = <<"activated">> /\ Options = <<"options">>
  BY <1>1, <1>3, <1>7
<1> QED BY <1>1, <1>2, <1>4, <1>5, <1>6, <1>7

\* The reaction to what was heard.
LEMMA ReactKeeps ==
  ASSUME Inv, React
  PROVE  Inv'
<1> PICK n \in 0..Len(Reaction) :
        /\ stages' = stages \cup {Reaction[i] : i \in 1..n}
        /\ IF n < Len(Reaction) THEN Hangup("ended")
           ELSE /\ pc' = CASE user = "direct" /\ {"activated", "camera"} \subseteq stages' -> "settle"
                           [] user = "relay" -> "check"
                           [] OTHER -> "listen"
                /\ UNCHANGED told
  BY DEF React
<1> DEFINE sent == {Reaction[i] : i \in 1..n}
<1>1. /\ stages' = stages \cup sent /\ sent \subseteq {"activated", "options"}
      /\ "activated" \in sent => Has("session") /\ Has("answer")
  BY ReactionSends
<1>2. /\ user' = user /\ cancelled' = cancelled /\ abrupt' = abrupt /\ socket' = socket
      /\ sid' = sid /\ answered' = answered /\ ice' = ice /\ heard' = heard
      /\ peer' = peer /\ flag' = flag /\ signalled' = signalled /\ wait' = wait
      /\ sender' = sender /\ stopped' = stopped /\ late' = late
      /\ pc \in {"react", "camera"}
  BY DEF React, mediaVars
<1>3. \/ pc' = "close" /\ told' \in {told, "ended"}
      \/ pc' \in {"settle", "check", "listen"} /\ told' = told
  BY DEF Hangup
<1>4. pc' = "settle" => user = "direct" /\ {"activated", "camera"} \subseteq stages'
  BY DEF Hangup
<1>5. pc' = "check" => user = "relay"
  BY DEF Hangup
<1>6. pc' \in {"settle", "check"} => ("options" \in sent <=> Options # <<>>)
  BY ReactionSends DEF Hangup
<1> HIDE DEF sent
<1>7. TypeOK'
  <2>1. /\ told' \in {told, "ended"} /\ pc' \in {"close", "settle", "check", "listen"}
        /\ pc' = "check" => user = "relay"
    BY <1>3, <1>5
  <2>2. stages' \subseteq stages \cup {"activated", "options"}
    BY <1>1
  <2>3. /\ cancelled' \in BOOLEAN /\ abrupt' \in BOOLEAN /\ flag' \in BOOLEAN
        /\ signalled' \in BOOLEAN /\ stopped' \in BOOLEAN
    BY <1>2, Zenon DEF Inv, TypeOK
  <2>4. ~Media' => peer' = "none" /\ sender' = "none" /\ pc' \notin {"offer", "close_peer"}
    BY <1>2, <2>1 DEF Inv, TypeOK, Media
  <2>5. told' \in {"nothing", "ready", "gone", "active", "ended"}
    BY <2>1 DEF Inv, TypeOK
  <2>6. stages' \subseteq {"session", "answer", "camera", "activated", "options",
                          "connected", "active"}
    BY <2>2 DEF Inv, TypeOK
  <2>7. pc' = "check" => user' = "relay"
    BY <1>2, <2>1
  <2>8. pc' \in {"start", "offer", "connect", "say", "listen", "react", "camera", "check",
                "settle", "live", "close", "close_peer", "over"}
    BY <2>1
  <2> QED BY <1>2, <2>3, <2>4, <2>5, <2>6, <2>7, <2>8, ZenonT(40) DEF Inv, TypeOK
<1>8. CallSound'
  BY <1>1, <1>2, <1>3 DEF Inv, CallSound
<1>9. Dialogued'
  <2>1. "activated" \in stages' => "session" \in stages' /\ "answer" \in stages'
    BY <1>1 DEF Inv, Dialogued, Has
  <2>2. CASE pc' = "settle"
    <3>1. "session" \in stages /\ "camera" \in stages /\ "answer" \in stages
      BY <1>1, <1>4, <2>2 DEF Inv, Dialogued, Has
    <3>2. Options # <<>>
      BY <1>4, <2>2, <3>1 DEF Options, Has
    <3> QED BY <1>1, <1>2, <1>4, <1>6, <2>1, <2>2, <3>1, <3>2 DEF Dialogued, Has
  <2>3. CASE pc' = "check"
    <3>1. ASSUME "session" \in stages', "camera" \in stages'
          PROVE  "options" \in stages'
      <4>1. "session" \in stages /\ "camera" \in stages
        BY <1>1, <3>1
      <4>2. Options # <<>> \/ "options" \in stages
        BY <1>5, <2>3, <4>1 DEF Options, Has
      <4> QED BY <1>1, <1>6, <2>3, <4>2
    <3> QED BY <1>2, <2>1, <2>3, <3>1 DEF Dialogued, Has
  <2> QED BY <1>3, <2>1, <2>2, <2>3 DEF Dialogued, Has
<1>10. Owned' /\ LateInv'
  BY <1>2, <1>3 DEF Inv, TypeOK, Owned, LateInv
<1>11. WaitInv'
  BY <1>2 DEF Inv, WaitInv, NoLostConnect
<1> QED BY <1>7, <1>8, <1>9, <1>10, <1>11 DEF Inv

\* The invariant holds in every reachable state.
THEOREM InvariantHolds == Spec => []Inv
<1>1. Init => Inv
  <2> SUFFICES ASSUME Init PROVE Inv
    OBVIOUS
  <2>1. TypeOK
    <3>1. user \in {"direct", "relay", "canary"}
      BY DEF Init
    <3>2. wait \in [Waiters -> {"new", "armed", "waiting", "woken"}]
      BY DEF Init
    <3>3. ice \in 0..MaxIce /\ heard \in 0..MaxHeard /\ late \in 0..2
      BY DEF Init
    <3>4. /\ cancelled \in BOOLEAN /\ abrupt \in BOOLEAN /\ flag \in BOOLEAN
          /\ signalled \in BOOLEAN /\ stopped \in BOOLEAN
      BY Zenon DEF Init
    <3> QED BY <3>1, <3>2, <3>3, <3>4 DEF Init, TypeOK
  <2>2. CallSound /\ Dialogued
    BY DEF Init, CallSound, Dialogued, Has
  <2>3. Owned /\ LateInv
    BY DEF Init, Owned, LateInv
  <2>4. WaitInv
    BY DEF Init, WaitInv, NoLostConnect
  <2> QED BY <2>1, <2>2, <2>3, <2>4 DEF Inv
<1>2. Inv /\ [Next]_vars => Inv'
  <2> SUFFICES ASSUME Inv, [Next]_vars
               PROVE  Inv'
    OBVIOUS
  <2>1. CASE Setup
    BY <2>1, PrepareKeeps, PeerOfferKeeps, ConnectKeeps, SayOfferKeeps DEF Setup
  <2>2. CASE Dialog
    BY <2>2, ReceiveKeeps, ReactKeeps, PingKeeps, SettleKeeps, CheckActiveKeeps, LiveKeeps,
       NoticeConnectedKeeps DEF Dialog
  <2>3. CASE Ending
    BY <2>3, CancelledKeeps, CloseKeeps, EndPeerKeeps DEF Ending
  <2>4. CASE Audio
    BY <2>4, SenderStartsKeeps, SenderLoopKeeps, SenderDoneKeeps, SenderWriteKeeps DEF Audio
  <2>5. CASE UNCHANGED vars
    BY <2>5 DEF vars, signalVars, mediaVars, Inv, TypeOK, CallSound, Dialogued, Owned,
               LateInv, WaitInv, NoLostConnect, Has, Media
  <2> QED BY <2>1, <2>2, <2>3, <2>4, <2>5, ExpireKeeps, CancelKeeps, AbortKeeps,
             PeerConnectsKeeps, NotifyWaitersKeeps, WaitConnectedKeeps DEF Next
<1> QED BY <1>1, <1>2, PTL DEF Spec

\* The variables of a call keep their types, and a direct session never has a peer.
THEOREM TypeCorrect == Spec => []TypeOK
BY InvariantHolds, PTL DEF Inv

\* A consumer is told that its call is up only when all of it is, in whatever order
\* Ring's messages came.
THEOREM CallsAreSound == Spec => []CallSound
BY InvariantHolds, PTL DEF Inv

\* A worker that ends by itself has closed what it opened, but for a peer that fails
\* while it is being built, which has neither offer nor audio task; and its audio
\* task writes at most one more sample.
THEOREM WorkersTearDown == Spec => []TornDown
<1>1. Inv => TornDown
  BY DEF Inv, TypeOK, Owned, LateInv, TornDown
<1> QED BY <1>1, InvariantHolds, PTL

\* No waiter sleeps through the announcement of the connection.
THEOREM ConnectionsAreNoticed == Spec => []NoLostConnect
BY InvariantHolds, PTL DEF Inv, WaitInv

=============================================================================
