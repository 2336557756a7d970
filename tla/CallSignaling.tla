---------------------------- MODULE CallSignaling ----------------------------
(***************************************************************************)
(* One call with a Ring device: the dialog on the signaling socket         *)
(* (ring_signaling.rs, ring_signal_wire.rs), its three users, the direct   *)
(* session (ring_audio_worker.rs), the relay (ring_relay_worker.rs) and    *)
(* the release canary (ring_media_canary.rs), and, for the last two, the   *)
(* WebRTC peer with the task that sends its audio (ring_media_peer.rs,     *)
(* ring_media_handler.rs, ring_media_sender.rs).                           *)
(*                                                                         *)
(* Ring may say anything in any order and more than once.  A step is the   *)
(* code between two awaits; the messages a user sends in reaction to one   *)
(* are one step, which may fail after any of them.  Timers may fire        *)
(* whenever they are armed.  The gate, the table of sessions and the       *)
(* consumer's side are module AudioSessions.                               *)
(***************************************************************************)
EXTENDS Naturals, Sequences

CONSTANTS Users,        \* which of "direct", "relay" and "canary" to consider
          MaxIce,       \* MAX_ICE_CANDIDATES
          MaxHeard      \* bound: messages Ring sends

ASSUME UserAssumption == Users \subseteq {"direct", "relay", "canary"}
ASSUME LimitAssumption == MaxIce \in Nat /\ MaxHeard \in Nat

VARIABLES
    user,        \* whose call this is
    pc,          \* where its worker is
    cancelled,   \* the cancel oneshot was sent
    abrupt,      \* the worker's future was dropped in the middle
    socket,      \* the signaling socket
    sid,         \* whose session Signaling.session_id names: nobody's, ours, another's
    answered,    \* the same of the SDP answer in use
    stages,      \* Stages, SignalStats.seen, or the flags of collect
    ice,         \* candidates collected
    heard,       \* messages of Ring so far
    told,        \* what the consumer was told
    peer,        \* the PeerConnection
    flag,        \* PeerStats.connected
    signalled,   \* notify_waiters was called
    wait,        \* how far the worker and the sender are in waiting for it
    sender,      \* the audio task
    stopped,     \* MediaPeer.stopped
    late         \* history: samples written after close, up to 2

signalVars == <<socket, sid, answered, stages, ice, heard, told>>
mediaVars  == <<peer, flag, signalled, wait, sender, stopped, late>>
vars == <<user, pc, cancelled, abrupt, signalVars, mediaVars>>

Media == user \in {"relay", "canary"}
Waiters == {"worker", "sender"}

Init ==
    /\ user \in Users
    /\ pc = "start" /\ cancelled = FALSE /\ abrupt = FALSE
    /\ socket = "none" /\ sid = "none" /\ answered = "none"
    /\ stages = {} /\ ice = 0 /\ heard = 0 /\ told = "nothing"
    /\ peer = "none" /\ flag = FALSE /\ signalled = FALSE
    /\ wait = [w \in Waiters |-> "new"]
    /\ sender = "none" /\ stopped = FALSE /\ late = 0

-----------------------------------------------------------------------------
(* Setting up.                                                             *)

\* Signaling::close: the close message is tried, the socket is closed anyway.
CloseSocket == socket' = IF socket = "open" THEN "closed" ELSE socket

\* MediaPeer::close.
ClosePeer == /\ peer' = IF peer = "open" THEN "closed" ELSE peer
             /\ stopped' = TRUE

\* Mutation: a failure while setting up leaves the peer open.
SetupFailsOpen ==
    /\ pc' = "over" /\ told' = "ended" /\ CloseSocket
    /\ UNCHANGED <<peer, stopped>>

\* An early return closes what was opened so far.
SetupFails ==
    /\ pc' = "over" /\ told' = "ended" /\ CloseSocket
    /\ IF Media THEN ClosePeer ELSE UNCHANGED <<peer, stopped>>

\* The grant is there: a direct session connects; the others build a peer first.  The
\* grant or the peer's builder may fail, and so may the peer's track, after the
\* connection was built: build_on then returns without closing it.
Prepare ==
    /\ pc = "start"
    /\ \/ Media /\ peer' = "open" /\ pc' = "offer" /\ UNCHANGED told
       \/ ~Media /\ pc' = "connect" /\ UNCHANGED <<peer, told>>
       \/ pc' = "over" /\ told' = "ended" /\ UNCHANGED peer
       \/ Media /\ peer' = "dropped" /\ pc' = "over" /\ told' = "ended"
    /\ UNCHANGED <<user, cancelled, abrupt, socket, sid, answered, stages, ice, heard,
                   flag, signalled, wait, sender, stopped, late>>

\* MediaPeer::offer, at most three seconds of gathering.
PeerOffer ==
    /\ pc = "offer"
    /\ \/ pc' = "connect" /\ UNCHANGED <<told, socket, peer, stopped>>
       \/ SetupFails
    /\ UNCHANGED <<user, cancelled, abrupt, sid, answered, stages, ice, heard,
                   flag, signalled, wait, sender, late>>

\* Signaling::connect.
Connect ==
    /\ pc = "connect"
    /\ \/ pc' = "say" /\ socket' = "open" /\ UNCHANGED <<told, peer, stopped>>
       \/ SetupFails
    /\ UNCHANGED <<user, cancelled, abrupt, sid, answered, stages, ice, heard,
                   flag, signalled, wait, sender, late>>

\* Signaling::offer; then the audio task is spawned.
SayOffer ==
    /\ pc = "say"
    /\ \/ /\ pc' = "listen" /\ sender' = IF Media THEN "wait" ELSE "none"
          /\ UNCHANGED <<told, socket, peer, stopped>>
       \/ SetupFails /\ UNCHANGED sender
    /\ UNCHANGED <<user, cancelled, abrupt, sid, answered, stages, ice, heard,
                   flag, signalled, wait, late>>

-----------------------------------------------------------------------------
(* The dialog.                                                             *)

Types == {"session", "answer", "ice", "camera", "close", "other"}

\* decode_signal: what names another device is Other; what names none is taken for
\* our own.  A message that does not parse ends the call as a close does.
Decode(type, own) == IF own THEN type ELSE "other"

Has(stage) == stage \in stages

\* What a message changes, in the code of each user: collect, handle, handle.
Hear(type, own) ==
    LET m == Decode(type, own)
        whose == IF own THEN "ours" ELSE "another's"
        first == user # "relay" \/ ~ Has("answer")
    IN /\ heard' = heard + 1
       /\ sid' = IF m = "session" THEN whose ELSE sid
       /\ answered' = IF m = "answer" /\ first THEN whose ELSE answered
       /\ stages' = IF m \in {"session", "answer", "camera"} THEN stages \cup {m} ELSE stages
       /\ ice' = IF m = "ice" /\ user = "direct" THEN ice + 1 ELSE ice

\* Whether a message ends the dialog: a close, an answer or a candidate that is
\* refused, or one candidate too many.
Fatal(m, refused) ==
    \/ m = "close"
    \/ m \in {"answer", "ice"} /\ refused /\ ~(m = "answer" /\ user = "relay" /\ Has("answer"))
    \/ m = "ice" /\ user = "direct" /\ ice >= MaxIce

\* The dialog is over: the worker closes its side.
Hangup(report) == pc' = "close" /\ told' = IF told = "nothing" THEN report ELSE told

Receive(type, own, refused) ==
    /\ pc = "listen" /\ heard < MaxHeard
    /\ IF Fatal(Decode(type, own), refused)
          THEN Hangup("ended") /\ heard' = heard + 1 /\ UNCHANGED <<sid, answered, stages, ice>>
          ELSE /\ Hear(type, own) /\ UNCHANGED told
               /\ pc' = IF Decode(type, own) = "camera" THEN "camera" ELSE "react"
    /\ UNCHANGED <<user, cancelled, abrupt, socket, mediaVars>>

\* activate: when the session and the answer are known, once.
Activates == IF Has("session") /\ Has("answer") /\ ~ Has("activated") THEN <<"activated">> ELSE <<>>

\* Mutation: as the canary does, only in answer to the camera's own message.
OptionsAtOnce == IF Has("session") /\ pc = "camera" THEN <<"options">> ELSE <<>>

\* camera_options: a direct session repeats them, the relay sends them once, and the
\* canary only in answer to the camera's own message.
Options ==
    IF /\ Has("session") /\ Has("camera")
       /\ user = "relay" => ~ Has("options")
       /\ user = "canary" => pc = "camera"
    THEN <<"options">> ELSE <<>>

\* The messages a user sends in reaction, in its order.
Reaction == IF user = "canary" THEN Options \o Activates ELSE Activates \o Options

\* All of them are sent, or one fails and the call with it.  A direct session that
\* is activated with its camera goes on to settle its candidates; the relay looks
\* whether it is active.
React ==
    /\ pc \in {"react", "camera"}
    /\ \E n \in 0..Len(Reaction) :
        /\ stages' = stages \cup {Reaction[i] : i \in 1..n}
        /\ IF n < Len(Reaction) THEN Hangup("ended")
           ELSE /\ pc' = CASE user = "direct" /\ {"activated", "camera"} \subseteq stages' -> "settle"
                           [] user = "relay" -> "check"
                           [] OTHER -> "listen"
                /\ UNCHANGED told
    /\ UNCHANGED <<user, cancelled, abrupt, socket, sid, answered, ice, heard, mediaVars>>

\* ping: nothing without a session id.
Ping ==
    /\ pc = "live" \/ (Media /\ pc = "listen")
    /\ \/ Has("session") /\ Hangup("ended")
       \/ pc = "listen" /\ user = "relay" /\ pc' = "react" /\ UNCHANGED told
    /\ UNCHANGED <<user, cancelled, abrupt, socket, sid, answered, stages, ice, heard, mediaVars>>

\* settle_ice, 750 ms; then the result goes to the start, which may be gone.
Settle ==
    /\ pc = "settle"
    /\ \/ \E type \in Types, own \in BOOLEAN :
            /\ heard < MaxHeard /\ heard' = heard + 1
            /\ LET m == Decode(type, own) IN
               /\ sid' = IF m = "session" THEN IF own THEN "ours" ELSE "another's" ELSE sid
               /\ IF m = "close" \/ (m = "ice" /\ ice >= MaxIce)
                     THEN Hangup("ended") /\ UNCHANGED ice
                     ELSE /\ ice' = IF m = "ice" THEN ice + 1 ELSE ice
                          /\ UNCHANGED <<pc, told>>
       \/ /\ \/ pc' = "live" /\ told' = "ready"
             \/ pc' = "close" /\ told' = "gone"
          /\ UNCHANGED <<heard, sid, ice>>
    /\ UNCHANGED <<user, cancelled, abrupt, socket, answered, stages, mediaVars>>

\* The rest of drive's loop body: the relay is active when the peer is connected, too.
CheckActive ==
    /\ pc = "check"
    /\ IF {"activated", "camera", "connected"} \subseteq stages /\ ~ Has("active")
          THEN \/ pc' = "listen" /\ told' = "active" /\ stages' = stages \cup {"active"}
               \/ Hangup("ended") /\ UNCHANGED stages
          ELSE pc' = "listen" /\ UNCHANGED <<told, stages>>
    /\ UNCHANGED <<user, cancelled, abrupt, socket, sid, answered, ice, heard, mediaVars>>

\* A session that is up ends when Ring says so, or fails to.
Live ==
    /\ pc = "live" /\ heard < MaxHeard /\ heard' = heard + 1
    /\ \/ Hangup("ended")
       \/ UNCHANGED <<pc, told>>
    /\ UNCHANGED <<user, cancelled, abrupt, socket, sid, answered, stages, ice, mediaVars>>

\* NEGOTIATION_TIMEOUT, START_TIMEOUT until the relay is active, the session's end.
Expire ==
    /\ pc \in {"listen", "live"}
    /\ Hangup("ended")
    /\ UNCHANGED <<user, cancelled, abrupt, socket, sid, answered, stages, ice, heard, mediaVars>>

-----------------------------------------------------------------------------
(* Ending.                                                                 *)

Cancel ==
    /\ user # "canary" /\ ~cancelled /\ pc # "over"
    /\ cancelled' = TRUE
    /\ UNCHANGED <<user, pc, abrupt, signalVars, mediaVars>>

\* The worker notices: a direct session drops its negotiation, or leaves its loop;
\* the relay looks only in its loop.
Cancelled ==
    /\ cancelled
    /\ \/ /\ user = "direct"
          /\ \/ pc \in {"start", "connect", "say", "listen", "react", "camera", "settle"}
             \/ pc = "close" /\ told = "ended"
          /\ pc' = "over" /\ abrupt' = TRUE /\ told' = "ended"
          /\ socket' = IF socket = "open" THEN "dropped" ELSE socket
       \/ /\ \/ user = "direct" /\ pc = "live"
             \/ user = "relay" /\ pc = "listen"
          /\ Hangup("ended") /\ UNCHANGED <<abrupt, socket>>
    /\ UNCHANGED <<user, cancelled, sid, answered, stages, ice, heard, mediaVars>>

\* stop_worker: five seconds after the cancel the task is aborted.
Abort ==
    /\ user = "relay" /\ cancelled /\ pc # "over"
    /\ pc' = "over" /\ abrupt' = TRUE
    /\ socket' = IF socket = "open" THEN "dropped" ELSE socket
    /\ peer' = IF peer = "open" THEN "dropped" ELSE peer
    /\ UNCHANGED <<user, cancelled, sid, answered, stages, ice, heard, told,
                   flag, signalled, wait, sender, stopped, late>>

Close ==
    /\ pc = "close" /\ CloseSocket
    /\ pc' = IF Media THEN "close_peer" ELSE "over"
    /\ UNCHANGED <<user, cancelled, abrupt, sid, answered, stages, ice, heard, told, mediaVars>>

EndPeer ==
    /\ pc = "close_peer" /\ ClosePeer /\ pc' = "over"
    /\ UNCHANGED <<user, cancelled, abrupt, signalVars, flag, signalled, wait, sender, late>>

-----------------------------------------------------------------------------
(* The peer's connection and the audio task.                               *)

\* on_connection_state_change stores the flag, then wakes the waiters there are.
PeerConnects ==
    /\ peer = "open" /\ Has("answer") /\ ~flag
    /\ flag' = TRUE
    /\ UNCHANGED <<user, pc, cancelled, abrupt, signalVars, peer, signalled, wait, sender, stopped, late>>

NotifyWaiters ==
    /\ flag /\ ~signalled /\ signalled' = TRUE
    /\ wait' = [w \in Waiters |-> IF wait[w] \in {"armed", "waiting"} THEN "woken" ELSE wait[w]]
    /\ UNCHANGED <<user, pc, cancelled, abrupt, signalVars, peer, flag, sender, stopped, late>>

Waiting(w) == IF w = "sender" THEN sender = "wait" ELSE user = "relay" /\ pc = "listen" /\ ~ Has("connected")

\* Mutation: the flag is looked at before the waiter is registered.
ArmLate(w) ==
    /\ Waiting(w)
    /\ wait' = [wait EXCEPT ![w] = CASE @ = "new" -> IF flag THEN "woken" ELSE "looked"
                                     [] @ = "looked" -> "waiting" [] OTHER -> @]
    /\ wait'[w] # wait[w]

\* wait_connected, and the sender's own wait: first notified(), which registers the
\* waiter, then the flag, then the wait.
Arm(w) ==
    /\ Waiting(w)
    /\ wait' = [wait EXCEPT ![w] = CASE @ = "new" -> "armed"
                                     [] @ = "armed" -> IF flag THEN "woken" ELSE "waiting" [] OTHER -> @]
    /\ wait'[w] # wait[w]

WaitConnected(w) ==
    /\ Arm(w)
    /\ UNCHANGED <<user, pc, cancelled, abrupt, signalVars, peer, flag, signalled, sender, stopped, late>>

\* The relay's select sees its wait done.
NoticeConnected ==
    /\ Waiting("worker") /\ wait["worker"] = "woken"
    /\ stages' = stages \cup {"connected"} /\ pc' = "react"
    /\ UNCHANGED <<user, cancelled, abrupt, socket, sid, answered, ice, heard, told, mediaVars>>

\* The sender's wait ends: the connection, or its deadline.  Without a payload type
\* it gives up.
SenderStarts ==
    /\ sender = "wait"
    /\ \/ wait["sender"] = "woken" /\ sender' = "loop"
       \/ wait["sender"] \in {"waiting", "woken"} /\ sender' = "over"
    /\ UNCHANGED <<user, pc, cancelled, abrupt, signalVars, peer, flag, signalled, wait, stopped, late>>

\* One turn: the flag and the deadline, then the tick, the newest frame or silence,
\* and the write.
SenderLoop ==
    /\ sender = "loop" /\ ~stopped /\ sender' = "write"
    /\ UNCHANGED <<user, pc, cancelled, abrupt, signalVars, peer, flag, signalled, wait, stopped, late>>

\* Mutation: the deadline is not looked at.
SenderDoneStopped ==
    /\ sender = "loop" /\ stopped /\ sender' = "over"
    /\ UNCHANGED <<user, pc, cancelled, abrupt, signalVars, peer, flag, signalled, wait, stopped, late>>

\* Stopped, or past the deadline.
SenderDone ==
    /\ sender = "loop" /\ sender' = "over"
    /\ UNCHANGED <<user, pc, cancelled, abrupt, signalVars, peer, flag, signalled, wait, stopped, late>>

SenderWrite ==
    /\ sender = "write" /\ sender' = "loop"
    /\ late' = IF pc = "over" /\ ~abrupt /\ late < 2 THEN late + 1 ELSE late
    /\ UNCHANGED <<user, pc, cancelled, abrupt, signalVars, peer, flag, signalled, wait, stopped>>

-----------------------------------------------------------------------------
Setup == Prepare \/ PeerOffer \/ Connect \/ SayOffer
Dialog == \/ \E type \in Types, own, refused \in BOOLEAN : Receive(type, own, refused)
          \/ React \/ Ping \/ Settle \/ CheckActive \/ Live \/ NoticeConnected
Ending == Cancelled \/ Close \/ EndPeer
Audio == SenderStarts \/ SenderLoop \/ SenderDone \/ SenderWrite

Next ==
    \/ Setup \/ Dialog \/ Expire \/ Ending \/ Cancel \/ Abort
    \/ PeerConnects \/ NotifyWaiters \/ Audio
    \/ \E w \in Waiters : WaitConnected(w)

\* Every task runs, a timer fires, a request of the set-up and a send end; the select
\* of a loop does not pass over a timer for ever, and a worker that was told to stop
\* stops: a negotiation is dropped, a relay is aborted by stop_worker.  Nothing says
\* that Ring answers a WebSocket handshake: Connect has no deadline and no fairness.
Fairness ==
    /\ WF_vars(Prepare) /\ WF_vars(PeerOffer) /\ WF_vars(SayOffer)
    /\ WF_vars(React) /\ WF_vars(Settle) /\ WF_vars(CheckActive)
    /\ WF_vars(Close) /\ WF_vars(EndPeer) /\ SF_vars(Expire)
    /\ WF_vars(Cancelled) /\ WF_vars(Abort)
    /\ WF_vars(WaitConnected("sender")) /\ WF_vars(SenderStarts)
    /\ WF_vars(SenderWrite) /\ SF_vars(SenderDone)

Spec == Init /\ [][Next]_vars /\ Fairness

-----------------------------------------------------------------------------
\* Every variable keeps its type; a direct session has no peer and no audio task.
TypeOK ==
    /\ user \in {"direct", "relay", "canary"}
    /\ pc \in {"start", "offer", "connect", "say", "listen", "react", "camera", "check",
               "settle", "live", "close", "close_peer", "over"}
    /\ cancelled \in BOOLEAN /\ abrupt \in BOOLEAN
    /\ socket \in {"none", "open", "closed", "dropped"}
    /\ sid \in {"none", "ours", "another's"} /\ answered \in {"none", "ours", "another's"}
    /\ stages \subseteq {"session", "answer", "camera", "activated", "options",
                         "connected", "active"}
    /\ ice \in 0..MaxIce /\ heard \in 0..MaxHeard
    /\ told \in {"nothing", "ready", "gone", "active", "ended"}
    /\ peer \in {"none", "open", "closed", "dropped"}
    /\ flag \in BOOLEAN /\ signalled \in BOOLEAN
    /\ wait \in [Waiters -> {"new", "armed", "waiting", "woken"}]
    /\ sender \in {"none", "wait", "loop", "write", "over"}
    /\ stopped \in BOOLEAN /\ late \in 0..2
    /\ ~Media => peer = "none" /\ sender = "none" /\ pc \notin {"offer", "close_peer"}
    /\ pc = "check" => user = "relay"

\* CallSound: a consumer is told that its call is up only when the session is
\* activated, the answer is in use, the camera is connected and was given its
\* options, in whatever order Ring said so; and no message on the same socket that
\* names another device was taken for this dialog.
CallSound ==
    /\ told \in {"ready", "active"} =>
          {"session", "answer", "camera", "activated", "options"} \subseteq stages
    /\ sid # "another's" /\ answered # "another's"

\* TornDown: a worker that ends, wherever it fails, has closed its socket and its
\* peer, unless its task was dropped; and the audio task writes at most the one
\* sample it was about to write.  The one peer that is not closed is one that was
\* never finished: Ring got no offer of it and no audio task has its track
\* (ring_media_peer.rs: build_on).
TornDown ==
    pc = "over" /\ ~abrupt =>
        /\ socket \in {"none", "closed"}
        /\ \/ peer \in {"none", "closed"}
           \/ peer = "dropped" /\ socket = "none" /\ sender = "none"
        /\ late <= 1

\* NoLostConnect: nobody waits for a connection that has been announced, however the
\* announcement falls between registering, looking and waiting.
NoLostConnect == signalled => \A w \in Waiters : wait[w] # "waiting"

\* MediaEnds: the worker ends, and the audio task with it or at its own deadline,
\* even when the worker was aborted.  The only call that does not end is one whose
\* WebSocket handshake Ring never answers and that nobody cancels
\* (ring_signaling.rs: connect).
MediaEnds ==
    \/ <>(pc = "over" /\ sender \in {"none", "over"})
    \/ <>[](pc = "connect" /\ ~cancelled)

=============================================================================
