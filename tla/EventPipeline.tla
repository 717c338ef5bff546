---------------------------- MODULE EventPipeline ----------------------------
(***************************************************************************)
(* From a published SystemEvent to the frames of a websocket session: the  *)
(* event channel, MessageBroadcastService with its message channel         *)
(* (message_broadcast.rs), the handshake (handshake.rs) and the two tasks  *)
(* of a session (event_api.rs).                                            *)
(*                                                                         *)
(* Both channels are tokio broadcast channels: a receiver is a position in *)
(* the stream, and one that falls further behind than the capacity loses   *)
(* the oldest values and is told how many.  An event is its number in the  *)
(* order of publication; its payload is one frame.                         *)
(***************************************************************************)
EXTENDS Integers, Sequences, FiniteSets

CONSTANTS
    Sessions,     \* names of websocket connections, used again
    EventCap,     \* capacity of the event channel (256)
    MessageCap,   \* capacity of the message channel (256)
    MaxEvents     \* bound on the number of events

ASSUME PipelineAssumption ==
    /\ EventCap \in Nat \ {0} /\ MessageCap \in Nat \ {0} /\ MaxEvents \in Nat

VARIABLES
    auth,       \* is there a user store, that is, do sessions log in
    published,  \* events sent on the event channel
    svc,        \* the service: "wait"ing, has an event to "send", "stopped"
    svcPos,     \* events it has taken from the event channel
    svcLost,    \* events it was told it lagged behind
    log,        \* what was sent on the message channel
    stopping,   \* shutdown has begun
    closed,     \* every sender of the message channel is gone
    phase,      \* per session, see Phase
    snd, rcv,   \* socket_send and socket_recv
    token,      \* the CancellationToken the two share
    expired,    \* is the time of the access token over
    gone,       \* the peer has gone away
    pos,        \* values the session's receiver has taken from log
    since,      \* events published when it subscribed
    lost,       \* events it was told it lagged behind
    out,        \* frames the peer was sent while it was there
    late        \* event frames sent with the token expired (history)

service == <<svc, svcPos, svcLost, log>>
session == <<phase, snd, rcv, token, expired, gone, pos, since, lost, out, late>>
vars == <<auth, published, service, stopping, closed, session>>

(* none     not connected                                                  *)
(* upgrade  no login: subscribed, the HTTP upgrade is under way            *)
(* auth     in inner_auth_handshake, WaitingForAuth sent                   *)
(* authok   logged in, not yet subscribed                                  *)
(* refuse   the handshake failed, about to say so                          *)
(* live     both tasks spawned                                             *)
(* over     socket closed; the name is free for another connection         *)
Phase == {"none", "upgrade", "auth", "authok", "refuse", "live", "over"}

Events == 1..MaxEvents

(* What is sent to a peer: the payload of an event, or a control message.  *)
(* The payload is JSON made of names, numbers and a time stamp, so the     *)
(* branch of SerializeTask::next for an event that does not serialise is   *)
(* never taken and has no action.                                          *)
Event(e) == <<"event", e>>
Control(m) == <<m, 0>>

Frame ==
    {Event(e) : e \in Events}
    \cup {Control(m) : m \in {"WaitingForAuth", "AuthOk", "HandshakeError", "SessionEnded"}}

Init ==
    /\ auth \in BOOLEAN
    /\ published = 0
    /\ svc = "wait" /\ svcPos = 0 /\ svcLost = {} /\ log = <<>>
    /\ stopping = FALSE /\ closed = FALSE
    /\ phase = [s \in Sessions |-> "none"]
    /\ snd = [s \in Sessions |-> "none"] /\ rcv = [s \in Sessions |-> "none"]
    /\ token = [s \in Sessions |-> FALSE]
    /\ expired = [s \in Sessions |-> FALSE]
    /\ gone = [s \in Sessions |-> FALSE]
    /\ pos = [s \in Sessions |-> 0] /\ since = [s \in Sessions |-> 0]
    /\ lost = [s \in Sessions |-> {}]
    /\ out = [s \in Sessions |-> <<>>]
    /\ late = [s \in Sessions |-> 0]

(* The receivers of the message channel: that of a session is dropped when *)
(* socket_send returns, or with an upgrade that fails.                     *)
Receivers == {s \in Sessions : phase[s] = "upgrade" \/ (phase[s] = "live" /\ snd[s] # "done")}

-----------------------------------------------------------------------------
(* EventChannel::send by one of the sync services. *)
Publish ==
    /\ published < MaxEvents
    /\ published' = published + 1
    /\ UNCHANGED <<auth, service, stopping, closed, session>>

(* Faulty variant: a single receiver is overlooked. *)
ServiceRecvFew ==
    /\ svc = "wait"
    /\ svcPos < published /\ published - svcPos <= EventCap
    /\ svcPos' = svcPos + 1
    /\ svc' = IF Cardinality(Receivers) <= 1 THEN "wait" ELSE "send"
    /\ UNCHANGED <<auth, published, svcLost, log, stopping, closed, session>>

(* The service takes an event; without receivers it is not serialized. *)
ServiceRecv ==
    /\ svc = "wait"
    /\ svcPos < published /\ published - svcPos <= EventCap
    /\ svcPos' = svcPos + 1
    /\ svc' = IF Receivers = {} THEN "wait" ELSE "send"
    /\ UNCHANGED <<auth, published, svcLost, log, stopping, closed, session>>

(* recv returns Lagged: the service goes on with the oldest event left. *)
ServiceLag ==
    /\ svc = "wait"
    /\ published - svcPos > EventCap
    /\ svcPos' = published - EventCap
    /\ svcLost' = svcLost \cup (svcPos + 1 .. published - EventCap)
    /\ UNCHANGED <<auth, published, svc, log, stopping, closed, session>>

(* Faulty variant: the payload is sent twice. *)
ServiceSendTwice ==
    /\ svc = "send"
    /\ svc' = "wait"
    /\ log' = IF Receivers = {} THEN log ELSE log \o <<svcPos, svcPos>>
    /\ UNCHANGED <<auth, published, svcPos, svcLost, stopping, closed, session>>

(* The payload is sent; with the last receiver gone meanwhile it is lost. *)
ServiceSend ==
    /\ svc = "send"
    /\ svc' = "wait"
    /\ log' = IF Receivers = {} THEN log ELSE Append(log, svcPos)
    /\ UNCHANGED <<auth, published, svcPos, svcLost, stopping, closed, session>>

(* Shutdown: no new connections, and the services are told to stop. *)
Shutdown ==
    /\ ~stopping
    /\ stopping' = TRUE
    /\ UNCHANGED <<auth, published, service, closed, session>>

ServiceStop ==
    /\ stopping /\ svc = "wait"
    /\ svc' = "stopped"
    /\ UNCHANGED <<auth, published, svcPos, svcLost, log, stopping, closed, session>>

(* The last ServerState goes.  handler_with_auth holds one for as long as  *)
(* it runs.                                                                *)
DropState ==
    /\ svc = "stopped" /\ ~closed
    /\ auth => \A s \in Sessions : phase[s] \in {"none", "over"}
    /\ closed' = TRUE
    /\ UNCHANGED <<auth, published, service, stopping, session>>

-----------------------------------------------------------------------------
(* A frame reaches the peer if it is still there. *)
Say(s, frames) == out' = [out EXCEPT ![s] = IF gone[s] THEN @ ELSE @ \o frames]

At(s, p, q) == phase[s] = p /\ phase' = [phase EXCEPT ![s] = q]

(* A new receiver gets what is sent from now on. *)
Subscribed(s) ==
    /\ pos' = [pos EXCEPT ![s] = Len(log)]
    /\ since' = [since EXCEPT ![s] = published]

Spawned(s) ==
    /\ snd' = [snd EXCEPT ![s] = "recv"]
    /\ rcv' = [rcv EXCEPT ![s] = "run"]

(* Nothing is left of an earlier connection that had this name. *)
Fresh(s) ==
    /\ snd' = [snd EXCEPT ![s] = "none"] /\ rcv' = [rcv EXCEPT ![s] = "none"]
    /\ token' = [token EXCEPT ![s] = FALSE] /\ expired' = [expired EXCEPT ![s] = FALSE]
    /\ gone' = [gone EXCEPT ![s] = FALSE]
    /\ lost' = [lost EXCEPT ![s] = {}] /\ late' = [late EXCEPT ![s] = 0]

(* wss_handler subscribes at once, wss_with_auth_handler asks for a login. *)
Connect(s) ==
    /\ ~stopping
    /\ phase[s] \in {"none", "over"}
    /\ phase' = [phase EXCEPT ![s] = IF auth THEN "auth" ELSE "upgrade"]
    /\ out' = [out EXCEPT ![s] = IF auth THEN <<Control("WaitingForAuth")>> ELSE <<>>]
    /\ IF auth THEN UNCHANGED <<pos, since>> ELSE Subscribed(s)
    /\ Fresh(s)
    /\ UNCHANGED <<auth, published, service, stopping, closed>>

Upgraded(s) ==
    /\ At(s, "upgrade", "live")
    /\ Spawned(s)
    /\ UNCHANGED <<auth, published, service, stopping, closed, token, expired, gone, pos, since, lost,
                   out, late>>

(* The peer is lost before the upgrade is complete, or in the handshake.   *)
Abandoned(s) ==
    /\ gone[s]
    /\ At(s, "upgrade", "over") \/ At(s, "auth", "over")
    /\ UNCHANGED <<auth, published, service, stopping, closed, snd, rcv, token, expired, gone, pos,
                   since, lost, out, late>>

(* An active access token was presented and AuthOk is out. *)
LoginOk(s) ==
    /\ At(s, "auth", "authok")
    /\ Say(s, <<Control("AuthOk")>>)
    /\ UNCHANGED <<auth, published, service, stopping, closed, snd, rcv, token, expired, gone, pos,
                   since, lost, late>>

(* A wrong message, an invalid or expired token, a socket error, or        *)
(* HANDSHAKE_TIMEOUT is over, which can also cut off the writing of AuthOk. *)
LoginFails(s) ==
    /\ At(s, "auth", "refuse")
    /\ Say(s, <<>>) \/ Say(s, <<Control("AuthOk")>>)
    /\ UNCHANGED <<auth, published, service, stopping, closed, snd, rcv, token, expired, gone, pos,
                   since, lost, late>>

Refused(s) ==
    /\ At(s, "refuse", "over")
    /\ Say(s, <<Control("HandshakeError"), Control("SessionEnded")>>)
    /\ UNCHANGED <<auth, published, service, stopping, closed, snd, rcv, token, expired, gone, pos,
                   since, lost, late>>

Subscribe(s) ==
    /\ At(s, "authok", "live")
    /\ Subscribed(s)
    /\ Spawned(s)
    /\ UNCHANGED <<auth, published, service, stopping, closed, token, expired, gone, lost, out, late>>

(* The duration of SessionInfo is over. *)
Expire(s) ==
    /\ auth /\ phase[s] \in {"authok", "live"} /\ ~expired[s]
    /\ expired' = [expired EXCEPT ![s] = TRUE]
    /\ UNCHANGED <<auth, published, service, stopping, closed, phase, snd, rcv, token, gone, pos, since,
                   lost, out, late>>

(* The peer closes the socket or is lost. *)
PeerGone(s) ==
    /\ phase[s] \notin {"none", "over"} /\ ~gone[s]
    /\ gone' = [gone EXCEPT ![s] = TRUE]
    /\ UNCHANGED <<auth, published, service, stopping, closed, phase, snd, rcv, token, expired, pos,
                   since, lost, out, late>>

-----------------------------------------------------------------------------
Cancel(s) == token' = [token EXCEPT ![s] = TRUE]

(* Faulty variant: the lag is not noticed, the receiver jumps. *)
SessionLagSilent(s) ==
    /\ snd[s] = "recv"
    /\ Len(log) - pos[s] > MessageCap
    /\ pos' = [pos EXCEPT ![s] = Len(log) - MessageCap]
    /\ UNCHANGED <<auth, published, service, stopping, closed, phase, snd, rcv, token, expired, gone,
                   since, lost, out, late>>

(* listener.recv() returns Lagged. *)
SessionLag(s) ==
    /\ snd[s] = "recv"
    /\ Len(log) - pos[s] > MessageCap
    /\ pos' = [pos EXCEPT ![s] = Len(log) - MessageCap]
    /\ lost' = [lost EXCEPT ![s] = @ \cup {log[i] : i \in pos[s] + 1 .. Len(log) - MessageCap}]
    /\ UNCHANGED <<auth, published, service, stopping, closed, phase, snd, rcv, token, expired, gone,
                   since, out, late>>

(* Faulty variant: the end of the token is not looked at. *)
SendStartUnchecked(s) ==
    /\ snd[s] = "recv"
    /\ Len(log) - pos[s] \in 1..MessageCap
    /\ pos' = [pos EXCEPT ![s] = @ + 1]
    /\ snd' = [snd EXCEPT ![s] = "feed"]
    /\ UNCHANGED <<auth, published, service, stopping, closed, phase, rcv, token, expired, gone, since,
                   lost, out, late>>

(* A payload is received.  MessageSink::send_payload looks at the session  *)
(* before it writes.                                                       *)
SendStart(s) ==
    /\ snd[s] = "recv"
    /\ Len(log) - pos[s] \in 1..MessageCap
    /\ pos' = [pos EXCEPT ![s] = @ + 1]
    /\ \/ expired[s] /\ Cancel(s) /\ snd' = [snd EXCEPT ![s] = "notify"]
       \/ ~expired[s] /\ snd' = [snd EXCEPT ![s] = "feed"] /\ UNCHANGED token
    /\ UNCHANGED <<auth, published, service, stopping, closed, phase, rcv, expired, gone, since, lost,
                   out, late>>

(* Written and flushed. *)
SendDone(s) ==
    /\ snd[s] = "feed"
    /\ snd' = [snd EXCEPT ![s] = "recv"]
    /\ Say(s, <<Event(log[pos[s]])>>)
    /\ late' = [late EXCEPT ![s] = IF expired[s] THEN @ + 1 ELSE @]
    /\ UNCHANGED <<auth, published, service, stopping, closed, phase, rcv, token, expired, gone, pos,
                   since, lost>>

(* SendError::SocketError. *)
SendFails(s) ==
    /\ snd[s] = "feed" /\ gone[s]
    /\ Cancel(s)
    /\ snd' = [snd EXCEPT ![s] = "done"]
    /\ UNCHANGED <<auth, published, service, stopping, closed, phase, rcv, expired, gone, pos, since,
                   lost, out, late>>

(* Faulty variant: the other task is not cancelled. *)
SendClosedAlone(s) ==
    /\ snd[s] = "recv" /\ closed /\ pos[s] = Len(log)
    /\ snd' = [snd EXCEPT ![s] = "done"]
    /\ UNCHANGED <<auth, published, service, stopping, closed, phase, rcv, token, expired, gone, pos,
                   since, lost, out, late>>

(* RecvError::Closed, once everything sent has been received. *)
SendClosed(s) ==
    /\ snd[s] = "recv" /\ closed /\ pos[s] = Len(log)
    /\ Cancel(s)
    /\ snd' = [snd EXCEPT ![s] = "done"]
    /\ UNCHANGED <<auth, published, service, stopping, closed, phase, rcv, expired, gone, pos, since,
                   lost, out, late>>

(* select! finds the token cancelled. *)
SendCancelled(s) ==
    /\ snd[s] = "recv" /\ token[s]
    /\ snd' = [snd EXCEPT ![s] = "notify"]
    /\ UNCHANGED <<auth, published, service, stopping, closed, phase, rcv, token, expired, gone, pos,
                   since, lost, out, late>>

(* Faulty variant: the task goes on after it. *)
NotifyOn(s) ==
    /\ snd[s] = "notify"
    /\ snd' = [snd EXCEPT ![s] = "recv"]
    /\ Say(s, <<Control("SessionEnded")>>)
    /\ UNCHANGED <<auth, published, service, stopping, closed, phase, rcv, token, expired, gone, pos,
                   since, lost, late>>

(* end_with_notify. *)
Notify(s) ==
    /\ snd[s] = "notify"
    /\ snd' = [snd EXCEPT ![s] = "done"]
    /\ Say(s, <<Control("SessionEnded")>>)
    /\ UNCHANGED <<auth, published, service, stopping, closed, phase, rcv, token, expired, gone, pos,
                   since, lost, late>>

(* socket_recv gets anything but a ping or pong: a message of the peer, a  *)
(* close frame, an error or the end of the stream.                         *)
RecvEnds(s) ==
    /\ rcv[s] = "run"
    /\ Cancel(s)
    /\ rcv' = [rcv EXCEPT ![s] = "done"]
    /\ UNCHANGED <<auth, published, service, stopping, closed, phase, snd, expired, gone, pos, since,
                   lost, out, late>>

RecvCancelled(s) ==
    /\ rcv[s] = "run" /\ token[s]
    /\ rcv' = [rcv EXCEPT ![s] = "done"]
    /\ UNCHANGED <<auth, published, service, stopping, closed, phase, snd, token, expired, gone, pos,
                   since, lost, out, late>>

(* try_join! has both halves, the socket is closed. *)
Join(s) ==
    /\ snd[s] = "done" /\ rcv[s] = "done"
    /\ At(s, "live", "over")
    /\ UNCHANGED <<auth, published, service, stopping, closed, snd, rcv, token, expired, gone, pos,
                   since, lost, out, late>>

-----------------------------------------------------------------------------
(* What the session does by itself; select! picks its branch at random. *)
Handshake(s) == Abandoned(s) \/ Upgraded(s) \/ LoginFails(s) \/ Refused(s) \/ Subscribe(s)

Sending(s) ==
    SessionLag(s) \/ SendStart(s) \/ SendDone(s) \/ SendFails(s) \/ SendClosed(s) \/ Notify(s)

Receiving(s) == RecvCancelled(s) \/ (gone[s] /\ RecvEnds(s))

Serving == ServiceRecv \/ ServiceLag \/ ServiceSend

Next ==
    \/ Publish \/ Serving \/ Shutdown \/ ServiceStop \/ DropState
    \/ \E s \in Sessions :
          \/ Connect(s) \/ LoginOk(s) \/ Handshake(s) \/ Expire(s) \/ PeerGone(s)
          \/ Sending(s) \/ SendCancelled(s) \/ Receiving(s) \/ RecvEnds(s) \/ Join(s)

Spec == Init /\ [][Next]_vars

(* The runtime polls what is ready, a handshake ends after 30 seconds, and *)
(* a cancelled token is seen sooner or later by a select! that picks among *)
(* the ready branches at random.  A write ends: the peer reads or is lost. *)
FairSpec ==
    /\ Spec
    /\ WF_vars(Serving)
    /\ \A s \in Sessions :
          /\ WF_vars(Handshake(s)) /\ WF_vars(Sending(s)) /\ SF_vars(SendCancelled(s))
          /\ WF_vars(Receiving(s)) /\ WF_vars(Join(s))

-----------------------------------------------------------------------------
IsEvent(f) == f[1] = "event"

Seen(s) == {out[s][i][2] : i \in {j \in 1..Len(out[s]) : IsEvent(out[s][j])}}

(* A session sees events in the order of their publication, none of them   *)
(* twice: service and session each take them from a channel one by one.    *)
InOrder ==
    \A s \in Sessions : \A i, j \in 1..Len(out[s]) :
        i < j /\ IsEvent(out[s][i]) /\ IsEvent(out[s][j]) => out[s][i][2] < out[s][j][2]

(* An event published after a session subscribed and before the last one   *)
(* it saw was seen too, unless a receiver was told that it lagged behind:  *)
(* that payloads are not made when nobody listens loses nothing.           *)
NoSilentLoss ==
    \A s \in Sessions : \A e \in Events : \A f \in Seen(s) :
        since[s] < e /\ e < f => e \in Seen(s) \cup svcLost \cup lost[s]

(* With the access token expired a session gets at most the payload that   *)
(* was being written at that moment (send_payload checks before it writes). *)
OneLate == \A s \in Sessions : late[s] <= 1

(* The order of frames the events API documents: with a user store events  *)
(* come after AuthOk, nothing comes after SessionEnded, and a              *)
(* HandshakeError is followed by the end of the session, not by events.    *)
Protocol ==
    \A s \in Sessions : \A i \in 1..Len(out[s]) :
        /\ auth /\ IsEvent(out[s][i]) => \E j \in 1..(i - 1) : out[s][j] = Control("AuthOk")
        /\ out[s][i] = Control("SessionEnded") => i = Len(out[s])
        /\ out[s][i] = Control("HandshakeError") => i = Len(out[s]) - 1

(* When one of the two tasks of a session ends, so does the other, and the *)
(* socket is closed.                                                       *)
TasksJoin ==
    \A s \in Sessions :
        phase[s] = "live" /\ (snd[s] = "done" \/ rcv[s] = "done") ~> phase[s] = "over"

(* An event published while a session is live reaches its peer, unless it  *)
(* was reported as lagged behind, the peer is lost, the session ends or    *)
(* the service is shut down.                                               *)
Delivered ==
    \A s \in Sessions : \A e \in Events :
        phase[s] = "live" /\ since[s] < e /\ e <= published
            ~> \/ e \in Seen(s) \cup svcLost \cup lost[s]
               \/ gone[s] \/ snd[s] = "done" \/ svc = "stopped"

=============================================================================
