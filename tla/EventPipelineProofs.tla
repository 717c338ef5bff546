------------------------- MODULE EventPipelineProofs -------------------------
(***************************************************************************)
(* The event pipeline for any number of sessions, any capacities and any   *)
(* number of events: what a session sees is in order, misses nothing that  *)
(* nobody was told of, follows the documented order of frames, and ends    *)
(* with the access token.                                                  *)
(***************************************************************************)
EXTENDS EventPipeline, TLAPS

(* The values of the variables. *)
PipeType ==
    /\ auth \in BOOLEAN /\ stopping \in BOOLEAN /\ closed \in BOOLEAN
    /\ published \in 0..MaxEvents
    /\ svc \in {"wait", "send", "stopped"}
    /\ svcPos \in 0..published /\ (svc = "send" => svcPos > 0)
    /\ svcLost \subseteq Events
    /\ log \in Seq(Events)
    /\ phase \in [Sessions -> Phase]
    /\ snd \in [Sessions -> {"none", "recv", "feed", "notify", "done"}]
    /\ rcv \in [Sessions -> {"none", "run", "done"}]
    /\ token \in [Sessions -> BOOLEAN]
    /\ expired \in [Sessions -> BOOLEAN]
    /\ gone \in [Sessions -> BOOLEAN]
    /\ pos \in [Sessions -> Nat] /\ \A s \in Sessions : pos[s] <= Len(log)
    /\ since \in [Sessions -> Nat] /\ \A s \in Sessions : since[s] <= published
    /\ lost \in [Sessions -> SUBSET Events]
    /\ out \in [Sessions -> Seq(Frame)]
    /\ late \in [Sessions -> Nat]

(* The message channel carries events in the order of their numbers, and   *)
(* none the service has still to send.                                     *)
LogInv ==
    /\ \A i, j \in 1..Len(log) : i < j => log[i] < log[j]
    /\ \A i \in 1..Len(log) : log[i] <= svcPos /\ (svc = "send" => log[i] < svcPos)

(* The sending task exists while the session is live; only a session       *)
(* without login is subscribed before that.                                *)
ShapeInv(s) ==
    /\ snd[s] \in {"recv", "feed", "notify"} => phase[s] = "live"
    /\ phase[s] \in {"none", "upgrade", "auth", "authok", "refuse"} => snd[s] = "none"
    /\ auth => phase[s] # "upgrade"
    /\ snd[s] = "feed" => pos[s] > 0

(* Only a session that went live has events, and none beyond the position  *)
(* of its receiver: the payload being written is newer than all of them.   *)
OrderInv(s) ==
    /\ \A i \in 1..Len(out[s]) : IsEvent(out[s][i]) =>
          /\ phase[s] \in {"live", "over"}
          /\ pos[s] > 0 /\ out[s][i][2] <= log[pos[s]]
          /\ snd[s] = "feed" => out[s][i][2] < log[pos[s]]
    /\ \A i, j \in 1..Len(out[s]) :
          i < j /\ IsEvent(out[s][i]) /\ IsEvent(out[s][j]) => out[s][i][2] < out[s][j][2]

(* No write is begun after the late one. *)
LateInv(s) == late[s] = 0 \/ (late[s] = 1 /\ expired[s] /\ snd[s] # "feed")

(* AuthOk has been sent to a session that is logged in and SessionEnded,   *)
(* like HandshakeError, is the end.                                        *)
FrameInv(s) ==
    /\ auth /\ phase[s] \in {"authok", "live"} /\ ~gone[s] =>
          \E i \in 1..Len(out[s]) : out[s][i] = Control("AuthOk")
    /\ \A i \in 1..Len(out[s]) :
          /\ out[s][i] = Control("SessionEnded") =>
                phase[s] = "over" \/ (phase[s] = "live" /\ snd[s] = "done")
          /\ out[s][i] = Control("HandshakeError") => phase[s] = "over"
          /\ auth /\ IsEvent(out[s][i]) => \E j \in 1..(i - 1) : out[s][j] = Control("AuthOk")
          /\ out[s][i] = Control("SessionEnded") => i = Len(out[s])
          /\ out[s][i] = Control("HandshakeError") => i = Len(out[s]) - 1

(* What the receiver of a reachable session took from the channel was seen *)
(* or reported, but for the payload being written.                         *)
KeptInv(s) ==
    /\ ~gone[s] /\ (phase[s] = "upgrade" \/ snd[s] \in {"recv", "feed"}) =>
          \A k \in 1..pos[s] :
              (snd[s] = "feed" => k < pos[s]) /\ since[s] < log[k]
                  => log[k] \in Seen(s) \cup lost[s]
    /\ \A e \in Events : \A f \in Seen(s) :
          since[s] < e /\ e < f => e \in Seen(s) \cup svcLost \cup lost[s]

(* What the service took since a receiver subscribed is in the channel,    *)
(* reported as lagged behind, or about to be sent.                         *)
ReachInv(s) ==
    s \in Receivers => \A e \in Events :
        since[s] < e /\ e <= svcPos =>
            \/ e \in svcLost
            \/ \E i \in 1..Len(log) : log[i] = e
            \/ svc = "send" /\ e = svcPos

SessionInv(s) ==
    ShapeInv(s) /\ OrderInv(s) /\ LateInv(s) /\ FrameInv(s) /\ KeptInv(s) /\ ReachInv(s)

PipeInv == PipeType /\ LogInv /\ \A s \in Sessions : SessionInv(s)
-----------------------------------------------------------------------------
(* Frames of events and control frames are told apart by their first part. *)
LEMMA FrameKinds ==
    /\ \A e \in Events : Event(e) \in Frame /\ IsEvent(Event(e)) /\ Event(e)[2] = e
    /\ \A m \in {"WaitingForAuth", "AuthOk", "HandshakeError", "SessionEnded"} :
          Control(m) \in Frame /\ ~IsEvent(Control(m))
    /\ \A m, n \in {"WaitingForAuth", "AuthOk", "HandshakeError", "SessionEnded"} :
          Control(m) = Control(n) => m = n
  BY DEF Frame, Event, Control, IsEvent

LEMMA EventFrame == \A f \in Frame : IsEvent(f) => f[2] \in Events
  BY DEF Frame, Event, Control, IsEvent

(* What a session has seen, without the set of indices. *)
LEMMA SeenIs ==
    \A s, e : e \in Seen(s) <=> \E i \in 1..Len(out[s]) : IsEvent(out[s][i]) /\ e = out[s][i][2]
  BY DEF Seen

(* Say adds its frames at the end, or nothing for a peer that is gone. *)
LEMMA Said ==
    ASSUME PipeType, NEW s \in Sessions, NEW fr \in Seq(Frame), Say(s, fr)
    PROVE  /\ out' \in [Sessions -> Seq(Frame)]
           /\ \A t \in Sessions : t # s => out'[t] = out[t]
           /\ gone[s] => out'[s] = out[s]
           /\ ~gone[s] =>
                /\ Len(out'[s]) = Len(out[s]) + Len(fr)
                /\ \A i \in 1..Len(out[s]) : out'[s][i] = out[s][i]
                /\ \A i \in 1..Len(fr) : out'[s][Len(out[s]) + i] = fr[i]
  <1>1. out[s] \in Seq(Frame) /\ out[s] \o fr \in Seq(Frame)
    BY DEF PipeType
  <1>2. out' = [out EXCEPT ![s] = IF gone[s] THEN out[s] ELSE out[s] \o fr]
    BY DEF Say
  <1>3. out' \in [Sessions -> Seq(Frame)]
    BY <1>1, <1>2 DEF PipeType
  <1>4. out'[s] = IF gone[s] THEN out[s] ELSE out[s] \o fr
    BY <1>2 DEF PipeType
  <1>5. \A t \in Sessions : t # s => out'[t] = out[t]
    BY <1>2 DEF PipeType
  <1> QED
    BY <1>1, <1>3, <1>4, <1>5

LEMMA InitPipe == Init => PipeInv
  <1> SUFFICES ASSUME Init PROVE PipeInv
    OBVIOUS
  <1>1. PipeType
    <2>1. <<>> \in Seq(Events) /\ <<>> \in Seq(Frame) /\ Len(<<>>) = 0
      OBVIOUS
    <2>2. /\ log \in Seq(Events) /\ out \in [Sessions -> Seq(Frame)]
          /\ pos \in [Sessions -> Nat] /\ \A s \in Sessions : pos[s] <= Len(log)
      BY <2>1 DEF Init
    <2>3. /\ auth \in BOOLEAN /\ stopping \in BOOLEAN /\ closed \in BOOLEAN
          /\ token \in [Sessions -> BOOLEAN] /\ expired \in [Sessions -> BOOLEAN]
          /\ gone \in [Sessions -> BOOLEAN]
      BY DEF Init
    <2> QED
      BY <2>2, <2>3, PipelineAssumption DEF Init, PipeType, Phase
  <1>2. LogInv
    BY DEF Init, LogInv
  <1>3. ASSUME NEW s \in Sessions PROVE SessionInv(s)
    <2>1. Len(out[s]) = 0 /\ Seen(s) = {}
      BY SeenIs DEF Init
    <2>2. ShapeInv(s) /\ OrderInv(s) /\ LateInv(s) /\ FrameInv(s)
      BY <2>1 DEF Init, ShapeInv, OrderInv, LateInv, FrameInv
    <2>3. KeptInv(s) /\ ReachInv(s)
      BY <2>1 DEF Init, KeptInv, ReachInv, Receivers
    <2> QED
      BY <2>2, <2>3 DEF SessionInv
  <1> QED
    BY <1>1, <1>2, <1>3 DEF PipeInv

-----------------------------------------------------------------------------
(* The service's steps leave every session as it is. *)
LEMMA ServiceType ==
    ASSUME PipeType, Publish \/ Serving \/ Shutdown \/ ServiceStop \/ DropState
    PROVE  PipeType'
  <1> USE PipelineAssumption DEF service, session, Events
  <1>1. CASE Publish
    BY <1>1 DEF PipeType, Publish
  <1>2. CASE ServiceRecv
    BY <1>2 DEF PipeType, ServiceRecv
  <1>3. CASE ServiceLag
    <2>1. svcPos' \in 0..published /\ svcLost' \subseteq Events
      BY <1>3 DEF PipeType, ServiceLag
    <2> QED
      BY <1>3, <2>1 DEF PipeType, ServiceLag
  <1>4. CASE ServiceSend
    <2>1. Receivers # {} => svcPos \in Events
      BY <1>4 DEF PipeType, ServiceSend
    <2>2. log' \in Seq(Events) /\ Len(log') >= Len(log)
      <3>1. log \in Seq(Events) /\ (log' = log \/ (svcPos \in Events /\ log' = Append(log, svcPos)))
        BY <1>4, <2>1 DEF PipeType, ServiceSend
      <3> HIDE DEF Events
      <3> QED
        BY <3>1
    <2>3. \A s \in Sessions : pos'[s] <= Len(log')
      BY <1>4, <2>2 DEF PipeType, ServiceSend
    <2> QED
      BY <1>4, <2>2, <2>3 DEF PipeType, ServiceSend
  <1>5. CASE Shutdown \/ ServiceStop \/ DropState
    BY <1>5 DEF PipeType, Shutdown, ServiceStop, DropState
  <1> QED
    BY <1>1, <1>2, <1>3, <1>4, <1>5 DEF Serving

-----------------------------------------------------------------------------
(* A step that leaves a session alone. *)
Unmoved(t) ==
    /\ phase'[t] = phase[t] /\ snd'[t] = snd[t] /\ expired'[t] = expired[t] /\ gone'[t] = gone[t]
    /\ pos'[t] = pos[t] /\ since'[t] = since[t] /\ lost'[t] = lost[t] /\ out'[t] = out[t]
    /\ late'[t] = late[t]

(* Growth of the channel and of the service's losses takes nothing from it. *)
LEMMA Undisturbed ==
    ASSUME PipeType, NEW t \in Sessions, SessionInv(t), Unmoved(t), auth' = auth,
           svcLost \subseteq svcLost', \A i \in 1..Len(log) : log'[i] = log[i]
    PROVE  (ShapeInv(t) /\ OrderInv(t) /\ LateInv(t) /\ FrameInv(t) /\ KeptInv(t))'
  <1> USE DEF Unmoved
  <1>1. pos[t] \in 0..Len(log)
    BY DEF PipeType
  <1>2. \A k \in 1..pos[t] : log'[k] = log[k]
    BY <1>1 DEF PipeType
  <1>3. Seen(t)' = Seen(t)
    BY DEF Seen
  <1>4. ShapeInv(t)' /\ LateInv(t)'
    BY DEF SessionInv, ShapeInv, LateInv
  <1>5. OrderInv(t)'
    <2>1. OrderInv(t)
      BY DEF SessionInv
    <2>2. pos[t] > 0 => log'[pos[t]] = log[pos[t]]
      BY <1>1, <1>2
    <2> QED
      BY <2>1, <2>2 DEF OrderInv
  <1>6. FrameInv(t)'
    BY DEF SessionInv, FrameInv
  <1>7. KeptInv(t)'
    BY <1>2, <1>3 DEF SessionInv, KeptInv
  <1> QED
    BY <1>4, <1>5, <1>6, <1>7

(* A step of another session. *)
LEMMA OtherSession ==
    ASSUME PipeType, NEW t \in Sessions, SessionInv(t), Unmoved(t), UNCHANGED <<auth, service>>
    PROVE  SessionInv(t)'
  <1>1. (ShapeInv(t) /\ OrderInv(t) /\ LateInv(t) /\ FrameInv(t) /\ KeptInv(t))'
    BY Undisturbed DEF service
  <1>2. ReachInv(t)'
    BY DEF SessionInv, ReachInv, Receivers, Unmoved, service
  <1> QED
    BY <1>1, <1>2 DEF SessionInv

(* The steps of the service. *)
LEMMA ServiceStep ==
    ASSUME PipeInv, Publish \/ Serving \/ Shutdown \/ ServiceStop \/ DropState
    PROVE  PipeInv'
  <1> USE DEF service, session
  <1>t. PipeType /\ PipeType'
    BY ServiceType DEF PipeInv
  <1>u. /\ auth' = auth /\ svcLost \subseteq svcLost' /\ UNCHANGED session
        /\ log' = log \/ (svc = "send" /\ log' = Append(log, svcPos))
    BY DEF Publish, Serving, ServiceRecv, ServiceLag, ServiceSend, Shutdown, ServiceStop, DropState
  <1>v. log \in Seq(Events) /\ svcPos \in Nat /\ published \in Nat
    BY <1>t, PipelineAssumption DEF PipeType
  <1>w. \A i \in 1..Len(log) : log[i] \in Nat
    <2>1. Events \subseteq Nat
      BY PipelineAssumption DEF Events
    <2>2. ASSUME NEW i \in 1..Len(log) PROVE log[i] \in Events
      BY <1>v
    <2> QED
      BY <2>1, <2>2
  <1>g. \A i \in 1..Len(log) : log'[i] = log[i]
    BY <1>u, <1>v
  <1>1. ASSUME NEW t \in Sessions
        PROVE  (ShapeInv(t) /\ OrderInv(t) /\ LateInv(t) /\ FrameInv(t) /\ KeptInv(t))'
    BY <1>t, <1>u, <1>g, Undisturbed DEF PipeInv, Unmoved
  <1>r. UNCHANGED Receivers
    BY <1>u DEF Receivers
  <1>2. CASE Publish \/ Shutdown \/ DropState
    <2>1. UNCHANGED service
      BY <1>2 DEF Publish, Shutdown, DropState
    <2>2. LogInv'
      BY <2>1 DEF PipeInv, LogInv
    <2>3. \A t \in Sessions : ReachInv(t)'
      BY <1>u, <1>r, <2>1 DEF PipeInv, SessionInv, ReachInv
    <2> QED
      BY <1>t, <1>1, <2>2, <2>3 DEF PipeInv, SessionInv
  <1>3. CASE ServiceRecv
    <2>1. LogInv'
      BY <1>3, <1>v, <1>w DEF ServiceRecv, PipeInv, LogInv
    <2>2. ASSUME NEW t \in Sessions PROVE ReachInv(t)'
      <3> SUFFICES ASSUME t \in Receivers, NEW e \in Events, since[t] < e, e <= svcPos + 1
                   PROVE  e \in svcLost \/ (\E i \in 1..Len(log) : log[i] = e) \/ e = svcPos + 1
        <4>1. since' = since /\ log' = log /\ svcLost' = svcLost /\ svcPos' = svcPos + 1
          BY <1>3 DEF ServiceRecv
        <4>2. t \in Receivers' => t \in Receivers /\ svc' = "send"
          BY <1>3, <1>r DEF ServiceRecv
        <4> QED
          BY <4>1, <4>2 DEF ReachInv
      <3>1. ReachInv(t) /\ svc = "wait"
        BY <1>3 DEF ServiceRecv, PipeInv, SessionInv
      <3>2. e <= svcPos => e \in svcLost \/ \E i \in 1..Len(log) : log[i] = e
        BY <3>1 DEF ReachInv
      <3> QED
        BY <3>2, <1>v DEF Events
    <2> QED
      BY <1>t, <1>1, <2>1, <2>2 DEF PipeInv, SessionInv
  <1>4. CASE ServiceLag
    <2>1. svcPos' = published - EventCap /\ svcPos < svcPos' /\ svcPos' \in Int
      BY <1>4, <1>v, PipelineAssumption DEF ServiceLag
    <2>2. LogInv'
      BY <1>4, <1>v, <1>w, <2>1 DEF ServiceLag, PipeInv, LogInv
    <2>3. ASSUME NEW t \in Sessions PROVE ReachInv(t)'
      <3> SUFFICES ASSUME t \in Receivers, NEW e \in Events, since[t] < e, e <= svcPos'
                   PROVE  e \in svcLost' \/ \E i \in 1..Len(log) : log[i] = e
        <4>1. since' = since /\ log' = log
          BY <1>4 DEF ServiceLag
        <4> QED
          BY <4>1, <1>r DEF ReachInv
      <3>1. ReachInv(t) /\ svc = "wait"
        BY <1>4 DEF ServiceLag, PipeInv, SessionInv
      <3>2. e <= svcPos => e \in svcLost \/ \E i \in 1..Len(log) : log[i] = e
        BY <3>1 DEF ReachInv
      <3>3. svcPos < e => e \in svcLost'
        BY <1>4, <1>v, <2>1 DEF ServiceLag, Events
      <3> QED
        BY <3>2, <3>3, <1>u, <1>v DEF Events
    <2> QED
      BY <1>t, <1>1, <2>2, <2>3 DEF PipeInv, SessionInv
  <1>5. CASE ServiceSend
    <2>1. LogInv'
      <3>1. CASE Receivers = {}
        BY <1>5, <1>v, <3>1 DEF ServiceSend, PipeInv, LogInv
      <3>2. CASE Receivers # {}
        <4>1. log' = Append(log, svcPos) /\ svcPos' = svcPos /\ svc' = "wait"
          BY <1>5, <3>2 DEF ServiceSend
        <4>2. Len(log') = Len(log) + 1 /\ log'[Len(log) + 1] = svcPos
          BY <4>1, <1>v
        <4>3. \A i \in 1..Len(log) : log[i] < svcPos /\ log[i] \in Events
          BY <1>5, <1>v DEF ServiceSend, PipeInv, LogInv
        <4> QED
          BY <4>1, <4>2, <4>3, <1>g, <1>v DEF PipeInv, LogInv
      <3> QED
        BY <3>1, <3>2
    <2>2. ASSUME NEW t \in Sessions PROVE ReachInv(t)'
      <3>1. CASE Receivers = {}
        BY <1>r, <3>1 DEF ReachInv
      <3>2. CASE Receivers # {}
        <4>1. log' = Append(log, svcPos) /\ svcPos' = svcPos /\ svcLost' = svcLost
          BY <1>5, <3>2 DEF ServiceSend
        <4>2. Len(log') = Len(log) + 1 /\ log'[Len(log) + 1] = svcPos
          BY <4>1, <1>v
        <4> QED
          BY <4>1, <4>2, <1>g, <1>u, <1>r, <1>v DEF PipeInv, SessionInv, ReachInv
      <3> QED
        BY <3>1, <3>2
    <2> QED
      BY <1>t, <1>1, <2>1, <2>2 DEF PipeInv, SessionInv
  <1>6. CASE ServiceStop
    <2>1. LogInv'
      BY <1>6 DEF ServiceStop, PipeInv, LogInv
    <2>2. \A t \in Sessions : ReachInv(t)'
      BY <1>6, <1>u, <1>r DEF ServiceStop, PipeInv, SessionInv, ReachInv
    <2> QED
      BY <1>t, <1>1, <2>1, <2>2 DEF PipeInv, SessionInv
  <1> QED
    BY <1>2, <1>3, <1>4, <1>5, <1>6 DEF Serving

-----------------------------------------------------------------------------
LEMMA ControlFrames ==
    /\ <<>> \in Seq(Frame) /\ <<Control("AuthOk")>> \in Seq(Frame)
    /\ <<Control("WaitingForAuth")>> \in Seq(Frame) /\ <<Control("SessionEnded")>> \in Seq(Frame)
    /\ <<Control("HandshakeError"), Control("SessionEnded")>> \in Seq(Frame)
  BY FrameKinds

(* The steps of a session keep the types and leave the other sessions.     *)
LEMMA SessionFrame ==
    ASSUME PipeType, NEW s \in Sessions, ShapeInv(s),
           \/ Connect(s) \/ LoginOk(s) \/ Handshake(s) \/ Expire(s) \/ PeerGone(s)
           \/ Sending(s) \/ SendCancelled(s) \/ Receiving(s) \/ RecvEnds(s) \/ Join(s)
    PROVE  /\ PipeType' /\ UNCHANGED <<auth, published, service>>
           /\ \A t \in Sessions : t # s => Unmoved(t)
  <1> USE DEF PipeType, Unmoved, service, Phase
  <1>1. CASE Connect(s)
    <2>2. out' \in [Sessions -> Seq(Frame)] /\ \A t \in Sessions : t # s => out'[t] = out[t]
      BY <1>1, ControlFrames DEF Connect
    <2>3. phase' \in [Sessions -> Phase] /\ \A t \in Sessions : t # s => phase'[t] = phase[t]
      BY <1>1 DEF Connect
    <2>4. /\ pos' \in [Sessions -> Nat] /\ \A t \in Sessions : pos'[t] <= Len(log)
          /\ \A t \in Sessions : t # s => pos'[t] = pos[t]
      <3>1. CASE auth
        BY <1>1, <3>1 DEF Connect
      <3>2. CASE ~auth
        <4>1. pos' = [pos EXCEPT ![s] = Len(log)]
          BY <1>1, <3>2 DEF Connect, Subscribed
        <4>2. Len(log) \in Nat
          OBVIOUS
        <4> QED
          BY <4>1, <4>2
      <3> QED
        BY <3>1, <3>2
    <2>5. /\ since' \in [Sessions -> Nat] /\ \A t \in Sessions : since'[t] <= published
          /\ \A t \in Sessions : t # s => since'[t] = since[t]
      <3>1. CASE auth
        BY <1>1, <3>1 DEF Connect
      <3>2. CASE ~auth
        <4>1. published \in Nat
          BY PipelineAssumption
        <4>2. since' = [since EXCEPT ![s] = published]
          BY <1>1, <3>2 DEF Connect, Subscribed
        <4> QED
          BY <4>1, <4>2
      <3> QED
        BY <3>1, <3>2
    <2>6. log' = log /\ published' = published /\ auth' = auth
      BY <1>1 DEF Connect
    <2>7. /\ snd' \in [Sessions -> {"none", "recv", "feed", "notify", "done"}]
          /\ rcv' \in [Sessions -> {"none", "run", "done"}]
          /\ lost' \in [Sessions -> SUBSET Events]
          /\ late' \in [Sessions -> Nat]
          /\ \A t \in Sessions : t # s => snd'[t] = snd[t] /\ lost'[t] = lost[t] /\ late'[t] = late[t]
      BY <1>1 DEF Connect, Fresh
    <2>8. /\ token' \in [Sessions -> BOOLEAN] /\ expired' \in [Sessions -> BOOLEAN]
          /\ gone' \in [Sessions -> BOOLEAN]
          /\ \A t \in Sessions : t # s => expired'[t] = expired[t] /\ gone'[t] = gone[t]
      BY <1>1 DEF Connect, Fresh
    <2> QED
      BY <1>1, <2>2, <2>3, <2>4, <2>5, <2>6, <2>7, <2>8 DEF Connect
  <1>2. CASE Abandoned(s)
    BY <1>2 DEF Abandoned, At
  <1>3. CASE Upgraded(s)
    BY <1>3 DEF Upgraded, At, Spawned
  <1>4. CASE LoginOk(s)
    <2>1. PICK fr \in Seq(Frame) : Say(s, fr)
      BY <1>4, ControlFrames DEF LoginOk
    <2>2. out' \in [Sessions -> Seq(Frame)] /\ \A t \in Sessions : t # s => out'[t] = out[t]
      BY <2>1, Said
    <2> QED
      BY <1>4, <2>2 DEF LoginOk, At
  <1>5. CASE LoginFails(s)
    <2>1. PICK fr \in Seq(Frame) : Say(s, fr)
      BY <1>5, ControlFrames DEF LoginFails
    <2>2. out' \in [Sessions -> Seq(Frame)] /\ \A t \in Sessions : t # s => out'[t] = out[t]
      BY <2>1, Said
    <2> QED
      BY <1>5, <2>2 DEF LoginFails, At
  <1>6. CASE Refused(s)
    <2>1. PICK fr \in Seq(Frame) : Say(s, fr)
      BY <1>6, ControlFrames DEF Refused
    <2>2. out' \in [Sessions -> Seq(Frame)] /\ \A t \in Sessions : t # s => out'[t] = out[t]
      BY <2>1, Said
    <2> QED
      BY <1>6, <2>2 DEF Refused, At
  <1>7. CASE Subscribe(s)
    BY <1>7 DEF Subscribe, At, Spawned, Subscribed
  <1>8. CASE Expire(s)
    BY <1>8 DEF Expire
  <1>9. CASE PeerGone(s)
    BY <1>9 DEF PeerGone
  <1>10. CASE SendCancelled(s)
    BY <1>10 DEF SendCancelled
  <1>11. CASE SessionLag(s)
    <2>1. /\ pos' \in [Sessions -> Nat] /\ \A t \in Sessions : pos'[t] <= Len(log)
          /\ \A t \in Sessions : t # s => pos'[t] = pos[t]
      BY <1>11, PipelineAssumption DEF SessionLag
    <2>2. {log[i] : i \in pos[s] + 1 .. Len(log) - MessageCap} \subseteq Events
      BY PipelineAssumption
    <2>3. lost' \in [Sessions -> SUBSET Events] /\ \A t \in Sessions : t # s => lost'[t] = lost[t]
      BY <1>11, <2>2 DEF SessionLag
    <2> QED
      BY <1>11, <2>1, <2>3 DEF SessionLag
  <1>12. CASE SendStart(s)
    <2>1. /\ pos' \in [Sessions -> Nat] /\ \A t \in Sessions : pos'[t] <= Len(log)
          /\ \A t \in Sessions : t # s => pos'[t] = pos[t]
      BY <1>12, PipelineAssumption DEF SendStart
    <2>2. /\ snd' \in [Sessions -> {"none", "recv", "feed", "notify", "done"}]
          /\ token' \in [Sessions -> BOOLEAN]
          /\ \A t \in Sessions : t # s => snd'[t] = snd[t]
      BY <1>12 DEF SendStart, Cancel
    <2> QED
      BY <1>12, <2>1, <2>2 DEF SendStart
  <1>13. CASE SendDone(s)
    <2>1. PICK fr \in Seq(Frame) : Say(s, fr)
      <3>1. pos[s] \in 1..Len(log)
        BY <1>13 DEF SendDone, ShapeInv
      <3>2. log[pos[s]] \in Events
        BY <3>1
      <3>3. <<Event(log[pos[s]])>> \in Seq(Frame)
        BY <3>2, FrameKinds
      <3> QED
        BY <1>13, <3>3 DEF SendDone
    <2>2. out' \in [Sessions -> Seq(Frame)] /\ \A t \in Sessions : t # s => out'[t] = out[t]
      BY <2>1, Said
    <2>3. late' \in [Sessions -> Nat] /\ \A t \in Sessions : t # s => late'[t] = late[t]
      BY <1>13 DEF SendDone
    <2> QED
      BY <1>13, <2>2, <2>3 DEF SendDone
  <1>14. CASE Notify(s)
    <2>1. PICK fr \in Seq(Frame) : Say(s, fr)
      BY <1>14, ControlFrames DEF Notify
    <2>2. out' \in [Sessions -> Seq(Frame)] /\ \A t \in Sessions : t # s => out'[t] = out[t]
      BY <2>1, Said
    <2> QED
      BY <1>14, <2>2 DEF Notify
  <1>15. CASE SendFails(s)
    BY <1>15 DEF SendFails, Cancel
  <1>16. CASE SendClosed(s)
    BY <1>16 DEF SendClosed, Cancel
  <1>17. CASE RecvEnds(s)
    BY <1>17 DEF RecvEnds, Cancel
  <1>18. CASE RecvCancelled(s)
    BY <1>18 DEF RecvCancelled, Cancel
  <1>19. CASE Join(s)
    BY <1>19 DEF Join, At
  <1> HIDE DEF PipeType, Unmoved, service, Phase
  <1> QED
    BY <1>1, <1>2, <1>3, <1>4, <1>5, <1>6, <1>7, <1>8, <1>9, <1>10, <1>11, <1>12, <1>13, <1>14, <1>15, <1>16, <1>17, <1>18, <1>19
    DEF Handshake, Sending, Receiving

(* A receiver that was one before, with nothing new from the service. *)
LEMMA StillReceiver ==
    ASSUME NEW s \in Sessions, ReachInv(s), UNCHANGED service, since'[s] = since[s],
           s \in Receivers' => s \in Receivers
    PROVE  ReachInv(s)'
  BY DEF ReachInv, service

(* A new receiver has nothing to wait for yet. *)
LEMMA NewReceiver ==
    ASSUME PipeType, LogInv, NEW s \in Sessions, UNCHANGED <<published, service>>, Subscribed(s)
    PROVE  /\ ReachInv(s)'
           /\ pos'[s] = Len(log) /\ \A k \in 1..pos'[s] : ~(since'[s] < log'[k])
  <1>1. since'[s] = published /\ pos'[s] = Len(log) /\ svcPos' = svcPos /\ log' = log
    BY DEF Subscribed, PipeType, service
  <1>2. published \in Nat /\ svcPos \in Nat /\ svcPos <= published
    BY PipelineAssumption DEF PipeType
  <1>3. \A k \in 1..Len(log) : log[k] \in Nat /\ log[k] <= published
    <2>1. \A k \in 1..Len(log) : log[k] \in Events
      BY DEF PipeType
    <2> QED
      BY <1>2, <2>1, PipelineAssumption DEF LogInv, Events
  <1>4. ReachInv(s)'
    BY <1>1, <1>2 DEF ReachInv, Events
  <1> QED
    BY <1>1, <1>2, <1>3, <1>4

-----------------------------------------------------------------------------
(* The steps that send nothing keep what is said of the session.           *)
LEMMA QuietStep ==
    ASSUME PipeType, LogInv, NEW s \in Sessions, SessionInv(s), UNCHANGED <<auth, published, service>>,
           \/ Upgraded(s) \/ Abandoned(s) \/ Subscribe(s) \/ Expire(s) \/ PeerGone(s)
           \/ SessionLag(s) \/ SendStart(s) \/ SendFails(s) \/ SendClosed(s) \/ SendCancelled(s)
           \/ RecvEnds(s) \/ RecvCancelled(s) \/ Join(s)
    PROVE  SessionInv(s)'
  <1> USE DEF PipeType
  <1>l. UNCHANGED <<svc, svcPos, svcLost, log>>
    BY DEF service
  <1>o. out' = out /\ Seen(s)' = Seen(s)
    BY DEF Upgraded, Abandoned, Subscribe, Expire, PeerGone, SessionLag, SendStart, SendFails,
           SendClosed, SendCancelled, RecvEnds, RecvCancelled, Join, Seen
  <1>1. CASE Upgraded(s)
    <2>1. (ShapeInv(s) /\ LateInv(s))'
      BY <1>1 DEF Upgraded, At, Spawned, SessionInv, ShapeInv, LateInv
    <2>2. OrderInv(s)'
      BY <1>1, <1>o, <1>l DEF Upgraded, At, Spawned, SessionInv, ShapeInv, OrderInv
    <2>3. FrameInv(s)'
      BY <1>1, <1>o DEF Upgraded, At, Spawned, SessionInv, ShapeInv, FrameInv
    <2>4. KeptInv(s)'
      BY <1>1, <1>o, <1>l DEF Upgraded, At, Spawned, SessionInv, ShapeInv, KeptInv
    <2>5. ReachInv(s)'
      BY <1>1, StillReceiver DEF Upgraded, At, Spawned, SessionInv, Receivers
    <2> QED
      BY <2>1, <2>2, <2>3, <2>4, <2>5 DEF SessionInv
  <1>2. CASE Abandoned(s)
    <2>1. (ShapeInv(s) /\ LateInv(s))'
      BY <1>2 DEF Abandoned, At, SessionInv, ShapeInv, LateInv
    <2>2. OrderInv(s)'
      BY <1>2, <1>o, <1>l DEF Abandoned, At, SessionInv, ShapeInv, OrderInv
    <2>3. FrameInv(s)'
      BY <1>2, <1>o DEF Abandoned, At, SessionInv, ShapeInv, FrameInv
    <2>4. KeptInv(s)'
      BY <1>2, <1>o, <1>l DEF Abandoned, At, SessionInv, ShapeInv, KeptInv
    <2>5. ReachInv(s)'
      BY <1>2, StillReceiver DEF Abandoned, At, SessionInv, Receivers
    <2> QED
      BY <2>1, <2>2, <2>3, <2>4, <2>5 DEF SessionInv
  <1>3. CASE Subscribe(s)
    <2>1. (ShapeInv(s) /\ OrderInv(s) /\ LateInv(s) /\ FrameInv(s))'
      <3>1. (ShapeInv(s) /\ LateInv(s))'
        BY <1>3 DEF Subscribe, At, Spawned, Subscribed, SessionInv, ShapeInv, LateInv
      <3>2. OrderInv(s)'
        BY <1>3, <1>o, <1>l DEF Subscribe, At, Spawned, Subscribed, SessionInv, ShapeInv, OrderInv
      <3>3. FrameInv(s)'
        BY <1>3, <1>o DEF Subscribe, At, Spawned, Subscribed, SessionInv, ShapeInv, FrameInv
      <3> QED
        BY <3>1, <3>2, <3>3
    <2>2. Subscribed(s) /\ phase[s] = "authok"
      BY <1>3 DEF Subscribe, At
    <2>3. ReachInv(s)' /\ \A k \in 1..pos'[s] : ~(since'[s] < log'[k])
      BY <2>2, NewReceiver
    <2>4. Seen(s)' = {}
      BY <1>o, <2>2, SeenIs DEF SessionInv, OrderInv
    <2>5. KeptInv(s)'
      BY <2>3, <2>4 DEF KeptInv
    <2> QED
      BY <2>1, <2>3, <2>5 DEF SessionInv
  <1>4. CASE Expire(s)
    <2>1. (ShapeInv(s) /\ LateInv(s))'
      BY <1>4 DEF Expire, SessionInv, ShapeInv, LateInv
    <2>2. OrderInv(s)'
      BY <1>4, <1>o, <1>l DEF Expire, SessionInv, ShapeInv, OrderInv
    <2>3. FrameInv(s)'
      BY <1>4, <1>o DEF Expire, SessionInv, ShapeInv, FrameInv
    <2>4. KeptInv(s)'
      BY <1>4, <1>o, <1>l DEF Expire, SessionInv, ShapeInv, KeptInv
    <2>5. ReachInv(s)'
      BY <1>4, StillReceiver DEF Expire, SessionInv, Receivers
    <2> QED
      BY <2>1, <2>2, <2>3, <2>4, <2>5 DEF SessionInv
  <1>5. CASE PeerGone(s)
    <2>1. (ShapeInv(s) /\ LateInv(s))'
      BY <1>5 DEF PeerGone, SessionInv, ShapeInv, LateInv
    <2>2. OrderInv(s)'
      BY <1>5, <1>o, <1>l DEF PeerGone, SessionInv, ShapeInv, OrderInv
    <2>3. FrameInv(s)'
      BY <1>5, <1>o DEF PeerGone, SessionInv, ShapeInv, FrameInv
    <2>4. KeptInv(s)'
      BY <1>5, <1>o, <1>l DEF PeerGone, SessionInv, ShapeInv, KeptInv
    <2>5. ReachInv(s)'
      BY <1>5, StillReceiver DEF PeerGone, SessionInv, Receivers
    <2> QED
      BY <2>1, <2>2, <2>3, <2>4, <2>5 DEF SessionInv
  <1>6. CASE SessionLag(s)
    <2>1. (ShapeInv(s) /\ LateInv(s) /\ FrameInv(s))'
      BY <1>6, <1>o, <1>l DEF SessionLag, SessionInv, ShapeInv, LateInv, FrameInv
    <2>2. /\ pos'[s] \in 1..Len(log) /\ pos[s] < pos'[s] /\ phase'[s] = phase[s]
          /\ pos[s] > 0 => log[pos[s]] < log[pos'[s]] /\ log[pos[s]] \in Nat
          /\ log[pos'[s]] \in Nat
      <3>1. pos'[s] \in 1..Len(log) /\ pos[s] < pos'[s] /\ pos[s] \in Nat
        BY <1>6, PipelineAssumption DEF SessionLag
      <3>2. \A k \in 1..Len(log) : log[k] \in Nat
        <4>1. \A k \in 1..Len(log) : log[k] \in Events
          OBVIOUS
        <4> QED
          BY <4>1 DEF Events
      <3> QED
        BY <1>6, <3>1, <3>2 DEF SessionLag, LogInv
    <2>3. \A j \in 1..Len(out[s]) : IsEvent(out[s][j]) => out[s][j][2] \in Nat
      <3>1. \A j \in 1..Len(out[s]) : out[s][j] \in Frame
        OBVIOUS
      <3> QED
        BY <3>1, EventFrame DEF Events
    <2>4. OrderInv(s)'
      BY <1>o, <1>l, <2>2, <2>3, SMTT(30) DEF SessionInv, OrderInv
    <2>5. KeptInv(s)'
      BY <1>6, <1>o, <1>l DEF SessionLag, SessionInv, ShapeInv, KeptInv
    <2>6. ReachInv(s)'
      BY <1>6, StillReceiver DEF SessionLag, SessionInv, Receivers
    <2> QED
      BY <2>1, <2>4, <2>5, <2>6 DEF SessionInv
  <1>7. CASE SendStart(s)
    <2>1. (ShapeInv(s) /\ LateInv(s) /\ FrameInv(s))'
      BY <1>7, <1>o, <1>l DEF SendStart, Cancel, SessionInv, ShapeInv, LateInv, FrameInv
    <2>2. /\ pos'[s] \in 1..Len(log) /\ pos[s] < pos'[s] /\ phase'[s] = phase[s]
          /\ pos[s] > 0 => log[pos[s]] < log[pos'[s]] /\ log[pos[s]] \in Nat
          /\ log[pos'[s]] \in Nat
      <3>1. pos'[s] \in 1..Len(log) /\ pos[s] < pos'[s] /\ pos[s] \in Nat
        BY <1>7, PipelineAssumption DEF SendStart
      <3>2. \A k \in 1..Len(log) : log[k] \in Nat
        <4>1. \A k \in 1..Len(log) : log[k] \in Events
          OBVIOUS
        <4> QED
          BY <4>1 DEF Events
      <3> QED
        BY <1>7, <3>1, <3>2 DEF SendStart, LogInv
    <2>3. \A j \in 1..Len(out[s]) : IsEvent(out[s][j]) => out[s][j][2] \in Nat
      <3>1. \A j \in 1..Len(out[s]) : out[s][j] \in Frame
        OBVIOUS
      <3> QED
        BY <3>1, EventFrame DEF Events
    <2>4. OrderInv(s)'
      BY <1>o, <1>l, <2>2, <2>3, SMTT(30) DEF SessionInv, OrderInv
    <2>5. KeptInv(s)'
      BY <1>7, <1>o, <1>l DEF SendStart, Cancel, SessionInv, ShapeInv, KeptInv
    <2>6. ReachInv(s)'
      BY <1>7, StillReceiver DEF SendStart, Cancel, SessionInv, Receivers
    <2> QED
      BY <2>1, <2>4, <2>5, <2>6 DEF SessionInv
  <1>8. CASE SendFails(s)
    <2>1. (ShapeInv(s) /\ LateInv(s))'
      BY <1>8 DEF SendFails, Cancel, SessionInv, ShapeInv, LateInv
    <2>2. OrderInv(s)'
      BY <1>8, <1>o, <1>l DEF SendFails, Cancel, SessionInv, ShapeInv, OrderInv
    <2>3. FrameInv(s)'
      BY <1>8, <1>o DEF SendFails, Cancel, SessionInv, ShapeInv, FrameInv
    <2>4. KeptInv(s)'
      BY <1>8, <1>o, <1>l DEF SendFails, Cancel, SessionInv, ShapeInv, KeptInv
    <2>5. ReachInv(s)'
      BY <1>8, StillReceiver DEF SendFails, Cancel, SessionInv, Receivers
    <2> QED
      BY <2>1, <2>2, <2>3, <2>4, <2>5 DEF SessionInv
  <1>9. CASE SendClosed(s)
    <2>1. (ShapeInv(s) /\ LateInv(s))'
      BY <1>9 DEF SendClosed, Cancel, SessionInv, ShapeInv, LateInv
    <2>2. OrderInv(s)'
      BY <1>9, <1>o, <1>l DEF SendClosed, Cancel, SessionInv, ShapeInv, OrderInv
    <2>3. FrameInv(s)'
      BY <1>9, <1>o DEF SendClosed, Cancel, SessionInv, ShapeInv, FrameInv
    <2>4. KeptInv(s)'
      BY <1>9, <1>o, <1>l DEF SendClosed, Cancel, SessionInv, ShapeInv, KeptInv
    <2>5. ReachInv(s)'
      BY <1>9, StillReceiver DEF SendClosed, Cancel, SessionInv, Receivers
    <2> QED
      BY <2>1, <2>2, <2>3, <2>4, <2>5 DEF SessionInv
  <1>10. CASE SendCancelled(s)
    <2>1. (ShapeInv(s) /\ LateInv(s))'
      BY <1>10 DEF SendCancelled, SessionInv, ShapeInv, LateInv
    <2>2. OrderInv(s)'
      BY <1>10, <1>o, <1>l DEF SendCancelled, SessionInv, ShapeInv, OrderInv
    <2>3. FrameInv(s)'
      BY <1>10, <1>o DEF SendCancelled, SessionInv, ShapeInv, FrameInv
    <2>4. KeptInv(s)'
      BY <1>10, <1>o, <1>l DEF SendCancelled, SessionInv, ShapeInv, KeptInv
    <2>5. ReachInv(s)'
      BY <1>10, StillReceiver DEF SendCancelled, SessionInv, Receivers
    <2> QED
      BY <2>1, <2>2, <2>3, <2>4, <2>5 DEF SessionInv
  <1>11. CASE RecvEnds(s)
    BY <1>11, OtherSession DEF RecvEnds, Cancel, Unmoved
  <1>12. CASE RecvCancelled(s)
    BY <1>12, OtherSession DEF RecvCancelled, Unmoved
  <1>13. CASE Join(s)
    <2>1. (ShapeInv(s) /\ LateInv(s))'
      BY <1>13 DEF Join, At, SessionInv, ShapeInv, LateInv
    <2>2. OrderInv(s)'
      BY <1>13, <1>o, <1>l DEF Join, At, SessionInv, ShapeInv, OrderInv
    <2>3. FrameInv(s)'
      BY <1>13, <1>o DEF Join, At, SessionInv, ShapeInv, FrameInv
    <2>4. KeptInv(s)'
      BY <1>13, <1>o, <1>l DEF Join, At, SessionInv, ShapeInv, KeptInv
    <2>5. ReachInv(s)'
      BY <1>13, StillReceiver DEF Join, At, SessionInv, Receivers
    <2> QED
      BY <2>1, <2>2, <2>3, <2>4, <2>5 DEF SessionInv
  <1> HIDE DEF PipeType
  <1> QED
    BY <1>1, <1>2, <1>3, <1>4, <1>5, <1>6, <1>7, <1>8, <1>9, <1>10, <1>11, <1>12, <1>13

-----------------------------------------------------------------------------
(* Control frames show a session nothing. *)
LEMMA SaidControl ==
    ASSUME PipeType, NEW s \in Sessions, NEW fr \in Seq(Frame), Say(s, fr),
           \A i \in 1..Len(fr) : ~IsEvent(fr[i])
    PROVE  /\ \A i \in 1..Len(out'[s]) : IsEvent(out'[s][i]) =>
                 i \in 1..Len(out[s]) /\ out'[s][i] = out[s][i]
           /\ Seen(s)' = Seen(s)
  <1>1. Len(out[s]) \in Nat /\ Len(fr) \in Nat
    BY DEF PipeType
  <1>2. /\ gone[s] => out'[s] = out[s]
        /\ ~gone[s] =>
              /\ Len(out'[s]) = Len(out[s]) + Len(fr)
              /\ \A i \in 1..Len(out[s]) : out'[s][i] = out[s][i]
              /\ \A i \in 1..Len(fr) : out'[s][Len(out[s]) + i] = fr[i]
    BY Said
  <1>3. ASSUME NEW i \in 1..Len(out'[s]), IsEvent(out'[s][i])
        PROVE  i \in 1..Len(out[s]) /\ out'[s][i] = out[s][i]
    <2>1. CASE gone[s]
      BY <1>2, <2>1
    <2>2. CASE ~gone[s] /\ i <= Len(out[s])
      BY <1>1, <1>2, <2>2
    <2>3. CASE ~gone[s] /\ i > Len(out[s])
      <3>1. i - Len(out[s]) \in 1..Len(fr) /\ Len(out[s]) + (i - Len(out[s])) = i
        BY <1>1, <1>2, <2>3
      <3> QED
        BY <1>2, <1>3, <2>3, <3>1
    <2> QED
      BY <1>1, <2>1, <2>2, <2>3
  <1>4. \A i \in 1..Len(out[s]) : i \in 1..Len(out'[s]) /\ out'[s][i] = out[s][i]
    BY <1>1, <1>2
  <1>5. \A e : e \in Seen(s)' <=> e \in Seen(s)
    BY <1>3, <1>4 DEF Seen
  <1> QED
    BY <1>3, <1>5

(* A step that says control frames, and neither takes a payload nor        *)
(* subscribes, keeps the part of the invariant that is about events.       *)
LEMMA ControlStep ==
    ASSUME PipeType, NEW s \in Sessions, SessionInv(s), UNCHANGED service,
           NEW fr \in Seq(Frame), Say(s, fr), \A i \in 1..Len(fr) : ~IsEvent(fr[i]),
           phase[s] \in {"live", "over"} => phase'[s] = phase[s],
           phase'[s] # "upgrade", snd'[s] \notin {"recv", "feed"},
           gone'[s] = gone[s], pos'[s] = pos[s], since'[s] = since[s], lost'[s] = lost[s]
    PROVE  OrderInv(s)' /\ KeptInv(s)'
  <1>l. UNCHANGED <<svcLost, log>>
    BY DEF service
  <1>1. /\ \A i \in 1..Len(out'[s]) : IsEvent(out'[s][i]) =>
              i \in 1..Len(out[s]) /\ out'[s][i] = out[s][i]
        /\ Seen(s)' = Seen(s)
    BY SaidControl
  <1>2. OrderInv(s)'
    BY <1>l, <1>1 DEF SessionInv, OrderInv
  <1>3. KeptInv(s)'
    BY <1>l, <1>1 DEF SessionInv, KeptInv
  <1> QED
    BY <1>2, <1>3


(* The steps of the handshake that send frames, and the end of a session. *)
LEMMA ControlSteps ==
    ASSUME PipeType, NEW s \in Sessions, SessionInv(s), UNCHANGED <<auth, service>>,
           LoginOk(s) \/ LoginFails(s) \/ Refused(s) \/ Notify(s)
    PROVE  SessionInv(s)'
  <1> DEFINE ended == <<Control("HandshakeError"), Control("SessionEnded")>>
  <1>e. Len(out[s]) \in Nat
    BY DEF PipeType
  <1>k. /\ Control("AuthOk") # Control("SessionEnded") /\ Control("AuthOk") # Control("HandshakeError")
        /\ Control("SessionEnded") # Control("HandshakeError")
    BY FrameKinds
  <1>1. CASE LoginOk(s)
    <2>1. PICK fr \in Seq(Frame) : fr = <<Control("AuthOk")>> /\ Say(s, fr)
      BY <1>1, ControlFrames DEF LoginOk
    <2>2. Len(fr) = 1 /\ fr[1] = Control("AuthOk") /\ ~IsEvent(fr[1])
      BY <2>1, FrameKinds
    <2>e. \A i \in 1..Len(fr) : ~IsEvent(fr[i])
      BY <2>2
    <2>3. (ShapeInv(s) /\ LateInv(s))' /\ phase[s] = "auth" /\ phase'[s] = "authok" /\ snd'[s] = "none"
      BY <1>1 DEF LoginOk, At, SessionInv, ShapeInv, LateInv, PipeType
    <2>4. OrderInv(s)' /\ KeptInv(s)'
      BY <1>1, <2>1, <2>e, <2>3, ControlStep DEF LoginOk
    <2>5. ReachInv(s)'
      BY <1>1, <2>3, StillReceiver DEF LoginOk, SessionInv, Receivers
    <2>6. FrameInv(s)'
      <3>0. /\ gone[s] => out'[s] = out[s]
            /\ ~gone[s] =>
                  /\ Len(out'[s]) = Len(out[s]) + Len(fr)
                  /\ \A i \in 1..Len(out[s]) : out'[s][i] = out[s][i]
                  /\ \A i \in 1..Len(fr) : out'[s][Len(out[s]) + i] = fr[i]
        BY <2>1, Said
      <3>1. /\ gone[s] => out'[s] = out[s]
            /\ ~gone[s] =>
                  /\ Len(out'[s]) = Len(out[s]) + 1 /\ out'[s][Len(out[s]) + 1] = Control("AuthOk")
                  /\ \A i \in 1..Len(out[s]) : out'[s][i] = out[s][i]
        BY <2>2, <3>0
      <3>2. \A i \in 1..Len(out'[s]) :
               /\ ~IsEvent(out'[s][i])
               /\ out'[s][i] # Control("SessionEnded") /\ out'[s][i] # Control("HandshakeError")
        <4>1. \A i \in 1..Len(out[s]) :
                 /\ ~IsEvent(out[s][i])
                 /\ out[s][i] # Control("SessionEnded") /\ out[s][i] # Control("HandshakeError")
          BY <2>3 DEF SessionInv, OrderInv, FrameInv
        <4> QED
          BY <1>e, <1>k, <2>2, <3>1, <4>1
      <3>3. ~gone[s] => \E i \in 1..Len(out'[s]) : out'[s][i] = Control("AuthOk")
        BY <1>e, <3>1
      <3> QED
        BY <1>1, <3>2, <3>3 DEF FrameInv, LoginOk
    <2> QED
      BY <2>3, <2>4, <2>5, <2>6 DEF SessionInv
  <1>2. CASE LoginFails(s)
    <2>1. PICK fr \in Seq(Frame) : (fr = <<>> \/ fr = <<Control("AuthOk")>>) /\ Say(s, fr)
      BY <1>2, ControlFrames DEF LoginFails
    <2>2. \A i \in 1..Len(fr) : fr[i] = Control("AuthOk") /\ ~IsEvent(fr[i])
      BY <2>1, FrameKinds
    <2>3. (ShapeInv(s) /\ LateInv(s))' /\ phase[s] = "auth" /\ phase'[s] = "refuse" /\ snd'[s] = "none"
      BY <1>2 DEF LoginFails, At, SessionInv, ShapeInv, LateInv, PipeType
    <2>4. OrderInv(s)' /\ KeptInv(s)'
      BY <1>2, <2>1, <2>2, <2>3, ControlStep DEF LoginFails
    <2>5. ReachInv(s)'
      BY <1>2, <2>3, StillReceiver DEF LoginFails, SessionInv, Receivers
    <2>6. FrameInv(s)'
      <3>1. /\ gone[s] => out'[s] = out[s]
            /\ ~gone[s] =>
                  /\ Len(out'[s]) = Len(out[s]) + Len(fr) /\ Len(fr) \in Nat
                  /\ \A i \in 1..Len(out[s]) : out'[s][i] = out[s][i]
                  /\ \A i \in 1..Len(fr) : out'[s][Len(out[s]) + i] = Control("AuthOk")
        BY <2>1, <2>2, Said, SMTT(30)
      <3>2. \A i \in 1..Len(out[s]) :
               out[s][i] # Control("SessionEnded") /\ out[s][i] # Control("HandshakeError")
        BY <2>3 DEF SessionInv, FrameInv
      <3>3. ASSUME NEW i \in 1..Len(out'[s])
            PROVE  out'[s][i] # Control("SessionEnded") /\ out'[s][i] # Control("HandshakeError")
        <4>1. CASE gone[s] \/ i <= Len(out[s])
          BY <1>e, <3>1, <3>2, <4>1, SMTT(30)
        <4>2. CASE ~gone[s] /\ i > Len(out[s])
          <5>1. i - Len(out[s]) \in 1..Len(fr) /\ Len(out[s]) + (i - Len(out[s])) = i
            BY <1>e, <3>1, <4>2
          <5> QED
            BY <1>k, <3>1, <4>2, <5>1
        <4> QED
          BY <1>e, <4>1, <4>2
      <3>4. \A i \in 1..Len(out'[s]) : ~IsEvent(out'[s][i])
        BY <2>3, <2>4 DEF OrderInv
      <3> QED
        BY <2>3, <3>3, <3>4 DEF FrameInv
    <2> QED
      BY <2>3, <2>4, <2>5, <2>6 DEF SessionInv
  <1>3. CASE Refused(s)
    <2>1. PICK fr \in Seq(Frame) : fr = ended /\ Say(s, fr)
      BY <1>3, ControlFrames DEF Refused
    <2>2. /\ Len(fr) = 2 /\ fr[1] = Control("HandshakeError") /\ fr[2] = Control("SessionEnded")
          /\ ~IsEvent(fr[1]) /\ ~IsEvent(fr[2])
      BY <2>1, FrameKinds
    <2>e. \A i \in 1..Len(fr) : ~IsEvent(fr[i])
      BY <2>2
    <2>3. (ShapeInv(s) /\ LateInv(s))' /\ phase[s] = "refuse" /\ phase'[s] = "over" /\ snd'[s] = "none"
      BY <1>3 DEF Refused, At, SessionInv, ShapeInv, LateInv, PipeType
    <2>4. OrderInv(s)' /\ KeptInv(s)'
      BY <1>3, <2>1, <2>e, <2>3, ControlStep DEF Refused
    <2>5. ReachInv(s)'
      BY <1>3, <2>3, StillReceiver DEF Refused, SessionInv, Receivers
    <2>6. FrameInv(s)'
      <3>0. /\ gone[s] => out'[s] = out[s]
            /\ ~gone[s] =>
                  /\ Len(out'[s]) = Len(out[s]) + Len(fr)
                  /\ \A i \in 1..Len(out[s]) : out'[s][i] = out[s][i]
                  /\ \A i \in 1..Len(fr) : out'[s][Len(out[s]) + i] = fr[i]
        BY <2>1, Said
      <3>1. /\ gone[s] => out'[s] = out[s]
            /\ ~gone[s] =>
                  /\ Len(out'[s]) = Len(out[s]) + 2
                  /\ out'[s][Len(out[s]) + 1] = Control("HandshakeError")
                  /\ out'[s][Len(out[s]) + 2] = Control("SessionEnded")
                  /\ \A i \in 1..Len(out[s]) : out'[s][i] = out[s][i]
        BY <2>2, <3>0
      <3>2. \A i \in 1..Len(out[s]) :
               /\ ~IsEvent(out[s][i])
               /\ out[s][i] # Control("SessionEnded") /\ out[s][i] # Control("HandshakeError")
        BY <2>3 DEF SessionInv, OrderInv, FrameInv
      <3>3. \A i \in 1..Len(out'[s]) :
               /\ ~IsEvent(out'[s][i])
               /\ out'[s][i] = Control("SessionEnded") => i = Len(out'[s])
               /\ out'[s][i] = Control("HandshakeError") => i = Len(out'[s]) - 1
        <4>1. CASE gone[s]
          BY <3>1, <3>2, <4>1
        <4>2. CASE ~gone[s]
          <5>1. \A i \in 1..Len(out'[s]) :
                   i \in 1..Len(out[s]) \/ i = Len(out[s]) + 1 \/ i = Len(out[s]) + 2
            BY <1>e, <3>1, <4>2
          <5>2. Len(out'[s]) - 1 = Len(out[s]) + 1
            BY <1>e, <3>1, <4>2
          <5>3. ~IsEvent(Control("HandshakeError")) /\ ~IsEvent(Control("SessionEnded"))
            BY FrameKinds
          <5> QED
            BY <1>k, <3>1, <3>2, <4>2, <5>1, <5>2, <5>3
        <4> QED
          BY <4>1, <4>2
      <3> QED
        BY <2>3, <3>3 DEF FrameInv
    <2> QED
      BY <2>3, <2>4, <2>5, <2>6 DEF SessionInv
  <1>4. CASE Notify(s)
    <2>1. PICK fr \in Seq(Frame) : fr = <<Control("SessionEnded")>> /\ Say(s, fr)
      BY <1>4, ControlFrames DEF Notify
    <2>2. Len(fr) = 1 /\ fr[1] = Control("SessionEnded") /\ ~IsEvent(fr[1])
      BY <2>1, FrameKinds
    <2>e. \A i \in 1..Len(fr) : ~IsEvent(fr[i])
      BY <2>2
    <2>3. /\ (ShapeInv(s) /\ LateInv(s))' /\ phase[s] = "live" /\ phase' = phase
          /\ snd[s] = "notify" /\ snd'[s] = "done"
      BY <1>4 DEF Notify, SessionInv, ShapeInv, LateInv, PipeType
    <2>4. OrderInv(s)' /\ KeptInv(s)'
      BY <1>4, <2>1, <2>e, <2>3, ControlStep DEF Notify
    <2>5. ReachInv(s)'
      BY <1>4, <2>3, StillReceiver DEF Notify, SessionInv, Receivers
    <2>6. FrameInv(s)'
      <3>0. /\ gone[s] => out'[s] = out[s]
            /\ ~gone[s] =>
                  /\ Len(out'[s]) = Len(out[s]) + Len(fr)
                  /\ \A i \in 1..Len(out[s]) : out'[s][i] = out[s][i]
                  /\ \A i \in 1..Len(fr) : out'[s][Len(out[s]) + i] = fr[i]
        BY <2>1, Said
      <3>1. /\ gone[s] => out'[s] = out[s]
            /\ ~gone[s] =>
                  /\ Len(out'[s]) = Len(out[s]) + 1
                  /\ out'[s][Len(out[s]) + 1] = Control("SessionEnded")
                  /\ \A i \in 1..Len(out[s]) : out'[s][i] = out[s][i]
        BY <2>2, <3>0
      <3>2. \A i \in 1..Len(out[s]) :
               out[s][i] # Control("SessionEnded") /\ out[s][i] # Control("HandshakeError")
        BY <2>3 DEF SessionInv, FrameInv
      <3>3. \A i \in 1..Len(out'[s]) :
               /\ out'[s][i] = Control("SessionEnded") => i = Len(out'[s])
               /\ out'[s][i] # Control("HandshakeError")
        <4>1. CASE gone[s]
          BY <3>1, <3>2, <4>1
        <4>2. CASE ~gone[s]
          <5>1. /\ Len(out'[s]) = Len(out[s]) + 1
                /\ \A i \in 1..Len(out'[s]) : i \in 1..Len(out[s]) \/ i = Len(out[s]) + 1
            BY <1>e, <3>1, <4>2
          <5> QED
            BY <1>k, <3>1, <3>2, <4>2, <5>1
        <4> QED
          BY <4>1, <4>2
      <3>4. ASSUME NEW i \in 1..Len(out'[s]), IsEvent(out'[s][i]), auth
            PROVE  \E j \in 1..(i - 1) : out'[s][j] = Control("AuthOk")
        <4>1. i \in 1..Len(out[s]) /\ out'[s][i] = out[s][i]
          BY <2>1, <2>e, <3>4, SaidControl
        <4>2. PICK j \in 1..(i - 1) : out[s][j] = Control("AuthOk")
          BY <3>4, <4>1 DEF SessionInv, FrameInv
        <4> QED
          BY <1>e, <3>1, <4>1, <4>2, SMTT(30)
      <3>5. auth /\ ~gone[s] => \E i \in 1..Len(out'[s]) : out'[s][i] = Control("AuthOk")
        BY <1>e, <2>3, <3>1 DEF SessionInv, FrameInv
      <3> QED
        BY <1>4, <2>3, <3>3, <3>4, <3>5 DEF FrameInv, Notify
    <2> QED
      BY <2>3, <2>4, <2>5, <2>6 DEF SessionInv
  <1> QED
    BY <1>1, <1>2, <1>3, <1>4

(* A new connection begins with nothing seen. *)
LEMMA ConnectStep ==
    ASSUME PipeType, LogInv, NEW s \in Sessions, SessionInv(s),
           UNCHANGED <<auth, published, service>>, Connect(s)
    PROVE  SessionInv(s)'
  <1>1. /\ out'[s] = IF auth THEN <<Control("WaitingForAuth")>> ELSE <<>>
        /\ phase'[s] = IF auth THEN "auth" ELSE "upgrade"
        /\ snd'[s] = "none" /\ late'[s] = 0
    BY DEF Connect, Fresh, PipeType
  <1>2. \A i \in 1..Len(out'[s]) : out'[s][i] = Control("WaitingForAuth")
    BY <1>1
  <1>3. /\ ~IsEvent(Control("WaitingForAuth"))
        /\ Control("WaitingForAuth") # Control("SessionEnded")
        /\ Control("WaitingForAuth") # Control("HandshakeError")
    BY FrameKinds
  <1>4. Seen(s)' = {}
    BY <1>2, <1>3 DEF Seen
  <1>5. (ShapeInv(s) /\ LateInv(s) /\ OrderInv(s) /\ FrameInv(s))'
    BY <1>1, <1>2, <1>3 DEF ShapeInv, LateInv, OrderInv, FrameInv
  <1>6. CASE auth
    <2>1. KeptInv(s)' /\ ReachInv(s)'
      BY <1>1, <1>4, <1>6 DEF KeptInv, ReachInv, Receivers
    <2> QED
      BY <1>5, <2>1 DEF SessionInv
  <1>7. CASE ~auth
    <2>1. Subscribed(s)
      BY <1>7 DEF Connect
    <2>2. ReachInv(s)' /\ \A k \in 1..pos'[s] : ~(since'[s] < log'[k])
      BY <2>1, NewReceiver
    <2>3. KeptInv(s)'
      BY <1>4, <2>2 DEF KeptInv
    <2> QED
      BY <1>5, <2>2, <2>3 DEF SessionInv
  <1> QED
    BY <1>6, <1>7

(* A payload is written: it is newer than all that was seen, and all that  *)
(* is older and came since the subscription was taken by the receiver.     *)
LEMMA SendDoneStep ==
    ASSUME PipeType, LogInv, NEW s \in Sessions, SessionInv(s),
           UNCHANGED <<auth, published, service>>, SendDone(s)
    PROVE  SessionInv(s)'
  <1>l. UNCHANGED <<svc, svcPos, svcLost, log>>
    BY DEF service
  <1>s. /\ snd[s] = "feed" /\ snd'[s] = "recv" /\ phase[s] = "live" /\ phase' = phase
        /\ gone' = gone /\ pos' = pos /\ since' = since /\ lost' = lost /\ expired' = expired
    BY DEF SendDone, SessionInv, ShapeInv, PipeType
  <1>p. pos[s] \in 1..Len(log) /\ log[pos[s]] \in Events
    <2>1. pos[s] \in 1..Len(log)
      BY <1>s DEF SessionInv, ShapeInv, PipeType
    <2> QED
      BY <2>1 DEF PipeType
  <1>n. Len(log) \in Nat /\ pos[s] \in Nat /\ log[pos[s]] \in Nat
    BY <1>p DEF Events, PipeType
  <1>e. Len(out[s]) \in Nat
    BY DEF PipeType
  <1> DEFINE new == Event(log[pos[s]])
  <1>k. IsEvent(new) /\ new[2] = log[pos[s]] /\ new \in Frame
    BY <1>p, FrameKinds
  <1>c. new # Control("SessionEnded") /\ new # Control("HandshakeError")
    BY <1>k, FrameKinds
  <1> HIDE DEF new
  <1>o. /\ gone[s] => out'[s] = out[s]
        /\ ~gone[s] =>
              /\ Len(out'[s]) = Len(out[s]) + 1 /\ out'[s][Len(out[s]) + 1] = new
              /\ \A i \in 1..Len(out[s]) : out'[s][i] = out[s][i]
    <2>1. PICK fr \in Seq(Frame) : fr = <<new>> /\ Say(s, fr)
      <3>1. <<new>> \in Seq(Frame)
        BY <1>k
      <3>2. Say(s, <<new>>)
        BY DEF SendDone, new
      <3> QED
        BY <3>1, <3>2
    <2>2. Len(fr) = 1 /\ fr[1] = new
      BY <2>1
    <2>3. /\ gone[s] => out'[s] = out[s]
          /\ ~gone[s] =>
                /\ Len(out'[s]) = Len(out[s]) + Len(fr)
                /\ \A i \in 1..Len(out[s]) : out'[s][i] = out[s][i]
                /\ \A i \in 1..Len(fr) : out'[s][Len(out[s]) + i] = fr[i]
      BY <2>1, Said
    <2> QED
      BY <2>2, <2>3
  <1>i. ~gone[s] => \A i \in 1..Len(out'[s]) : i \in 1..Len(out[s]) \/ i = Len(out[s]) + 1
    BY <1>e, <1>o
  <1>1. (ShapeInv(s) /\ LateInv(s))'
    BY <1>s DEF SendDone, SessionInv, ShapeInv, LateInv, PipeType
  <1>2. ReachInv(s)'
    BY <1>s, StillReceiver DEF SessionInv, Receivers
  <1>w. \A i \in 1..Len(out[s]) : IsEvent(out[s][i]) => out[s][i][2] < log[pos[s]]
    BY <1>s DEF SessionInv, OrderInv
  <1>3. OrderInv(s)'
    <2>1. CASE gone[s]
      BY <1>l, <1>s, <1>o, <2>1 DEF SessionInv, OrderInv
    <2>2. CASE ~gone[s]
      <3>1. \A i \in 1..Len(out'[s]) : IsEvent(out'[s][i]) =>
               pos[s] > 0 /\ out'[s][i][2] <= log[pos[s]]
        <4>1. \A i \in 1..Len(out[s]) : IsEvent(out[s][i]) => out[s][i][2] <= log[pos[s]]
          BY DEF SessionInv, OrderInv
        <4>2. pos[s] > 0 /\ log[pos[s]] <= log[pos[s]]
          BY <1>p, <1>n
        <4> QED
          BY <1>i, <1>o, <1>k, <2>2, <4>1, <4>2
      <3>2. ASSUME NEW i \in 1..Len(out'[s]), NEW j \in 1..Len(out'[s]), i < j,
                   IsEvent(out'[s][i]), IsEvent(out'[s][j])
            PROVE  out'[s][i][2] < out'[s][j][2]
        <4>1. i \in 1..Len(out[s])
          BY <1>e, <1>o, <2>2, <3>2
        <4>2. CASE j \in 1..Len(out[s])
          BY <1>o, <2>2, <3>2, <4>1, <4>2 DEF SessionInv, OrderInv
        <4>3. CASE j = Len(out[s]) + 1
          BY <1>o, <1>k, <1>w, <2>2, <3>2, <4>1, <4>3
        <4> QED
          BY <1>i, <2>2, <4>2, <4>3
      <3> QED
        BY <1>l, <1>s, <3>1, <3>2 DEF OrderInv
    <2> QED
      BY <2>1, <2>2
  <1>4. FrameInv(s)'
    <2>1. CASE gone[s]
      BY <1>s, <1>o, <2>1 DEF SessionInv, FrameInv
    <2>2. CASE ~gone[s]
      <3>1. \A i \in 1..Len(out'[s]) :
               out'[s][i] # Control("SessionEnded") /\ out'[s][i] # Control("HandshakeError")
        <4>1. \A i \in 1..Len(out[s]) :
                 out[s][i] # Control("SessionEnded") /\ out[s][i] # Control("HandshakeError")
          BY <1>s DEF SessionInv, FrameInv
        <4> QED
          BY <1>i, <1>o, <1>c, <2>2, <4>1
      <3>2. ASSUME auth PROVE \E i \in 1..Len(out[s]) : out[s][i] = Control("AuthOk")
        BY <1>s, <2>2, <3>2 DEF SessionInv, FrameInv
      <3>3. ASSUME NEW i \in 1..Len(out'[s]), IsEvent(out'[s][i]), auth
            PROVE  \E j \in 1..(i - 1) : out'[s][j] = Control("AuthOk")
        <4>1. CASE i \in 1..Len(out[s])
          <5>1. PICK j \in 1..(i - 1) : out[s][j] = Control("AuthOk")
            BY <1>o, <2>2, <3>3, <4>1 DEF SessionInv, FrameInv
          <5> QED
            BY <1>e, <1>o, <2>2, <4>1, <5>1
        <4>2. CASE i = Len(out[s]) + 1
          BY <1>e, <1>o, <2>2, <3>2, <3>3, <4>2
        <4> QED
          BY <1>i, <2>2, <4>1, <4>2
      <3>4. auth => \E i \in 1..Len(out'[s]) : out'[s][i] = Control("AuthOk")
        BY <1>e, <1>o, <2>2, <3>2
      <3> QED
        BY <1>s, <3>1, <3>3, <3>4 DEF FrameInv
    <2> QED
      BY <2>1, <2>2
  <1>5. KeptInv(s)'
    <2>1. CASE gone[s]
      <3>1. Seen(s)' = Seen(s)
        BY <1>o, <2>1 DEF Seen
      <3> QED
        BY <1>l, <1>s, <2>1, <3>1 DEF SessionInv, KeptInv
    <2>2. CASE ~gone[s]
      <3>1. \A e : e \in Seen(s)' <=> e \in Seen(s) \/ e = log[pos[s]]
        <4>1. \A e : e \in Seen(s)' <=>
                 \E i \in 1..Len(out'[s]) : IsEvent(out'[s][i]) /\ e = out'[s][i][2]
          BY DEF Seen
        <4>2. Len(out[s]) + 1 \in 1..Len(out'[s]) /\ \A i \in 1..Len(out[s]) : i \in 1..Len(out'[s])
          BY <1>e, <1>o, <2>2
        <4> QED
          BY <1>i, <1>o, <1>k, <2>2, <4>1, <4>2, SeenIs, SMTT(30)
      <3>2. \A k \in 1..pos[s] : since[s] < log[k] => log[k] \in Seen(s)' \cup lost[s]
        <4>1. \A k \in 1..pos[s] : k < pos[s] /\ since[s] < log[k] => log[k] \in Seen(s) \cup lost[s]
          BY <1>s, <2>2 DEF SessionInv, KeptInv
        <4>2. \A k \in 1..pos[s] : k < pos[s] \/ k = pos[s]
          BY <1>p
        <4> QED
          BY <3>1, <4>1, <4>2
      <3>3. ASSUME NEW e \in Events, NEW f \in Seen(s)', since[s] < e, e < f
            PROVE  e \in Seen(s)' \cup svcLost \cup lost[s]
        <4>1. CASE f \in Seen(s)
          BY <3>1, <3>3, <4>1 DEF SessionInv, KeptInv
        <4>2. CASE f = log[pos[s]]
          <5>1. log[pos[s]] <= svcPos /\ (svc = "send" => log[pos[s]] < svcPos)
            BY <1>p DEF LogInv
          <5>2. svcPos \in Nat /\ e \in Nat /\ f \in Nat
            BY <1>n, <4>2, PipelineAssumption DEF PipeType, Events
          <5>3. e \in svcLost \/ \E i \in 1..Len(log) : log[i] = e
            <6>1. e < svcPos
              BY <3>3, <4>2, <5>1, <5>2
            <6>2. s \in Receivers
              BY <1>s DEF Receivers
            <6> QED
              BY <3>3, <5>2, <6>1, <6>2 DEF SessionInv, ReachInv
          <5>4. ASSUME NEW i \in 1..Len(log), log[i] = e PROVE e \in Seen(s) \cup lost[s]
            <6>1. i < pos[s]
              <7>1. ~(pos[s] < i) /\ i # pos[s]
                BY <1>p, <3>3, <4>2, <5>2, <5>4 DEF LogInv
              <7> QED
                BY <1>p, <7>1
            <6>2. i \in 1..pos[s]
              BY <1>p, <6>1
            <6> QED
              BY <1>s, <2>2, <3>3, <5>4, <6>1, <6>2 DEF SessionInv, KeptInv
          <5> QED
            BY <3>1, <5>3, <5>4
        <4> QED
          BY <3>1, <4>1, <4>2
      <3> QED
        BY <1>l, <1>s, <3>2, <3>3 DEF KeptInv
    <2> QED
      BY <2>1, <2>2
  <1> QED
    BY <1>1, <1>2, <1>3, <1>4, <1>5 DEF SessionInv

-----------------------------------------------------------------------------
LEMMA SessionStep ==
    ASSUME PipeInv, NEW s \in Sessions,
           \/ Connect(s) \/ LoginOk(s) \/ Handshake(s) \/ Expire(s) \/ PeerGone(s)
           \/ Sending(s) \/ SendCancelled(s) \/ Receiving(s) \/ RecvEnds(s) \/ Join(s)
    PROVE  PipeInv'
  <1>1. PipeType /\ LogInv /\ SessionInv(s) /\ ShapeInv(s)
    BY DEF PipeInv, SessionInv
  <1>2. /\ PipeType' /\ UNCHANGED <<auth, published, service>>
        /\ \A t \in Sessions : t # s => Unmoved(t)
    BY <1>1, SessionFrame
  <1>3. LogInv'
    BY <1>1, <1>2 DEF LogInv, service
  <1>4. SessionInv(s)'
    <2>1. CASE Connect(s)
      BY <1>1, <1>2, <2>1, ConnectStep
    <2>2. CASE LoginOk(s) \/ LoginFails(s) \/ Refused(s) \/ Notify(s)
      BY <1>1, <1>2, <2>2, ControlSteps
    <2>3. CASE SendDone(s)
      BY <1>1, <1>2, <2>3, SendDoneStep
    <2> QED
      BY <1>1, <1>2, <2>1, <2>2, <2>3, QuietStep DEF Handshake, Sending, Receiving
  <1>5. ASSUME NEW t \in Sessions, t # s PROVE SessionInv(t)'
    BY <1>1, <1>2, <1>5, OtherSession DEF PipeInv
  <1> QED
    BY <1>2, <1>3, <1>4, <1>5 DEF PipeInv

LEMMA PipeStep == PipeInv /\ [Next]_vars => PipeInv'
  <1> SUFFICES ASSUME PipeInv, [Next]_vars PROVE PipeInv'
    OBVIOUS
  <1>1. CASE UNCHANGED vars
    <2>1. PipeType' /\ LogInv'
      BY <1>1 DEF PipeInv, PipeType, LogInv, vars, service, session
    <2>2. ASSUME NEW t \in Sessions PROVE SessionInv(t)'
      BY <1>1, OtherSession DEF PipeInv, Unmoved, vars, service, session
    <2> QED
      BY <2>1, <2>2 DEF PipeInv
  <1> QED
    BY <1>1, ServiceStep, SessionStep DEF Next

LEMMA PipeAlways == Spec => []PipeInv
  BY InitPipe, PipeStep, PTL DEF Spec

-----------------------------------------------------------------------------
(* A session sees events in the order of publication and none twice,       *)
(* whatever the capacities, the number of sessions and of connections.     *)
THEOREM InOrderAlways == Spec => []InOrder
  <1>1. PipeInv => InOrder
    BY DEF PipeInv, SessionInv, OrderInv, InOrder
  <1> QED
    BY <1>1, PipeAlways, PTL

(* Skipping the payload when nobody listens loses no event that a session  *)
(* had subscribed to: a gap in what it sees was reported as a lag.         *)
THEOREM NoSilentLossAlways == Spec => []NoSilentLoss
  <1>1. PipeInv => NoSilentLoss
    BY DEF PipeInv, SessionInv, KeptInv, NoSilentLoss
  <1> QED
    BY <1>1, PipeAlways, PTL

(* After the end of its access token a session gets at most the payload    *)
(* that was being written.                                                 *)
THEOREM OneLateAlways == Spec => []OneLate
  <1>1. PipeInv => OneLate
    BY DEF PipeInv, SessionInv, LateInv, OneLate
  <1> QED
    BY <1>1, PipeAlways, PTL

(* The order of frames of the events API: AuthOk before events, and        *)
(* nothing after SessionEnded.                                             *)
THEOREM ProtocolAlways == Spec => []Protocol
  <1>1. PipeInv => Protocol
    BY DEF PipeInv, SessionInv, FrameInv, Protocol
  <1> QED
    BY <1>1, PipeAlways, PTL
=============================================================================
