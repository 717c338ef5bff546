------------------------ MODULE DeviceCommandProofs ------------------------
(***************************************************************************)
(* DeviceCommand for any set of requests, devices and things: a device is  *)
(* never made to do something twice, nothing is done without a login or    *)
(* that the check of its route did not find in the table, and the response *)
(* tells the truth.                                                        *)
(***************************************************************************)
EXTENDS DeviceCommand, TLAPS

Early == {"idle", "gate", "lookup", "acquire"}
Logged(r) == login[r] = {"user", "pass"}
Cleared(r) ==
    /\ ask[r].known /\ configured
    /\ "device" \in seen[r]
    /\ DeviceOnly(r) \/ "thing" \in seen[r]

(* The parts of the inductive invariant, for one request.  Which lines can *)
(* be on the way depends on where the handler is, and an answer that is    *)
(* there is the answer to the line the handler waits for: that is why the  *)
(* handler can go on when it reads OK.                                     *)

(* Before there is a connection nothing was sent and nothing answered. *)
Unsent(r) ==
    pc[r] \in Early => pending[r] = {} /\ executed[r] = 0 /\ reply[r] = "none" /\ result[r] = "none"

(* What the table shows while a request is being checked was noted. *)
Noted(r) == pc[r] \in {"gate", "lookup"} => Shown(r, table) \subseteq seen[r]

(* Only what passed the checks goes on to a connection. *)
Checked(r) == pc[r] \in {"acquire"} \cup Lines \/ executed[r] > 0 => Cleared(r)

AtUser(r) ==
    pc[r] = "user" =>
        /\ pending[r] \subseteq {"user"} /\ executed[r] = 0
        /\ reply[r] = "ok" => pending[r] = {} /\ "user" \in login[r]

AtPass(r) ==
    pc[r] = "pass" =>
        /\ pending[r] \subseteq {"pass"} /\ executed[r] = 0 /\ "user" \in login[r]
        /\ reply[r] = "ok" => pending[r] = {} /\ "pass" \in login[r]

AtCommand(r) ==
    pc[r] = "command" =>
        /\ pending[r] \subseteq {"command"}
        /\ reply[r] = "ok" => executed[r] = 1

(* A command that is on its way was not carried out yet, and may be. *)
OnTheWay(r) == "command" \in pending[r] => executed[r] = 0 /\ Logged(r) /\ Cleared(r)

Told(r) ==
    /\ executed[r] <= 1
    /\ result[r] = "ok" => executed[r] = 1
    /\ pc[r] # "done" => answer[r] = "none"
    /\ answer[r] = "accepted" => executed[r] = 1
    /\ answer[r] = "rejected" => executed[r] = 0 /\ pending[r] = {}

Sound(r) ==
    /\ Unsent(r) /\ Noted(r) /\ Checked(r) /\ AtUser(r) /\ AtPass(r) /\ AtCommand(r)
    /\ OnTheWay(r) /\ Told(r)

IInv == TypeOK /\ \A r \in Requests : Sound(r)

-----------------------------------------------------------------------------
(* The steps of a request, as the cases of the proofs below. *)
Moves(r) ==
    \/ Arrive(r) \/ Gate(r) \/ Lookup(r) \/ Acquire(r) \/ AcquireFails(r)
    \/ LoggedIn(r) \/ LoginFails(r) \/ CommandEnds(r) \/ LogoutEnds(r)
    \/ Timeout(r) \/ Disconnect(r) \/ Serve(r) \/ Break(r)

LEMMA NextCases ==
    ASSUME Next
    PROVE  \/ \E r \in Requests : Moves(r)
           \/ \E t \in Tables, o \in BOOLEAN : Synchronise(t, o)
  BY DEF Next, Step, Moves

LEMMA InitSound == Init => IInv
  BY DEF Init, IInv, TypeOK, Sound, Unsent, Noted, Checked, AtUser, AtPass, AtCommand, OnTheWay, Told,
         Early, Lines

LEMMA ShownType ==
    ASSUME NEW r, NEW t PROVE Shown(r, t) \subseteq {"device", "thing"}
  BY DEF Shown

(* What passes the check of a route was in the table. *)
LEMMA ValidShown ==
    ASSUME NEW r \in Requests, TypeOK, Valid(r, table)
    PROVE  "device" \in Shown(r, table) /\ (DeviceOnly(r) \/ "thing" \in Shown(r, table))
  <1>1. ask[r].op \in {"instcmd", "fsd", "setvar"} /\ ask[r].api \in {"json", "page"}
    BY AsksAssumption DEF TypeOK, AskType
  <1> QED
    BY <1>1 DEF Valid, Shown, DeviceOnly

(* Every step keeps the types. *)
LEMMA TypeStep == TypeOK /\ [Next]_vars => TypeOK'
  <1> SUFFICES ASSUME TypeOK, [Next]_vars PROVE TypeOK'
    OBVIOUS
  <1> USE DEF TypeOK, Lines, world, connection
  <1>1. CASE UNCHANGED vars
    BY <1>1 DEF vars
  <1>2. ASSUME NEW r \in Requests, Arrive(r) PROVE TypeOK'
    BY <1>2, ShownType DEF Arrive
  <1>3. ASSUME NEW r \in Requests, Gate(r) PROVE TypeOK'
    BY <1>3 DEF Gate, Answer
  <1>4. ASSUME NEW r \in Requests, Lookup(r) PROVE TypeOK'
    BY <1>4 DEF Lookup, Answer
  <1>5. ASSUME NEW r \in Requests, Acquire(r) PROVE TypeOK'
    BY <1>5 DEF Acquire
  <1>6. ASSUME NEW r \in Requests, AcquireFails(r) PROVE TypeOK'
    BY <1>6 DEF AcquireFails, Answer
  <1>7. ASSUME NEW r \in Requests, LoggedIn(r) PROVE TypeOK'
    BY <1>7 DEF LoggedIn, Send
  <1>8. ASSUME NEW r \in Requests, LoginFails(r) PROVE TypeOK'
    BY <1>8 DEF LoginFails, Answer
  <1>9. ASSUME NEW r \in Requests, CommandEnds(r) PROVE TypeOK'
    BY <1>9 DEF CommandEnds, Send
  <1>10. ASSUME NEW r \in Requests, LogoutEnds(r) PROVE TypeOK'
    BY <1>10 DEF LogoutEnds, Answer
  <1>11. ASSUME NEW r \in Requests, Timeout(r) PROVE TypeOK'
    BY <1>11 DEF Timeout, Answer
  <1>12. ASSUME NEW r \in Requests, Disconnect(r) PROVE TypeOK'
    BY <1>12 DEF Disconnect, Answer
  <1>13. ASSUME NEW r \in Requests, Serve(r) PROVE TypeOK'
    BY <1>13 DEF Serve
  <1>14. ASSUME NEW r \in Requests, Break(r) PROVE TypeOK'
    BY <1>14 DEF Break
  <1>15. ASSUME NEW t \in Tables, NEW o \in BOOLEAN, Synchronise(t, o) PROVE TypeOK'
    BY <1>15, ShownType DEF UnderWay, Synchronise
  <1> QED
    BY NextCases, <1>1, <1>2, <1>3, <1>4, <1>5, <1>6, <1>7, <1>8, <1>9, <1>10, <1>11, <1>12, <1>13, <1>14, <1>15 DEF Moves

-----------------------------------------------------------------------------
(* Nothing of request q changes. *)
Still(q) ==
    /\ pc'[q] = pc[q] /\ answer'[q] = answer[q] /\ result'[q] = result[q]
    /\ pending'[q] = pending[q] /\ reply'[q] = reply[q] /\ login'[q] = login[q]
    /\ executed'[q] = executed[q] /\ seen'[q] = seen[q]

LEMMA StillSound ==
    ASSUME NEW q \in Requests, Sound(q), Still(q), UNCHANGED world
    PROVE  Sound(q)'
  BY DEF Sound, Still, world, Unsent, Noted, Checked, AtUser, AtPass, AtCommand, OnTheWay, Told,
         Shown, DeviceOnly, Cleared, Logged

(* A step of one request leaves every other one alone. *)
LEMMA OthersStill ==
    ASSUME TypeOK, NEW r \in Requests, NEW q \in Requests, q # r,
           Moves(r)
    PROVE  Still(q) /\ UNCHANGED world
  <1> USE DEF TypeOK, Still, world, connection
  <1>1. CASE Arrive(r)
    BY <1>1 DEF Arrive
  <1>2. CASE Gate(r)
    BY <1>2 DEF Gate, Answer
  <1>3. CASE Lookup(r)
    BY <1>3 DEF Lookup, Answer
  <1>4. CASE Acquire(r)
    BY <1>4 DEF Acquire
  <1>5. CASE AcquireFails(r)
    BY <1>5 DEF AcquireFails, Answer
  <1>6. CASE LoggedIn(r)
    BY <1>6 DEF LoggedIn, Send
  <1>7. CASE LoginFails(r)
    BY <1>7 DEF LoginFails, Answer
  <1>8. CASE CommandEnds(r)
    BY <1>8 DEF CommandEnds, Send
  <1>9. CASE LogoutEnds(r)
    BY <1>9 DEF LogoutEnds, Answer
  <1>10. CASE Timeout(r)
    BY <1>10 DEF Timeout, Answer
  <1>11. CASE Disconnect(r)
    BY <1>11 DEF Disconnect, Answer
  <1>12. CASE Serve(r)
    BY <1>12 DEF Serve
  <1>13. CASE Break(r)
    BY <1>13 DEF Break
  <1> QED
    BY <1>1, <1>2, <1>3, <1>4, <1>5, <1>6, <1>7, <1>8, <1>9, <1>10, <1>11, <1>12, <1>13 DEF Moves

(* The step of a request keeps its own part of the invariant. *)
LEMMA OwnSound ==
    ASSUME TypeOK, NEW r \in Requests, Sound(r),
           Moves(r)
    PROVE  Sound(r)'
  <1> USE DEF TypeOK, world, connection, Sound, Unsent, Noted, Checked, AtUser, AtPass, AtCommand,
              OnTheWay, Told, Early, Lines, Logged, Cleared, DeviceOnly
  <1>1. CASE Arrive(r)
    BY <1>1 DEF Arrive, Shown
  <1>2. CASE Gate(r)
    BY <1>2 DEF Gate, Answer, Shown
  <1>3. CASE Lookup(r)
    BY <1>3, ValidShown DEF Lookup, Answer
  <1>4. CASE Acquire(r)
    BY <1>4 DEF Acquire
  <1>5. CASE AcquireFails(r)
    BY <1>5 DEF AcquireFails, Answer
  <1>6. CASE LoggedIn(r)
    BY <1>6 DEF LoggedIn, Send
  <1>7. CASE LoginFails(r)
    BY <1>7 DEF LoginFails, Answer
  <1>8. CASE CommandEnds(r)
    BY <1>8 DEF CommandEnds, Send
  <1>9. CASE LogoutEnds(r)
    BY <1>9 DEF LogoutEnds, Answer
  <1>10. CASE Timeout(r)
    BY <1>10 DEF Timeout, Answer
  <1>11. CASE Disconnect(r)
    BY <1>11 DEF Disconnect, Answer
  <1>12. CASE Serve(r)
    BY <1>12 DEF Serve
  <1>13. CASE Break(r)
    BY <1>13 DEF Break, Shown
  <1> QED
    BY <1>1, <1>2, <1>3, <1>4, <1>5, <1>6, <1>7, <1>8, <1>9, <1>10, <1>11, <1>12, <1>13 DEF Moves

(* Another table or status: what a request may still be checked against    *)
(* is noted.                                                               *)
LEMMA SynchroniseSound ==
    ASSUME TypeOK, NEW t \in Tables, NEW o \in BOOLEAN, Synchronise(t, o),
           NEW q \in Requests, Sound(q)
    PROVE  Sound(q)'
  <1>1. Noted(q)'
    BY DEF Synchronise, TypeOK, Sound, Noted, UnderWay, Shown
  <1>2. Cleared(q) => Cleared(q)'
    BY DEF Synchronise, TypeOK, Cleared, DeviceOnly
  <1>3. (Unsent(q) /\ AtUser(q) /\ AtPass(q) /\ AtCommand(q) /\ Told(q))'
    BY DEF Synchronise, connection, Sound, Unsent, AtUser, AtPass, AtCommand, Told
  <1>4. (Checked(q) /\ OnTheWay(q))'
    BY <1>2 DEF Synchronise, connection, Sound, Checked, OnTheWay, Logged
  <1> QED
    BY <1>1, <1>3, <1>4 DEF Sound

LEMMA SoundStep == IInv /\ [Next]_vars => IInv'
  <1> SUFFICES ASSUME IInv, [Next]_vars PROVE IInv'
    OBVIOUS
  <1>1. TypeOK'
    BY TypeStep DEF IInv
  <1>2. ASSUME NEW q \in Requests PROVE Sound(q)'
    <2>1. TypeOK /\ Sound(q)
      BY DEF IInv
    <2>2. CASE UNCHANGED vars
      BY <2>1, <2>2, StillSound DEF vars, Still, world
    <2>3. CASE \E t \in Tables, o \in BOOLEAN : Synchronise(t, o)
      BY <2>1, <2>3, SynchroniseSound
    <2>4. CASE \E r \in Requests : Moves(r)
      <3>1. PICK r \in Requests : Moves(r)
        BY <2>4
      <3>2. CASE q = r
        BY <2>1, <3>1, <3>2, OwnSound
      <3>3. CASE q # r
        BY <2>1, <3>1, <3>3, OthersStill, StillSound
      <3> QED
        BY <3>2, <3>3
    <2> QED
      BY <2>2, <2>3, <2>4, NextCases
  <1> QED
    BY <1>1, <1>2 DEF IInv

(* The inductive invariant holds in every state. *)
THEOREM SoundCorrect == Spec => []IInv
  BY InitSound, SoundStep, PTL DEF Spec

(* The variables keep their types. *)
THEOREM TypeCorrect == Spec => []TypeOK
  <1>1. IInv => TypeOK
    BY DEF IInv
  <1> QED
    BY <1>1, SoundCorrect, PTL

(* However handlers end, are dropped or lose their connection, a request   *)
(* makes a device do something at most once.                               *)
THEOREM OnceCorrect == Spec => []AtMostOnce
  <1>1. IInv => AtMostOnce
    BY DEF IInv, Sound, Told, AtMostOnce
  <1> QED
    BY <1>1, SoundCorrect, PTL

(* An accepted request was carried out and a rejected one was not, nor can *)
(* it be later.                                                            *)
THEOREM AnswerCorrect == Spec => []AnswerTells
  <1>1. IInv => AnswerTells
    BY DEF IInv, Sound, Told, AnswerTells
  <1> QED
    BY <1>1, SoundCorrect, PTL

(* No command is sent on a connection before upsd accepted the login.      *)
THEOREM LoginCorrect == Spec => []CommandAfterLogin
  <1>1. IInv => CommandAfterLogin
    BY DEF IInv, Sound, OnTheWay, Logged, CommandAfterLogin
  <1> QED
    BY <1>1, SoundCorrect, PTL

(* Whatever the synchronisation does to the table between the check and    *)
(* the command, nothing is done to a device that the table did not have    *)
(* while the request was under way, and, but for the page's INSTCMD,       *)
(* nothing that the device did not offer then.                             *)
THEOREM ListedCorrect == Spec => []OnlyListed
  <1>1. IInv => OnlyListed
    BY DEF IInv, Sound, Checked, Cleared, OnlyListed, DeviceOnly
  <1> QED
    BY <1>1, SoundCorrect, PTL
=============================================================================
