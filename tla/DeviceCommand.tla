--------------------------- MODULE DeviceCommand ---------------------------
(***************************************************************************)
(* Requests that make a device do something: INSTCMD, FSD and SET VAR,     *)
(* from the JSON API (json_api/route/{instcmd,fsd,rw}.rs) and from the     *)
(* pages (hypermedia/route/ups/{instcmd,fsd,rw}.rs).  A handler looks at   *)
(* the table of devices, takes a connection of its own from the pool, logs *)
(* in, sends the command and logs out.  Around it are the gate of the JSON *)
(* API (DaemonStateLayer) and the time limit of the HTTP server, which     *)
(* drops the handler wherever it waits.                                    *)
(*                                                                         *)
(* What is asked for is a thing: a command, or a variable with a value     *)
(* that its VarDetail allows (NutValue has those checks).  The table is    *)
(* written by the synchronisation tasks while requests are under way; here *)
(* it changes in any way at any time, and so does the daemon's status.     *)
(* upsd and the network are external: a line may be answered, refused or   *)
(* lost, and a line that was written may be read after its sender has      *)
(* given up.                                                               *)
(***************************************************************************)
EXTENDS Naturals

CONSTANTS
    Requests,   \* requests
    Devices,    \* names of devices
    Things,     \* commands and values
    Asks        \* what a request may ask for

(* Where a request comes from, what it wants, whether its namespace is     *)
(* configured, the device and the thing.                                   *)
AskType == [api : {"json", "page"}, op : {"instcmd", "fsd", "setvar"}, known : BOOLEAN,
            dev : Devices, thing : Things]

ASSUME AsksAssumption == Asks \subseteq AskType

VARIABLES
    ask,        \* what each request asks for
    configured, \* whether the configuration has a user and a password
    online,     \* DaemonState.status is Online
    table,      \* what each known device offers
    pc,         \* where the handler of a request is
    answer,     \* the response: accepted, rejected (4xx, 503, not found), failed
    result,     \* how the command itself went
    pending,    \* lines upsd has not read yet, in the order of Lines
    reply,      \* what upsd has answered
    up,         \* the connection works
    login,      \* upsd knows the user and the password of the connection
    executed,   \* how often upsd carried the command out
    seen        \* history: what of the request the table showed while it was under way

vars == <<ask, configured, online, table, pc, answer, result, pending, reply, up, login,
          executed, seen>>

Tables == UNION {[D -> SUBSET Things] : D \in SUBSET Devices}

(* The lines of a connection, and where the handler is that waits for the  *)
(* answer to each.                                                         *)
Lines == {"user", "pass", "command", "logout"}
Before(l) == CASE l = "user" -> {} [] l = "pass" -> {"user"} [] l = "command" -> {"user", "pass"}
               [] l = "logout" -> {"user", "pass", "command"}

UnderWay(r) == pc[r] \notin {"idle", "done"}

(* Faulty variant: the device is looked up, what it offers is not. *)
ValidDevice(r, t) == ask[r].dev \in DOMAIN t

(* What the handlers look up under the read lock: the device, and for the  *)
(* JSON API's INSTCMD and for SET VAR what it offers.  The page's INSTCMD  *)
(* leaves that to upsd.                                                    *)
Valid(r, t) ==
    /\ ask[r].dev \in DOMAIN t
    /\ ask[r].op = "setvar" \/ (ask[r].op = "instcmd" /\ ask[r].api = "json")
          => ask[r].thing \in t[ask[r].dev]

(* What a table shows of the device and the thing of a request. *)
Shown(r, t) ==
    {x \in {"device", "thing"} :
        /\ ask[r].dev \in DOMAIN t
        /\ x = "thing" => ask[r].thing \in t[ask[r].dev]}

Init ==
    /\ ask \in [Requests -> Asks]
    /\ configured \in BOOLEAN /\ online \in BOOLEAN /\ table \in Tables
    /\ pc = [r \in Requests |-> "idle"]
    /\ answer = [r \in Requests |-> "none"]
    /\ result = [r \in Requests |-> "none"]
    /\ pending = [r \in Requests |-> {}]
    /\ reply = [r \in Requests |-> "none"]
    /\ up = [r \in Requests |-> FALSE]
    /\ login = [r \in Requests |-> {}]
    /\ executed = [r \in Requests |-> 0]
    /\ seen = [r \in Requests |-> {}]

-----------------------------------------------------------------------------
(* The handlers *)

connection == <<pending, reply, up, login, executed>>
world == <<ask, configured, online, table>>

Answer(r, a) ==
    /\ pc' = [pc EXCEPT ![r] = "done"]
    /\ answer' = [answer EXCEPT ![r] = a]

(* Write a line and wait for its answer; on a broken connection it is lost. *)
Send(r, l) ==
    /\ pc' = [pc EXCEPT ![r] = l]
    /\ pending' = [pending EXCEPT ![r] = IF up[r] THEN @ \cup {l} ELSE @]
    /\ reply' = [reply EXCEPT ![r] = "none"]

Arrive(r) ==
    /\ pc[r] = "idle"
    /\ pc' = [pc EXCEPT ![r] = IF ask[r].api = "json" THEN "gate" ELSE "lookup"]
    /\ seen' = [seen EXCEPT ![r] = Shown(r, table)]
    /\ UNCHANGED <<world, answer, result, connection>>

(* DaemonStateLayer: only for a namespace that exists. *)
Gate(r) ==
    /\ pc[r] = "gate"
    /\ IF ask[r].known /\ ~online THEN Answer(r, "rejected")
       ELSE pc' = [pc EXCEPT ![r] = "lookup"] /\ UNCHANGED answer
    /\ UNCHANGED <<world, result, connection, seen>>

(* The checks before anything is sent: namespace, device, what it offers,  *)
(* and whether there is a user to log in as.                               *)
Lookup(r) ==
    /\ pc[r] = "lookup"
    /\ IF ask[r].known /\ Valid(r, table) /\ configured
       THEN pc' = [pc EXCEPT ![r] = "acquire"] /\ UNCHANGED answer
       ELSE Answer(r, "rejected")
    /\ UNCHANGED <<world, result, connection, seen>>

(* get_client, then the first line of authenticate. *)
Acquire(r) ==
    /\ pc[r] = "acquire"
    /\ up' = [up EXCEPT ![r] = TRUE]
    /\ pc' = [pc EXCEPT ![r] = "user"]
    /\ pending' = [pending EXCEPT ![r] = {"user"}]
    /\ UNCHANGED <<world, answer, result, reply, login, executed, seen>>

AcquireFails(r) ==
    /\ pc[r] = "acquire"
    /\ Answer(r, "failed")
    /\ UNCHANGED <<world, result, connection, seen>>

(* Faulty variant: the command follows the password without waiting. *)
LoggedInPipelined(r) ==
    /\ pc[r] \in {"user", "pass"} /\ reply[r] = "ok"
    /\ pc' = [pc EXCEPT ![r] = "command"]
    /\ pending' = [pending EXCEPT ![r] = IF up[r] THEN @ \cup {"pass", "command"} ELSE @]
    /\ reply' = [reply EXCEPT ![r] = "none"]
    /\ UNCHANGED <<world, answer, result, up, login, executed, seen>>

(* The rest of authenticate, up to the command. *)
LoggedIn(r) ==
    /\ pc[r] \in {"user", "pass"} /\ reply[r] = "ok"
    /\ Send(r, IF pc[r] = "user" THEN "pass" ELSE "command")
    /\ UNCHANGED <<world, answer, result, up, login, executed, seen>>

(* An ERR answer, an answer that is no OK, the end of the stream, an I/O   *)
(* error or the client's own time limit: the connection is dropped.        *)
LoginFails(r) ==
    /\ pc[r] \in {"user", "pass"}
    /\ Answer(r, "failed")
    /\ UNCHANGED <<world, result, connection, seen>>

(* Faulty variant: a command that got no answer is sent once more.         *)
CommandRetried(r) ==
    /\ pc[r] = "command"
    /\ \/ /\ reply[r] = "ok"
          /\ result' = [result EXCEPT ![r] = "ok"]
          /\ Send(r, "logout")
       \/ /\ result[r] = "none"
          /\ result' = [result EXCEPT ![r] = "err"]
          /\ Send(r, "command")
    /\ UNCHANGED <<world, answer, up, login, executed, seen>>

(* The command is answered, or it fails in one of those ways; the session  *)
(* is closed either way.                                                   *)
CommandEnds(r) ==
    /\ pc[r] = "command"
    /\ \/ reply[r] = "ok" /\ result' = [result EXCEPT ![r] = "ok"]
       \/ result' = [result EXCEPT ![r] = "err"]
    /\ Send(r, "logout")
    /\ UNCHANGED <<world, answer, up, login, executed, seen>>

(* Faulty variant: what LOGOUT was answered is taken for the result. *)
LogoutTaken(r) ==
    /\ pc[r] = "logout"
    /\ Answer(r, IF reply[r] = "ok" THEN "accepted" ELSE "failed")
    /\ UNCHANGED <<world, result, connection, seen>>

(* Whatever LOGOUT gives, be it the late answer to the command, is ignored. *)
LogoutEnds(r) ==
    /\ pc[r] = "logout"
    /\ Answer(r, IF result[r] = "ok" THEN "accepted" ELSE "failed")
    /\ UNCHANGED <<world, result, connection, seen>>

(* TimeoutLayer: 500 after 30 seconds, wherever the handler waits. *)
Timeout(r) ==
    /\ UnderWay(r)
    /\ Answer(r, "failed")
    /\ UNCHANGED <<world, result, connection, seen>>

(* The client hangs up; the handler is dropped and nobody hears of it. *)
Disconnect(r) ==
    /\ UnderWay(r)
    /\ Answer(r, "unheard")
    /\ UNCHANGED <<world, result, connection, seen>>

-----------------------------------------------------------------------------
(* The rest of the world *)

(* upsd reads the next line.  It answers OK or ERR to a login line, and    *)
(* carries a command out for a user it knows or answers ERR.               *)
Serve(r) ==
    /\ \E l \in pending[r] :
        /\ Before(l) \cap pending[r] = {}
        /\ pending' = [pending EXCEPT ![r] = @ \ {l}]
        /\ \/ /\ l \in {"user", "pass"}
              /\ login' = [login EXCEPT ![r] = @ \cup {l}]
              /\ reply' = [reply EXCEPT ![r] = "ok"]
              /\ UNCHANGED executed
           \/ /\ l = "command" /\ login[r] = {"user", "pass"}
              /\ executed' = [executed EXCEPT ![r] = @ + 1]
              /\ reply' = [reply EXCEPT ![r] = "ok"]
              /\ UNCHANGED login
           \/ /\ l = "logout"
              /\ reply' = [reply EXCEPT ![r] = "ok"]
              /\ UNCHANGED <<login, executed>>
           \/ /\ reply' = [reply EXCEPT ![r] = "err"]
              /\ UNCHANGED <<login, executed>>
    /\ UNCHANGED <<world, pc, answer, result, up, seen>>

(* The connection breaks: lines on the way and answers are lost. *)
Break(r) ==
    /\ up[r]
    /\ up' = [up EXCEPT ![r] = FALSE]
    /\ pending' = [pending EXCEPT ![r] = {}]
    /\ reply' = [reply EXCEPT ![r] = "none"]
    /\ UNCHANGED <<world, pc, answer, result, login, executed, seen>>

(* Synchronisation: another table and status (DaemonSync). *)
Synchronise(t, o) ==
    /\ table' = t /\ online' = o
    /\ seen' = [r \in Requests |-> IF UnderWay(r) THEN seen[r] \cup Shown(r, t) ELSE seen[r]]
    /\ UNCHANGED <<ask, configured, pc, answer, result, connection>>

Step(r) ==
    \/ Gate(r) \/ Lookup(r) \/ Acquire(r) \/ AcquireFails(r) \/ LoggedIn(r) \/ LoginFails(r)
    \/ CommandEnds(r) \/ LogoutEnds(r)

Next ==
    \/ \E r \in Requests : Arrive(r) \/ Step(r) \/ Timeout(r) \/ Disconnect(r) \/ Serve(r) \/ Break(r)
    \/ \E t \in Tables, o \in BOOLEAN : Synchronise(t, o)

Spec == Init /\ [][Next]_vars

-----------------------------------------------------------------------------
(* The values of the variables. *)
TypeOK ==
    /\ ask \in [Requests -> Asks]
    /\ configured \in BOOLEAN /\ online \in BOOLEAN /\ table \in Tables
    /\ pc \in [Requests -> {"idle", "gate", "lookup", "acquire", "done"} \cup Lines]
    /\ answer \in [Requests -> {"none", "accepted", "rejected", "failed", "unheard"}]
    /\ result \in [Requests -> {"none", "ok", "err"}]
    /\ pending \in [Requests -> SUBSET Lines]
    /\ reply \in [Requests -> {"none", "ok", "err"}]
    /\ up \in [Requests -> BOOLEAN]
    /\ login \in [Requests -> SUBSET {"user", "pass"}]
    /\ executed \in [Requests -> Nat]
    /\ seen \in [Requests -> SUBSET {"device", "thing"}]

(* A request makes a device do something at most once, however its handler *)
(* ends: nothing on this way is sent again, unlike a call of the pool.     *)
AtMostOnce == \A r \in Requests : executed[r] <= 1

(* The response can be relied on: accepted means it was done, rejected     *)
(* that it was not and, with AtMostOnce and in every later state, will not *)
(* be.  A failed request may have been carried out, or may be still.       *)
AnswerTells ==
    \A r \in Requests :
        /\ answer[r] = "accepted" => executed[r] = 1
        /\ answer[r] = "rejected" => executed[r] = 0 /\ pending[r] = {}

(* upsd is never sent a command before it has accepted user and password.  *)
CommandAfterLogin ==
    \A r \in Requests : "command" \in pending[r] => login[r] = {"user", "pass"}

(* FSD concerns the device alone, and the page's INSTCMD leaves the        *)
(* question whether the device has the command to upsd.                    *)
DeviceOnly(r) == ask[r].op = "fsd" \/ (ask[r].op = "instcmd" /\ ask[r].api = "page")

(* Nothing is done to a device that the table did not have at some moment  *)
(* of the request, and no command of the API and no value of SET VAR goes  *)
(* through that the device did not offer then, however the table changed   *)
(* since; and nothing is done without a namespace and a user.              *)
OnlyListed ==
    \A r \in Requests : executed[r] > 0 =>
        /\ ask[r].known /\ configured
        /\ "device" \in seen[r]
        /\ DeviceOnly(r) \/ "thing" \in seen[r]
=============================================================================
