----------------------------- MODULE UpsdSession -----------------------------
(***************************************************************************)
(* NutClient (client/client_base.rs, client_auth.rs, client_tls.rs): one   *)
(* connection to upsd, used by one call after the other.  A request is     *)
(* written, its answer is read line by line until the framing says that it *)
(* is whole, and is then parsed (NutGrammar).  upsd may close the          *)
(* connection at any moment, also in the middle of a line.  What the owner *)
(* of the connection does after a call is that of the pool (see            *)
(* ConnectionPool) and of the routes: a failed connection is replaced.     *)
(***************************************************************************)
EXTENDS NutGrammar, FiniteSets

CONSTANTS
    Ups,        \* device names
    Ops,        \* commands in use
    MaxRows,    \* bound on the items of a list
    Tls         \* TRUE: a new connection is upgraded before it is used

ASSUME SessionAssumption ==
    Ops \subseteq DOMAIN Commands /\ MaxRows \in Nat /\ Tls \in BOOLEAN

VARIABLES
    link,       \* "down", "plain" (STARTTLS pending) or "ready"
    pc,         \* "idle", "first" (waits for the first line), "list"
    call,       \* the request of the call under way
    lines,      \* response_buf, by lines
    inbox,      \* requests upsd has not answered yet
    wire,       \* lines written by upsd and not read yet
    open,       \* upsd's end is open
    said,       \* what upsd answered to the request of the call
    result      \* what the last call returned

vars == <<link, pc, call, lines, inbox, wire, open, said, result>>

Requests == [op : Ops, ups : Ups, name : {"n"}, value : {"w"}]
NoCall == [op |-> "", ups |-> "", name |-> "", value |-> ""]

Nothing == [st |-> "none", rows |-> <<>>]
Failure == [st |-> "error", rows |-> <<>>]
Answered(rows) == [st |-> "ok", rows |-> rows]

-----------------------------------------------------------------------------
(* upsd: what it has to say, and how it says it.                           *)

Strings(ts) == [i \in 1..Len(ts) |-> ts[i].v]

(* The items of each list, and the data of each line. *)
Data == [UPS |-> {<<Text("u1"), Quoted("d")>>, <<Text("u2"), Quoted("")>>},
         VAR |-> {<<Text("v1"), Quoted("5")>>, <<Text("END"), Quoted("x")>>},
         RW |-> {<<Text("v1"), Quoted("5")>>},
         CMD |-> {<<Text("c1")>>, <<Text("c2")>>},
         CLIENT |-> {<<Text("::1")>>},
         ENUM |-> {<<Quoted("5")>>, <<Quoted("END LIST")>>},
         RANGE |-> {<<Quoted("1"), Quoted("9")>>}]

Datum == [VAR |-> <<Quoted("5")>>, DESC |-> <<Quoted("t")>>, CMDDESC |-> <<Quoted("t")>>,
          UPSDESC |-> <<Quoted("t")>>, TYPE |-> <<Text("RW"), Text("STRING:32")>>]

Okays == [USERNAME |-> <<>>, PASSWORD |-> <<>>, LOGIN |-> <<>>, SET |-> <<>>, INSTCMD |-> <<>>,
          FSD |-> <<Text("FSD-SET")>>, LOGOUT |-> <<Text("Goodbye")>>,
          STARTTLS |-> <<Text("STARTTLS")>>]

Version == <<Text("2.8"), Text("up")>>

(* Number of words of a request that upsd accepts. *)
Arity == [UPS |-> 2, VAR |-> 3, RW |-> 3, CMD |-> 3, CLIENT |-> 3, ENUM |-> 4, RANGE |-> 4]
GetArity == [VAR |-> 4, DESC |-> 4, CMDDESC |-> 4, TYPE |-> 4, UPSDESC |-> 3]

Lists(kw) == UNION {[1..n -> Data[kw]] : n \in 0..MaxRows}

(* The answers upsd may give: the lines, and what they say. *)
ErrAnswer == [wire |-> <<<<Text("ERR"), Text("DATA-STALE")>>>>, said |-> Failure]

ListAnswer(r, rows) ==
    LET title == <<Text("LIST")>> \o Tail(r)
    IN [wire |-> <<<<Text("BEGIN")>> \o title>>
                   \o [i \in 1..Len(rows) |-> Tail(r) \o rows[i]]
                   \o <<<<Text("END")>> \o title>>,
        said |-> Answered(<<Strings(SubSeq(r, 3, Len(r)))>>
                          \o [i \in 1..Len(rows) |-> Strings(rows[i])])]

LineAnswer(line, caps) == [wire |-> <<line>>, said |-> Answered(<<caps>>)]

UpsdAnswers(r) ==
    {ErrAnswer} \cup
    LET w == r[1].v IN
    CASE w = "LIST" /\ Len(r) = Arity[r[2].v] -> {ListAnswer(r, rows) : rows \in Lists(r[2].v)}
      [] w = "GET" /\ Len(r) = GetArity[r[2].v] ->
            {LineAnswer(Tail(r) \o Datum[r[2].v], Strings(SubSeq(r, 3, Len(r)) \o Datum[r[2].v]))}
      [] w \in {"VER", "NETVER"} -> {LineAnswer(Version, Strings(Version))}
      [] w \in DOMAIN Okays -> {LineAnswer(<<Text("OK")>> \o Okays[w], <<>>)}
      [] OTHER -> {}

(* A line cut off by the end of the connection: some of its tokens, and    *)
(* possibly a part of the next one.  A part of a name is again a name, but  *)
(* the line then lacks its last token and no parser takes it; only the last *)
(* word of GET TYPE may be cut and still be a type.                         *)
Torn(t) ==
    IF t.k = "text" THEN {Text("~")} \cup (IF t.v = "STRING:32" THEN {Text("STRING:3")} ELSE {})
    ELSE {Unclosed("~")}

CutLine(line) ==
    {SubSeq(line, 1, n) : n \in 1..Len(line)}
      \cup UNION {{Append(SubSeq(line, 1, n - 1), t) : t \in Torn(line[n])} : n \in 1..Len(line)}

CutWire(w) ==
    {SubSeq(w, 1, n) : n \in 0..Len(w)}
      \cup UNION {{Append(SubSeq(w, 1, n - 1), l) : l \in CutLine(w[n])} : n \in 1..Len(w)}

-----------------------------------------------------------------------------
Init ==
    /\ link = "down" /\ pc = "idle"
    /\ call = NoCall /\ lines = <<>>
    /\ inbox = <<>> /\ wire = <<>> /\ open = FALSE
    /\ said = Nothing /\ result = Nothing

(* ClientAllocator::init: a new connection, with a buffer of its own. *)
Connect ==
    /\ link = "down" /\ pc = "idle"
    /\ link' = IF Tls THEN "plain" ELSE "ready"
    /\ open' = TRUE
    /\ inbox' = <<>> /\ wire' = <<>>
    /\ UNCHANGED <<pc, call, lines, said, result>>

(* connect_with_tls sends STARTTLS before anything else. *)
Permitted(q) == IF link = "plain" THEN q.op = "StartTls" ELSE link = "ready" /\ q.op # "StartTls"

(* inner_send_raw: the request is written. *)
Send(q) ==
    /\ pc = "idle" /\ Permitted(q)
    /\ pc' = "first" /\ call' = q
    /\ lines' = <<>>
    /\ inbox' = IF open THEN Append(inbox, Serialize(q)) ELSE inbox
    /\ said' = Nothing /\ result' = Nothing
    /\ UNCHANGED <<link, wire, open>>

(* The calls of NutPoolClient; the others are made on a connection of one's *)
(* own.                                                                     *)
PooledCommands ==
    (DOMAIN GetCommands \cup DOMAIN ListCommands \cup {"GetProtVer", "GetDaemonVer"}) \ {"InstCmd"}

(* Faulty variant: an owner that goes on with a connection that timed out. *)
LinkAfterAny(outcome) == link

(* What becomes of the connection.  The pool keeps it after an answer, an  *)
(* ERR or a parse error, and drops it otherwise; a private connection is   *)
(* dropped after any error and after LOGOUT; STARTTLS makes it usable.     *)
LinkAfter(outcome) ==
    CASE outcome = "ok" -> IF call.op = "DetachCommand" THEN "down" ELSE "ready"
      [] outcome \in {"protocol", "parse"} /\ call.op \in PooledCommands -> "ready"
      [] OTHER -> "down"

Finish(outcome, res) ==
    /\ pc' = "idle" /\ call' = NoCall /\ lines' = <<>>
    /\ result' = res
    /\ link' = LinkAfter(outcome)
    /\ inbox' = IF link' = "down" THEN <<>> ELSE inbox
    /\ open' = (open /\ link' # "down")

StartsWith(line, ws) ==
    Len(line) >= Len(ws) /\ \A i \in 1..Len(ws) : line[i].k = "text" /\ line[i].v = ws[i]

(* NutClient::send: the text is parsed, unless it is empty. *)
Parsed(text) ==
    LET d == Deserialize(call.op, text) IN
    IF d.ok THEN Finish("ok", Answered(d.rows)) ELSE Finish("parse", Failure)

(* The first line decides: a list, an error, or the whole answer. *)
ReadLine ==
    /\ pc = "first" /\ wire # <<>>
    /\ wire' = Tail(wire)
    /\ UNCHANGED said
    /\ CASE StartsWith(Head(wire), <<"BEGIN", "LIST">>) ->
              /\ pc' = "list" /\ lines' = <<Head(wire)>>
              /\ UNCHANGED <<link, call, inbox, open, result>>
         [] StartsWith(Head(wire), <<"ERR">>) -> Finish("protocol", Failure)
         [] OTHER -> Parsed(<<Head(wire)>>)

(* Faulty variant: the end is looked for at the start of the buffer. *)
IsEndFirst(text) == StartsWith(text[1], <<"END", "LIST">>)

(* The last line that was read ends the list. *)
IsEnd(text) == StartsWith(text[Len(text)], <<"END", "LIST">>)

(* The loop of a list.  At the end of the stream it reads nothing, again   *)
(* and again, until the timeout.                                           *)
ReadItem ==
    /\ pc = "list" /\ wire # <<>>
    /\ wire' = Tail(wire)
    /\ UNCHANGED said
    /\ LET text == Append(lines, Head(wire)) IN
       IF IsEnd(text)
       THEN Parsed(text)
       ELSE lines' = text /\ UNCHANGED <<link, pc, call, inbox, open, result>>

(* Nothing comes any more: an empty first line, or an I/O error. *)
ReadEnd ==
    /\ pc = "first" /\ wire = <<>> /\ ~open
    /\ Finish("gone", Failure)
    /\ UNCHANGED <<wire, said>>

(* The connection was reset, or the request timeout has passed. *)
ReadFails ==
    /\ pc # "idle" /\ ~open
    /\ Finish("gone", Failure)
    /\ wire' = <<>>
    /\ UNCHANGED said

Timeout ==
    /\ pc # "idle"
    /\ Finish("timeout", Failure)
    /\ wire' = IF link' = "down" THEN <<>> ELSE wire
    /\ UNCHANGED said

(* upsd answers the next request; after LOGOUT it hangs up. *)
Serve ==
    /\ open /\ inbox # <<>>
    /\ \E a \in UpsdAnswers(Head(inbox)) :
          /\ wire' = wire \o a.wire
          /\ said' = a.said
    /\ inbox' = Tail(inbox)
    /\ open' = (Head(inbox)[1].v # "LOGOUT")
    /\ UNCHANGED <<link, pc, call, lines, result>>

(* upsd or the network ends the connection; part of the answer is lost. *)
Cut ==
    /\ open
    /\ open' = FALSE
    /\ wire' \in CutWire(wire)
    /\ inbox' = <<>>
    /\ UNCHANGED <<link, pc, call, lines, said, result>>

Read == ReadLine \/ ReadItem \/ ReadEnd \/ ReadFails

Next ==
    \/ Connect \/ \E q \in Requests : Send(q)
    \/ ReadLine \/ ReadItem \/ ReadEnd \/ ReadFails \/ Timeout
    \/ Serve \/ Cut

(* Tasks are scheduled and upsd, while it lives, answers.  Nothing is      *)
(* assumed of the timeout.                                                 *)
Spec == Init /\ [][Next]_vars /\ WF_vars(Read) /\ WF_vars(Serve)

-----------------------------------------------------------------------------
(* A connection that another call may use is clean: no answer is left on   *)
(* it and none is still to come, whatever the last call met.  client_base  *)
(* has no other way to tell whose answer it reads.                         *)
Clean == pc = "idle" /\ link # "down" => wire = <<>> /\ inbox = <<>>

(* The answer is on its way whole: upsd's end is open, or upsd closed it   *)
(* because the call is LOGOUT.                                             *)
Intact == open \/ call.op = "DetachCommand"

(* Requests and answers are understood: an answer that came whole is never *)
(* refused, neither by the framing nor by the parser of its command, so a  *)
(* call only fails because upsd said so, because of the timeout or because *)
(* the connection broke.                                                   *)
Understood ==
    [][(ReadLine \/ ReadItem) /\ pc' = "idle" /\ Intact /\ said.st = "ok" => result' = said]_vars

(* A call whose answer comes ends without the help of the timeout; a list  *)
(* whose end never comes is the case that does not (client_base.rs:113).   *)
AnsweredEnds == [](pc # "idle" /\ []open => <>(pc = "idle"))

(* The calls of a client are calls as their callers understand them. *)
Meanings == UNION {{a.said : a \in UpsdAnswers(Serialize(q))} : q \in Requests}

Calls == INSTANCE UpsdCall WITH
    Replies <- Meanings, Endless <- {"GetVarType", "GetProtVer", "GetDaemonVer"},
    req <- call, reply <- said, out <- result

(* The client implements UpsdCall: what a call returns is what upsd        *)
(* answered to the very request, and all of it, however connections are    *)
(* reused, cut and replaced.                                               *)
OwnWholeAnswer == Calls!Spec
=============================================================================
