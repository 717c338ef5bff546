------------------------------ MODULE UpsdCall ------------------------------
(***************************************************************************)
(* What a caller of the protocol client relies on: a call hands one        *)
(* request to upsd and returns what upsd answered to this request, or      *)
(* fails.  It never returns another call's answer and never a part of one. *)
(* The exception is an answer that does not show where it ends.            *)
(***************************************************************************)
EXTENDS Sequences

CONSTANTS
    Requests,   \* the requests, records with a field op
    Replies,    \* what upsd may answer: [st, rows]
    Endless,    \* operations whose answer does not show where it ends
    NoCall      \* no request

VARIABLES
    req,        \* the request of the call under way
    reply,      \* what upsd answered to it
    out         \* what the last call returned

callvars == <<req, reply, out>>

Nothing == [st |-> "none", rows |-> <<>>]
Failure == [st |-> "error", rows |-> <<>>]

Init == req = NoCall /\ reply = Nothing /\ out = Nothing

Begin(q) ==
    /\ req = NoCall
    /\ req' = q
    /\ reply' = Nothing /\ out' = Nothing

Answer(a) ==
    /\ req # NoCall /\ reply = Nothing
    /\ reply' = a
    /\ UNCHANGED <<req, out>>

Return ==
    /\ req # NoCall /\ reply # Nothing
    /\ out'.st = "ok"
    /\ out' = reply \/ req.op \in Endless
    /\ req' = NoCall
    /\ UNCHANGED reply

Fail ==
    /\ req # NoCall
    /\ req' = NoCall
    /\ out' = Failure
    /\ UNCHANGED reply

Next ==
    \/ \E q \in Requests : Begin(q)
    \/ \E a \in Replies : Answer(a)
    \/ Return \/ Fail

Spec == Init /\ [][Next]_callvars
=============================================================================
