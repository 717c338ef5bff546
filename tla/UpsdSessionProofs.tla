-------------------------- MODULE UpsdSessionProofs --------------------------
(***************************************************************************)
(* Three results about a connection to upsd, for any devices, any set of   *)
(* commands and any length of list:                                        *)
(*   Clean           between two calls nothing is left of an answer: the   *)
(*                   framing of NutClient reads all of one, or the         *)
(*                   connection is given up;                               *)
(*   OwnWholeAnswer  what a call returns is what upsd answered to it, all  *)
(*                   of it: UpsdSession implements UpsdCall;               *)
(*   Understood      an answer that was not cut short is never refused.    *)
(* The first rests on how lists begin and end (SessionInv), the other two  *)
(* on what was read so far being the answer or a cut part of it (CallInv)  *)
(* and on what the grammars make of an answer and of a cut part of one     *)
(* (Reads).                                                                *)
(***************************************************************************)
EXTENDS UpsdSession, SequencesExt, TLAPS

(* A sequence, of whatever. *)
IsSeq(w) == w \in Seq(Range(w))

BeginsList(line) == StartsWith(line, <<"BEGIN", "LIST">>)
EndsList(line) == StartsWith(line, <<"END", "LIST">>)

(* Lines that one call reads to the end: the framing finds the end of a    *)
(* list in its last line, if at all.                                       *)
Framed(w, first) == \A i \in first..(Len(w) - 1) : ~EndsList(w[i])

(* An answer of upsd, or what is left of one that was cut off.             *)
OneAnswer(w) == Len(w) <= 1 \/ (BeginsList(w[1]) /\ Framed(w, 2))

(* At most one request is on its way, with nothing before it.              *)
SessionInv ==
    /\ pc \in {"idle", "first", "list"}
    /\ IsSeq(wire) /\ IsSeq(lines)
    /\ inbox # <<>> =>
          pc = "first" /\ wire = <<>> /\ call \in Requests /\ inbox = <<Serialize(call)>>
    /\ pc = "idle" /\ link # "down" => wire = <<>>
    /\ pc = "first" => OneAnswer(wire)
    /\ pc = "list" => Framed(wire, 1)

(* A command as the proof needs it: only the keyword of a list follows     *)
(* LIST, and none of the keywords is END.                                  *)
WellFormed(c) ==
    /\ Len(c.words) \in 1..2 /\ Len(c.args) \in Nat
    /\ c.words[1] = "LIST" => Len(c.words) = 2 /\ c.words[2] \in DOMAIN Data /\ c.words[2] # "END"

-----------------------------------------------------------------------------
(* Sequences, whatever they hold. *)
LEMMA SeqIsSeq == ASSUME NEW S, NEW w \in Seq(S) PROVE IsSeq(w)
  BY DEF IsSeq, Range

LEMMA SeqConcat ==
    ASSUME NEW v, IsSeq(v), NEW w, IsSeq(w)
    PROVE  /\ IsSeq(v \o w) /\ Len(v) \in Nat /\ Len(w) \in Nat /\ Len(v \o w) = Len(v) + Len(w)
           /\ \A i \in 1..Len(v) : (v \o w)[i] = v[i]
           /\ \A i \in 1..Len(w) : (v \o w)[Len(v) + i] = w[i]
  <1>1. PICK S : v \in Seq(S) /\ w \in Seq(S)
    <2> DEFINE S == Range(v) \cup Range(w)
    <2>1. v \in Seq(S) /\ w \in Seq(S)
      BY DEF IsSeq
    <2> QED
      BY <2>1
  <1>2. v \o w \in Seq(S)
    BY <1>1
  <1>3. IsSeq(v \o w)
    BY <1>2, SeqIsSeq
  <1>4. /\ Len(v) \in Nat /\ Len(w) \in Nat /\ Len(v \o w) = Len(v) + Len(w)
        /\ \A i \in 1..Len(v) : (v \o w)[i] = v[i]
        /\ \A i \in 1..Len(w) : (v \o w)[Len(v) + i] = w[i]
    BY <1>1
  <1> QED
    BY <1>3, <1>4

LEMMA SeqTail ==
    ASSUME NEW w, IsSeq(w), w # <<>>
    PROVE  /\ IsSeq(Tail(w)) /\ Len(w) \in Nat \ {0} /\ Len(Tail(w)) = Len(w) - 1
           /\ \A i \in 1..(Len(w) - 1) : Tail(w)[i] = w[i + 1]
           /\ Head(w) = w[1]
  <1>1. PICK S : w \in Seq(S)
    BY DEF IsSeq
  <1>2. Tail(w) \in Seq(S)
    BY <1>1
  <1>3. IsSeq(Tail(w))
    BY <1>2, SeqIsSeq
  <1>4. /\ Len(w) \in Nat \ {0} /\ Len(Tail(w)) = Len(w) - 1
        /\ \A i \in 1..(Len(w) - 1) : Tail(w)[i] = w[i + 1]
        /\ Head(w) = w[1]
    BY <1>1
  <1> QED
    BY <1>3, <1>4

LEMMA SeqOfFunction ==
    ASSUME NEW n \in Nat, NEW f, f \in [1..n -> Range(f)]
    PROVE  IsSeq(f) /\ Len(f) = n
  BY DEF IsSeq

LEMMA SeqShort ==
    /\ IsSeq(<<>>)
    /\ \A x : IsSeq(<<x>>) /\ Len(<<x>>) = 1 /\ <<x>>[1] = x
    /\ \A x, y : IsSeq(<<x, y>>)
  BY DEF IsSeq, Range

LEMMA SeqCons ==
    ASSUME NEW x, NEW w, IsSeq(w)
    PROVE  /\ IsSeq(<<x>> \o w) /\ Len(w) \in Nat /\ Len(<<x>> \o w) = 1 + Len(w)
           /\ (<<x>> \o w)[1] = x
           /\ \A i \in 1..Len(w) : (<<x>> \o w)[1 + i] = w[i]
  <1>1. PICK u : u = <<x>> /\ IsSeq(u) /\ Len(u) = 1 /\ u[1] = x
    BY SeqShort
  <1>2. /\ IsSeq(u \o w) /\ Len(w) \in Nat /\ Len(u \o w) = Len(u) + Len(w)
        /\ \A i \in 1..Len(u) : (u \o w)[i] = u[i]
        /\ \A i \in 1..Len(w) : (u \o w)[Len(u) + i] = w[i]
    BY <1>1, SeqConcat
  <1> QED
    BY <1>1, <1>2

-----------------------------------------------------------------------------
LEMMA DataSeq == \A kw \in DOMAIN Data : \A d \in Data[kw] : IsSeq(d)
  <1>1. \A kw \in DOMAIN Data :
           Data[kw] \in {Data.UPS, Data.VAR, Data.RW, Data.CMD, Data.CLIENT, Data.ENUM, Data.RANGE}
    BY DEF Data
  <1>2. \A d \in Data.UPS \cup Data.VAR : IsSeq(d)
    BY SeqShort DEF Data
  <1>3. \A d \in Data.RW \cup Data.RANGE : IsSeq(d)
    BY SeqShort DEF Data
  <1>4. \A d \in Data.CMD \cup Data.CLIENT \cup Data.ENUM : IsSeq(d)
    BY SeqShort DEF Data
  <1> QED
    BY <1>1, <1>2, <1>3, <1>4

LEMMA SessionWords == \A op \in DOMAIN SessionCommands : WellFormed(SessionCommands[op])
  BY DEF SessionCommands, WellFormed

LEMMA GetWords == \A op \in DOMAIN GetCommands : WellFormed(GetCommands[op])
  BY DEF GetCommands, WellFormed

LEMMA ListWords == \A op \in DOMAIN ListCommands : WellFormed(ListCommands[op])
  BY DEF ListCommands, WellFormed, Data

LEMMA LoginWords == \A op \in DOMAIN LoginCommands : WellFormed(LoginCommands[op])
  BY DEF LoginCommands, WellFormed

LEMMA CommandWords == \A op \in DOMAIN Commands : WellFormed(Commands[op])
  <1>1. \A op \in DOMAIN Commands :
          \/ op \in DOMAIN SessionCommands /\ Commands[op] = SessionCommands[op]
          \/ op \in DOMAIN GetCommands /\ Commands[op] = GetCommands[op]
          \/ op \in DOMAIN ListCommands /\ Commands[op] = ListCommands[op]
          \/ op \in DOMAIN LoginCommands /\ Commands[op] = LoginCommands[op]
    BY DEF Commands
  <1> QED
    BY <1>1, SessionWords, GetWords, ListWords, LoginWords

(* A serialised request: tokens, of which the second one of a LIST is its  *)
(* keyword.                                                                *)
LEMMA RequestShape ==
    ASSUME NEW q \in Requests
    PROVE  /\ IsSeq(Serialize(q)) /\ Len(Serialize(q)) \in Nat \ {0}
           /\ Serialize(q)[1].v = "LIST" =>
                /\ Len(Serialize(q)) >= 2
                /\ \E kw \in DOMAIN Data : kw # "END" /\ Serialize(q)[2] = Text(kw)
  <1>1. PICK c : c = Commands[q.op]
    OBVIOUS
  <1>2. PICK ws : ws = [i \in 1..Len(c.words) |-> Text(c.words[i])]
    OBVIOUS
  <1>3. PICK as : as = [i \in 1..Len(c.args) |->
                          IF c.args[i] = "value" THEN Quoted(q.value) ELSE Text(q[c.args[i]])]
    OBVIOUS
  <1>4. Serialize(q) = ws \o as
    BY <1>1, <1>2, <1>3 DEF Serialize
  <1>w. WellFormed(c)
    <2>1. q.op \in DOMAIN Commands
      BY SessionAssumption DEF Requests
    <2> QED
      BY <1>1, <2>1, CommandWords, Zenon
  <1>5. PICK n \in 1..2 : n = Len(c.words)
    BY <1>w, Zenon DEF WellFormed
  <1>6. PICK m \in Nat : m = Len(c.args)
    BY <1>w, Zenon DEF WellFormed
  <1>7. c.words[1] = "LIST" => n = 2 /\ c.words[2] \in DOMAIN Data /\ c.words[2] # "END"
    BY <1>w, <1>5 DEF WellFormed
  <1>8. IsSeq(ws) /\ Len(ws) = n
    <2>1. ws \in [1..n -> Range(ws)]
      BY <1>2, <1>5 DEF Range
    <2> QED
      BY <2>1, SeqOfFunction
  <1>9. IsSeq(as)
    <2>1. as \in [1..m -> Range(as)]
      BY <1>3, <1>6 DEF Range
    <2> QED
      BY <2>1, SeqOfFunction
  <1>10. /\ IsSeq(ws \o as) /\ Len(as) \in Nat /\ Len(ws \o as) = Len(ws) + Len(as)
         /\ \A i \in 1..Len(ws) : (ws \o as)[i] = ws[i]
    BY <1>8, <1>9, SeqConcat
  <1>11. \A i \in 1..n : Serialize(q)[i] = Text(c.words[i])
    BY <1>2, <1>4, <1>5, <1>8, <1>10
  <1>12. Serialize(q)[1].v = c.words[1]
    <2>1. Serialize(q)[1] = Text(c.words[1])
      BY <1>11
    <2> QED
      BY <2>1 DEF Text
  <1>13. IsSeq(Serialize(q)) /\ Len(Serialize(q)) \in Nat /\ Len(Serialize(q)) >= n
    <2>1. IsSeq(Serialize(q)) /\ Len(Serialize(q)) = Len(ws) + Len(as)
      BY <1>4, <1>10, Zenon
    <2>2. PICK k \in Nat : k = Len(as)
      BY <1>10
    <2>3. n + k \in Nat /\ n + k >= n
      OBVIOUS
    <2>4. Len(Serialize(q)) = n + k
      BY <1>8, <2>1, <2>2, Zenon
    <2> QED
      BY <2>1, <2>3, <2>4, Zenon
  <1>14. Serialize(q)[1].v = "LIST" => n = 2 /\ Serialize(q)[2] = Text(c.words[2])
    BY <1>7, <1>11, <1>12
  <1> QED
    BY <1>7, <1>12, <1>13, <1>14

(* What upsd answers to a list is framed as one. *)
LEMMA ListShape ==
    ASSUME NEW r, IsSeq(r), Len(r) >= 2, NEW kw \in DOMAIN Data, kw # "END", r[2] = Text(kw),
           NEW rows \in Lists(kw), NEW w, w = ListAnswer(r, rows).wire
    PROVE  IsSeq(w) /\ BeginsList(w[1]) /\ Framed(w, 2)
  <1>1. PICK rest : rest = Tail(r)
    OBVIOUS
  <1>2. PICK title : title = <<Text("LIST")>> \o rest
    OBVIOUS
  <1>3. PICK first, last : first = <<Text("BEGIN")>> \o title /\ last = <<Text("END")>> \o title
    OBVIOUS
  <1>4. PICK items : items = [i \in 1..Len(rows) |-> rest \o rows[i]]
    OBVIOUS
  <1>5. PICK v : v = <<first>> \o items
    OBVIOUS
  <1>6. w = v \o <<last>>
    BY <1>1, <1>2, <1>3, <1>4, <1>5 DEF ListAnswer
  <1>7. IsSeq(rest) /\ Len(rest) \in Nat \ {0} /\ rest[1] = Text(kw)
    <2>1. Len(r) \in Nat /\ r # <<>>
      BY DEF IsSeq
    <2> QED
      BY <1>1, <2>1, SeqTail
  <1>8. IsSeq(title) /\ Len(title) \in Nat \ {0} /\ title[1] = Text("LIST")
    BY <1>2, <1>7, SeqCons
  <1>9. BeginsList(first)
    <2>1. Len(first) >= 2 /\ first[1] = Text("BEGIN") /\ first[2] = Text("LIST")
      BY <1>3, <1>8, SeqCons
    <2> QED
      BY <2>1 DEF BeginsList, StartsWith, Text
  <1>10. PICK n \in Nat : n = Len(rows) /\ \A i \in 1..n : IsSeq(rows[i])
    <2>1. PICK n \in 0..MaxRows : rows \in [1..n -> Data[kw]]
      BY DEF Lists
    <2>2. n \in Nat /\ Len(rows) = n
      BY <2>1, SessionAssumption
    <2> QED
      BY <2>1, <2>2, DataSeq
  <1>11. IsSeq(items) /\ Len(items) = n
    <2>1. items \in [1..n -> Range(items)]
      BY <1>4, <1>10 DEF Range
    <2> QED
      BY <2>1, SeqOfFunction
  <1>12. ASSUME NEW i \in 1..n PROVE ~EndsList(items[i])
    <2>1. PICK item : item = items[i] /\ item = rest \o rows[i]
      BY <1>4, <1>10
    <2>2. item[1] = Text(kw)
      <3>1. \A j \in 1..Len(rest) : (rest \o rows[i])[j] = rest[j]
        BY <1>7, <1>10, SeqConcat
      <3> QED
        BY <1>7, <2>1, <3>1
    <2>3. item[1].v # "END"
      BY <2>2 DEF Text
    <2>4. ~EndsList(item)
      BY <2>3 DEF EndsList, StartsWith
    <2> QED
      BY <2>1, <2>4
  <1>13. /\ IsSeq(v) /\ Len(v) = 1 + n /\ v[1] = first
         /\ \A i \in 1..n : v[1 + i] = items[i]
    BY <1>5, <1>11, SeqCons
  <1>14. /\ IsSeq(w) /\ Len(w) = n + 2
         /\ \A i \in 1..Len(v) : w[i] = v[i]
    <2>1. PICK u : u = <<last>> /\ IsSeq(u) /\ Len(u) = 1
      BY SeqShort
    <2>2. /\ IsSeq(v \o u) /\ Len(v \o u) = Len(v) + Len(u)
          /\ \A i \in 1..Len(v) : (v \o u)[i] = v[i]
      BY <1>13, <2>1, SeqConcat
    <2> QED
      BY <1>6, <1>13, <2>1, <2>2
  <1>15. Framed(w, 2)
    <2>1. ASSUME NEW i \in 2..(Len(w) - 1) PROVE ~EndsList(w[i])
      <3>1. PICK j \in 1..n : i = 1 + j
        BY <1>14
      <3>2. w[i] = items[j]
        BY <1>13, <1>14, <3>1
      <3> QED
        BY <1>12, <3>2
    <2> QED
      BY <2>1 DEF Framed
  <1> QED
    BY <1>9, <1>13, <1>14, <1>15

(* Whatever upsd answers, it answers with one line or with a list. *)
LEMMA AnswerShape ==
    ASSUME NEW q \in Requests, NEW a \in UpsdAnswers(Serialize(q))
    PROVE  IsSeq(a.wire) /\ OneAnswer(a.wire)
  <1>1. PICK r : r = Serialize(q)
    OBVIOUS
  <1>2. ASSUME NEW x, a.wire = <<x>> PROVE IsSeq(a.wire) /\ OneAnswer(a.wire)
    <2>1. IsSeq(a.wire) /\ Len(a.wire) = 1
      BY <1>2, SeqShort
    <2> QED
      BY <2>1 DEF OneAnswer
  <1>3. CASE r[1].v = "LIST"
    <2>1. a = ErrAnswer \/ \E rows \in Lists(r[2].v) : a = ListAnswer(r, rows)
      BY <1>1, <1>3 DEF UpsdAnswers, Okays
    <2>2. CASE a = ErrAnswer
      BY <1>2, <2>2 DEF ErrAnswer
    <2>3. ASSUME NEW rows \in Lists(r[2].v), a = ListAnswer(r, rows)
          PROVE  IsSeq(a.wire) /\ OneAnswer(a.wire)
      <3>1. IsSeq(r) /\ Len(r) >= 2
        BY <1>1, <1>3, RequestShape
      <3>2. PICK kw \in DOMAIN Data : kw # "END" /\ r[2] = Text(kw)
        BY <1>1, <1>3, RequestShape
      <3>3. r[2].v = kw
        BY <3>2 DEF Text
      <3>4. IsSeq(a.wire) /\ BeginsList(a.wire[1]) /\ Framed(a.wire, 2)
        BY <2>3, <3>1, <3>2, <3>3, ListShape
      <3> QED
        BY <3>4 DEF OneAnswer
    <2> QED
      BY <2>1, <2>2, <2>3
  <1>4. CASE r[1].v # "LIST"
    <2>1. a = ErrAnswer \/ \E line, caps : a = LineAnswer(line, caps)
      BY <1>1, <1>4 DEF UpsdAnswers
    <2>2. CASE a = ErrAnswer
      BY <1>2, <2>2 DEF ErrAnswer
    <2>3. ASSUME NEW line, NEW caps, a = LineAnswer(line, caps)
          PROVE  IsSeq(a.wire) /\ OneAnswer(a.wire)
      <3>1. a.wire = <<line>>
        BY <2>3 DEF LineAnswer
      <3> QED
        BY <1>2, <3>1
    <2> QED
      BY <2>1, <2>2, <2>3
  <1> QED
    BY <1>3, <1>4

(* A connection that is cut leaves the beginning of what was written, of   *)
(* which only the last line may be incomplete.                             *)
LEMMA CutShape ==
    ASSUME NEW w, IsSeq(w), NEW v \in CutWire(w)
    PROVE  /\ IsSeq(v) /\ Len(v) \in Nat /\ Len(w) \in Nat /\ Len(v) <= Len(w)
           /\ \A i \in 1..(Len(v) - 1) : v[i] = w[i]
  <1>1. PICK S : w \in Seq(S)
    BY DEF IsSeq
  <1>2. CASE \E n \in 0..Len(w) : v = SubSeq(w, 1, n)
    <2>1. PICK n \in 0..Len(w) : v = SubSeq(w, 1, n)
      BY <1>2
    <2>2. v \in Seq(S) /\ Len(v) = n /\ \A i \in 1..n : v[i] = w[i]
      BY <1>1, <2>1
    <2>3. IsSeq(v)
      BY <2>2, SeqIsSeq
    <2> QED
      BY <1>1, <2>2, <2>3
  <1>3. CASE \E n \in 1..Len(w) : \E l \in CutLine(w[n]) : v = Append(SubSeq(w, 1, n - 1), l)
    <2>0. PICK n \in 1..Len(w) : \E l \in CutLine(w[n]) : v = Append(SubSeq(w, 1, n - 1), l)
      BY <1>3
    <2>1. PICK l \in CutLine(w[n]) : v = Append(SubSeq(w, 1, n - 1), l)
      BY <2>0
    <2>2. PICK u : u = SubSeq(w, 1, n - 1)
      OBVIOUS
    <2>3. u \in Seq(S) /\ Len(u) = n - 1 /\ \A i \in 1..(n - 1) : u[i] = w[i]
      BY <1>1, <2>2
    <2>4. u \in Seq(S \cup {l})
      BY <2>3
    <2>5. v \in Seq(S \cup {l}) /\ Len(v) = n /\ \A i \in 1..(n - 1) : v[i] = u[i]
      BY <1>1, <2>1, <2>2, <2>3, <2>4
    <2>6. IsSeq(v)
      BY <2>5, SeqIsSeq
    <2> QED
      BY <1>1, <2>3, <2>5, <2>6
  <1> QED
    BY <1>2, <1>3 DEF CutWire

(* The end of a call on a connection with nothing more on it.              *)
LEMMA FinishClean ==
    ASSUME SessionInv, NEW o, NEW res, Finish(o, res), inbox = <<>>, wire' = <<>>
    PROVE  SessionInv'
  <1>1. pc' = "idle" /\ inbox' = <<>> /\ lines' = <<>>
    BY DEF Finish
  <1> QED
    BY <1>1, SeqShort DEF SessionInv

(* The end of a call that gives the connection up.                         *)
LEMMA FinishDown ==
    ASSUME SessionInv, NEW o \in {"gone", "timeout"}, NEW res, Finish(o, res), IsSeq(wire')
    PROVE  SessionInv' /\ link' = "down"
  <1>1. link' = "down"
    BY DEF Finish, LinkAfter
  <1>2. pc' = "idle" /\ inbox' = <<>> /\ lines' = <<>>
    BY <1>1 DEF Finish
  <1> QED
    BY <1>1, <1>2, SeqShort DEF SessionInv

(* Reading one line takes it off the front. *)
LEMMA TailShape ==
    ASSUME NEW w, IsSeq(w), w # <<>>
    PROVE  /\ Framed(w, 1) \/ Framed(w, 2) => Framed(Tail(w), 1)
           /\ Len(w) <= 1 => Tail(w) = <<>>
           /\ Len(w) <= 1 => Framed(Tail(w), 1)
  <1>1. /\ IsSeq(Tail(w)) /\ Len(w) \in Nat \ {0} /\ Len(Tail(w)) = Len(w) - 1
        /\ \A i \in 1..(Len(w) - 1) : Tail(w)[i] = w[i + 1]
    BY SeqTail
  <1>2. ASSUME NEW i \in 1..(Len(Tail(w)) - 1)
        PROVE  /\ i + 1 \in 1..(Len(w) - 1) /\ i + 1 \in 2..(Len(w) - 1)
               /\ Tail(w)[i] = w[i + 1]
    BY <1>1
  <1>3. Framed(w, 1) \/ Framed(w, 2) => Framed(Tail(w), 1)
    BY <1>2 DEF Framed
  <1>4. Len(w) <= 1 => Tail(w) = <<>>
    BY <1>1 DEF IsSeq
  <1>5. Len(w) <= 1 => Framed(Tail(w), 1)
    BY <1>1 DEF Framed
  <1> QED
    BY <1>3, <1>4, <1>5

-----------------------------------------------------------------------------
LEMMA InitSession == Init => SessionInv
  BY SeqShort DEF Init, SessionInv

LEMMA SessionStep == SessionInv /\ [Next]_vars => SessionInv'
  <1> SUFFICES ASSUME SessionInv, [Next]_vars PROVE SessionInv'
    OBVIOUS
  <1>e. Len(<<>>) = 0 /\ IsSeq(<<>>) /\ OneAnswer(<<>>)
    BY SeqShort DEF OneAnswer
  <1>1. CASE Connect
    BY <1>1, <1>e DEF Connect, SessionInv
  <1>2. ASSUME NEW q \in Requests, Send(q) PROVE SessionInv'
    <2>1. inbox = <<>> /\ wire = <<>> /\ wire' = <<>> /\ pc' = "first" /\ call' = q /\ lines' = <<>>
      BY <1>2 DEF Send, Permitted, SessionInv
    <2>2. inbox' = <<>> \/ inbox' = <<Serialize(q)>>
      BY <1>2, <2>1 DEF Send
    <2> QED
      BY <1>e, <2>1, <2>2 DEF SessionInv
  <1>3. CASE ReadLine
    <2>1. /\ inbox = <<>> /\ pc = "first" /\ wire # <<>> /\ wire' = Tail(wire) /\ IsSeq(wire)
          /\ OneAnswer(wire)
      BY <1>3 DEF ReadLine, SessionInv
    <2>2. IsSeq(wire') /\ Len(wire) \in Nat /\ Head(wire) = wire[1]
      BY <2>1, SeqTail
    <2>3. CASE BeginsList(Head(wire))
      <3>1. ~StartsWith(Head(wire), <<"ERR">>)
        BY <2>3 DEF BeginsList, StartsWith
      <3>2. pc' = "list" /\ inbox' = inbox /\ lines' = <<Head(wire)>>
        BY <1>3, <2>3, <3>1 DEF ReadLine, BeginsList
      <3>3. Framed(wire', 1)
        BY <2>1, TailShape DEF OneAnswer
      <3> QED
        BY <2>1, <2>2, <3>2, <3>3, SeqShort DEF SessionInv
    <2>4. CASE ~BeginsList(Head(wire))
      <3>1. wire' = <<>>
        BY <2>1, <2>2, <2>4, TailShape DEF OneAnswer
      <3>2. \E o, res : Finish(o, res)
        BY <1>3, <2>4 DEF ReadLine, BeginsList, Parsed
      <3> QED
        BY <2>1, <3>1, <3>2, FinishClean
    <2> QED
      BY <2>3, <2>4
  <1>4. CASE ReadItem
    <2>1. /\ inbox = <<>> /\ pc = "list" /\ wire # <<>> /\ wire' = Tail(wire) /\ IsSeq(wire)
          /\ Framed(wire, 1) /\ IsSeq(lines)
      BY <1>4 DEF ReadItem, SessionInv
    <2>2. IsSeq(wire') /\ Len(wire) \in Nat \ {0} /\ Head(wire) = wire[1]
      BY <2>1, SeqTail
    <2>3. PICK text : text = Append(lines, Head(wire))
      OBVIOUS
    <2>4. IsSeq(text) /\ text[Len(text)] = Head(wire)
      <3>1. PICK S : lines \in Seq(S)
        BY <2>1 DEF IsSeq
      <3>2. lines \in Seq(S \cup {Head(wire)})
        BY <3>1
      <3>3. text \in Seq(S \cup {Head(wire)}) /\ text[Len(text)] = Head(wire)
        BY <2>3, <3>2
      <3> QED
        BY <3>3, SeqIsSeq
    <2>5. CASE IsEnd(text)
      <3>1. EndsList(wire[1])
        BY <2>2, <2>4, <2>5 DEF IsEnd, EndsList
      <3>2. Len(wire) <= 1
        BY <2>1, <2>2, <3>1 DEF Framed
      <3>3. wire' = <<>>
        BY <2>1, <3>2, TailShape
      <3>4. \E o, res : Finish(o, res)
        BY <1>4, <2>3, <2>5 DEF ReadItem, Parsed
      <3> QED
        BY <2>1, <3>3, <3>4, FinishClean
    <2>6. CASE ~IsEnd(text)
      <3>1. lines' = text /\ pc' = pc /\ inbox' = inbox
        BY <1>4, <2>3, <2>6 DEF ReadItem
      <3>2. Framed(wire', 1)
        BY <2>1, TailShape
      <3> QED
        BY <2>1, <2>2, <2>4, <3>1, <3>2 DEF SessionInv
    <2> QED
      BY <2>5, <2>6
  <1>5. CASE ReadEnd
    BY <1>5, FinishDown DEF ReadEnd, SessionInv
  <1>6. CASE ReadFails
    BY <1>6, <1>e, FinishDown DEF ReadFails
  <1>7. CASE Timeout
    <2>1. IsSeq(wire')
      BY <1>7, <1>e DEF Timeout, SessionInv
    <2> QED
      BY <1>7, <2>1, FinishDown DEF Timeout
  <1>8. CASE Serve
    <2>1. inbox = <<Serialize(call)>> /\ pc = "first" /\ wire = <<>> /\ call \in Requests
      BY <1>8 DEF Serve, SessionInv
    <2>2. Head(inbox) = Serialize(call) /\ Tail(inbox) = <<>>
      BY <2>1
    <2>3. PICK a \in UpsdAnswers(Serialize(call)) : wire' = wire \o a.wire
      BY <1>8, <2>2 DEF Serve
    <2>4. IsSeq(a.wire) /\ OneAnswer(a.wire)
      BY <2>1, <2>3, AnswerShape
    <2>5. wire' = a.wire
      BY <2>1, <2>3, <2>4 DEF IsSeq
    <2>6. inbox' = <<>> /\ pc' = "first" /\ lines' = lines
      BY <1>8, <2>1, <2>2 DEF Serve
    <2> QED
      BY <2>4, <2>5, <2>6 DEF SessionInv
  <1>9. CASE Cut
    <2>1. /\ IsSeq(wire') /\ Len(wire') \in Nat /\ Len(wire) \in Nat /\ Len(wire') <= Len(wire)
          /\ \A i \in 1..(Len(wire') - 1) : wire'[i] = wire[i]
      BY <1>9, CutShape DEF Cut, SessionInv
    <2>2. inbox' = <<>> /\ pc' = pc /\ link' = link /\ lines' = lines
      BY <1>9 DEF Cut
    <2>3. wire = <<>> => wire' = <<>>
      BY <1>e, <2>1 DEF IsSeq
    <2>4. Framed(wire, 1) => Framed(wire', 1)
      BY <2>1 DEF Framed
    <2>5. OneAnswer(wire) => OneAnswer(wire')
      <3>1. Framed(wire, 2) => Framed(wire', 2)
        BY <2>1 DEF Framed
      <3>2. Len(wire') > 1 => wire'[1] = wire[1]
        BY <2>1
      <3> QED
        BY <2>1, <3>1, <3>2 DEF OneAnswer
    <2> QED
      BY <2>1, <2>2, <2>3, <2>4, <2>5 DEF SessionInv
  <1>10. CASE UNCHANGED vars
    BY <1>10 DEF vars, SessionInv
  <1> QED
    BY <1>1, <1>2, <1>3, <1>4, <1>5, <1>6, <1>7, <1>8, <1>9, <1>10 DEF Next

LEMMA SessionAlways == Spec => []SessionInv
  BY InitSession, SessionStep, PTL DEF Spec

-----------------------------------------------------------------------------
(* Whatever a call met, the connection another call may use has no answer  *)
(* left on it and none to come, for any devices, commands and lengths of   *)
(* lists: send and read_response of client_base.rs stay in step with upsd. *)
THEOREM CleanCorrect == Spec => []Clean
  <1>1. SessionInv => Clean
    BY DEF SessionInv, Clean
  <1> QED
    BY <1>1, SessionAlways, PTL

-----------------------------------------------------------------------------
(* Lines and rules, entry by entry. *)
LEMMA SeqSame ==
    ASSUME NEW v, NEW w, IsSeq(v), IsSeq(w), Len(v) = Len(w), \A i \in 1..Len(v) : v[i] = w[i]
    PROVE  v = w
  <1>1. PICK S, T : v \in Seq(S) /\ w \in Seq(T)
    BY DEF IsSeq
  <1>2. PICK n \in Nat : n = Len(v) /\ n = Len(w)
    BY <1>1
  <1>3. DOMAIN v = 1..n /\ DOMAIN w = 1..n
    BY <1>1, <1>2
  <1>4. v = [i \in 1..n |-> v[i]] /\ w = [i \in 1..n |-> w[i]]
    BY <1>1, <1>2, <1>3
  <1>5. [i \in 1..n |-> v[i]] = [i \in 1..n |-> w[i]]
    BY <1>2
  <1> QED
    BY <1>4, <1>5, Zenon

(* One sequence after another. *)
IsJoin(u, v, w) ==
    /\ IsSeq(u) /\ Len(v) \in Nat /\ Len(w) \in Nat /\ Len(u) = Len(v) + Len(w)
    /\ \A i \in 1..Len(v) : u[i] = v[i]
    /\ \A i \in 1..Len(w) : u[Len(v) + i] = w[i]

LEMMA JoinIs == ASSUME NEW v, NEW w, IsSeq(v), IsSeq(w) PROVE IsJoin(v \o w, v, w)
  <1>1. PICK u : u = v \o w
    OBVIOUS
  <1>2. IsJoin(u, v, w)
    BY <1>1, SeqConcat DEF IsJoin
  <1> QED
    BY <1>1, <1>2, Zenon

LEMMA PairIs ==
    ASSUME NEW x, NEW y, NEW w, w = <<x, y>>
    PROVE  IsSeq(w) /\ Len(w) = 2 /\ w[1] = x /\ w[2] = y
  <1>1. IsSeq(w)
    BY SeqShort, Zenon
  <1>2. Len(w) = 2 /\ w[1] = x /\ w[2] = y
    OBVIOUS
  <1> QED
    BY <1>1, <1>2, Zenon

LEMMA SingleIs ==
    ASSUME NEW w, IsSeq(w), Len(w) = 1
    PROVE  w = <<w[1]>>
  <1>1. PICK s : s = <<w[1]>> /\ IsSeq(s) /\ Len(s) = 1 /\ s[1] = w[1]
    BY SeqShort
  <1>2. PICK n \in Nat : n = 1
    OBVIOUS
  <1>3. \A i \in 1..n : w[i] = s[i]
    BY <1>1, <1>2
  <1>4. Len(w) = n /\ Len(s) = n
    BY <1>1, <1>2, Zenon
  <1>5. w = s
    BY <1>1, <1>3, <1>4, SeqSame, Zenon
  <1> QED
    BY <1>1, <1>5, Zenon

(* The words of a rule are counted. *)
LEMMA WordsAre ==
    ASSUME NEW rules, Len(rules) \in Nat, NEW n \in 0..Len(rules),
           \A i \in 1..n : rules[i].m = "word",
           \A i \in (n + 1)..Len(rules) : rules[i].m # "word"
    PROVE  Words(rules) = n
  <1>1. PICK len \in Nat : len = Len(rules)
    BY Zenon
  <1> DEFINE P(k) == /\ \A i \in 1..k : rules[i].m = "word"
                     /\ \A i \in (k + 1)..len : rules[i].m # "word"
  <1>2. Words(rules) = CHOOSE k \in 0..len : P(k)
    BY <1>1, Zenon DEF Words
  <1>3. n \in 0..len /\ P(n)
    BY <1>1
  <1>4. ASSUME NEW k \in 0..len, P(k) PROVE k = n
    <2>1. k < n => FALSE
      <3>1. SUFFICES ASSUME k < n PROVE FALSE
        OBVIOUS
      <3>2. k + 1 \in 1..n /\ k + 1 \in (k + 1)..len
        BY <1>3, <3>1
      <3> QED
        BY <1>3, <1>4, <3>2
    <2>2. n < k => FALSE
      <3>1. SUFFICES ASSUME n < k PROVE FALSE
        OBVIOUS
      <3>2. n + 1 \in 1..k /\ n + 1 \in (n + 1)..len
        BY <1>3, <3>1
      <3> QED
        BY <1>3, <1>4, <3>2
    <2> QED
      BY <1>3, <2>1, <2>2
  <1> HIDE DEF P
  <1> QED
    BY <1>2, <1>3, <1>4

(* What each kind of rule takes. *)
LEMMA FitsWord == ASSUME NEW t, NEW w PROVE Fits(t, Word(w)) <=> t = Text(w)
  BY DEF Fits, Word, CmpLiteral

LEMMA FitsKinds ==
    ASSUME NEW t
    PROVE  /\ Fits(t, UPS) <=> t.k = "text"
           /\ Fits(t, VAR) <=> t.k = "text" /\ t.v # Odd
           /\ Fits(t, CMD) <=> t.k = "text" /\ t.v # Odd
           /\ Fits(t, IP) <=> t.k = "text" /\ t.v # Odd
           /\ Fits(t, QUOTED_TEXT) <=> t.k = "quoted"
           /\ Fits(t, NUM_VALUE) <=> t.k = "quoted" /\ t.v # Odd
  <1>1. Fits(t, UPS) <=> t.k = "text"
    BY DEF Fits, UPS, ExtractUpsName
  <1>2. Fits(t, VAR) <=> t.k = "text" /\ t.v # Odd
    BY DEF Fits, VAR, ExtractVarName
  <1>3. Fits(t, CMD) <=> t.k = "text" /\ t.v # Odd
    BY DEF Fits, CMD, ExtractCmdName
  <1>4. Fits(t, IP) <=> t.k = "text" /\ t.v # Odd
    BY DEF Fits, IP, ParseIp
  <1>5. Fits(t, QUOTED_TEXT) <=> t.k = "quoted"
    BY DEF Fits, QUOTED_TEXT, ExtractQuotedText
  <1>6. Fits(t, NUM_VALUE) <=> t.k = "quoted" /\ t.v # Odd
    BY DEF Fits, NUM_VALUE, ExtractNumericValue
  <1> QED
    BY <1>1, <1>2, <1>3, <1>4, <1>5, <1>6

(* No word: a rule that captures. *)
LEMMA RuleKinds ==
    /\ \A w : Word(w).m = "word" /\ Word(w).v = w
    /\ \A r \in {UPS, VAR, CMD, IP, QUOTED_TEXT, NUM_VALUE} : r.m # "word"
    /\ QUOTED_TEXT.m = "quoted"
  BY DEF Word, UPS, VAR, CMD, IP, QUOTED_TEXT, NUM_VALUE

LEMMA TokenKinds ==
    ASSUME NEW v
    PROVE  /\ Text(v).k = "text" /\ Text(v).v = v
           /\ Quoted(v).k = "quoted" /\ Quoted(v).v = v
           /\ Unclosed(v).k = "open"
  BY DEF Text, Quoted, Unclosed

(* A line that a rule takes, and what it yields. *)
LEMMA CapturedAre ==
    ASSUME NEW line, NEW rules, Len(rules) \in Nat, NEW n \in 0..Len(rules), Words(rules) = n
    PROVE  Captured(line, rules) = [i \in 1..(Len(rules) - n) |-> line[n + i].v]
  BY Zenon DEF Captured

-----------------------------------------------------------------------------
(* A line of which the end is missing. *)
LEMMA CutLineShape ==
    ASSUME NEW full, IsSeq(full), NEW l \in CutLine(full)
    PROVE  /\ IsSeq(l) /\ Len(full) \in Nat /\ Len(l) \in 1..Len(full)
           /\ \A i \in 1..(Len(l) - 1) : l[i] = full[i]
           /\ l[Len(l)] = full[Len(l)] \/ l[Len(l)] \in Torn(full[Len(l)])
  <1>1. PICK S : full \in Seq(S)
    BY DEF IsSeq
  <1>2. CASE \E n \in 1..Len(full) : l = SubSeq(full, 1, n)
    <2>1. PICK n \in 1..Len(full) : l = SubSeq(full, 1, n)
      BY <1>2
    <2>2. l \in Seq(S) /\ Len(l) = n /\ \A i \in 1..n : l[i] = full[i]
      BY <1>1, <2>1
    <2>3. IsSeq(l)
      BY <2>2, SeqIsSeq
    <2> QED
      BY <1>1, <2>2, <2>3
  <1>3. CASE \E n \in 1..Len(full) : \E t \in Torn(full[n]) : l = Append(SubSeq(full, 1, n - 1), t)
    <2>0. PICK n \in 1..Len(full) : \E t \in Torn(full[n]) : l = Append(SubSeq(full, 1, n - 1), t)
      BY <1>3
    <2>1. PICK t \in Torn(full[n]) : l = Append(SubSeq(full, 1, n - 1), t)
      BY <2>0
    <2>2. PICK u : u = SubSeq(full, 1, n - 1)
      OBVIOUS
    <2>3. u \in Seq(S) /\ Len(u) = n - 1 /\ \A i \in 1..(n - 1) : u[i] = full[i]
      BY <1>1, <2>2
    <2>4. u \in Seq(S \cup {t})
      BY <2>3
    <2>5. l \in Seq(S \cup {t}) /\ Len(l) = n /\ l[n] = t /\ \A i \in 1..(n - 1) : l[i] = u[i]
      BY <1>1, <2>1, <2>2, <2>3, <2>4
    <2>6. IsSeq(l)
      BY <2>5, SeqIsSeq
    <2> QED
      BY <1>1, <2>3, <2>5, <2>6
  <1> QED
    BY <1>2, <1>3 DEF CutLine

(* A part of a token is never the word it was, nor a quoted text. *)
LEMMA TornToken ==
    /\ \A v : \A t \in Torn(Text(v)) : t = Text("~") \/ t = Text("STRING:3")
    /\ \A v : \A t \in Torn(Quoted(v)) : t.k = "open"
    /\ \A v : v \notin {"~", "STRING:3"} => \A t \in Torn(Text(v)) : t # Text(v)
  BY DEF Torn, Text, Quoted, Unclosed

(* An answer of one line as its rules take it: the last token shows        *)
(* whether the line is whole.                                              *)
Whole(full, rules, caps) ==
    /\ IsSeq(full) /\ IsSeq(rules) /\ Len(full) \in Nat \ {0} /\ Len(rules) = Len(full)
    /\ \A i \in 1..Len(full) : Fits(full[i], rules[i])
    /\ \E w : rules[1] = Word(w) /\ w \notin {"~", "ERR", "BEGIN"}
    /\ \/ rules[Len(full)].m = "word"
       \/ rules[Len(full)].m = "quoted" /\ \E v : full[Len(full)] = Quoted(v)
    /\ Captured(full, rules) = caps

LEMMA WholeParses ==
    ASSUME NEW full, NEW rules, NEW caps, Whole(full, rules, caps)
    PROVE  /\ ParseOne(<<full>>, rules) = Got(<<caps>>)
           /\ ~StartsWith(full, <<"ERR">>) /\ ~StartsWith(full, <<"BEGIN", "LIST">>)
  <1>1. ParseLine(full, rules)
    BY DEF Whole, ParseLine, EndParser
  <1>2. Len(<<full>>) = 1 /\ <<full>>[1] = full
    BY SeqShort, Zenon
  <1>3. ParseOne(<<full>>, rules) = Got(<<Captured(full, rules)>>)
    BY <1>1, <1>2, Zenon DEF ParseOne
  <1>4. Captured(full, rules) = caps
    BY DEF Whole
  <1>5. full[1].v \notin {"ERR", "BEGIN"}
    <2>1. PICK w : rules[1] = Word(w) /\ w \notin {"~", "ERR", "BEGIN"}
      BY DEF Whole
    <2>2. Fits(full[1], rules[1])
      BY DEF Whole
    <2>3. full[1] = Text(w)
      BY <2>1, <2>2, FitsWord, ZenonT(40)
    <2>4. full[1].v = w
      BY <2>3, TokenKinds, Zenon
    <2> QED
      BY <2>1, <2>4
  <1>6. ~StartsWith(full, <<"ERR">>) /\ ~StartsWith(full, <<"BEGIN", "LIST">>)
    BY <1>5 DEF StartsWith
  <1> QED
    BY <1>3, <1>4, <1>6, Zenon

(* Cut off, such a line is refused. *)
LEMMA CutParses ==
    ASSUME NEW full, NEW rules, NEW caps, Whole(full, rules, caps), NEW l \in CutLine(full),
           ParseLine(l, rules)
    PROVE  l = full
  <1>1. PICK n \in Nat \ {0} : n = Len(full) /\ n = Len(rules)
    BY Zenon DEF Whole
  <1>2. /\ IsSeq(l) /\ Len(l) \in 1..n
        /\ \A i \in 1..(Len(l) - 1) : l[i] = full[i]
        /\ l[Len(l)] = full[Len(l)] \/ l[Len(l)] \in Torn(full[Len(l)])
    BY <1>1, CutLineShape DEF Whole
  <1>3. Len(l) = n /\ Fits(l[n], rules[n]) /\ Fits(full[n], rules[n])
    BY <1>1 DEF ParseLine, EndParser, Whole
  <1>4. l[n] = full[n]
    <2>1. CASE rules[n].m = "word"
      <3>1. \A t : Fits(t, rules[n]) => t = Text(rules[n].v)
        BY <2>1 DEF Fits, CmpLiteral
      <3> QED
        BY <1>3, <3>1, Zenon
    <2>2. CASE rules[n].m = "quoted" /\ \E v : full[n] = Quoted(v)
      <3>1. l[n].k = "quoted"
        BY <1>3, <2>2 DEF Fits, ExtractQuotedText
      <3>2. PICK v : full[n] = Quoted(v)
        BY <2>2
      <3>3. \A t \in Torn(Quoted(v)) : t.k = "open"
        BY TornToken, Zenon
      <3>4. l[n] \in Torn(full[n]) => l[n].k = "open"
        BY <3>2, <3>3, Zenon
      <3>5. l[n] = full[n] \/ l[n] \in Torn(full[n])
        BY <1>2, <1>3, Zenon
      <3> QED
        BY <3>1, <3>4, <3>5
    <2> QED
      BY <1>1, <2>1, <2>2 DEF Whole
  <1>5. \A i \in 1..n : l[i] = full[i]
    BY <1>2, <1>3, <1>4
  <1> QED
    BY <1>1, <1>2, <1>3, <1>5, SeqSame DEF Whole

(* What is left of an error line is no answer of one line. *)
LEMMA CutError ==
    ASSUME NEW l \in CutLine(ErrAnswer.wire[1])
    PROVE  StartsWith(l, <<"ERR">>) \/ l[1] = Text("~")
  <1>1. PICK full : full = <<Text("ERR"), Text("DATA-STALE")>>
    OBVIOUS
  <1>2. ErrAnswer.wire[1] = full
    BY <1>1 DEF ErrAnswer
  <1>3. IsSeq(full) /\ full[1] = Text("ERR")
    BY <1>1, SeqShort
  <1>4. /\ IsSeq(l) /\ Len(full) \in Nat /\ Len(l) \in 1..Len(full)
        /\ \A i \in 1..(Len(l) - 1) : l[i] = full[i]
        /\ l[Len(l)] = full[Len(l)] \/ l[Len(l)] \in Torn(full[Len(l)])
    BY <1>2, <1>3, CutLineShape
  <1>5. l[1] = full[1] \/ l[1] \in Torn(full[1])
    <2>1. CASE Len(l) = 1
      BY <1>4, <2>1, Zenon
    <2>2. CASE Len(l) # 1
      BY <1>4, <2>2
    <2> QED
      BY <2>1, <2>2
  <1>6. \A t \in Torn(Text("ERR")) : t = Text("~")
    BY DEF Torn, Text
  <1>7. l[1] = Text("ERR") \/ l[1] = Text("~")
    BY <1>3, <1>5, <1>6, Zenon
  <1>8. l[1] = Text("ERR") => StartsWith(l, <<"ERR">>)
    BY <1>4 DEF StartsWith, Text
  <1> QED
    BY <1>7, <1>8

LEMMA ErrorParses ==
    ASSUME NEW rules, NEW w, rules[1] = Word(w), w # "~", Len(rules) \in Nat \ {0},
           NEW l, l[1] = Text("~")
    PROVE  ParseOne(<<l>>, rules) = Fail
  <1>2. ~Fits(l[1], rules[1])
    <2>1. Text("~") # Text(w)
      BY DEF Text
    <2> QED
      BY <2>1, FitsWord
  <1>3. 1 \in 1..Len(rules)
    OBVIOUS
  <1>4. ~ParseLine(l, rules)
    BY <1>2, <1>3 DEF ParseLine
  <1>5. <<l>>[1] = l
    OBVIOUS
  <1> QED
    BY <1>4, <1>5 DEF ParseOne

-----------------------------------------------------------------------------
(* Requests: a keyword and names follow the first word of GET and LIST.    *)
IsRequest(r, w, kw, names) ==
    /\ IsSeq(r) /\ IsSeq(names) /\ Len(names) \in Nat /\ Len(r) = 2 + Len(names)
    /\ r[1] = Text(w) /\ r[2] = Text(kw)
    /\ \A i \in 1..Len(names) : r[2 + i] = Text(names[i])

Entries(q, c, n, m) ==
    /\ IsSeq(Serialize(q)) /\ Len(Serialize(q)) = n + m
    /\ \A i \in 1..n : Serialize(q)[i] = Text(c.words[i])
    /\ \A i \in 1..m : c.args[i] # "value" => Serialize(q)[n + i] = Text(q[c.args[i]])

LEMMA RequestEntries ==
    ASSUME NEW q \in Requests, NEW c, c = Commands[q.op], NEW n \in Nat, n = Len(c.words),
           NEW m \in Nat, m = Len(c.args)
    PROVE  Entries(q, c, n, m)
  <1>2. PICK ws : ws = [i \in 1..n |-> Text(c.words[i])]
    OBVIOUS
  <1>3. PICK as : as = [i \in 1..m |->
                          IF c.args[i] = "value" THEN Quoted(q.value) ELSE Text(q[c.args[i]])]
    OBVIOUS
  <1>4. Serialize(q) = ws \o as
    BY <1>2, <1>3, Zenon DEF Serialize
  <1>8. IsSeq(ws) /\ Len(ws) = n
    <2>1. ws \in [1..n -> Range(ws)]
      BY <1>2 DEF Range
    <2> QED
      BY <2>1, SeqOfFunction
  <1>9. IsSeq(as) /\ Len(as) = m
    <2>1. as \in [1..m -> Range(as)]
      BY <1>3 DEF Range
    <2> QED
      BY <2>1, SeqOfFunction
  <1>10. /\ IsSeq(ws \o as) /\ Len(ws \o as) = Len(ws) + Len(as)
         /\ \A i \in 1..Len(ws) : (ws \o as)[i] = ws[i]
         /\ \A i \in 1..Len(as) : (ws \o as)[Len(ws) + i] = as[i]
    <2>1. IsJoin(ws \o as, ws, as)
      BY <1>8, <1>9, JoinIs, Zenon
    <2> QED
      BY <2>1, Zenon DEF IsJoin
  <1>11. \A i \in 1..n : ws[i] = Text(c.words[i])
    BY <1>2
  <1>12. \A i \in 1..m : c.args[i] # "value" => as[i] = Text(q[c.args[i]])
    BY <1>3
  <1>13. \A i \in 1..n : Serialize(q)[i] = ws[i]
    BY <1>4, <1>8, <1>10, Zenon
  <1>14. \A i \in 1..m : Serialize(q)[n + i] = as[i]
    BY <1>4, <1>8, <1>9, <1>10, Zenon
  <1> QED
    BY <1>4, <1>8, <1>9, <1>10, <1>11, <1>12, <1>13, <1>14, Zenon DEF Entries

LEMMA BareRequest ==
    ASSUME NEW q \in Requests, NEW w, NEW kw, Commands[q.op] = [words |-> <<w, kw>>, args |-> <<>>]
    PROVE  IsRequest(Serialize(q), w, kw, <<>>)
  <1>1. PICK c : c = Commands[q.op]
    OBVIOUS
  <1>2. Len(c.words) = 2 /\ Len(c.args) = 0 /\ c.words[1] = w /\ c.words[2] = kw
    BY <1>1
  <1>n. 0 \in Nat /\ 1 \in Nat /\ 2 \in Nat
    OBVIOUS
  <1>0. Entries(q, c, 2, 0)
    BY <1>n, <1>1, <1>2, RequestEntries, Zenon
  <1>3. /\ IsSeq(Serialize(q)) /\ Len(Serialize(q)) = 2 + 0
        /\ \A i \in 1..2 : Serialize(q)[i] = Text(c.words[i])
    BY <1>0 DEF Entries
  <1>4. Serialize(q)[1] = Text(w) /\ Serialize(q)[2] = Text(kw)
    BY <1>2, <1>3
  <1>5. IsSeq(<<>>) /\ Len(<<>>) = 0
    BY SeqShort
  <1> QED
    BY <1>3, <1>4, <1>5 DEF IsRequest

LEMMA DeviceRequest ==
    ASSUME NEW q \in Requests, NEW w, NEW kw,
           Commands[q.op] = [words |-> <<w, kw>>, args |-> <<"ups">>]
    PROVE  IsRequest(Serialize(q), w, kw, <<q.ups>>)
  <1>1. PICK c : c = Commands[q.op]
    OBVIOUS
  <1>2. /\ Len(c.words) = 2 /\ Len(c.args) = 1 /\ c.words[1] = w /\ c.words[2] = kw
        /\ c.args[1] = "ups"
    BY <1>1
  <1>n. 0 \in Nat /\ 1 \in Nat /\ 2 \in Nat
    OBVIOUS
  <1>0. Entries(q, c, 2, 1)
    BY <1>n, <1>1, <1>2, RequestEntries, Zenon
  <1>3. /\ IsSeq(Serialize(q)) /\ Len(Serialize(q)) = 2 + 1
        /\ \A i \in 1..2 : Serialize(q)[i] = Text(c.words[i])
        /\ \A i \in 1..1 : c.args[i] # "value" => Serialize(q)[2 + i] = Text(q[c.args[i]])
    BY <1>0 DEF Entries
  <1>4. /\ Serialize(q)[1] = Text(w) /\ Serialize(q)[2] = Text(kw)
        /\ Serialize(q)[2 + 1] = Text(q.ups)
    BY <1>2, <1>3
  <1>5. PICK names : names = <<q.ups>> /\ IsSeq(names) /\ Len(names) = 1 /\ names[1] = q.ups
    BY SeqShort
  <1>6. IsRequest(Serialize(q), w, kw, names)
    BY <1>3, <1>4, <1>5 DEF IsRequest
  <1> QED
    BY <1>5, <1>6, Zenon

LEMMA NamedRequest ==
    ASSUME NEW q \in Requests, NEW w, NEW kw,
           Commands[q.op] = [words |-> <<w, kw>>, args |-> <<"ups", "name">>]
    PROVE  IsRequest(Serialize(q), w, kw, <<q.ups, "n">>)
  <1>1. PICK c : c = Commands[q.op]
    OBVIOUS
  <1>2. /\ Len(c.words) = 2 /\ Len(c.args) = 2 /\ c.words[1] = w /\ c.words[2] = kw
        /\ c.args[1] = "ups" /\ c.args[2] = "name"
    BY <1>1
  <1>n. 0 \in Nat /\ 1 \in Nat /\ 2 \in Nat
    OBVIOUS
  <1>0. Entries(q, c, 2, 2)
    BY <1>n, <1>1, <1>2, RequestEntries, Zenon
  <1>3. /\ IsSeq(Serialize(q)) /\ Len(Serialize(q)) = 2 + 2
        /\ \A i \in 1..2 : Serialize(q)[i] = Text(c.words[i])
        /\ \A i \in 1..2 : c.args[i] # "value" => Serialize(q)[2 + i] = Text(q[c.args[i]])
    BY <1>0 DEF Entries
  <1>4. /\ Serialize(q)[1] = Text(w) /\ Serialize(q)[2] = Text(kw)
        /\ Serialize(q)[2 + 1] = Text(q.ups) /\ Serialize(q)[2 + 2] = Text(q.name)
    BY <1>2, <1>3
  <1>5. q.name = "n"
    BY DEF Requests
  <1>6. PICK names : /\ names = <<q.ups, "n">> /\ IsSeq(names) /\ Len(names) = 2
                     /\ names[1] = q.ups /\ names[2] = "n"
    <2>1. PICK n : n = "n"
      OBVIOUS
    <2>2. PICK names : names = <<q.ups, n>>
      OBVIOUS
    <2>3. IsSeq(names) /\ Len(names) = 2 /\ names[1] = q.ups /\ names[2] = n
      BY <2>2, PairIs
    <2> QED
      BY <2>1, <2>2, <2>3, Zenon
  <1>7. IsRequest(Serialize(q), w, kw, names)
    BY <1>3, <1>4, <1>5, <1>6 DEF IsRequest
  <1> QED
    BY <1>6, <1>7, Zenon

(* The table of the commands. *)
LEMMA CommandIs ==
    /\ \A op \in DOMAIN GetCommands : op \in DOMAIN Commands /\ Commands[op] = GetCommands[op]
    /\ \A op \in DOMAIN ListCommands : op \in DOMAIN Commands /\ Commands[op] = ListCommands[op]
    /\ \A op \in DOMAIN LoginCommands : op \in DOMAIN Commands /\ Commands[op] = LoginCommands[op]
    /\ \A op \in DOMAIN SessionCommands : op \in DOMAIN Commands /\ Commands[op] = SessionCommands[op]
  <1>1. DOMAIN GetCommands = {"GetCmdDesc", "GetVarDesc", "GetVarType", "GetUpsDesc", "GetVar", "InstCmd"}
    BY DEF GetCommands
  <1>2. DOMAIN ListCommands = {"ListClient", "ListCmd", "ListVar", "ListEnum", "ListRange",
                               "ListRw", "ListUps"}
    BY DEF ListCommands
  <1>3. DOMAIN LoginCommands = {"Password", "Username", "SetVariable", "GetDaemonVer",
                                "GetProtVer", "StartTls"}
    BY DEF LoginCommands
  <1>4. DOMAIN SessionCommands = {"AttachCommand", "DetachCommand", "FsdCommand"}
    BY DEF SessionCommands
  <1> QED
    BY <1>1, <1>2, <1>3, <1>4 DEF Commands

(* A line of the answer to such a request: the keyword, the names, data.   *)
ItemAt(l, kw, names, row) ==
    /\ IsSeq(l) /\ Len(row) \in Nat /\ Len(names) \in Nat /\ Len(l) = (1 + Len(names)) + Len(row)
    /\ l[1] = Text(kw)
    /\ \A i \in 1..Len(names) : l[1 + i] = Text(names[i])
    /\ \A j \in 1..Len(row) : l[(1 + Len(names)) + j] = row[j]

(* The first and the last line of a list. *)
TitleAt(l, b, kw, names) ==
    /\ IsSeq(l) /\ Len(names) \in Nat /\ Len(l) = 3 + Len(names)
    /\ l[1] = Text(b) /\ l[2] = Text("LIST") /\ l[3] = Text(kw)
    /\ \A i \in 1..Len(names) : l[3 + i] = Text(names[i])

TailAt(u, kw, names) ==
    /\ IsSeq(u) /\ Len(names) \in Nat /\ Len(u) = 1 + Len(names) /\ u[1] = Text(kw)
    /\ \A i \in 1..Len(names) : u[1 + i] = Text(names[i])

LEMMA RequestTail ==
    ASSUME NEW r, NEW w, NEW kw, NEW names, IsRequest(r, w, kw, names), NEW u, u = Tail(r)
    PROVE  TailAt(u, kw, names)
  <1>1. IsSeq(r) /\ Len(names) \in Nat /\ Len(r) = 2 + Len(names) /\ r # <<>>
    <2>1. IsSeq(r) /\ Len(names) \in Nat /\ Len(r) = 2 + Len(names)
      BY DEF IsRequest
    <2>2. Len(<<>>) = 0
      OBVIOUS
    <2> QED
      BY <2>1, <2>2
  <1>2. /\ IsSeq(u) /\ Len(u) = Len(r) - 1
        /\ \A i \in 1..(Len(r) - 1) : u[i] = r[i + 1]
    BY <1>1, SeqTail
  <1>3. u[1] = Text(kw)
    BY <1>1, <1>2 DEF IsRequest
  <1>4. ASSUME NEW i \in 1..Len(names) PROVE u[1 + i] = Text(names[i])
    <2>1. 1 + i \in 1..(Len(r) - 1) /\ (1 + i) + 1 = 2 + i
      BY <1>1
    <2>2. u[1 + i] = r[2 + i]
      BY <1>2, <2>1
    <2> QED
      BY <2>2 DEF IsRequest
  <1> QED
    BY <1>1, <1>2, <1>3, <1>4 DEF TailAt

LEMMA ItemLine ==
    ASSUME NEW r, NEW w, NEW kw, NEW names, IsRequest(r, w, kw, names), NEW row, IsSeq(row)
    PROVE  ItemAt(Tail(r) \o row, kw, names, row)
  <1>1. PICK u : u = Tail(r)
    OBVIOUS
  <1>2. PICK l : l = u \o row
    OBVIOUS
  <1>3. /\ IsSeq(u) /\ Len(names) \in Nat /\ Len(u) = 1 + Len(names) /\ u[1] = Text(kw)
        /\ \A i \in 1..Len(names) : u[1 + i] = Text(names[i])
    <2>1. TailAt(u, kw, names)
      BY <1>1, RequestTail
    <2> QED
      BY <2>1, Zenon DEF TailAt
  <1>4. IsJoin(l, u, row)
    BY <1>2, <1>3, JoinIs
  <1>5. ItemAt(l, kw, names, row)
    BY <1>3, <1>4 DEF IsJoin, ItemAt
  <1> QED
    BY <1>1, <1>2, <1>5, Zenon

LEMMA TitleLine ==
    ASSUME NEW r, NEW w, NEW kw, NEW names, IsRequest(r, w, kw, names), NEW b
    PROVE  TitleAt(<<Text(b)>> \o (<<Text("LIST")>> \o Tail(r)), b, kw, names)
  <1>1. PICK u : u = Tail(r)
    OBVIOUS
  <1>2. PICK t : t = <<Text("LIST")>> \o u
    OBVIOUS
  <1>3. PICK l : l = <<Text(b)>> \o t
    OBVIOUS
  <1>4. /\ IsSeq(u) /\ Len(names) \in Nat /\ Len(u) = 1 + Len(names) /\ u[1] = Text(kw)
        /\ \A i \in 1..Len(names) : u[1 + i] = Text(names[i])
    <2>1. TailAt(u, kw, names)
      BY <1>1, RequestTail
    <2> QED
      BY <2>1, Zenon DEF TailAt
  <1>5. /\ IsSeq(t) /\ Len(t) = 1 + Len(u) /\ t[1] = Text("LIST")
        /\ \A i \in 1..Len(u) : t[1 + i] = u[i]
    BY <1>2, <1>4, SeqCons
  <1>6. /\ IsSeq(l) /\ Len(l) = 1 + Len(t) /\ l[1] = Text(b)
        /\ \A i \in 1..Len(t) : l[1 + i] = t[i]
    BY <1>3, <1>5, SeqCons
  <1>7. Len(l) = 3 + Len(names) /\ l[2] = Text("LIST") /\ l[3] = Text(kw)
    BY <1>4, <1>5, <1>6
  <1>8. ASSUME NEW i \in 1..Len(names) PROVE l[3 + i] = Text(names[i])
    <2>1. l[1 + (2 + i)] = t[2 + i] /\ t[1 + (1 + i)] = u[1 + i]
      BY <1>4, <1>5, <1>6
    <2>2. 1 + (2 + i) = 3 + i /\ 1 + (1 + i) = 2 + i
      OBVIOUS
    <2> QED
      BY <1>4, <2>1, <2>2
  <1>9. TitleAt(l, b, kw, names)
    BY <1>4, <1>6, <1>7, <1>8 DEF TitleAt
  <1> QED
    BY <1>1, <1>2, <1>3, <1>9, Zenon

(* The names of a request, and with the data of a line. *)
LEMMA RequestNames ==
    ASSUME NEW r, NEW w, NEW kw, NEW names, IsRequest(r, w, kw, names), NEW u,
           u = SubSeq(r, 3, Len(r))
    PROVE  /\ IsSeq(u) /\ Len(u) = Len(names) /\ \A i \in 1..Len(names) : u[i] = Text(names[i])
           /\ Strings(u) = names
  <1>1. PICK n \in Nat : n = Len(names) /\ Len(r) = 2 + n
    BY Zenon DEF IsRequest
  <1>2. PICK S : r \in Seq(S)
    BY DEF IsRequest, IsSeq
  <1>3. u \in Seq(S) /\ Len(u) = n /\ \A i \in 1..n : u[i] = r[2 + i]
    BY <1>1, <1>2
  <1>4. IsSeq(u)
    BY <1>3, SeqIsSeq
  <1>5. \A i \in 1..n : u[i] = Text(names[i])
    BY <1>1, <1>3 DEF IsRequest
  <1>6. Strings(u) = names
    <2>1. PICK s : s = [i \in 1..n |-> u[i].v]
      OBVIOUS
    <2>2. Strings(u) = s
      BY <1>3, <2>1, Zenon DEF Strings
    <2>3. \A i \in 1..n : s[i] = names[i]
      <3>1. \A i \in 1..n : Text(names[i]).v = names[i]
        BY TokenKinds
      <3>2. \A i \in 1..n : s[i] = u[i].v
        BY <2>1
      <3> QED
        BY <1>5, <3>1, <3>2
    <2>4. IsSeq(s) /\ Len(s) = n
      <3>1. s \in [1..n -> Range(s)]
        BY <2>1 DEF Range
      <3> QED
        BY <3>1, SeqOfFunction
    <2>5. s = names
      BY <1>1, <2>3, <2>4, SeqSame DEF IsRequest
    <2> QED
      BY <2>2, <2>5
  <1> QED
    BY <1>1, <1>3, <1>4, <1>5, <1>6

(* An answer to GET: the line that was asked for, ended by a quoted text.  *)
GetRules(rules, kw, names) ==
    /\ IsSeq(rules) /\ Len(rules) = 2 + Len(names)
    /\ rules[1] = Word(kw) /\ kw \notin {"~", "ERR", "BEGIN"}
    /\ \A i \in 1..Len(names) : Fits(Text(names[i]), rules[1 + i]) /\ rules[1 + i].m # "word"
    /\ rules[2 + Len(names)] = QUOTED_TEXT

LEMMA GetWhole ==
    ASSUME NEW r, NEW w, NEW kw, NEW names, IsRequest(r, w, kw, names), NEW v,
           NEW rules, GetRules(rules, kw, names)
    PROVE  Whole(Tail(r) \o <<Quoted(v)>>, rules, Strings(SubSeq(r, 3, Len(r)) \o <<Quoted(v)>>))
  <1>1. PICK d : d = <<Quoted(v)>> /\ IsSeq(d) /\ Len(d) = 1 /\ d[1] = Quoted(v)
    BY SeqShort
  <1>2. PICK full : full = Tail(r) \o d
    OBVIOUS
  <1>3. ItemAt(full, kw, names, d)
    BY <1>1, <1>2, ItemLine
  <1>4. PICK n \in Nat : n = Len(names)
    BY Zenon DEF IsRequest
  <1>5. /\ IsSeq(full) /\ Len(full) = n + 2 /\ full[1] = Text(kw)
        /\ \A i \in 1..n : full[1 + i] = Text(names[i])
        /\ full[2 + n] = Quoted(v)
    BY <1>1, <1>3, <1>4 DEF ItemAt
  <1>6. /\ IsSeq(rules) /\ Len(rules) = n + 2 /\ rules[1] = Word(kw)
        /\ \A i \in 1..n : Fits(Text(names[i]), rules[1 + i]) /\ rules[1 + i].m # "word"
        /\ rules[2 + n] = QUOTED_TEXT
    BY <1>4 DEF GetRules
  <1>7. ASSUME NEW i \in 1..(n + 2) PROVE Fits(full[i], rules[i]) /\ (rules[i].m = "word" <=> i = 1)
    <2>1. CASE i = 1
      BY <1>5, <1>6, <2>1, FitsWord, RuleKinds
    <2>2. CASE i \in 2..(n + 1)
      <3>1. PICK j \in 1..n : i = 1 + j
        BY <2>2
      <3> QED
        BY <1>5, <1>6, <3>1
    <2>3. CASE i = 2 + n
      <3>1. Fits(Quoted(v), QUOTED_TEXT)
        BY FitsKinds, TokenKinds
      <3> QED
        BY <1>5, <1>6, <2>3, <3>1, RuleKinds
    <2> QED
      BY <2>1, <2>2, <2>3
  <1>8. Words(rules) = 1
    BY <1>6, <1>7, WordsAre
  <1>9. PICK s : s = SubSeq(r, 3, Len(r))
    OBVIOUS
  <1>10. IsSeq(s) /\ Len(s) = n /\ \A i \in 1..n : s[i] = Text(names[i])
    BY <1>4, <1>9, RequestNames, ZenonT(40)
  <1>11. PICK e : e = s \o d
    OBVIOUS
  <1>12. /\ IsSeq(e) /\ Len(e) = n + 1 /\ \A i \in 1..n : e[i] = s[i]
         /\ e[n + 1] = Quoted(v)
    <2>1. IsJoin(e, s, d)
      BY <1>1, <1>10, <1>11, JoinIs
    <2> QED
      BY <1>1, <1>10, <2>1 DEF IsJoin
  <1>13. \A i \in 1..(n + 1) : full[1 + i] = e[i]
    BY <1>5, <1>10, <1>12
  <1>14. Captured(full, rules) = [i \in 1..(n + 1) |-> full[1 + i].v]
    <2>1. Captured(full, rules) = [i \in 1..(Len(rules) - 1) |-> full[1 + i].v]
      BY <1>6, <1>8, CapturedAre
    <2>2. Len(rules) - 1 = n + 1
      BY <1>6
    <2> QED
      BY <2>1, <2>2, Zenon
  <1>15. Strings(e) = [i \in 1..(n + 1) |-> e[i].v]
    BY <1>12, Zenon DEF Strings
  <1>16. Captured(full, rules) = Strings(e)
    BY <1>13, <1>14, <1>15
  <1>17. Whole(full, rules, Strings(e))
    <2>1. \E x : rules[1] = Word(x) /\ x \notin {"~", "ERR", "BEGIN"}
      BY DEF GetRules
    <2>2. rules[Len(full)].m = "quoted" /\ full[Len(full)] = Quoted(v)
      BY <1>5, <1>6, RuleKinds
    <2>3. /\ Len(full) \in Nat \ {0} /\ Len(rules) = Len(full)
          /\ \A i \in 1..Len(full) : Fits(full[i], rules[i])
      BY <1>5, <1>6, <1>7
    <2> QED
      BY <1>5, <1>6, <1>16, <2>1, <2>2, <2>3, Zenon DEF Whole
  <1> QED
    BY <1>1, <1>2, <1>9, <1>11, <1>17, Zenon

(* A rule of words yields nothing. *)
LEMMA AllWords ==
    ASSUME NEW line, NEW rules, NEW n \in Nat, n = Len(rules), \A i \in 1..n : rules[i].m = "word"
    PROVE  Captured(line, rules) = <<>>
  <1>1. n \in 0..Len(rules) /\ \A i \in (n + 1)..Len(rules) : rules[i].m # "word"
    OBVIOUS
  <1>2. Words(rules) = n
    BY <1>1, WordsAre
  <1>3. Captured(line, rules) = [i \in 1..(Len(rules) - n) |-> line[n + i].v]
    BY <1>1, <1>2, CapturedAre
  <1>4. 1..(Len(rules) - n) = 1..0
    OBVIOUS
  <1>5. Captured(line, rules) = [i \in 1..0 |-> line[n + i].v]
    BY <1>3, <1>4, Zenon
  <1> QED
    BY <1>5

(* An answer to a command: OK, or OK and a word. *)
LEMMA OkWhole == Whole(<<Text("OK")>> \o <<>>, ProtOk, <<>>)
  <1>2. PICK e : e = <<>>
    OBVIOUS
  <1>0. IsSeq(e) /\ Len(e) = 0
    BY <1>2, SeqShort
  <1>1. PICK full : full = <<Text("OK")>> \o e
    OBVIOUS
  <1>3. IsSeq(full) /\ Len(full) = 1 /\ full[1] = Text("OK")
    <2>1. PICK u : u = <<Text("OK")>> /\ IsSeq(u) /\ Len(u) = 1 /\ u[1] = Text("OK")
      BY SeqShort
    <2>2. IsJoin(full, u, e)
      BY <1>0, <1>1, <2>1, JoinIs, Zenon
    <2> QED
      BY <1>0, <2>1, <2>2 DEF IsJoin
  <1>4. IsSeq(ProtOk) /\ Len(ProtOk) = 1 /\ ProtOk[1] = Word("OK")
    BY SeqShort DEF ProtOk
  <1>5. Fits(full[1], ProtOk[1]) /\ ProtOk[1].m = "word"
    BY <1>3, <1>4, FitsWord, RuleKinds
  <1>6. PICK n \in Nat : n = 1
    OBVIOUS
  <1>7. Captured(full, ProtOk) = <<>>
    <2>1. n = Len(ProtOk)
      BY <1>4, <1>6, Zenon
    <2>2. \A i \in 1..n : ProtOk[i].m = "word"
      BY <1>5, <1>6
    <2> QED
      BY <2>1, <2>2, AllWords, Zenon
  <1>8. Whole(full, ProtOk, <<>>)
    BY <1>3, <1>4, <1>5, <1>7 DEF Whole
  <1> QED
    BY <1>1, <1>2, <1>8, Zenon

LEMMA OkWordWhole ==
    ASSUME NEW x, NEW rules, rules = <<Word("OK"), Word(x)>>
    PROVE  Whole(<<Text("OK")>> \o <<Text(x)>>, rules, <<>>)
  <1>1. PICK full : full = <<Text("OK")>> \o <<Text(x)>>
    OBVIOUS
  <1>2. PICK e : e = <<Text(x)>> /\ IsSeq(e) /\ Len(e) = 1 /\ e[1] = Text(x)
    BY SeqShort
  <1>3. IsSeq(full) /\ Len(full) = 2 /\ full[1] = Text("OK") /\ full[2] = Text(x)
    BY <1>1, <1>2, SeqCons
  <1>4. IsSeq(rules) /\ Len(rules) = 2 /\ rules[1] = Word("OK") /\ rules[2] = Word(x)
    BY PairIs
  <1>5. Fits(full[1], rules[1]) /\ Fits(full[2], rules[2]) /\ rules[1].m = "word" /\ rules[2].m = "word"
    BY <1>3, <1>4, FitsWord, RuleKinds
  <1>7. Captured(full, rules) = <<>>
    <2>1. \A i \in 1..Len(rules) : rules[i].m = "word"
      BY <1>4, <1>5
    <2>2. Len(rules) \in Nat
      BY <1>4
    <2> QED
      BY <2>1, <2>2, AllWords, Zenon
  <1>8. Whole(full, rules, <<>>)
    <2>1. \A i \in 1..2 : Fits(full[i], rules[i])
      BY <1>5
    <2>2. rules[Len(full)].m = "word"
      BY <1>3, <1>5
    <2> QED
      BY <1>3, <1>4, <1>7, <2>1, <2>2 DEF Whole
  <1> QED
    BY <1>1, <1>8, Zenon

-----------------------------------------------------------------------------
(* The answer of upsd to each command that is answered with one line, and  *)
(* the rules that read it.                                                 *)
OneLineAnswer(q, a) ==
    \E full, rules, caps :
        /\ a = LineAnswer(full, caps) /\ Whole(full, rules, caps)
        /\ \A t : Deserialize(q.op, t) = ParseOne(t, rules)

LEMMA GetLine ==
    ASSUME NEW q, NEW r, NEW kw, NEW names, IsRequest(r, "GET", kw, names),
           NEW a \in UpsdAnswers(r), NEW v, Datum[kw] = <<Quoted(v)>>,
           NEW rules, GetRules(rules, kw, names),
           \A t : Deserialize(q.op, t) = ParseOne(t, rules)
    PROVE  a = ErrAnswer \/ OneLineAnswer(q, a)
  <1>1. r[1].v = "GET" /\ r[2].v = kw
    BY TokenKinds DEF IsRequest
  <1>2. PICK full : full = Tail(r) \o Datum[kw]
    OBVIOUS
  <1>3. PICK caps : caps = Strings(SubSeq(r, 3, Len(r)) \o Datum[kw])
    OBVIOUS
  <1>4. a = ErrAnswer \/ a = LineAnswer(full, caps)
    BY <1>1, <1>2, <1>3 DEF UpsdAnswers, Okays
  <1>5. Whole(full, rules, caps)
    BY <1>2, <1>3, GetWhole, Zenon
  <1> QED
    BY <1>4, <1>5, Zenon DEF OneLineAnswer

LEMMA OkLine ==
    ASSUME NEW q, NEW r, NEW a \in UpsdAnswers(r), r[1].v \in DOMAIN Okays,
           NEW rules, Whole(<<Text("OK")>> \o Okays[r[1].v], rules, <<>>),
           \A t : Deserialize(q.op, t) = ParseOne(t, rules)
    PROVE  a = ErrAnswer \/ OneLineAnswer(q, a)
  <1>1. r[1].v \notin {"LIST", "GET", "VER", "NETVER"}
    BY DEF Okays
  <1>2. PICK full : full = <<Text("OK")>> \o Okays[r[1].v]
    OBVIOUS
  <1>4. a = ErrAnswer \/ a = LineAnswer(full, <<>>)
    BY <1>1, <1>2 DEF UpsdAnswers
  <1>5. Whole(full, rules, <<>>)
    BY <1>2, Zenon
  <1> QED
    BY <1>4, <1>5, Zenon DEF OneLineAnswer

(* The rules of GET, with the device and a name, or the device alone.      *)
LEMMA NamedRules ==
    ASSUME NEW u, NEW kw, kw \notin {"~", "ERR", "BEGIN"}, NEW rule \in {VAR, CMD},
           NEW rules, rules = <<Word(kw), UPS, rule, QUOTED_TEXT>>
    PROVE  GetRules(rules, kw, <<u, "n">>)
  <1>1. PICK n : n = "n"
    OBVIOUS
  <1>2. PICK names : names = <<u, n>>
    OBVIOUS
  <1>3. IsSeq(names) /\ Len(names) = 2 /\ names[1] = u /\ names[2] = n
    BY <1>2, PairIs
  <1>4. /\ Len(rules) = 4 /\ rules[1] = Word(kw) /\ rules[2] = UPS /\ rules[3] = rule
        /\ rules[4] = QUOTED_TEXT
    OBVIOUS
  <1>5. IsSeq(rules)
    <2>1. rules \in Seq({Word(kw), UPS, rule, QUOTED_TEXT})
      OBVIOUS
    <2> QED
      BY <2>1, SeqIsSeq
  <1>6. Fits(Text(names[1]), rules[2]) /\ rules[2].m # "word"
    <2>1. Fits(Text(u), UPS)
      BY FitsKinds, TokenKinds
    <2> QED
      BY <1>3, <1>4, <2>1, RuleKinds, Zenon
  <1>7. Fits(Text(names[2]), rules[3]) /\ rules[3].m # "word"
    <2>1. n # Odd
      BY <1>1 DEF Odd
    <2>2. Fits(Text(n), VAR) /\ Fits(Text(n), CMD)
      BY <2>1, FitsKinds, TokenKinds
    <2> QED
      BY <1>3, <1>4, <2>2, RuleKinds
  <1>8. \A i \in 1..Len(names) : Fits(Text(names[i]), rules[1 + i]) /\ rules[1 + i].m # "word"
    BY <1>3, <1>6, <1>7
  <1>9. GetRules(rules, kw, names)
    BY <1>3, <1>4, <1>5, <1>8 DEF GetRules
  <1> QED
    BY <1>1, <1>2, <1>9, Zenon

LEMMA DeviceRules ==
    ASSUME NEW u, NEW kw, kw \notin {"~", "ERR", "BEGIN"},
           NEW rules, rules = <<Word(kw), UPS, QUOTED_TEXT>>
    PROVE  GetRules(rules, kw, <<u>>)
  <1>2. PICK names : names = <<u>>
    OBVIOUS
  <1>3. IsSeq(names) /\ Len(names) = 1 /\ names[1] = u
    BY <1>2, SeqShort
  <1>4. Len(rules) = 3 /\ rules[1] = Word(kw) /\ rules[2] = UPS /\ rules[3] = QUOTED_TEXT
    OBVIOUS
  <1>5. IsSeq(rules)
    <2>1. rules \in Seq({Word(kw), UPS, QUOTED_TEXT})
      OBVIOUS
    <2> QED
      BY <2>1, SeqIsSeq
  <1>6. Fits(Text(names[1]), rules[2]) /\ rules[2].m # "word"
    <2>1. Fits(Text(u), UPS)
      BY FitsKinds, TokenKinds
    <2> QED
      BY <1>3, <1>4, <2>1, RuleKinds, Zenon
  <1>8. \A i \in 1..Len(names) : Fits(Text(names[i]), rules[1 + i]) /\ rules[1 + i].m # "word"
    BY <1>3, <1>6
  <1>9. GetRules(rules, kw, names)
    BY <1>3, <1>4, <1>5, <1>8 DEF GetRules
  <1> QED
    BY <1>2, <1>9, Zenon

LEMMA GetAnswer ==
    ASSUME NEW q \in Requests, q.op \in {"GetVar", "GetVarDesc", "GetCmdDesc", "GetUpsDesc"},
           NEW a \in UpsdAnswers(Serialize(q))
    PROVE  a = ErrAnswer \/ OneLineAnswer(q, a)
  <1>0. PICK r : r = Serialize(q)
    OBVIOUS
  <1>1. CASE q.op = "GetVar"
    <2>1. Commands[q.op] = [words |-> <<"GET", "VAR">>, args |-> <<"ups", "name">>]
      BY <1>1, CommandIs DEF GetCommands
    <2>2. IsRequest(r, "GET", "VAR", <<q.ups, "n">>)
      BY <1>0, <2>1, NamedRequest
    <2>3. GetRules(UpsVar, "VAR", <<q.ups, "n">>)
      BY NamedRules DEF UpsVar
    <2>4. \A t : Deserialize(q.op, t) = ParseOne(t, UpsVar)
      BY <1>1 DEF Deserialize
    <2>5. Datum["VAR"] = <<Quoted("5")>>
      BY DEF Datum
    <2> QED
      BY <1>0, <2>2, <2>3, <2>4, <2>5, GetLine, Zenon
  <1>2. CASE q.op = "GetVarDesc"
    <2>1. Commands[q.op] = [words |-> <<"GET", "DESC">>, args |-> <<"ups", "name">>]
      BY <1>2, CommandIs DEF GetCommands
    <2>2. IsRequest(r, "GET", "DESC", <<q.ups, "n">>)
      BY <1>0, <2>1, NamedRequest
    <2>3. GetRules(UpsVarDesc, "DESC", <<q.ups, "n">>)
      BY NamedRules DEF UpsVarDesc
    <2>4. \A t : Deserialize(q.op, t) = ParseOne(t, UpsVarDesc)
      BY <1>2 DEF Deserialize
    <2>5. Datum["DESC"] = <<Quoted("t")>>
      BY DEF Datum
    <2> QED
      BY <1>0, <2>2, <2>3, <2>4, <2>5, GetLine, Zenon
  <1>3. CASE q.op = "GetCmdDesc"
    <2>1. Commands[q.op] = [words |-> <<"GET", "CMDDESC">>, args |-> <<"ups", "name">>]
      BY <1>3, CommandIs DEF GetCommands
    <2>2. IsRequest(r, "GET", "CMDDESC", <<q.ups, "n">>)
      BY <1>0, <2>1, NamedRequest
    <2>3. GetRules(CmdDesc, "CMDDESC", <<q.ups, "n">>)
      BY NamedRules DEF CmdDesc
    <2>4. \A t : Deserialize(q.op, t) = ParseOne(t, CmdDesc)
      BY <1>3 DEF Deserialize
    <2>5. Datum["CMDDESC"] = <<Quoted("t")>>
      BY DEF Datum
    <2> QED
      BY <1>0, <2>2, <2>3, <2>4, <2>5, GetLine, Zenon
  <1>4. CASE q.op = "GetUpsDesc"
    <2>1. Commands[q.op] = [words |-> <<"GET", "UPSDESC">>, args |-> <<"ups">>]
      BY <1>4, CommandIs DEF GetCommands
    <2>2. IsRequest(r, "GET", "UPSDESC", <<q.ups>>)
      BY <1>0, <2>1, DeviceRequest
    <2>3. GetRules(UpsDesc, "UPSDESC", <<q.ups>>)
      BY DeviceRules DEF UpsDesc
    <2>4. \A t : Deserialize(q.op, t) = ParseOne(t, UpsDesc)
      BY <1>4 DEF Deserialize
    <2>5. Datum["UPSDESC"] = <<Quoted("t")>>
      BY DEF Datum
    <2> QED
      BY <1>0, <2>2, <2>3, <2>4, <2>5, GetLine, Zenon
  <1> QED
    BY <1>1, <1>2, <1>3, <1>4

LEMMA FirstWord ==
    ASSUME NEW q \in Requests
    PROVE  Serialize(q)[1].v = Commands[q.op].words[1]
  <1>1. PICK c : c = Commands[q.op]
    OBVIOUS
  <1>2. WellFormed(c)
    <2>1. q.op \in DOMAIN Commands
      BY SessionAssumption DEF Requests
    <2> QED
      BY <1>1, <2>1, CommandWords, Zenon
  <1>3. PICK n \in 1..2 : n = Len(c.words)
    BY <1>2, Zenon DEF WellFormed
  <1>4. PICK m \in Nat : m = Len(c.args)
    BY <1>2, Zenon DEF WellFormed
  <1>5. Entries(q, c, n, m)
    BY <1>1, <1>3, <1>4, RequestEntries
  <1>6. Serialize(q)[1] = Text(c.words[1])
    BY <1>5 DEF Entries
  <1> QED
    BY <1>1, <1>6, TokenKinds

LEMMA OkAnswer ==
    ASSUME NEW q \in Requests,
           q.op \in {"Username", "Password", "AttachCommand", "SetVariable", "InstCmd",
                     "FsdCommand", "DetachCommand", "StartTls"},
           NEW a \in UpsdAnswers(Serialize(q))
    PROVE  a = ErrAnswer \/ OneLineAnswer(q, a)
  <1>0. PICK r : r = Serialize(q) /\ r[1].v = Commands[q.op].words[1]
    BY FirstWord
  <1>1. CASE q.op \in {"Username", "Password", "AttachCommand", "SetVariable", "InstCmd"}
    <2>1. Commands[q.op].words[1] \in {"USERNAME", "PASSWORD", "LOGIN", "SET", "INSTCMD"}
      BY <1>1, CommandIs DEF GetCommands, LoginCommands, SessionCommands
    <2>2. r[1].v \in DOMAIN Okays /\ Okays[r[1].v] = <<>>
      BY <1>0, <2>1 DEF Okays
    <2>3. Whole(<<Text("OK")>> \o Okays[r[1].v], ProtOk, <<>>)
      BY <2>2, OkWhole, Zenon
    <2>4. \A t : Deserialize(q.op, t) = ParseOne(t, ProtOk)
      BY <1>1 DEF Deserialize
    <2> QED
      BY <1>0, <2>2, <2>3, <2>4, OkLine, Zenon
  <1>2. CASE q.op = "FsdCommand"
    <2>1. r[1].v = "FSD"
      BY <1>0, <1>2, CommandIs DEF SessionCommands
    <2>2. r[1].v \in DOMAIN Okays /\ Okays[r[1].v] = <<Text("FSD-SET")>>
      BY <2>1 DEF Okays
    <2>3. Whole(<<Text("OK")>> \o <<Text("FSD-SET")>>, ProtOkFsd, <<>>)
      BY OkWordWhole DEF ProtOkFsd
    <2>5. Whole(<<Text("OK")>> \o Okays[r[1].v], ProtOkFsd, <<>>)
      BY <2>2, <2>3, Zenon
    <2>4. \A t : Deserialize(q.op, t) = ParseOne(t, ProtOkFsd)
      BY <1>2 DEF Deserialize
    <2> QED
      BY <1>0, <2>2, <2>5, <2>4, OkLine, Zenon
  <1>3. CASE q.op = "DetachCommand"
    <2>1. r[1].v = "LOGOUT"
      BY <1>0, <1>3, CommandIs DEF SessionCommands
    <2>2. r[1].v \in DOMAIN Okays /\ Okays[r[1].v] = <<Text("Goodbye")>>
      BY <2>1 DEF Okays
    <2>3. Whole(<<Text("OK")>> \o <<Text("Goodbye")>>, ProtOkDetach, <<>>)
      BY OkWordWhole DEF ProtOkDetach
    <2>5. Whole(<<Text("OK")>> \o Okays[r[1].v], ProtOkDetach, <<>>)
      BY <2>2, <2>3, Zenon
    <2>4. \A t : Deserialize(q.op, t) = ParseOne(t, ProtOkDetach)
      BY <1>3 DEF Deserialize
    <2> QED
      BY <1>0, <2>2, <2>5, <2>4, OkLine, Zenon
  <1>4. CASE q.op = "StartTls"
    <2>1. r[1].v = "STARTTLS"
      BY <1>0, <1>4, CommandIs DEF LoginCommands
    <2>2. r[1].v \in DOMAIN Okays /\ Okays[r[1].v] = <<Text("STARTTLS")>>
      BY <2>1 DEF Okays
    <2>3. Whole(<<Text("OK")>> \o <<Text("STARTTLS")>>, ProtOkTls, <<>>)
      BY OkWordWhole DEF ProtOkTls
    <2>5. Whole(<<Text("OK")>> \o Okays[r[1].v], ProtOkTls, <<>>)
      BY <2>2, <2>3, Zenon
    <2>4. \A t : Deserialize(q.op, t) = ParseOne(t, ProtOkTls)
      BY <1>4 DEF Deserialize
    <2> QED
      BY <1>0, <2>2, <2>5, <2>4, OkLine, Zenon
  <1> QED
    BY <1>1, <1>2, <1>3, <1>4

(* The answers that do not show where they end are read, when they come    *)
(* whole.                                                                  *)
EndlessOps == {"GetVarType", "GetProtVer", "GetDaemonVer"}

EndlessAnswer(q, a) ==
    \E full, caps :
        /\ a = LineAnswer(full, caps)
        /\ Deserialize(q.op, <<full>>) = Got(<<caps>>)
        /\ ~StartsWith(full, <<"ERR">>) /\ ~StartsWith(full, <<"BEGIN", "LIST">>)

LEMMA RawAnswer ==
    ASSUME NEW q \in Requests, q.op \in {"GetProtVer", "GetDaemonVer"},
           NEW a \in UpsdAnswers(Serialize(q))
    PROVE  a = ErrAnswer \/ EndlessAnswer(q, a)
  <1>0. PICK r : r = Serialize(q) /\ r[1].v = Commands[q.op].words[1]
    BY FirstWord
  <1>1. r[1].v \in {"VER", "NETVER"}
    BY <1>0, CommandIs DEF LoginCommands
  <1>2. PICK full : full = Version
    OBVIOUS
  <1>3. PICK caps : caps = Strings(full)
    OBVIOUS
  <1>4. a = ErrAnswer \/ a = LineAnswer(full, caps)
    <2>1. r[1].v \notin DOMAIN Okays /\ r[1].v # "LIST" /\ r[1].v # "GET"
      BY <1>1 DEF Okays
    <2>2. UpsdAnswers(r) = {ErrAnswer} \cup {LineAnswer(Version, Strings(Version))}
      BY <1>1, <2>1 DEF UpsdAnswers
    <2> QED
      BY <1>0, <1>2, <1>3, <2>2
  <1>5. IsSeq(full) /\ Len(full) = 2 /\ full[1] = Text("2.8") /\ full[2] = Text("up")
    BY <1>2, PairIs DEF Version
  <1>6. ~StartsWith(full, <<"ERR">>) /\ ~StartsWith(full, <<"BEGIN", "LIST">>)
    <2>1. full[1].v = "2.8"
      BY <1>5, TokenKinds
    <2> QED
      BY <2>1 DEF StartsWith
  <1>7. caps = [j \in 1..Len(full) |-> full[j].v]
    BY <1>3, Zenon DEF Strings
  <1>8. Deserialize(q.op, <<full>>) = Got(<<caps>>)
    <2>1. Deserialize(q.op, <<full>>) = RawText(<<full>>)
      BY DEF Deserialize
    <2>2. PICK text : text = <<full>> /\ Len(text) = 1 /\ text[1] = full /\ IsSeq(text)
      BY SeqShort
    <2>3. RawText(text) = Got([i \in 1..1 |-> [j \in 1..Len(text[i]) |-> text[i][j].v]])
      BY <2>2, Zenon DEF RawText
    <2>4. PICK rows : rows = [i \in 1..1 |-> [j \in 1..Len(text[i]) |-> text[i][j].v]]
      OBVIOUS
    <2>5. rows[1] = [j \in 1..Len(full) |-> full[j].v]
      <3>1. 1 \in 1..1
        OBVIOUS
      <3>2. rows[1] = [j \in 1..Len(text[1]) |-> text[1][j].v]
        BY <2>4, <3>1, Zenon
      <3> QED
        BY <2>2, <3>2, Zenon
    <2>6. rows[1] = caps
      BY <1>7, <2>5, Zenon
    <2>7. IsSeq(rows) /\ Len(rows) = 1
      <3>1. PICK n \in Nat : n = 1
        OBVIOUS
      <3>2. rows \in [1..n -> Range(rows)]
        BY <2>4, <3>1 DEF Range
      <3> QED
        BY <3>1, <3>2, SeqOfFunction
    <2>8. rows = <<caps>>
      BY <2>6, <2>7, SingleIs, Zenon
    <2> QED
      BY <2>1, <2>2, <2>3, <2>4, <2>8, Zenon
  <1> QED
    BY <1>4, <1>6, <1>8, Zenon DEF EndlessAnswer

LEMMA TypeAnswer ==
    ASSUME NEW q \in Requests, q.op = "GetVarType", NEW a \in UpsdAnswers(Serialize(q))
    PROVE  a = ErrAnswer \/ EndlessAnswer(q, a)
  <1>0. PICK r : r = Serialize(q)
    OBVIOUS
  <1>1. Commands[q.op] = [words |-> <<"GET", "TYPE">>, args |-> <<"ups", "name">>]
    BY CommandIs DEF GetCommands
  <1>a. PICK names : names = <<q.ups, "n">>
    OBVIOUS
  <1>b. IsSeq(names) /\ Len(names) = 2 /\ names[1] = q.ups /\ names[2] = "n"
    BY <1>a, PairIs
  <1>2. IsRequest(r, "GET", "TYPE", names)
    BY <1>0, <1>1, <1>a, NamedRequest, Zenon
  <1>3. PICK d : d = <<Text("RW"), Text("STRING:32")>>
    OBVIOUS
  <1>4. IsSeq(d) /\ Len(d) = 2 /\ d[1] = Text("RW") /\ d[2] = Text("STRING:32")
    BY <1>3, PairIs
  <1>5. PICK full : full = Tail(r) \o d
    OBVIOUS
  <1>6. PICK e : e = SubSeq(r, 3, Len(r)) \o d
    OBVIOUS
  <1>7. a = ErrAnswer \/ a = LineAnswer(full, Strings(e))
    <2>1. r[1].v = "GET" /\ r[2].v = "TYPE"
      BY <1>2, TokenKinds DEF IsRequest
    <2>2. Datum["TYPE"] = d
      BY <1>3 DEF Datum
    <2>3. a = ErrAnswer \/ a = LineAnswer(Tail(r) \o Datum["TYPE"],
                                          Strings(SubSeq(r, 3, Len(r)) \o Datum["TYPE"]))
      BY <1>0, <2>1 DEF UpsdAnswers, Okays
    <2> QED
      BY <1>5, <1>6, <2>2, <2>3, Zenon
  <1>8. ItemAt(full, "TYPE", names, d)
    BY <1>2, <1>4, <1>5, ItemLine
  <1>9. /\ IsSeq(full) /\ Len(full) = 5 /\ full[1] = Text("TYPE") /\ full[2] = Text(q.ups)
        /\ full[3] = Text("n") /\ full[4] = Text("RW") /\ full[5] = Text("STRING:32")
    BY <1>4, <1>8, <1>b DEF ItemAt
  <1>10. PICK s : s = SubSeq(r, 3, Len(r))
    OBVIOUS
  <1>11. IsSeq(s) /\ Len(s) = 2 /\ s[1] = Text(q.ups) /\ s[2] = Text("n")
    <2>1. IsSeq(s) /\ Len(s) = Len(names) /\ \A i \in 1..Len(names) : s[i] = Text(names[i])
      BY <1>2, <1>10, RequestNames, ZenonT(40)
    <2> QED
      BY <1>b, <2>1
  <1>12. IsJoin(e, s, d)
    BY <1>4, <1>6, <1>10, <1>11, JoinIs
  <1>13. /\ IsSeq(e) /\ Len(e) = 4 /\ e[1] = Text(q.ups) /\ e[2] = Text("n")
         /\ e[3] = Text("RW") /\ e[4] = Text("STRING:32")
    BY <1>4, <1>11, <1>12 DEF IsJoin
  <1>14. Strings(e) = [i \in 1..4 |-> full[i + 1].v]
    <2>1. Strings(e) = [i \in 1..4 |-> e[i].v]
      BY <1>13, Zenon DEF Strings
    <2>2. \A i \in 1..4 : e[i] = full[i + 1]
      BY <1>9, <1>13
    <2> QED
      BY <2>1, <2>2
  <1>15. Deserialize(q.op, <<full>>) = Got(<<Strings(e)>>)
    <2>1. Deserialize(q.op, <<full>>) = UpsVarType(<<full>>)
      BY DEF Deserialize
    <2>2. PICK text : text = <<full>> /\ Len(text) = 1 /\ text[1] = full
      BY SeqShort
    <2>3. CmpLiteral(full[1], "TYPE")
      BY <1>9 DEF CmpLiteral
    <2>4. ExtractUpsName(full[2]) /\ ExtractVarName(full[3])
      BY <1>9, TokenKinds DEF ExtractUpsName, ExtractVarName, Odd
    <2>5. \A i \in 4..Len(full) : ExtractText(full[i]) /\ full[i].v \in VarType
      BY <1>9, TokenKinds DEF ExtractText, VarType
    <2>6. Len(full) >= 3 /\ Len(full) - 1 = 4
      BY <1>9
    <2>7. UpsVarType(text) = Got(<<[i \in 1..(Len(full) - 1) |-> full[i + 1].v]>>)
      BY <2>2, <2>3, <2>4, <2>5, <2>6, Zenon DEF UpsVarType
    <2> QED
      BY <1>14, <2>1, <2>2, <2>6, <2>7, Zenon
  <1>16. ~StartsWith(full, <<"ERR">>) /\ ~StartsWith(full, <<"BEGIN", "LIST">>)
    <2>1. full[1].v = "TYPE"
      BY <1>9, TokenKinds
    <2> QED
      BY <2>1 DEF StartsWith
  <1> QED
    BY <1>7, <1>15, <1>16, Zenon DEF EndlessAnswer

-----------------------------------------------------------------------------
(* Lists: the rules of one, and the data they take. *)
ListRules(kw, names, kr, ir) ==
    /\ kw \in DOMAIN Data /\ kw \notin {"END", "~", "STRING:3"}
    /\ IsSeq(names) /\ Len(names) \in Nat
    /\ IsSeq(kr) /\ Len(kr) = Len(names)
    /\ \A i \in 1..Len(names) : Fits(Text(names[i]), kr[i]) /\ kr[i].m # "word"
    /\ IsSeq(ir) /\ Len(ir) \in Nat /\ \A j \in 1..Len(ir) : ir[j].m # "word"
    /\ \A d \in Data[kw] : /\ IsSeq(d) /\ Len(d) = Len(ir)
                           /\ \A j \in 1..Len(ir) : Fits(d[j], ir[j])

WordsFirst(rules, n, len) ==
    /\ len \in Nat /\ len = Len(rules) /\ n \in 0..len
    /\ \A i \in 1..n : rules[i].m = "word"
    /\ \A i \in (n + 1)..len : rules[i].m # "word"

After(line, n, len) == [i \in 1..(len - n) |-> line[n + i].v]

LEMMA CapturedFrom ==
    ASSUME NEW line, NEW rules, NEW n, NEW len, WordsFirst(rules, n, len)
    PROVE  Captured(line, rules) = After(line, n, len)
  <1>1. Words(rules) = n
    BY WordsAre DEF WordsFirst
  <1>2. Len(rules) = len
    BY DEF WordsFirst
  <1> QED
    BY <1>1, <1>2, Zenon DEF Captured, After

LEMMA TripleIs ==
    ASSUME NEW x, NEW y, NEW z, NEW w, w = <<x, y, z>>
    PROVE  IsSeq(w) /\ Len(w) = 3 /\ w[1] = x /\ w[2] = y /\ w[3] = z
  <1>1. w \in Seq({x, y, z})
    OBVIOUS
  <1>2. IsSeq(w)
    BY <1>1, SeqIsSeq
  <1>3. Len(w) = 3 /\ w[1] = x /\ w[2] = y /\ w[3] = z
    OBVIOUS
  <1> QED
    BY <1>2, <1>3, Zenon

LEMMA CmpAre ==
    ASSUME NEW keys, NEW n \in Nat, n = Len(keys)
    PROVE  IsSeq(Cmp(keys)) /\ Len(Cmp(keys)) = n /\ \A i \in 1..n : Cmp(keys)[i] = Word(keys[i])
  <1>1. PICK c : c = [i \in 1..n |-> Word(keys[i])]
    OBVIOUS
  <1>2. Cmp(keys) = c
    BY <1>1, Zenon DEF Cmp
  <1>3. c \in [1..n -> Range(c)]
    BY <1>1 DEF Range
  <1>4. IsSeq(c) /\ Len(c) = n
    BY <1>3, SeqOfFunction
  <1>5. \A i \in 1..n : c[i] = Word(keys[i])
    BY <1>1
  <1> QED
    BY <1>2, <1>4, <1>5, Zenon

HeadOf(kw, kr) == <<Word("BEGIN"), Word("LIST"), Word(kw)>> \o kr
ItemOf(kw, keys, ir) == <<Word(kw)>> \o Cmp(keys) \o ir

(* The first line yields the names. *)
LEMMA HeadRead ==
    ASSUME NEW kw, NEW names, NEW kr, NEW ir, ListRules(kw, names, kr, ir),
           NEW l, TitleAt(l, "BEGIN", kw, names),
           NEW head, head = HeadOf(kw, kr)
    PROVE  ParseLine(l, head) /\ Captured(l, head) = names
  <1>1. PICK p : p = <<Word("BEGIN"), Word("LIST"), Word(kw)>>
    OBVIOUS
  <1>2. /\ IsSeq(p) /\ Len(p) = 3 /\ p[1] = Word("BEGIN") /\ p[2] = Word("LIST")
        /\ p[3] = Word(kw)
    BY <1>1, TripleIs
  <1>3. PICK n \in Nat : n = Len(names) /\ n = Len(kr)
    BY Zenon DEF ListRules
  <1>4. IsJoin(head, p, kr)
    <2>1. IsSeq(kr)
      BY DEF ListRules
    <2>2. head = p \o kr
      BY <1>1, Zenon DEF HeadOf
    <2> QED
      BY <1>2, <2>1, <2>2, JoinIs, Zenon
  <1>5. /\ IsSeq(head) /\ Len(head) = 3 + n /\ head[1] = Word("BEGIN") /\ head[2] = Word("LIST")
        /\ head[3] = Word(kw) /\ \A i \in 1..n : head[3 + i] = kr[i]
    BY <1>2, <1>3, <1>4 DEF IsJoin
  <1>6. /\ IsSeq(l) /\ Len(l) = 3 + n
        /\ l[1] = Text("BEGIN") /\ l[2] = Text("LIST") /\ l[3] = Text(kw)
        /\ \A i \in 1..n : l[3 + i] = Text(names[i])
    BY <1>3 DEF TitleAt
  <1>7. Fits(l[1], head[1]) /\ Fits(l[2], head[2]) /\ Fits(l[3], head[3])
    BY <1>5, <1>6, FitsWord
  <1>8. head[1].m = "word" /\ head[2].m = "word" /\ head[3].m = "word"
    BY <1>5, RuleKinds
  <1>9. ASSUME NEW i \in 4..(3 + n) PROVE Fits(l[i], head[i]) /\ head[i].m # "word"
    <2>1. PICK j \in 1..n : i = 3 + j
      BY <1>3
    <2>2. Fits(Text(names[j]), kr[j]) /\ kr[j].m # "word"
      BY <1>3, <2>1 DEF ListRules
    <2> QED
      BY <1>5, <1>6, <2>1, <2>2
  <1>10. ParseLine(l, head)
    <2>1. \A i \in 1..(3 + n) : Fits(l[i], head[i])
      <3>1. ASSUME NEW i \in 1..(3 + n) PROVE Fits(l[i], head[i])
        <4>1. i = 1 \/ i = 2 \/ i = 3 \/ i \in 4..(3 + n)
          OBVIOUS
        <4> QED
          BY <1>7, <1>9, <4>1
      <3> QED
        BY <3>1
    <2> QED
      BY <1>5, <1>6, <2>1 DEF ParseLine, EndParser
  <1>11. Captured(l, head) = [i \in 1..n |-> l[3 + i].v]
    <2>1. PICK len \in Nat : len = 3 + n
      OBVIOUS
    <2>2. PICK k \in 0..len : k = 3
      BY <2>1
    <2>3. \A i \in 1..k : head[i].m = "word"
      BY <1>8, <2>2
    <2>4. \A i \in (k + 1)..len : head[i].m # "word"
      <3>1. ASSUME NEW i \in (k + 1)..len PROVE head[i].m # "word"
        <4>1. i \in 4..(3 + n)
          BY <2>1, <2>2
        <4> QED
          BY <1>9, <4>1
      <3> QED
        BY <3>1
    <2>5. len = Len(head) /\ len - k = n
      BY <1>5, <2>1, <2>2
    <2>6. WordsFirst(head, k, len)
      BY <2>3, <2>4, <2>5, Zenon DEF WordsFirst
    <2>7. Captured(l, head) = After(l, k, len)
      BY <2>6, CapturedFrom, Zenon
    <2> QED
      BY <2>2, <2>5, <2>7, Zenon DEF After
  <1>12. PICK s : s = [i \in 1..n |-> l[3 + i].v]
    OBVIOUS
  <1>13. IsSeq(s) /\ Len(s) = n
    <2>1. s \in [1..n -> Range(s)]
      BY <1>12 DEF Range
    <2> QED
      BY <2>1, SeqOfFunction
  <1>14. \A i \in 1..n : s[i] = names[i]
    <2>1. \A i \in 1..n : s[i] = l[3 + i].v
      BY <1>12
    <2> QED
      BY <1>6, <2>1, TokenKinds
  <1>15. s = names
    BY <1>3, <1>13, <1>14, SeqSame DEF ListRules
  <1> QED
    BY <1>10, <1>11, <1>12, <1>15, Zenon

(* A line of the list yields its data. *)
LEMMA ItemRead ==
    ASSUME NEW kw, NEW names, NEW kr, NEW ir, ListRules(kw, names, kr, ir), NEW row \in Data[kw],
           NEW l, ItemAt(l, kw, names, row),
           NEW item, item = ItemOf(kw, names, ir)
    PROVE  /\ ParseLine(l, item) /\ Captured(l, item) = Strings(row)
           /\ l # <<>> /\ l[1].v = kw
  <1>1. PICK n \in Nat : n = Len(names)
    BY Zenon DEF ListRules
  <1>2. PICK m \in Nat : m = Len(ir) /\ m = Len(row)
    BY Zenon DEF ListRules
  <1>3. PICK c : c = Cmp(names)
    OBVIOUS
  <1>4. IsSeq(c) /\ Len(c) = n /\ \A i \in 1..n : c[i] = Word(names[i])
    BY <1>1, <1>3, CmpAre
  <1>5. PICK p : p = <<Word(kw)>> \o c
    OBVIOUS
  <1>6. IsSeq(p) /\ Len(p) = 1 + n /\ p[1] = Word(kw) /\ \A i \in 1..n : p[1 + i] = Word(names[i])
    BY <1>4, <1>5, SeqCons
  <1>7. IsJoin(item, p, ir)
    <2>1. IsSeq(ir)
      BY DEF ListRules
    <2>2. item = p \o ir
      BY <1>3, <1>5, Zenon DEF ItemOf
    <2> QED
      BY <1>6, <2>1, <2>2, JoinIs, Zenon
  <1>8. /\ IsSeq(item) /\ Len(item) = (1 + n) + m /\ item[1] = Word(kw)
        /\ \A i \in 1..n : item[1 + i] = Word(names[i])
        /\ \A j \in 1..m : item[(1 + n) + j] = ir[j]
    <2>1. \A i \in 1..(1 + n) : item[i] = p[i]
      BY <1>6, <1>7 DEF IsJoin
    <2>2. IsSeq(item) /\ Len(item) = (1 + n) + m /\ \A j \in 1..m : item[(1 + n) + j] = ir[j]
      BY <1>2, <1>6, <1>7 DEF IsJoin
    <2>3. item[1] = Word(kw)
      BY <1>6, <2>1
    <2>4. ASSUME NEW i \in 1..n PROVE item[1 + i] = Word(names[i])
      <3>1. 1 + i \in 1..(1 + n)
        OBVIOUS
      <3> QED
        BY <1>6, <2>1, <3>1, Zenon
    <2> QED
      BY <2>2, <2>3, <2>4, Zenon
  <1>9. /\ IsSeq(l) /\ Len(l) = (1 + n) + m /\ l[1] = Text(kw)
        /\ \A i \in 1..n : l[1 + i] = Text(names[i])
        /\ \A j \in 1..m : l[(1 + n) + j] = row[j]
    BY <1>1, <1>2 DEF ItemAt
  <1>10. ASSUME NEW i \in 1..(1 + n) PROVE Fits(l[i], item[i]) /\ item[i].m = "word"
    <2>1. CASE i = 1
      BY <1>8, <1>9, <2>1, FitsWord, RuleKinds
    <2>2. CASE i # 1
      <3>1. PICK j \in 1..n : i = 1 + j
        BY <2>2
      <3>2. l[i] = Text(names[j]) /\ item[i] = Word(names[j])
        BY <1>8, <1>9, <3>1
      <3> QED
        BY <3>2, FitsWord, RuleKinds
    <2> QED
      BY <2>1, <2>2
  <1>11. ASSUME NEW i \in ((1 + n) + 1)..((1 + n) + m) PROVE Fits(l[i], item[i]) /\ item[i].m # "word"
    <2>1. PICK j \in 1..m : i = (1 + n) + j
      <3>1. i - (1 + n) \in 1..m /\ i = (1 + n) + (i - (1 + n))
        OBVIOUS
      <3> QED
        BY <3>1
    <2>2. Fits(row[j], ir[j]) /\ ir[j].m # "word"
      BY <1>2, <2>1 DEF ListRules
    <2> QED
      BY <1>8, <1>9, <2>1, <2>2
  <1>12. ParseLine(l, item)
    <2>1. \A i \in 1..((1 + n) + m) : Fits(l[i], item[i])
      <3>1. ASSUME NEW i \in 1..((1 + n) + m) PROVE Fits(l[i], item[i])
        <4>1. i \in 1..(1 + n) \/ i \in ((1 + n) + 1)..((1 + n) + m)
          OBVIOUS
        <4> QED
          BY <1>10, <1>11, <4>1, Zenon
      <3> QED
        BY <3>1
    <2> QED
      BY <1>8, <1>9, <2>1 DEF ParseLine, EndParser
  <1>13. Captured(l, item) = [j \in 1..m |-> l[(1 + n) + j].v]
    <2>1. PICK len \in Nat : len = (1 + n) + m
      OBVIOUS
    <2>2. PICK k \in 0..len : k = 1 + n
      BY <2>1
    <2>3. \A i \in 1..k : item[i].m = "word"
      BY <1>10, <2>2, Zenon
    <2>4. \A i \in (k + 1)..len : item[i].m # "word"
      BY <1>11, <2>1, <2>2, Zenon
    <2>5. len = Len(item) /\ len - k = m
      BY <1>8, <2>1, <2>2
    <2>6. WordsFirst(item, k, len)
      BY <2>3, <2>4, <2>5, Zenon DEF WordsFirst
    <2>7. Captured(l, item) = After(l, k, len)
      BY <2>6, CapturedFrom, Zenon
    <2> QED
      BY <2>2, <2>5, <2>7, Zenon DEF After
  <1>14. Strings(row) = [j \in 1..m |-> row[j].v]
    BY <1>2, Zenon DEF Strings
  <1>15. Captured(l, item) = Strings(row)
    BY <1>9, <1>13, <1>14
  <1>16. l # <<>> /\ l[1].v = kw
    <2>1. Len(l) # 0 /\ Len(<<>>) = 0
      BY <1>9
    <2> QED
      BY <1>9, <2>1, TokenKinds
  <1> QED
    BY <1>12, <1>15, <1>16, Zenon

(* The last line is compared with the first. *)
LEMMA EndRead ==
    ASSUME NEW kw, NEW names, IsSeq(names), Len(names) \in Nat, NEW l, IsSeq(l)
    PROVE  ParseLine(l, ListEnd(kw, names)) <=> TitleAt(l, "END", kw, names)
  <1>1. PICK p : p = <<Word("END"), Word("LIST"), Word(kw)>>
    OBVIOUS
  <1>2. /\ IsSeq(p) /\ Len(p) = 3 /\ p[1] = Word("END") /\ p[2] = Word("LIST")
        /\ p[3] = Word(kw)
    BY <1>1, TripleIs
  <1>3. PICK n \in Nat : n = Len(names)
    BY Zenon
  <1>4. PICK c : c = Cmp(names)
    OBVIOUS
  <1>5. IsSeq(c) /\ Len(c) = n /\ \A i \in 1..n : c[i] = Word(names[i])
    BY <1>3, <1>4, CmpAre
  <1>6. PICK e : e = ListEnd(kw, names)
    OBVIOUS
  <1>7. IsJoin(e, p, c)
    <2>1. e = p \o c
      BY <1>1, <1>4, <1>6, Zenon DEF ListEnd
    <2> QED
      BY <1>2, <1>5, <2>1, JoinIs, Zenon
  <1>8. /\ IsSeq(e) /\ Len(e) = 3 + n /\ e[1] = Word("END") /\ e[2] = Word("LIST")
        /\ e[3] = Word(kw) /\ \A i \in 1..n : e[3 + i] = Word(names[i])
    BY <1>2, <1>5, <1>7 DEF IsJoin
  <1>9. ASSUME ParseLine(l, e) PROVE TitleAt(l, "END", kw, names)
    <2>1. Len(l) = 3 + n /\ \A i \in 1..(3 + n) : Fits(l[i], e[i])
      BY <1>8, <1>9 DEF ParseLine, EndParser
    <2>2. l[1] = Text("END") /\ l[2] = Text("LIST") /\ l[3] = Text(kw)
      BY <1>8, <2>1, FitsWord
    <2>3. ASSUME NEW i \in 1..n PROVE l[3 + i] = Text(names[i])
      <3>1. Fits(l[3 + i], e[3 + i])
        BY <2>1
      <3> QED
        BY <1>8, <3>1, FitsWord
    <2> QED
      BY <1>3, <2>1, <2>2, <2>3 DEF TitleAt
  <1>10. ASSUME TitleAt(l, "END", kw, names) PROVE ParseLine(l, e)
    <2>1. /\ Len(l) = 3 + n /\ l[1] = Text("END") /\ l[2] = Text("LIST") /\ l[3] = Text(kw)
          /\ \A i \in 1..n : l[3 + i] = Text(names[i])
      BY <1>3, <1>10 DEF TitleAt
    <2>2. Fits(l[1], e[1]) /\ Fits(l[2], e[2]) /\ Fits(l[3], e[3])
      BY <1>8, <2>1, FitsWord
    <2>3. ASSUME NEW i \in 4..(3 + n) PROVE Fits(l[i], e[i])
      <3>1. PICK j \in 1..n : i = 3 + j
        OBVIOUS
      <3>2. l[i] = Text(names[j]) /\ e[i] = Word(names[j])
        BY <1>8, <2>1, <3>1
      <3> QED
        BY <3>2, FitsWord
    <2>4. \A i \in 1..(3 + n) : Fits(l[i], e[i])
      BY <2>2, <2>3
    <2> QED
      BY <1>8, <2>1, <2>4 DEF ParseLine, EndParser
  <1> QED
    BY <1>6, <1>9, <1>10, Zenon

(* The text of a list up to its last line. *)
ListBody(text, kw, names, rows, n) ==
    /\ n \in Nat /\ IsSeq(text) /\ Len(text) = n + 2
    /\ TitleAt(text[1], "BEGIN", kw, names)
    /\ \A i \in 1..n : rows[i] \in Data[kw] /\ ItemAt(text[1 + i], kw, names, rows[i])

ListSaid(names, rows, n) == <<names>> \o [i \in 1..n |-> Strings(rows[i])]

(* ParseList, with names for its parts. *)
ItemFrom(text, kw, i) == i <= Len(text) /\ text[i] # <<>> /\ text[i][1].v = kw
LastItem(text, kw, i) == ~ItemFrom(text, kw, i + 1) /\ \A j \in 2..i : ItemFrom(text, kw, j)
LastOf(text, kw) == CHOOSE i \in 1..Len(text) : LastItem(text, kw, i)

ListOutcome(text, kw, head, keys, item, last) ==
    IF /\ ParseLine(text[1], head)
       /\ \A i \in 2..last : ParseLine(text[i], item)
       /\ Len(text) = last + 1
       /\ ParseLine(text[last + 1], ListEnd(kw, keys))
    THEN Got(<<keys>> \o [i \in 1..(last - 1) |-> Captured(text[i + 1], item)]) ELSE Fail

LEMMA ListUnfolded ==
    ASSUME NEW text, NEW kw, NEW kr, NEW ir
    PROVE  \E head, keys, item, last :
              /\ head = HeadOf(kw, kr)
              /\ keys = Captured(text[1], head)
              /\ item = ItemOf(kw, keys, ir)
              /\ last = LastOf(text, kw)
              /\ ParseList(text, kw, kr, ir) = ListOutcome(text, kw, head, keys, item, last)
  <1> DEFINE H == HeadOf(kw, kr)
             K == Captured(text[1], H)
             I == ItemOf(kw, K, ir)
             L == LastOf(text, kw)
  <1>1. ParseList(text, kw, kr, ir) = ListOutcome(text, kw, H, K, I, L)
    BY Zenon DEF ParseList, ListOutcome, LastItem, ItemFrom, LastOf, HeadOf, ItemOf
  <1> HIDE DEF H, K, I, L
  <1>2. /\ H = HeadOf(kw, kr)
        /\ K = Captured(text[1], H)
        /\ I = ItemOf(kw, K, ir)
        /\ L = LastOf(text, kw)
    BY Zenon DEF H, K, I, L
  <1> QED
    BY <1>1, <1>2, Zenon

(* The items of a list are found: all the lines between the first and the  *)
(* last, which decides.                                                    *)
LEMMA ListParsed ==
    ASSUME NEW kw, NEW names, NEW kr, NEW ir, ListRules(kw, names, kr, ir),
           NEW text, NEW rows, NEW n, ListBody(text, kw, names, rows, n),
           NEW l, l = text[n + 2], l # <<>>, l[1].v = "END"
    PROVE  ParseList(text, kw, kr, ir) =
             IF ParseLine(l, ListEnd(kw, names)) THEN Got(ListSaid(names, rows, n)) ELSE Fail
  <1>1. PICK head, keys, item, last :
              /\ head = HeadOf(kw, kr)
              /\ keys = Captured(text[1], head)
              /\ item = ItemOf(kw, keys, ir)
              /\ last = LastOf(text, kw)
              /\ ParseList(text, kw, kr, ir) = ListOutcome(text, kw, head, keys, item, last)
    BY ListUnfolded
  <1>3. n \in Nat /\ Len(text) = n + 2 /\ TitleAt(text[1], "BEGIN", kw, names)
    BY DEF ListBody
  <1>4. ParseLine(text[1], head) /\ keys = names
    BY <1>1, <1>3, HeadRead
  <1>2. item = ItemOf(kw, names, ir)
    BY <1>1, <1>4, Zenon
  <1>5. ASSUME NEW i \in 1..n
        PROVE  /\ ParseLine(text[1 + i], item) /\ Captured(text[1 + i], item) = Strings(rows[i])
               /\ text[1 + i] # <<>> /\ text[1 + i][1].v = kw
    <2>1. rows[i] \in Data[kw] /\ ItemAt(text[1 + i], kw, names, rows[i])
      BY DEF ListBody
    <2> QED
      BY <1>2, <2>1, ItemRead
  <1>7. \A j \in 2..(n + 1) : ItemFrom(text, kw, j)
    <2>1. ASSUME NEW j \in 2..(n + 1) PROVE ItemFrom(text, kw, j)
      <3>1. PICK i \in 1..n : j = 1 + i
        <4>1. j - 1 \in 1..n /\ j = 1 + (j - 1)
          BY <1>3
        <4> QED
          BY <4>1
      <3>2. j <= Len(text)
        BY <1>3, <3>1
      <3> QED
        BY <1>5, <3>1, <3>2 DEF ItemFrom
    <2> QED
      BY <2>1
  <1>8. ~ItemFrom(text, kw, n + 2)
    <2>1. kw # "END"
      BY DEF ListRules
    <2> QED
      BY <2>1 DEF ItemFrom
  <1>9. (n + 1) \in 1..Len(text) /\ LastItem(text, kw, n + 1)
    <2>1. (n + 1) + 1 = n + 2 /\ (n + 1) \in 1..Len(text)
      BY <1>3
    <2> QED
      BY <1>7, <1>8, <2>1 DEF LastItem
  <1>10. ASSUME NEW i \in 1..Len(text), LastItem(text, kw, i) PROVE i = n + 1
    <2>1. CASE i < n + 1
      <3>1. i + 1 \in 2..(n + 1)
        BY <1>3, <2>1
      <3> QED
        BY <1>7, <1>10, <3>1 DEF LastItem
    <2>2. CASE i > n + 1
      <3>1. n + 2 \in 2..i
        BY <1>3, <2>2
      <3> QED
        BY <1>8, <1>10, <3>1 DEF LastItem
    <2> QED
      BY <1>3, <2>1, <2>2
  <1>11. last = n + 1
    BY <1>1, <1>9, <1>10 DEF LastOf
  <1>14. Len(text) = last + 1 /\ text[last + 1] = l /\ last - 1 = n
    <2>1. last + 1 = n + 2
      BY <1>3, <1>11
    <2> QED
      BY <1>3, <1>11, <2>1
  <1>15. \A i \in 2..last : ParseLine(text[i], item)
    <2>1. ASSUME NEW j \in 2..last PROVE ParseLine(text[j], item)
      <3>1. j - 1 \in 1..n /\ j = 1 + (j - 1)
        BY <1>3, <1>11
      <3> QED
        BY <1>5, <3>1
    <2> QED
      BY <2>1
  <1>16. [i \in 1..(last - 1) |-> Captured(text[i + 1], item)] = [i \in 1..n |-> Strings(rows[i])]
    <2>1. \A i \in 1..n : Captured(text[i + 1], item) = Strings(rows[i])
      <3>1. \A i \in 1..n : i + 1 = 1 + i
        BY <1>3
      <3> QED
        BY <1>5, <3>1
    <2> QED
      BY <1>14, <2>1
  <1> QED
    BY <1>1, <1>4, <1>14, <1>15, <1>16, Zenon DEF ListSaid, ListOutcome

(* What upsd writes as a list is such a text, with its last line. *)
LEMMA ListLines ==
    ASSUME NEW r, NEW kw, NEW names, IsRequest(r, "LIST", kw, names),
           NEW kr, NEW ir, ListRules(kw, names, kr, ir),
           NEW rows \in Lists(kw), NEW w, w = ListAnswer(r, rows).wire
    PROVE  \E n : /\ ListBody(w, kw, names, rows, n) /\ TitleAt(w[n + 2], "END", kw, names)
                  /\ ListAnswer(r, rows).said = Answered(ListSaid(names, rows, n))
  <1>1. PICK rest : rest = Tail(r)
    OBVIOUS
  <1>2. PICK title : title = <<Text("LIST")>> \o rest
    OBVIOUS
  <1>3. PICK first, last : first = <<Text("BEGIN")>> \o title /\ last = <<Text("END")>> \o title
    OBVIOUS
  <1>4. PICK items : items = [i \in 1..Len(rows) |-> rest \o rows[i]]
    OBVIOUS
  <1>5. PICK v : v = <<first>> \o items
    OBVIOUS
  <1>6. w = v \o <<last>>
    BY <1>1, <1>2, <1>3, <1>4, <1>5 DEF ListAnswer
  <1>7. TitleAt(first, "BEGIN", kw, names) /\ TitleAt(last, "END", kw, names)
    <2>1. \A b : TitleAt(<<Text(b)>> \o title, b, kw, names)
      BY <1>1, <1>2, TitleLine, Zenon
    <2> QED
      BY <1>3, <2>1
  <1>10. PICK n \in Nat : n = Len(rows) /\ \A i \in 1..n : rows[i] \in Data[kw] /\ IsSeq(rows[i])
    <2>1. PICK n \in 0..MaxRows : rows \in [1..n -> Data[kw]]
      BY DEF Lists
    <2>2. n \in Nat /\ Len(rows) = n
      BY <2>1, SessionAssumption
    <2>3. \A d \in Data[kw] : IsSeq(d)
      BY DEF ListRules
    <2> QED
      BY <2>1, <2>2, <2>3
  <1>11. IsSeq(items) /\ Len(items) = n
    <2>1. items \in [1..n -> Range(items)]
      BY <1>4, <1>10 DEF Range
    <2> QED
      BY <2>1, SeqOfFunction
  <1>12. ASSUME NEW i \in 1..n PROVE ItemAt(items[i], kw, names, rows[i])
    <2>1. items[i] = Tail(r) \o rows[i]
      BY <1>1, <1>4, <1>10
    <2>2. IsSeq(rows[i])
      BY <1>10
    <2> QED
      BY <2>1, <2>2, ItemLine, Zenon
  <1>13. /\ IsSeq(v) /\ Len(v) = 1 + n /\ v[1] = first
         /\ \A i \in 1..n : v[1 + i] = items[i]
    BY <1>5, <1>11, SeqCons
  <1>14. /\ IsSeq(w) /\ Len(w) = n + 2 /\ w[n + 2] = last
         /\ \A i \in 1..(1 + n) : w[i] = v[i]
    <2>1. PICK u : u = <<last>> /\ IsSeq(u) /\ Len(u) = 1 /\ u[1] = last
      BY SeqShort
    <2>2. IsJoin(w, v, u)
      BY <1>6, <1>13, <2>1, JoinIs
    <2> QED
      BY <1>13, <2>1, <2>2 DEF IsJoin
  <1>15. ASSUME NEW i \in 1..n PROVE rows[i] \in Data[kw] /\ ItemAt(w[1 + i], kw, names, rows[i])
    <2>1. 1 + i \in 1..(1 + n)
      OBVIOUS
    <2>2. w[1 + i] = items[i]
      BY <1>13, <1>14, <2>1
    <2> QED
      BY <1>10, <1>12, <2>2
  <1>16. w[1] = first
    BY <1>13, <1>14
  <1>17. ListBody(w, kw, names, rows, n)
    BY <1>7, <1>14, <1>15, <1>16 DEF ListBody
  <1>18. ListAnswer(r, rows).said = Answered(ListSaid(names, rows, n))
    <2>1. Strings(SubSeq(r, 3, Len(r))) = names
      BY RequestNames, ZenonT(40)
    <2>2. ListAnswer(r, rows).said = Answered(<<Strings(SubSeq(r, 3, Len(r)))>>
                          \o [i \in 1..Len(rows) |-> Strings(rows[i])])
      BY DEF ListAnswer
    <2>3. Len(rows) = n
      BY <1>10
    <2> QED
      BY <2>1, <2>2, <2>3, Zenon DEF ListSaid
  <1> QED
    BY <1>7, <1>14, <1>17, <1>18

-----------------------------------------------------------------------------
(* A text that is left of an answer: some of its lines, the last one       *)
(* possibly cut off.                                                       *)
PartOf(text, w) ==
    /\ IsSeq(text) /\ Len(text) \in Nat /\ Len(w) \in Nat /\ Len(text) <= Len(w)
    /\ \A i \in 1..(Len(text) - 1) : text[i] = w[i]
    /\ Len(text) > 0 => \/ text[Len(text)] = w[Len(text)]
                        \/ text[Len(text)] \in CutLine(w[Len(text)])

ListAnswerTo(q, a) ==
    \E kw, names, kr, ir, rows, n :
        /\ ListRules(kw, names, kr, ir)
        /\ \A t : Deserialize(q.op, t) = ParseList(t, kw, kr, ir)
        /\ ListBody(a.wire, kw, names, rows, n) /\ TitleAt(a.wire[n + 2], "END", kw, names)
        /\ a.said = Answered(ListSaid(names, rows, n))

(* No line of a list, cut off or not, is taken for its end. *)
LEMMA CutItem ==
    ASSUME NEW kw, kw \notin {"END", "~", "STRING:3"}, NEW names, NEW row, NEW full,
           ItemAt(full, kw, names, row), NEW l, l = full \/ l \in CutLine(full)
    PROVE  ~EndsList(l)
  <1>1. IsSeq(full) /\ full[1] = Text(kw)
    BY DEF ItemAt
  <1>2. l[1] = full[1] \/ l[1] \in Torn(full[1])
    <2>1. CASE l = full
      BY <2>1
    <2>2. CASE l \in CutLine(full)
      <3>1. /\ Len(full) \in Nat /\ Len(l) \in 1..Len(full)
            /\ \A i \in 1..(Len(l) - 1) : l[i] = full[i]
            /\ l[Len(l)] = full[Len(l)] \/ l[Len(l)] \in Torn(full[Len(l)])
        BY <1>1, <2>2, CutLineShape
      <3>2. CASE Len(l) = 1
        BY <3>1, <3>2, Zenon
      <3>3. CASE Len(l) # 1
        BY <3>1, <3>3
      <3> QED
        BY <3>2, <3>3
    <2> QED
      BY <2>1, <2>2
  <1>3. l[1] = Text(kw) \/ l[1] = Text("~") \/ l[1] = Text("STRING:3")
    BY <1>1, <1>2, TornToken, Zenon
  <1>4. l[1].v # "END"
    BY <1>3, TokenKinds
  <1> QED
    BY <1>4 DEF EndsList, StartsWith

(* A list whose end was read is the whole list, or it is refused. *)
LEMMA CutList ==
    ASSUME NEW q, NEW a, ListAnswerTo(q, a), NEW text, PartOf(text, a.wire), Len(text) >= 2,
           EndsList(text[Len(text)])
    PROVE  /\ Deserialize(q.op, text) = Fail \/ Answered(Deserialize(q.op, text).rows) = a.said
           /\ text = a.wire => Deserialize(q.op, text).ok
  <1>1. PICK w : w = a.wire
    OBVIOUS
  <1>2. PICK kw, names, kr, ir, rows, n :
            /\ ListRules(kw, names, kr, ir)
            /\ \A t : Deserialize(q.op, t) = ParseList(t, kw, kr, ir)
            /\ ListBody(w, kw, names, rows, n) /\ TitleAt(w[n + 2], "END", kw, names)
            /\ a.said = Answered(ListSaid(names, rows, n))
    BY <1>1, Zenon DEF ListAnswerTo
  <1>3. /\ n \in Nat /\ IsSeq(w) /\ Len(w) = n + 2 /\ TitleAt(w[1], "BEGIN", kw, names)
        /\ \A i \in 1..n : rows[i] \in Data[kw] /\ ItemAt(w[1 + i], kw, names, rows[i])
    BY <1>2 DEF ListBody
  <1>4. /\ IsSeq(text) /\ Len(text) \in 2..(n + 2)
        /\ \A i \in 1..(Len(text) - 1) : text[i] = w[i]
        /\ \/ text[Len(text)] = w[Len(text)]
           \/ text[Len(text)] \in CutLine(w[Len(text)])
    BY <1>1, <1>3 DEF PartOf
  <1>5. Len(text) = n + 2
    <2>1. SUFFICES ASSUME Len(text) # n + 2 PROVE FALSE
      OBVIOUS
    <2>2. PICK i \in 1..n : Len(text) = 1 + i
      <3>1. PICK k \in 2..(n + 2) : k = Len(text) /\ k # n + 2
        BY <1>4, <2>1, Zenon
      <3>2. k - 1 \in 1..n /\ k = 1 + (k - 1)
        BY <1>3, <3>1
      <3> QED
        BY <3>1, <3>2, Zenon
    <2>3. ItemAt(w[1 + i], kw, names, rows[i])
      BY <1>3, <2>2
    <2>4. text[1 + i] = w[1 + i] \/ text[1 + i] \in CutLine(w[1 + i])
      BY <1>4, <2>2, Zenon
    <2>5. kw \notin {"END", "~", "STRING:3"}
      BY <1>2 DEF ListRules
    <2>6. ~EndsList(text[1 + i])
      BY <2>3, <2>4, <2>5, CutItem, Zenon
    <2> QED
      BY <2>2, <2>6, Zenon
  <1>6. PICK l : l = text[n + 2]
    OBVIOUS
  <1>7. l = w[n + 2] \/ l \in CutLine(w[n + 2])
    BY <1>4, <1>5, <1>6, Zenon
  <1>8. IsSeq(w[n + 2])
    BY <1>2 DEF TitleAt
  <1>9. IsSeq(l)
    BY <1>7, <1>8, CutLineShape
  <1>10. l # <<>> /\ l[1].v = "END"
    <2>1. EndsList(l)
      BY <1>5, <1>6, Zenon
    <2>2. Len(l) >= 2 /\ l[1].v = "END"
      BY <2>1 DEF EndsList, StartsWith
    <2>3. Len(<<>>) = 0
      OBVIOUS
    <2> QED
      BY <2>2, <2>3
  <1>11. ListBody(text, kw, names, rows, n)
    <2>1. text[1] = w[1]
      BY <1>3, <1>4, <1>5
    <2>2. ASSUME NEW i \in 1..n PROVE rows[i] \in Data[kw] /\ ItemAt(text[1 + i], kw, names, rows[i])
      <3>1. 1 + i \in 1..(Len(text) - 1)
        BY <1>3, <1>5
      <3> QED
        BY <1>3, <1>4, <3>1
    <2> QED
      BY <1>3, <1>4, <1>5, <2>1, <2>2 DEF ListBody
  <1>12. Deserialize(q.op, text) =
           IF ParseLine(l, ListEnd(kw, names)) THEN Got(ListSaid(names, rows, n)) ELSE Fail
    <2>1. ParseList(text, kw, kr, ir) =
           IF ParseLine(l, ListEnd(kw, names)) THEN Got(ListSaid(names, rows, n)) ELSE Fail
      BY <1>2, <1>6, <1>10, <1>11, ListParsed
    <2> QED
      BY <1>2, <2>1, Zenon
  <1>13. CASE ParseLine(l, ListEnd(kw, names))
    <2>1. Deserialize(q.op, text).ok /\ Deserialize(q.op, text).rows = ListSaid(names, rows, n)
      BY <1>12, <1>13 DEF Got
    <2> QED
      BY <1>2, <2>1, Zenon
  <1>14. CASE ~ParseLine(l, ListEnd(kw, names))
    <2>1. Deserialize(q.op, text) = Fail
      BY <1>12, <1>14, Zenon
    <2>2. text # w
      <3>1. SUFFICES ASSUME text = w PROVE FALSE
        OBVIOUS
      <3>2. TitleAt(l, "END", kw, names)
        BY <1>2, <1>6, <3>1
      <3>3. IsSeq(names) /\ Len(names) \in Nat
        BY <1>2 DEF ListRules
      <3> QED
        BY <1>9, <1>14, <3>2, <3>3, EndRead
    <2> QED
      BY <1>1, <2>1, <2>2, Zenon
  <1> QED
    BY <1>13, <1>14

(* Which rules read which list. *)
ListRead(q, kw, names, kr, ir) ==
    /\ IsRequest(Serialize(q), "LIST", kw, names) /\ ListRules(kw, names, kr, ir)
    /\ \A t : Deserialize(q.op, t) = ParseList(t, kw, kr, ir)

KeysRead(names, kr) ==
    /\ IsSeq(names) /\ Len(names) \in Nat
    /\ IsSeq(kr) /\ Len(kr) = Len(names)
    /\ \A i \in 1..Len(names) : Fits(Text(names[i]), kr[i]) /\ kr[i].m # "word"

DataRead(kw, ir) ==
    /\ kw \in DOMAIN Data /\ kw \notin {"END", "~", "STRING:3"}
    /\ IsSeq(ir) /\ Len(ir) \in Nat /\ \A j \in 1..Len(ir) : ir[j].m # "word"
    /\ \A d \in Data[kw] : /\ IsSeq(d) /\ Len(d) = Len(ir)
                           /\ \A j \in 1..Len(ir) : Fits(d[j], ir[j])

LEMMA RulesOf ==
    ASSUME NEW kw, NEW names, NEW kr, NEW ir, KeysRead(names, kr), DataRead(kw, ir)
    PROVE  ListRules(kw, names, kr, ir)
  BY Zenon DEF ListRules, KeysRead, DataRead

LEMMA NoKeys == KeysRead(<<>>, <<>>)
  <1>1. PICK e : e = <<>> /\ IsSeq(e) /\ Len(e) = 0
    BY SeqShort
  <1>2. KeysRead(e, e)
    BY <1>1 DEF KeysRead
  <1> QED
    BY <1>1, <1>2, Zenon

LEMMA DeviceKey == ASSUME NEW u PROVE KeysRead(<<u>>, <<UPS>>)
  <1>1. PICK names : names = <<u>> /\ IsSeq(names) /\ Len(names) = 1 /\ names[1] = u
    BY SeqShort
  <1>2. PICK kr : kr = <<UPS>> /\ IsSeq(kr) /\ Len(kr) = 1 /\ kr[1] = UPS
    BY SeqShort
  <1>3. Fits(Text(u), UPS) /\ UPS.m # "word"
    BY FitsKinds, TokenKinds, RuleKinds
  <1>4. KeysRead(names, kr)
    BY <1>1, <1>2, <1>3 DEF KeysRead
  <1> QED
    BY <1>1, <1>2, <1>4, Zenon

LEMMA NamedKeys == ASSUME NEW u PROVE KeysRead(<<u, "n">>, <<UPS, VAR>>)
  <1>0. PICK n : n = "n"
    OBVIOUS
  <1>1. PICK names : names = <<u, n>>
    OBVIOUS
  <1>2. IsSeq(names) /\ Len(names) = 2 /\ names[1] = u /\ names[2] = n
    BY <1>1, PairIs
  <1>3. PICK kr : kr = <<UPS, VAR>>
    OBVIOUS
  <1>4. IsSeq(kr) /\ Len(kr) = 2 /\ kr[1] = UPS /\ kr[2] = VAR
    BY <1>3, PairIs
  <1>5. Fits(Text(u), UPS) /\ UPS.m # "word"
    BY FitsKinds, TokenKinds, RuleKinds
  <1>6. Fits(Text(n), VAR) /\ VAR.m # "word"
    BY <1>0, FitsKinds, TokenKinds, RuleKinds DEF Odd
  <1>7. \A i \in 1..2 : Fits(Text(names[i]), kr[i]) /\ kr[i].m # "word"
    BY <1>2, <1>4, <1>5, <1>6
  <1>8. KeysRead(names, kr)
    BY <1>2, <1>4, <1>7 DEF KeysRead
  <1> QED
    BY <1>0, <1>1, <1>3, <1>8, Zenon

(* Data of one token, and of two. *)
LEMMA OneDatum ==
    ASSUME NEW kw \in DOMAIN Data, kw \notin {"END", "~", "STRING:3"}, NEW rule, rule.m # "word",
           \A d \in Data[kw] : \E x : d = <<x>> /\ Fits(x, rule)
    PROVE  DataRead(kw, <<rule>>)
  <1>1. PICK ir : ir = <<rule>> /\ IsSeq(ir) /\ Len(ir) = 1 /\ ir[1] = rule
    BY SeqShort
  <1>2. ASSUME NEW d \in Data[kw]
        PROVE  IsSeq(d) /\ Len(d) = Len(ir) /\ \A j \in 1..Len(ir) : Fits(d[j], ir[j])
    <2>1. PICK x : d = <<x>> /\ Fits(x, rule)
      OBVIOUS
    <2>2. IsSeq(d) /\ Len(d) = 1 /\ d[1] = x
      BY <2>1, SeqShort
    <2> QED
      BY <1>1, <2>1, <2>2
  <1>3. DataRead(kw, ir)
    BY <1>1, <1>2 DEF DataRead
  <1> QED
    BY <1>1, <1>3, Zenon

LEMMA TwoData ==
    ASSUME NEW kw \in DOMAIN Data, kw \notin {"END", "~", "STRING:3"},
           NEW rule, NEW other, rule.m # "word", other.m # "word",
           \A d \in Data[kw] : \E x, y : d = <<x, y>> /\ Fits(x, rule) /\ Fits(y, other)
    PROVE  DataRead(kw, <<rule, other>>)
  <1>0. PICK ir : ir = <<rule, other>>
    OBVIOUS
  <1>1. IsSeq(ir) /\ Len(ir) = 2 /\ ir[1] = rule /\ ir[2] = other
    BY <1>0, PairIs
  <1>2. ASSUME NEW d \in Data[kw]
        PROVE  IsSeq(d) /\ Len(d) = Len(ir) /\ \A j \in 1..Len(ir) : Fits(d[j], ir[j])
    <2>1. PICK x, y : d = <<x, y>> /\ Fits(x, rule) /\ Fits(y, other)
      OBVIOUS
    <2>2. IsSeq(d) /\ Len(d) = 2 /\ d[1] = x /\ d[2] = y
      BY <2>1, PairIs
    <2> QED
      BY <1>1, <2>1, <2>2
  <1>3. \A j \in 1..Len(ir) : ir[j].m # "word"
    BY <1>1
  <1>4. DataRead(kw, ir)
    BY <1>1, <1>2, <1>3 DEF DataRead
  <1> QED
    BY <1>0, <1>4, Zenon

LEMMA DataFits ==
    /\ \A v \in {"u1", "u2"} : Fits(Text(v), UPS)
    /\ \A v \in {"v1", "END"} : Fits(Text(v), VAR)
    /\ \A v \in {"c1", "c2"} : Fits(Text(v), CMD)
    /\ Fits(Text("::1"), IP)
    /\ \A v : Fits(Quoted(v), QUOTED_TEXT)
    /\ \A v \in {"1", "9"} : Fits(Quoted(v), NUM_VALUE)
  BY FitsKinds, TokenKinds DEF Odd

LEMMA DataAre ==
    /\ DataRead("UPS", <<UPS, QUOTED_TEXT>>)
    /\ DataRead("VAR", <<VAR, QUOTED_TEXT>>)
    /\ DataRead("RW", <<VAR, QUOTED_TEXT>>)
    /\ DataRead("CMD", <<CMD>>)
    /\ DataRead("CLIENT", <<IP>>)
    /\ DataRead("ENUM", <<QUOTED_TEXT>>)
    /\ DataRead("RANGE", <<NUM_VALUE, NUM_VALUE>>)
  <1>0. DOMAIN Data = {"UPS", "VAR", "RW", "CMD", "CLIENT", "ENUM", "RANGE"}
    BY DEF Data
  <1>k. \A r \in {UPS, VAR, CMD, IP, QUOTED_TEXT, NUM_VALUE} : r.m # "word"
    BY RuleKinds
  <1>1. DataRead("UPS", <<UPS, QUOTED_TEXT>>)
    <2>1. \A d \in Data["UPS"] : \E x, y : d = <<x, y>> /\ Fits(x, UPS) /\ Fits(y, QUOTED_TEXT)
      BY DataFits DEF Data
    <2> QED
      BY <1>0, <1>k, <2>1, TwoData
  <1>2. DataRead("VAR", <<VAR, QUOTED_TEXT>>)
    <2>1. \A d \in Data["VAR"] : \E x, y : d = <<x, y>> /\ Fits(x, VAR) /\ Fits(y, QUOTED_TEXT)
      BY DataFits DEF Data
    <2> QED
      BY <1>0, <1>k, <2>1, TwoData
  <1>3. DataRead("RW", <<VAR, QUOTED_TEXT>>)
    <2>1. \A d \in Data["RW"] : \E x, y : d = <<x, y>> /\ Fits(x, VAR) /\ Fits(y, QUOTED_TEXT)
      BY DataFits DEF Data
    <2> QED
      BY <1>0, <1>k, <2>1, TwoData
  <1>4. DataRead("CMD", <<CMD>>)
    <2>1. \A d \in Data["CMD"] : \E x : d = <<x>> /\ Fits(x, CMD)
      BY DataFits DEF Data
    <2> QED
      BY <1>0, <1>k, <2>1, OneDatum
  <1>5. DataRead("CLIENT", <<IP>>)
    <2>1. \A d \in Data["CLIENT"] : \E x : d = <<x>> /\ Fits(x, IP)
      BY DataFits DEF Data
    <2> QED
      BY <1>0, <1>k, <2>1, OneDatum
  <1>6. DataRead("ENUM", <<QUOTED_TEXT>>)
    <2>1. \A d \in Data["ENUM"] : \E x : d = <<x>> /\ Fits(x, QUOTED_TEXT)
      BY DataFits DEF Data
    <2> QED
      BY <1>0, <1>k, <2>1, OneDatum
  <1>7. DataRead("RANGE", <<NUM_VALUE, NUM_VALUE>>)
    <2>1. \A d \in Data["RANGE"] : \E x, y : d = <<x, y>> /\ Fits(x, NUM_VALUE) /\ Fits(y, NUM_VALUE)
      BY DataFits DEF Data
    <2> QED
      BY <1>0, <1>k, <2>1, TwoData
  <1> QED
    BY <1>1, <1>2, <1>3, <1>4, <1>5, <1>6, <1>7, Zenon

LEMMA ListTable ==
    ASSUME NEW q \in Requests, q.op \in DOMAIN ListCommands
    PROVE  \E kw, names, kr, ir : ListRead(q, kw, names, kr, ir)
  <1>0. q.op \in {"ListClient", "ListCmd", "ListVar", "ListEnum", "ListRange", "ListRw", "ListUps"}
    BY DEF ListCommands
  <1>1. CASE q.op = "ListClient"
    <2>1. Commands[q.op] = [words |-> <<"LIST", "CLIENT">>, args |-> <<"ups">>]
      BY <1>1, CommandIs DEF ListCommands
    <2>2. IsRequest(Serialize(q), "LIST", "CLIENT", <<q.ups>>)
      BY <2>1, DeviceRequest
    <2>3. \A t : Deserialize(q.op, t) = ParseList(t, "CLIENT", <<UPS>>, <<IP>>)
      BY <1>1 DEF Deserialize, ClientList
    <2>4. ListRules("CLIENT", <<q.ups>>, <<UPS>>, <<IP>>)
      BY DeviceKey, DataAre, RulesOf
    <2>5. ListRead(q, "CLIENT", <<q.ups>>, <<UPS>>, <<IP>>)
      BY <2>2, <2>3, <2>4, Zenon DEF ListRead
    <2> QED
      BY <2>5, Zenon
  <1>2. CASE q.op = "ListCmd"
    <2>1. Commands[q.op] = [words |-> <<"LIST", "CMD">>, args |-> <<"ups">>]
      BY <1>2, CommandIs DEF ListCommands
    <2>2. IsRequest(Serialize(q), "LIST", "CMD", <<q.ups>>)
      BY <2>1, DeviceRequest
    <2>3. \A t : Deserialize(q.op, t) = ParseList(t, "CMD", <<UPS>>, <<CMD>>)
      BY <1>2 DEF Deserialize, CmdList
    <2>4. ListRules("CMD", <<q.ups>>, <<UPS>>, <<CMD>>)
      BY DeviceKey, DataAre, RulesOf
    <2>5. ListRead(q, "CMD", <<q.ups>>, <<UPS>>, <<CMD>>)
      BY <2>2, <2>3, <2>4, Zenon DEF ListRead
    <2> QED
      BY <2>5, Zenon
  <1>3. CASE q.op = "ListVar"
    <2>1. Commands[q.op] = [words |-> <<"LIST", "VAR">>, args |-> <<"ups">>]
      BY <1>3, CommandIs DEF ListCommands
    <2>2. IsRequest(Serialize(q), "LIST", "VAR", <<q.ups>>)
      BY <2>1, DeviceRequest
    <2>3. \A t : Deserialize(q.op, t) = ParseList(t, "VAR", <<UPS>>, <<VAR, QUOTED_TEXT>>)
      BY <1>3 DEF Deserialize, UpsVarList
    <2>4. ListRules("VAR", <<q.ups>>, <<UPS>>, <<VAR, QUOTED_TEXT>>)
      BY DeviceKey, DataAre, RulesOf
    <2>5. ListRead(q, "VAR", <<q.ups>>, <<UPS>>, <<VAR, QUOTED_TEXT>>)
      BY <2>2, <2>3, <2>4, Zenon DEF ListRead
    <2> QED
      BY <2>5, Zenon
  <1>4. CASE q.op = "ListEnum"
    <2>1. Commands[q.op] = [words |-> <<"LIST", "ENUM">>, args |-> <<"ups", "name">>]
      BY <1>4, CommandIs DEF ListCommands
    <2>2. IsRequest(Serialize(q), "LIST", "ENUM", <<q.ups, "n">>)
      BY <2>1, NamedRequest
    <2>3. \A t : Deserialize(q.op, t) = ParseList(t, "ENUM", <<UPS, VAR>>, <<QUOTED_TEXT>>)
      BY <1>4 DEF Deserialize, EnumList
    <2>4. ListRules("ENUM", <<q.ups, "n">>, <<UPS, VAR>>, <<QUOTED_TEXT>>)
      BY NamedKeys, DataAre, RulesOf
    <2>5. ListRead(q, "ENUM", <<q.ups, "n">>, <<UPS, VAR>>, <<QUOTED_TEXT>>)
      BY <2>2, <2>3, <2>4, Zenon DEF ListRead
    <2> QED
      BY <2>5, Zenon
  <1>5. CASE q.op = "ListRange"
    <2>1. Commands[q.op] = [words |-> <<"LIST", "RANGE">>, args |-> <<"ups", "name">>]
      BY <1>5, CommandIs DEF ListCommands
    <2>2. IsRequest(Serialize(q), "LIST", "RANGE", <<q.ups, "n">>)
      BY <2>1, NamedRequest
    <2>3. \A t : Deserialize(q.op, t) = ParseList(t, "RANGE", <<UPS, VAR>>, <<NUM_VALUE, NUM_VALUE>>)
      BY <1>5 DEF Deserialize, RangeList
    <2>4. ListRules("RANGE", <<q.ups, "n">>, <<UPS, VAR>>, <<NUM_VALUE, NUM_VALUE>>)
      BY NamedKeys, DataAre, RulesOf
    <2>5. ListRead(q, "RANGE", <<q.ups, "n">>, <<UPS, VAR>>, <<NUM_VALUE, NUM_VALUE>>)
      BY <2>2, <2>3, <2>4, Zenon DEF ListRead
    <2> QED
      BY <2>5, Zenon
  <1>6. CASE q.op = "ListRw"
    <2>1. Commands[q.op] = [words |-> <<"LIST", "RW">>, args |-> <<"ups">>]
      BY <1>6, CommandIs DEF ListCommands
    <2>2. IsRequest(Serialize(q), "LIST", "RW", <<q.ups>>)
      BY <2>1, DeviceRequest
    <2>3. \A t : Deserialize(q.op, t) = ParseList(t, "RW", <<UPS>>, <<VAR, QUOTED_TEXT>>)
      BY <1>6 DEF Deserialize, RwList
    <2>4. ListRules("RW", <<q.ups>>, <<UPS>>, <<VAR, QUOTED_TEXT>>)
      BY DeviceKey, DataAre, RulesOf
    <2>5. ListRead(q, "RW", <<q.ups>>, <<UPS>>, <<VAR, QUOTED_TEXT>>)
      BY <2>2, <2>3, <2>4, Zenon DEF ListRead
    <2> QED
      BY <2>5, Zenon
  <1>7. CASE q.op = "ListUps"
    <2>1. Commands[q.op] = [words |-> <<"LIST", "UPS">>, args |-> <<>>]
      BY <1>7, CommandIs DEF ListCommands
    <2>2. IsRequest(Serialize(q), "LIST", "UPS", <<>>)
      BY <2>1, BareRequest
    <2>3. \A t : Deserialize(q.op, t) = ParseList(t, "UPS", <<>>, <<UPS, QUOTED_TEXT>>)
      BY <1>7 DEF Deserialize, UpsList
    <2>4. ListRules("UPS", <<>>, <<>>, <<UPS, QUOTED_TEXT>>)
      BY NoKeys, DataAre, RulesOf
    <2>5. ListRead(q, "UPS", <<>>, <<>>, <<UPS, QUOTED_TEXT>>)
      BY <2>2, <2>3, <2>4, Zenon DEF ListRead
    <2> QED
      BY <2>5, Zenon
  <1> QED
    BY <1>0, <1>1, <1>2, <1>3, <1>4, <1>5, <1>6, <1>7

-----------------------------------------------------------------------------
(* Every command is answered with one line that shows its end, with one    *)
(* that does not, or with a list.                                          *)
OneLineOps ==
    {"GetVar", "GetVarDesc", "GetCmdDesc", "GetUpsDesc", "Username", "Password", "AttachCommand",
     "SetVariable", "InstCmd", "FsdCommand", "DetachCommand", "StartTls"}

LEMMA OpKinds ==
    ASSUME NEW q \in Requests
    PROVE  q.op \in OneLineOps \/ q.op \in EndlessOps \/ q.op \in DOMAIN ListCommands
  <1>1. q.op \in DOMAIN Commands
    BY SessionAssumption DEF Requests
  <1>2. DOMAIN Commands = DOMAIN SessionCommands \cup DOMAIN GetCommands
                             \cup DOMAIN ListCommands \cup DOMAIN LoginCommands
    BY DEF Commands
  <1> QED
    BY <1>1, <1>2 DEF OneLineOps, EndlessOps, SessionCommands, GetCommands, LoginCommands

LEMMA AnswerTable ==
    ASSUME NEW q \in Requests, NEW a \in UpsdAnswers(Serialize(q))
    PROVE  \/ a = ErrAnswer
           \/ q.op \in OneLineOps /\ OneLineAnswer(q, a)
           \/ q.op \in EndlessOps /\ EndlessAnswer(q, a)
           \/ q.op \in DOMAIN ListCommands /\ ListAnswerTo(q, a)
  <1>1. CASE q.op \in OneLineOps
    BY <1>1, GetAnswer, OkAnswer DEF OneLineOps
  <1>2. CASE q.op \in EndlessOps
    BY <1>2, RawAnswer, TypeAnswer DEF EndlessOps
  <1>3. CASE q.op \in DOMAIN ListCommands
    <2>1. PICK kw, names, kr, ir : ListRead(q, kw, names, kr, ir)
      BY <1>3, ListTable
    <2>2. PICK r : r = Serialize(q)
      OBVIOUS
    <2>3. /\ IsRequest(r, "LIST", kw, names) /\ ListRules(kw, names, kr, ir)
          /\ \A t : Deserialize(q.op, t) = ParseList(t, kw, kr, ir)
      BY <2>1, <2>2 DEF ListRead
    <2>4. r[1].v = "LIST" /\ r[2].v = kw
      BY <2>3, TokenKinds DEF IsRequest
    <2>5. a = ErrAnswer \/ \E rows \in Lists(kw) : a = ListAnswer(r, rows)
      BY <2>2, <2>4 DEF UpsdAnswers, Okays
    <2>6. ASSUME NEW rows \in Lists(kw), a = ListAnswer(r, rows) PROVE ListAnswerTo(q, a)
      <3>1. PICK w : w = ListAnswer(r, rows).wire
        OBVIOUS
      <3>2. PICK n : /\ ListBody(w, kw, names, rows, n) /\ TitleAt(w[n + 2], "END", kw, names)
                     /\ ListAnswer(r, rows).said = Answered(ListSaid(names, rows, n))
        BY <2>3, <3>1, ListLines
      <3>3. w = a.wire /\ a.said = Answered(ListSaid(names, rows, n))
        BY <2>6, <3>1, <3>2, Zenon
      <3> QED
        BY <2>3, <3>2, <3>3, Zenon DEF ListAnswerTo
    <2> QED
      BY <1>3, <2>5, <2>6
  <1> QED
    BY <1>1, <1>2, <1>3, OpKinds

(* The rules of the one line start with a word that no cut leaves. *)
LEMMA OneLineRules ==
    ASSUME NEW q, q.op \in OneLineOps
    PROVE  \E rules, w : /\ rules[1] = Word(w) /\ w # "~" /\ Len(rules) \in Nat \ {0}
                         /\ \A t : Deserialize(q.op, t) = ParseOne(t, rules)
  <1>1. CASE q.op = "GetVar"
    <2>1. \A t : Deserialize(q.op, t) = ParseOne(t, UpsVar)
      BY <1>1 DEF Deserialize
    <2>2. UpsVar[1] = Word("VAR") /\ Len(UpsVar) = 4
      BY DEF UpsVar
    <2> QED
      BY <2>1, <2>2
  <1>2. CASE q.op = "GetVarDesc"
    <2>1. \A t : Deserialize(q.op, t) = ParseOne(t, UpsVarDesc)
      BY <1>2 DEF Deserialize
    <2>2. UpsVarDesc[1] = Word("DESC") /\ Len(UpsVarDesc) = 4
      BY DEF UpsVarDesc
    <2> QED
      BY <2>1, <2>2
  <1>3. CASE q.op = "GetCmdDesc"
    <2>1. \A t : Deserialize(q.op, t) = ParseOne(t, CmdDesc)
      BY <1>3 DEF Deserialize
    <2>2. CmdDesc[1] = Word("CMDDESC") /\ Len(CmdDesc) = 4
      BY DEF CmdDesc
    <2> QED
      BY <2>1, <2>2
  <1>4. CASE q.op = "GetUpsDesc"
    <2>1. \A t : Deserialize(q.op, t) = ParseOne(t, UpsDesc)
      BY <1>4 DEF Deserialize
    <2>2. UpsDesc[1] = Word("UPSDESC") /\ Len(UpsDesc) = 3
      BY DEF UpsDesc
    <2> QED
      BY <2>1, <2>2
  <1>5. CASE q.op \in {"Username", "Password", "AttachCommand", "SetVariable", "InstCmd"}
    <2>1. \A t : Deserialize(q.op, t) = ParseOne(t, ProtOk)
      BY <1>5 DEF Deserialize
    <2>2. ProtOk[1] = Word("OK") /\ Len(ProtOk) = 1
      BY DEF ProtOk
    <2> QED
      BY <2>1, <2>2
  <1>6. CASE q.op = "FsdCommand"
    <2>1. \A t : Deserialize(q.op, t) = ParseOne(t, ProtOkFsd)
      BY <1>6 DEF Deserialize
    <2>2. ProtOkFsd[1] = Word("OK") /\ Len(ProtOkFsd) = 2
      BY DEF ProtOkFsd
    <2> QED
      BY <2>1, <2>2
  <1>7. CASE q.op = "DetachCommand"
    <2>1. \A t : Deserialize(q.op, t) = ParseOne(t, ProtOkDetach)
      BY <1>7 DEF Deserialize
    <2>2. ProtOkDetach[1] = Word("OK") /\ Len(ProtOkDetach) = 2
      BY DEF ProtOkDetach
    <2> QED
      BY <2>1, <2>2
  <1>8. CASE q.op = "StartTls"
    <2>1. \A t : Deserialize(q.op, t) = ParseOne(t, ProtOkTls)
      BY <1>8 DEF Deserialize
    <2>2. ProtOkTls[1] = Word("OK") /\ Len(ProtOkTls) = 2
      BY DEF ProtOkTls
    <2> QED
      BY <2>1, <2>2
  <1> QED
    BY <1>1, <1>2, <1>3, <1>4, <1>5, <1>6, <1>7, <1>8 DEF OneLineOps

(* One line is no list. *)
LEMMA ListShort ==
    ASSUME NEW l, NEW kw, NEW kr, NEW ir
    PROVE  ParseList(<<l>>, kw, kr, ir) = Fail
  <1>1. PICK text : text = <<l>> /\ Len(text) = 1
    BY SeqShort
  <1>2. PICK head, keys, item, last :
              /\ last = LastOf(text, kw)
              /\ ParseList(text, kw, kr, ir) = ListOutcome(text, kw, head, keys, item, last)
    BY ListUnfolded
  <1>3. last = 1
    <2>1. 1 \in 1..Len(text) /\ LastItem(text, kw, 1)
      BY <1>1 DEF LastItem, ItemFrom
    <2>2. \A i \in 1..Len(text) : i = 1
      BY <1>1
    <2> QED
      BY <1>2, <2>1, <2>2 DEF LastOf
  <1>4. Len(text) # last + 1
    BY <1>1, <1>3
  <1> QED
    BY <1>1, <1>2, <1>4, Zenon DEF ListOutcome

-----------------------------------------------------------------------------
(* What a call makes of a text: the answer, all of it, or nothing.         *)
Reads(q, a, text) ==
    Deserialize(q.op, text) = Fail \/ Answered(Deserialize(q.op, text).rows) = a.said

(* An answer of one line. *)
LEMMA ReadsLine ==
    ASSUME NEW q \in Requests, NEW a \in UpsdAnswers(Serialize(q)), q.op \notin EndlessOps,
           NEW l, l = a.wire[1] \/ l \in CutLine(a.wire[1]), ~StartsWith(l, <<"ERR">>)
    PROVE  Reads(q, a, <<l>>)
  <1>1. CASE q.op \in DOMAIN ListCommands
    <2>1. PICK kw, names, kr, ir : ListRead(q, kw, names, kr, ir)
      BY <1>1, ListTable
    <2>2. Deserialize(q.op, <<l>>) = ParseList(<<l>>, kw, kr, ir)
      BY <2>1, Zenon DEF ListRead
    <2>3. ParseList(<<l>>, kw, kr, ir) = Fail
      BY ListShort, Zenon
    <2> QED
      BY <2>2, <2>3, Zenon DEF Reads
  <1>2. CASE a = ErrAnswer /\ q.op \in OneLineOps
    <2>1. l[1] = Text("~")
      <3>1. CASE l \in CutLine(a.wire[1])
        BY <1>2, <3>1, CutError
      <3>2. CASE l = a.wire[1]
        <4>1. l = <<Text("ERR"), Text("DATA-STALE")>>
          BY <1>2, <3>2 DEF ErrAnswer
        <4>2. Len(l) = 2 /\ l[1] = Text("ERR")
          BY <4>1
        <4>3. StartsWith(l, <<"ERR">>)
          BY <4>2, TokenKinds DEF StartsWith
        <4> QED
          BY <4>3
      <3> QED
        BY <3>1, <3>2
    <2>2. PICK rules, w : /\ rules[1] = Word(w) /\ w # "~" /\ Len(rules) \in Nat \ {0}
                          /\ \A t : Deserialize(q.op, t) = ParseOne(t, rules)
      BY <1>2, OneLineRules
    <2>3. ParseOne(<<l>>, rules) = Fail
      BY <2>1, <2>2, ErrorParses
    <2> QED
      BY <2>2, <2>3, Zenon DEF Reads
  <1>3. CASE OneLineAnswer(q, a)
    <2>1. PICK full, rules, caps :
             /\ a = LineAnswer(full, caps) /\ Whole(full, rules, caps)
             /\ \A t : Deserialize(q.op, t) = ParseOne(t, rules)
      BY <1>3, Zenon DEF OneLineAnswer
    <2>2. a.wire[1] = full /\ a.said = Answered(<<caps>>)
      BY <2>1 DEF LineAnswer
    <2>3. CASE l = full
      <3>1. ParseOne(<<l>>, rules) = Got(<<caps>>)
        BY <2>1, <2>3, WholeParses
      <3>2. Deserialize(q.op, <<l>>) = Got(<<caps>>)
        BY <2>1, <3>1, Zenon
      <3>3. Deserialize(q.op, <<l>>).rows = <<caps>>
        BY <3>2 DEF Got
      <3> QED
        BY <2>2, <3>3, Zenon DEF Reads
    <2>4. CASE l # full
      <3>1. ~ParseLine(l, rules)
        BY <2>1, <2>2, <2>4, CutParses
      <3>2. <<l>>[1] = l
        OBVIOUS
      <3>3. ParseOne(<<l>>, rules) = Fail
        BY <3>1, <3>2, Zenon DEF ParseOne
      <3> QED
        BY <2>1, <3>3, Zenon DEF Reads
    <2> QED
      BY <2>3, <2>4
  <1> QED
    BY <1>1, <1>2, <1>3, AnswerTable, OpKinds

(* A list. *)
LEMMA ReadsList ==
    ASSUME NEW q \in Requests, NEW a \in UpsdAnswers(Serialize(q)),
           NEW text, PartOf(text, a.wire), Len(text) >= 2, EndsList(text[Len(text)])
    PROVE  Reads(q, a, text) /\ (text = a.wire => Deserialize(q.op, text).ok)
  <1>1. Len(a.wire) # 1
    <2>1. PICK k \in Nat : k = Len(text)
      BY Zenon DEF PartOf
    <2>2. PICK m \in Nat : m = Len(a.wire)
      BY Zenon DEF PartOf
    <2>3. k <= m /\ k >= 2
      BY <2>1, <2>2, Zenon DEF PartOf
    <2>4. m # 1
      BY <2>3
    <2> QED
      BY <2>2, <2>4, Zenon
  <1>2. a # ErrAnswer
    BY <1>1 DEF ErrAnswer
  <1>3. \A full, caps : a # LineAnswer(full, caps)
    BY <1>1 DEF LineAnswer
  <1>4. ListAnswerTo(q, a)
    BY <1>2, <1>3, AnswerTable DEF OneLineAnswer, EndlessAnswer
  <1> QED
    BY <1>4, CutList DEF Reads

(* An answer that came whole is understood. *)
LEMMA ReadsWhole ==
    ASSUME NEW q \in Requests, NEW a \in UpsdAnswers(Serialize(q)), a.said.st = "ok",
           NEW l, a.wire = <<l>>
    PROVE  /\ ~StartsWith(l, <<"ERR">>)
           /\ Deserialize(q.op, <<l>>).ok /\ Answered(Deserialize(q.op, <<l>>).rows) = a.said
  <1>1. a # ErrAnswer
    BY DEF ErrAnswer, Failure
  <1>2. Len(a.wire) = 1 /\ a.wire[1] = l
    BY SeqShort
  <1>3. ~ListAnswerTo(q, a)
    BY <1>2 DEF ListAnswerTo, ListBody
  <1>4. \E full, caps : /\ a = LineAnswer(full, caps)
                        /\ Deserialize(q.op, <<full>>) = Got(<<caps>>) /\ ~StartsWith(full, <<"ERR">>)
    <2>1. CASE OneLineAnswer(q, a)
      <3>1. PICK full, rules, caps :
               /\ a = LineAnswer(full, caps) /\ Whole(full, rules, caps)
               /\ \A t : Deserialize(q.op, t) = ParseOne(t, rules)
        BY <2>1, Zenon DEF OneLineAnswer
      <3>2. ParseOne(<<full>>, rules) = Got(<<caps>>) /\ ~StartsWith(full, <<"ERR">>)
        BY <3>1, WholeParses
      <3> QED
        BY <3>1, <3>2, Zenon
    <2>2. CASE EndlessAnswer(q, a)
      BY <2>2, Zenon DEF EndlessAnswer
    <2> QED
      BY <1>1, <1>3, <2>1, <2>2, AnswerTable
  <1>5. PICK full, caps : /\ a = LineAnswer(full, caps)
                          /\ Deserialize(q.op, <<full>>) = Got(<<caps>>) /\ ~StartsWith(full, <<"ERR">>)
    BY <1>4
  <1>6. full = l /\ a.said = Answered(<<caps>>)
    BY <1>2, <1>5 DEF LineAnswer
  <1>7. Deserialize(q.op, <<l>>) = Got(<<caps>>) /\ ~StartsWith(l, <<"ERR">>)
    BY <1>5, <1>6, Zenon
  <1>8. Deserialize(q.op, <<l>>).ok /\ Deserialize(q.op, <<l>>).rows = <<caps>>
    BY <1>7 DEF Got
  <1> QED
    BY <1>6, <1>7, <1>8, Zenon

-----------------------------------------------------------------------------
(* What was read and what is still to be read, together. *)
IsAppend(u, v, x) ==
    /\ IsSeq(u) /\ Len(v) \in Nat /\ Len(u) = Len(v) + 1 /\ u[Len(v) + 1] = x
    /\ \A i \in 1..Len(v) : u[i] = v[i]

LEMMA AppendIs == ASSUME NEW v, IsSeq(v), NEW x, NEW u, u = Append(v, x) PROVE IsAppend(u, v, x)
  <1>1. PICK S : v \in Seq(S)
    BY DEF IsSeq
  <1>2. v \in Seq(S \cup {x})
    BY <1>1
  <1>3. u \in Seq(S \cup {x})
    BY <1>2
  <1>4. IsSeq(u)
    BY <1>3, SeqIsSeq
  <1>5. /\ Len(v) \in Nat /\ Len(u) = Len(v) + 1 /\ u[Len(v) + 1] = x
        /\ \A i \in 1..Len(v) : u[i] = v[i]
    BY <1>2
  <1> QED
    BY <1>4, <1>5, Zenon DEF IsAppend

LEMMA EmptyJoin == ASSUME NEW w, IsSeq(w) PROVE <<>> \o w = w
  <1>1. PICK e : e = <<>>
    OBVIOUS
  <1>2. IsSeq(e) /\ Len(e) = 0
    BY <1>1, SeqShort
  <1>3. PICK u : u = e \o w
    OBVIOUS
  <1>4. IsJoin(u, e, w)
    BY <1>2, <1>3, JoinIs, Zenon
  <1>5. IsSeq(u) /\ Len(u) = Len(w) /\ Len(w) \in Nat
    BY <1>2, <1>4 DEF IsJoin
  <1>6. \A i \in 1..Len(w) : u[i] = w[i]
    BY <1>2, <1>4, <1>5 DEF IsJoin
  <1>7. u = w
    BY <1>5, <1>6, SeqSame
  <1> QED
    BY <1>1, <1>3, <1>7, Zenon

LEMMA MoveLine ==
    ASSUME NEW v, IsSeq(v), NEW w, IsSeq(w), w # <<>>
    PROVE  Append(v, Head(w)) \o Tail(w) = v \o w
  <1>1. PICK t : t = Tail(w)
    OBVIOUS
  <1>2. /\ IsSeq(t) /\ Len(w) \in Nat \ {0} /\ Len(t) = Len(w) - 1
        /\ \A i \in 1..(Len(w) - 1) : t[i] = w[i + 1]
        /\ Head(w) = w[1]
    BY <1>1, SeqTail
  <1>3. PICK u : u = Append(v, w[1])
    OBVIOUS
  <1>4. /\ IsSeq(u) /\ Len(v) \in Nat /\ Len(u) = Len(v) + 1 /\ u[Len(v) + 1] = w[1]
        /\ \A i \in 1..Len(v) : u[i] = v[i]
    <2>1. IsAppend(u, v, w[1])
      BY <1>3, AppendIs
    <2> QED
      BY <2>1, Zenon DEF IsAppend
  <1>5. PICK a, b : a = u \o t /\ b = v \o w
    OBVIOUS
  <1>6. IsJoin(a, u, t) /\ IsJoin(b, v, w)
    BY <1>2, <1>4, <1>5, JoinIs, Zenon
  <1>7. PICK m \in Nat : m = Len(v)
    BY <1>4, Zenon
  <1>8. PICK k \in Nat \ {0} : k = Len(w)
    BY <1>2
  <1>9. /\ IsSeq(a) /\ Len(a) = (m + 1) + (k - 1)
        /\ \A i \in 1..(m + 1) : a[i] = u[i]
        /\ \A i \in 1..(k - 1) : a[(m + 1) + i] = t[i]
    BY <1>2, <1>4, <1>6, <1>7, <1>8 DEF IsJoin
  <1>10. /\ IsSeq(b) /\ Len(b) = m + k
         /\ \A i \in 1..m : b[i] = v[i]
         /\ \A i \in 1..k : b[m + i] = w[i]
    BY <1>6, <1>7, <1>8 DEF IsJoin
  <1>11. ASSUME NEW i \in 1..(m + k) PROVE a[i] = b[i]
    <2>1. CASE i \in 1..m
      <3>1. i \in 1..(m + 1)
        BY <2>1
      <3>2. a[i] = u[i] /\ u[i] = v[i] /\ b[i] = v[i]
        BY <1>4, <1>7, <1>9, <1>10, <2>1, <3>1, Zenon
      <3> QED
        BY <3>2
    <2>2. CASE i = m + 1
      <3>1. i \in 1..(m + 1) /\ 1 \in 1..k
        BY <2>2
      <3>2. a[m + 1] = u[m + 1] /\ b[m + 1] = w[1]
        BY <1>9, <1>10, <2>2, <3>1
      <3> QED
        BY <1>4, <1>7, <2>2, <3>2
    <2>3. CASE i \in (m + 2)..(m + k)
      <3>1. PICK j \in 1..(k - 1) : j = i - (m + 1)
        BY <2>3
      <3>2. i = (m + 1) + j /\ i = m + (j + 1) /\ j + 1 \in 1..k
        BY <2>3, <3>1
      <3>3. a[i] = t[j] /\ b[i] = w[j + 1]
        BY <1>9, <1>10, <3>2, Zenon
      <3>4. t[j] = w[j + 1]
        BY <1>2, <1>8, <3>1, Zenon
      <3> QED
        BY <3>3, <3>4
    <2> QED
      BY <2>1, <2>2, <2>3
  <1>12. Len(a) = m + k
    BY <1>9
  <1>13. a = b
    BY <1>9, <1>10, <1>11, <1>12, SeqSame
  <1> QED
    BY <1>1, <1>2, <1>3, <1>5, <1>13, Zenon

LEMMA LastLine ==
    ASSUME NEW v, IsSeq(v), NEW w, IsSeq(w), Len(w) = 1
    PROVE  Append(v, Head(w)) = v \o w /\ w = <<Head(w)>>
  <1>1. w # <<>>
    <2>1. Len(<<>>) = 0
      OBVIOUS
    <2> QED
      BY <2>1
  <1>2. Head(w) = w[1]
    BY <1>1, SeqTail
  <1>3. w = <<Head(w)>>
    BY <1>2, SingleIs, Zenon
  <1>4. PICK u : u = Append(v, w[1])
    OBVIOUS
  <1>5. /\ IsSeq(u) /\ Len(v) \in Nat /\ Len(u) = Len(v) + 1 /\ u[Len(v) + 1] = w[1]
        /\ \A i \in 1..Len(v) : u[i] = v[i]
    <2>1. IsAppend(u, v, w[1])
      BY <1>4, AppendIs
    <2> QED
      BY <2>1, Zenon DEF IsAppend
  <1>6. PICK b : b = v \o w
    OBVIOUS
  <1>7. IsJoin(b, v, w)
    BY <1>6, JoinIs, Zenon
  <1>8. /\ IsSeq(b) /\ Len(b) = Len(v) + 1 /\ b[Len(v) + 1] = w[1]
        /\ \A i \in 1..Len(v) : b[i] = v[i]
    BY <1>7 DEF IsJoin
  <1>9. \A i \in 1..Len(u) : u[i] = b[i]
    BY <1>5, <1>8
  <1>10. u = b
    BY <1>5, <1>8, <1>9, SeqSame
  <1> QED
    BY <1>2, <1>3, <1>4, <1>6, <1>10, Zenon

LEMMA PartSelf == ASSUME NEW w, IsSeq(w) PROVE PartOf(w, w)
  <1>1. Len(w) \in Nat
    BY DEF IsSeq
  <1> QED
    BY <1>1 DEF PartOf

(* The end of the connection takes away the end of what was not read. *)
LEMMA CutEnd ==
    ASSUME NEW w, IsSeq(w), NEW x \in CutWire(w)
    PROVE  PartOf(x, w)
  <1>1. PICK S : w \in Seq(S)
    BY DEF IsSeq
  <1>2. CASE \E n \in 0..Len(w) : x = SubSeq(w, 1, n)
    <2>1. PICK n \in 0..Len(w) : x = SubSeq(w, 1, n)
      BY <1>2
    <2>2. x \in Seq(S) /\ Len(x) = n /\ \A i \in 1..n : x[i] = w[i]
      BY <1>1, <2>1
    <2>3. IsSeq(x)
      BY <2>2, SeqIsSeq
    <2> QED
      BY <1>1, <2>2, <2>3 DEF PartOf
  <1>3. CASE \E n \in 1..Len(w) : \E l \in CutLine(w[n]) : x = Append(SubSeq(w, 1, n - 1), l)
    <2>0. PICK n \in 1..Len(w) : \E l \in CutLine(w[n]) : x = Append(SubSeq(w, 1, n - 1), l)
      BY <1>3
    <2>1. PICK l \in CutLine(w[n]) : x = Append(SubSeq(w, 1, n - 1), l)
      BY <2>0
    <2>2. PICK u : u = SubSeq(w, 1, n - 1)
      OBVIOUS
    <2>3. u \in Seq(S) /\ Len(u) = n - 1 /\ \A i \in 1..(n - 1) : u[i] = w[i]
      BY <1>1, <2>2
    <2>4. IsSeq(u)
      BY <2>3, SeqIsSeq
    <2>5. x = Append(u, l)
      BY <2>1, <2>2, Zenon
    <2>6. /\ IsSeq(x) /\ Len(x) = Len(u) + 1 /\ x[Len(u) + 1] = l
          /\ \A i \in 1..Len(u) : x[i] = u[i]
      <3>1. IsAppend(x, u, l)
        BY <2>4, <2>5, AppendIs
      <3> QED
        BY <3>1, Zenon DEF IsAppend
    <2>7. Len(x) = n /\ x[n] = l /\ \A i \in 1..(n - 1) : x[i] = w[i]
      BY <2>3, <2>6
    <2> QED
      BY <1>1, <2>6, <2>7 DEF PartOf
  <1> QED
    BY <1>2, <1>3 DEF CutWire

LEMMA CutPart ==
    ASSUME NEW v, IsSeq(v), NEW w, IsSeq(w), NEW x \in CutWire(w)
    PROVE  PartOf(v \o x, v \o w)
  <1>1. PartOf(x, w)
    BY CutEnd
  <1>2. PICK a, b : a = v \o x /\ b = v \o w
    OBVIOUS
  <1>3. IsSeq(x)
    BY <1>1 DEF PartOf
  <1>4. IsJoin(a, v, x) /\ IsJoin(b, v, w)
    BY <1>2, <1>3, JoinIs, Zenon
  <1>5. PICK m \in Nat : m = Len(v)
    BY <1>4, Zenon DEF IsJoin
  <1>6. PICK k \in Nat : k = Len(w)
    BY <1>4, Zenon DEF IsJoin
  <1>7. PICK n \in 0..k : n = Len(x)
    <2>1. PICK n \in Nat : n = Len(x) /\ n <= k
      BY <1>1, <1>6, Zenon DEF PartOf
    <2>2. n \in 0..k
      BY <2>1
    <2> QED
      BY <2>1, <2>2, Zenon
  <1>8. /\ IsSeq(a) /\ Len(a) = m + n /\ \A i \in 1..m : a[i] = v[i]
        /\ \A i \in 1..n : a[m + i] = x[i]
    BY <1>4, <1>5, <1>7 DEF IsJoin
  <1>9. /\ Len(b) = m + k /\ \A i \in 1..m : b[i] = v[i]
        /\ \A i \in 1..k : b[m + i] = w[i]
    BY <1>4, <1>5, <1>6 DEF IsJoin
  <1>10. \A i \in 1..(n - 1) : x[i] = w[i]
    BY <1>1, <1>7 DEF PartOf
  <1>11. ASSUME NEW i \in 1..(Len(a) - 1) PROVE a[i] = b[i]
    <2>1. CASE i \in 1..m
      BY <1>8, <1>9, <2>1
    <2>2. CASE i \notin 1..m
      <3>1. PICK j \in 1..(n - 1) : i = m + j
        <4>1. i - m \in 1..(n - 1) /\ i = m + (i - m)
          BY <1>8, <2>2
        <4> QED
          BY <4>1
      <3>2. a[m + j] = x[j] /\ b[m + j] = w[j]
        BY <1>8, <1>9
      <3> QED
        BY <1>10, <3>1, <3>2
    <2> QED
      BY <2>1, <2>2
  <1>12. ASSUME Len(a) > 0
         PROVE  a[Len(a)] = b[Len(a)] \/ a[Len(a)] \in CutLine(b[Len(a)])
    <2>1. CASE n = 0
      BY <1>8, <1>9, <1>12, <2>1
    <2>2. CASE n # 0
      <3>1. n \in 1..n /\ n \in 1..k
        BY <2>2
      <3>2. a[m + n] = x[n] /\ b[m + n] = w[n]
        BY <1>8, <1>9, <3>1
      <3>3. x[n] = w[n] \/ x[n] \in CutLine(w[n])
        BY <1>1, <1>7, <2>2 DEF PartOf
      <3>4. Len(a) = m + n
        BY <1>8
      <3> QED
        BY <3>2, <3>3, <3>4, Zenon
    <2> QED
      BY <2>1, <2>2
  <1>13. PartOf(a, b)
    BY <1>8, <1>9, <1>11, <1>12 DEF PartOf
  <1> QED
    BY <1>2, <1>13, Zenon

-----------------------------------------------------------------------------
(* What the call has read and what is on the wire are the answer upsd gave *)
(* to its request, or what a cut left of it.                               *)
Heard ==
    \E a \in UpsdAnswers(Serialize(call)) :
        /\ said = a.said /\ PartOf(lines \o wire, a.wire)
        /\ Intact => lines \o wire = a.wire
        /\ call.op = "DetachCommand" => ~open

CallInv ==
    /\ SessionInv
    /\ pc = "idle" => call = NoCall
    /\ pc # "idle" => call \in Requests
    /\ pc = "first" => lines = <<>>
    /\ pc = "list" => lines # <<>>
    /\ inbox # <<>> => said = Nothing
    /\ pc # "idle" /\ said = Nothing => wire = <<>> /\ pc = "first"
    /\ pc # "idle" /\ said # Nothing => Heard

LEMMA InitCall == Init => CallInv
  BY InitSession DEF Init, CallInv

(* upsd never says nothing. *)
LEMMA SaidSomething ==
    ASSUME NEW q \in Requests, NEW a \in UpsdAnswers(Serialize(q))
    PROVE  a.said # Nothing
  <1>1. \A rows : Answered(rows) # Nothing
    BY DEF Answered, Nothing
  <1>2. a = ErrAnswer => a.said # Nothing
    BY DEF ErrAnswer, Failure, Nothing
  <1>3. \A full, caps : a = LineAnswer(full, caps) => a.said # Nothing
    BY <1>1 DEF LineAnswer
  <1>4. ListAnswerTo(q, a) => a.said # Nothing
    BY <1>1, Zenon DEF ListAnswerTo
  <1> QED
    BY <1>2, <1>3, <1>4, AnswerTable DEF OneLineAnswer, EndlessAnswer

LEMMA FinishCall ==
    ASSUME CallInv, SessionInv', NEW o, NEW res, Finish(o, res), UNCHANGED said,
           inbox = <<>> \/ link' = "down"
    PROVE  CallInv'
  <1>1. pc' = "idle" /\ call' = NoCall /\ inbox' = <<>>
    BY DEF Finish
  <1> QED
    BY <1>1 DEF CallInv

(* A call that ends the session says so in its first word. *)
LEMMA LogoutWord ==
    ASSUME call \in Requests, call.op = "DetachCommand"
    PROVE  Serialize(call)[1].v = "LOGOUT"
  <1>1. Commands["DetachCommand"].words[1] = "LOGOUT"
    <2>1. "DetachCommand" \in DOMAIN SessionCommands /\ SessionCommands["DetachCommand"].words[1] = "LOGOUT"
      BY DEF SessionCommands
    <2> QED
      BY <2>1, CommandIs, Zenon
  <1> QED
    BY <1>1, FirstWord

LEMMA CallStep == CallInv /\ [Next]_vars => CallInv'
  <1> SUFFICES ASSUME CallInv, [Next]_vars PROVE CallInv'
    OBVIOUS
  <1>s. SessionInv /\ SessionInv'
    BY SessionStep DEF CallInv
  <1>w. IsSeq(wire) /\ IsSeq(lines)
    BY <1>s DEF SessionInv
  <1>1. CASE Connect
    BY <1>1, <1>s DEF Connect, CallInv
  <1>2. ASSUME NEW q \in Requests, Send(q) PROVE CallInv'
    <2>1. /\ wire' = <<>> /\ pc' = "first" /\ call' = q /\ lines' = <<>>
          /\ said' = Nothing
      BY <1>2, <1>s DEF Send, Permitted, SessionInv
    <2> QED
      BY <1>s, <2>1 DEF CallInv
  <1>3. CASE ReadLine
    <2>1. pc = "first" /\ wire # <<>> /\ wire' = Tail(wire) /\ said' = said /\ inbox = <<>>
      BY <1>3, <1>s DEF ReadLine, SessionInv
    <2>2. said # Nothing /\ Heard /\ lines = <<>>
      BY <2>1 DEF CallInv
    <2>3. CASE BeginsList(Head(wire))
      <3>1. ~StartsWith(Head(wire), <<"ERR">>)
        BY <2>3 DEF BeginsList, StartsWith
      <3>2. /\ pc' = "list" /\ inbox' = inbox /\ lines' = <<Head(wire)>> /\ call' = call
            /\ open' = open
        BY <1>3, <2>3, <3>1 DEF ReadLine, BeginsList
      <3>3. lines' \o wire' = lines \o wire
        <4>1. PICK h : h = Head(wire)
          OBVIOUS
        <4>2. Append(lines, h) \o Tail(wire) = lines \o wire
          BY <1>w, <2>1, <4>1, MoveLine
        <4>3. Append(<<>>, h) = <<h>>
          OBVIOUS
        <4> QED
          BY <2>1, <2>2, <3>2, <4>1, <4>2, <4>3, Zenon
      <3>4. Heard'
        BY <2>1, <2>2, <3>2, <3>3 DEF Heard, Intact
      <3>5. lines' # <<>>
        BY <3>2
      <3> QED
        BY <1>s, <2>1, <2>2, <3>2, <3>4, <3>5 DEF CallInv
    <2>4. CASE ~BeginsList(Head(wire))
      <3>1. \E o, res : Finish(o, res)
        BY <1>3, <2>4 DEF ReadLine, BeginsList, Parsed
      <3> QED
        BY <1>s, <2>1, <3>1, FinishCall
    <2> QED
      BY <2>3, <2>4
  <1>4. CASE ReadItem
    <2>1. pc = "list" /\ wire # <<>> /\ wire' = Tail(wire) /\ said' = said /\ inbox = <<>>
      BY <1>4, <1>s DEF ReadItem, SessionInv
    <2>2. said # Nothing /\ Heard
      BY <2>1 DEF CallInv
    <2>3. PICK text : text = Append(lines, Head(wire))
      OBVIOUS
    <2>4. CASE IsEnd(text)
      <3>1. \E o, res : Finish(o, res)
        BY <1>4, <2>3, <2>4 DEF ReadItem, Parsed
      <3> QED
        BY <1>s, <2>1, <3>1, FinishCall
    <2>5. CASE ~IsEnd(text)
      <3>1. lines' = text /\ pc' = pc /\ inbox' = inbox /\ call' = call /\ open' = open
        BY <1>4, <2>3, <2>5 DEF ReadItem
      <3>2. lines' \o wire' = lines \o wire
        BY <1>w, <2>1, <2>3, <3>1, MoveLine
      <3>3. Heard'
        BY <2>1, <2>2, <3>1, <3>2 DEF Heard, Intact
      <3>4. lines' # <<>>
        <4>1. IsAppend(text, lines, Head(wire))
          BY <1>w, <2>3, AppendIs
        <4>2. Len(text) # 0 /\ Len(<<>>) = 0
          BY <4>1 DEF IsAppend
        <4> QED
          BY <3>1, <4>2
      <3> QED
        BY <1>s, <2>1, <2>2, <3>1, <3>3, <3>4 DEF CallInv
    <2> QED
      BY <2>4, <2>5
  <1>5. CASE ReadEnd
    <2>1. Finish("gone", Failure) /\ UNCHANGED said
      BY <1>5 DEF ReadEnd
    <2>2. link' = "down"
      BY <2>1 DEF Finish, LinkAfter
    <2> QED
      BY <1>s, <2>1, <2>2, FinishCall
  <1>6. CASE ReadFails
    <2>1. Finish("gone", Failure) /\ UNCHANGED said
      BY <1>6 DEF ReadFails
    <2>2. link' = "down"
      BY <2>1 DEF Finish, LinkAfter
    <2> QED
      BY <1>s, <2>1, <2>2, FinishCall
  <1>7. CASE Timeout
    <2>1. Finish("timeout", Failure) /\ UNCHANGED said
      BY <1>7 DEF Timeout
    <2>2. link' = "down"
      BY <2>1 DEF Finish, LinkAfter
    <2> QED
      BY <1>s, <2>1, <2>2, FinishCall
  <1>8. CASE Serve
    <2>1. inbox = <<Serialize(call)>> /\ pc = "first" /\ wire = <<>> /\ call \in Requests
      BY <1>8, <1>s DEF Serve, SessionInv
    <2>2. Head(inbox) = Serialize(call) /\ Tail(inbox) = <<>>
      BY <2>1
    <2>3. PICK a \in UpsdAnswers(Serialize(call)) : wire' = wire \o a.wire /\ said' = a.said
      BY <1>8, <2>2 DEF Serve
    <2>4. IsSeq(a.wire)
      BY <2>1, <2>3, AnswerShape
    <2>5. wire' = a.wire
      BY <2>1, <2>3, <2>4, EmptyJoin, Zenon
    <2>6. inbox' = <<>> /\ pc' = "first" /\ lines' = <<>> /\ call' = call
      BY <1>8, <2>1, <2>2 DEF Serve, CallInv
    <2>7. lines' \o wire' = a.wire
      BY <2>4, <2>5, <2>6, EmptyJoin, Zenon
    <2>8. PartOf(a.wire, a.wire)
      BY <2>4, PartSelf
    <2>l. call.op = "DetachCommand" => ~open'
      BY <1>8, <2>1, <2>2, LogoutWord DEF Serve
    <2>9. Heard'
      BY <2>3, <2>6, <2>7, <2>8, <2>l, Zenon DEF Heard
    <2>10. said' # Nothing
      BY <2>1, <2>3, SaidSomething
    <2> QED
      BY <1>s, <2>1, <2>6, <2>9, <2>10 DEF CallInv
  <1>9. CASE Cut
    <2>1. /\ open /\ ~open' /\ wire' \in CutWire(wire) /\ inbox' = <<>>
          /\ pc' = pc /\ link' = link /\ lines' = lines /\ call' = call /\ said' = said
      BY <1>9 DEF Cut
    <2>2. wire = <<>> => wire' = <<>>
      <3>1. IsSeq(wire') /\ Len(wire') \in Nat /\ Len(wire) \in Nat /\ Len(wire') <= Len(wire)
        BY <1>w, <2>1, CutShape
      <3>2. Len(<<>>) = 0
        OBVIOUS
      <3> QED
        BY <3>1, <3>2 DEF IsSeq
    <2>3. Heard => Heard'
      <3>1. SUFFICES ASSUME Heard PROVE Heard'
        OBVIOUS
      <3>2. PICK a \in UpsdAnswers(Serialize(call)) :
              said = a.said /\ lines \o wire = a.wire /\ call.op # "DetachCommand"
        BY <2>1, <3>1 DEF Heard, Intact
      <3>3. PartOf(lines \o wire', lines \o wire)
        BY <1>w, <2>1, CutPart
      <3>4. PartOf(lines' \o wire', a.wire)
        BY <2>1, <3>2, <3>3, Zenon
      <3> QED
        BY <2>1, <3>2, <3>4 DEF Heard, Intact
    <2> QED
      BY <1>s, <2>1, <2>2, <2>3 DEF CallInv
  <1>10. CASE UNCHANGED vars
    BY <1>10, <1>s DEF vars, CallInv, Heard, Intact
  <1> QED
    BY <1>1, <1>2, <1>3, <1>4, <1>5, <1>6, <1>7, <1>8, <1>9, <1>10 DEF Next

LEMMA CallAlways == Spec => []CallInv
  BY InitCall, CallStep, PTL DEF Spec

(* A call that takes its first line for the whole answer. *)
LEMMA LineFacts ==
    ASSUME CallInv, ReadLine, ~BeginsList(Head(wire)), NEW l, l = Head(wire)
    PROVE  /\ call \in Requests /\ said # Nothing
           /\ \E a \in UpsdAnswers(Serialize(call)) :
                 /\ said = a.said
                 /\ l = a.wire[1] \/ l \in CutLine(a.wire[1])
                 /\ Intact => a.wire = <<l>>
  <1>1. /\ pc = "first" /\ wire # <<>> /\ IsSeq(wire) /\ OneAnswer(wire)
    BY DEF ReadLine, CallInv, SessionInv
  <1>2. call \in Requests /\ said # Nothing /\ Heard /\ lines = <<>>
    BY <1>1 DEF CallInv
  <1>3. Len(wire) \in Nat \ {0} /\ Head(wire) = wire[1]
    BY <1>1, SeqTail
  <1>4. Len(wire) = 1
    <2>1. ~BeginsList(wire[1])
      BY <1>3, Zenon
    <2>2. Len(wire) <= 1
      BY <1>1, <2>1 DEF OneAnswer
    <2>3. PICK n \in Nat \ {0} : n = Len(wire)
      BY <1>3, Zenon
    <2> QED
      BY <2>2, <2>3
  <1>5. wire = <<l>>
    BY <1>1, <1>4, LastLine
  <1>6. lines \o wire = wire
    BY <1>1, <1>2, EmptyJoin, Zenon
  <1>7. PICK a \in UpsdAnswers(Serialize(call)) :
          said = a.said /\ PartOf(wire, a.wire) /\ (Intact => wire = a.wire)
    BY <1>2, <1>6, Zenon DEF Heard
  <1>8. wire[1] = a.wire[1] \/ wire[1] \in CutLine(a.wire[1])
    BY <1>4, <1>7 DEF PartOf
  <1> QED
    BY <1>2, <1>3, <1>5, <1>7, <1>8, Zenon

(* A call that has read the end of a list. *)
LEMMA ItemFacts ==
    ASSUME CallInv, ReadItem, NEW text, text = Append(lines, Head(wire)), IsEnd(text)
    PROVE  /\ call \in Requests /\ said # Nothing
           /\ \E a \in UpsdAnswers(Serialize(call)) :
                 /\ said = a.said
                 /\ PartOf(text, a.wire) /\ Len(text) >= 2 /\ EndsList(text[Len(text)])
                 /\ Intact => a.wire = text
  <1>1. /\ pc = "list" /\ wire # <<>> /\ IsSeq(wire) /\ Framed(wire, 1) /\ IsSeq(lines)
    BY DEF ReadItem, CallInv, SessionInv
  <1>2. call \in Requests /\ said # Nothing /\ Heard /\ lines # <<>>
    BY <1>1 DEF CallInv
  <1>3. Len(wire) \in Nat \ {0} /\ Head(wire) = wire[1]
    BY <1>1, SeqTail
  <1>4. IsAppend(text, lines, Head(wire))
    BY <1>1, AppendIs
  <1>5. EndsList(text[Len(text)]) /\ text[Len(text)] = wire[1]
    BY <1>3, <1>4 DEF IsAppend, IsEnd, EndsList
  <1>6. Len(wire) = 1
    <2>1. EndsList(wire[1])
      BY <1>5, Zenon
    <2>2. PICK n \in Nat \ {0} : n = Len(wire)
      BY <1>3, Zenon
    <2>3. \A i \in 1..(n - 1) : ~EndsList(wire[i])
      BY <1>1, <2>2 DEF Framed
    <2>4. ~(1 \in 1..(n - 1))
      BY <2>1, <2>3, Zenon
    <2>5. n = 1
      BY <2>4
    <2> QED
      BY <2>2, <2>5
  <1>7. text = lines \o wire
    BY <1>1, <1>6, LastLine
  <1>8. Len(text) >= 2
    <2>1. Len(lines) \in Nat \ {0}
      BY <1>1, <1>2, SeqTail
    <2> QED
      BY <1>4, <2>1 DEF IsAppend
  <1>9. PICK a \in UpsdAnswers(Serialize(call)) :
          said = a.said /\ PartOf(text, a.wire) /\ (Intact => text = a.wire)
    BY <1>2, <1>7, Zenon DEF Heard
  <1> QED
    BY <1>2, <1>5, <1>8, <1>9, Zenon

LEMMA NoRequest == NoCall \notin Requests
  <1>1. "" \notin Ops
    BY SessionAssumption DEF Commands, SessionCommands, GetCommands, ListCommands, LoginCommands
  <1>2. NoCall.op = ""
    BY DEF NoCall
  <1>3. \A q \in Requests : q.op \in Ops
    BY DEF Requests
  <1> QED
    BY <1>1, <1>2, <1>3, Zenon

(* A call returns what upsd said, or it fails. *)
LEMMA CallReturns ==
    ASSUME call \in Requests, said # Nothing, NEW a, said = a.said, NEW text, Parsed(text),
           said' = said, call.op \in EndlessOps \/ Reads(call, a, text)
    PROVE  Calls!Next
  <1>1. PICK d : d = Deserialize(call.op, text)
    OBVIOUS
  <1>2. call # NoCall
    BY NoRequest
  <1>3. CASE d.ok
    <2>1. result' = Answered(d.rows) /\ call' = NoCall
      BY <1>1, <1>3 DEF Parsed, Finish
    <2>2. result'.st = "ok"
      BY <2>1 DEF Answered
    <2>3. d # Fail
      BY <1>3 DEF Fail
    <2>4. result' = said \/ call.op \in EndlessOps
      BY <1>1, <2>1, <2>3 DEF Reads, Fail
    <2> QED
      BY <1>2, <2>1, <2>2, <2>4 DEF Calls!Next, Calls!Return, Calls!Nothing, Nothing, EndlessOps
  <1>4. CASE ~d.ok
    <2>1. result' = Failure /\ call' = NoCall
      BY <1>1, <1>4 DEF Parsed, Finish
    <2> QED
      BY <1>2, <2>1 DEF Calls!Next, Calls!Fail, Calls!Failure, Failure
  <1> QED
    BY <1>3, <1>4

LEMMA CallFails ==
    ASSUME call \in Requests, NEW o, Finish(o, Failure), said' = said
    PROVE  Calls!Next
  <1>1. call # NoCall
    BY NoRequest
  <1>2. result' = Failure /\ call' = NoCall
    BY DEF Finish
  <1> QED
    BY <1>1, <1>2 DEF Calls!Next, Calls!Fail, Calls!Failure, Failure

LEMMA InitCalls == Init => Calls!Init
  BY DEF Init, Calls!Init, Calls!Nothing, Nothing

(* Every step of the client is a step of UpsdCall, or none. *)
LEMMA StepCalls == CallInv /\ [Next]_vars => [Calls!Next]_(Calls!callvars)
  <1> SUFFICES ASSUME CallInv, [Next]_vars PROVE Calls!Next \/ UNCHANGED <<call, said, result>>
    BY DEF Calls!callvars
  <1>1. CASE Connect
    BY <1>1 DEF Connect
  <1>2. ASSUME NEW q \in Requests, Send(q) PROVE Calls!Next
    <2>1. call = NoCall /\ call' = q /\ said' = Nothing /\ result' = Nothing
      BY <1>2 DEF Send, CallInv
    <2> QED
      BY <2>1 DEF Calls!Next, Calls!Begin, Calls!Nothing, Nothing
  <1>3. CASE ReadLine
    <2>1. said' = said
      BY <1>3 DEF ReadLine
    <2>2. PICK l : l = Head(wire)
      OBVIOUS
    <2>3. CASE BeginsList(l)
      <3>1. ~StartsWith(l, <<"ERR">>)
        BY <2>3 DEF BeginsList, StartsWith
      <3> QED
        BY <1>3, <2>1, <2>2, <2>3, <3>1 DEF ReadLine, BeginsList
    <2>4. CASE ~BeginsList(l)
      <3>1. /\ call \in Requests /\ said # Nothing
            /\ \E a \in UpsdAnswers(Serialize(call)) :
                  /\ said = a.said
                  /\ l = a.wire[1] \/ l \in CutLine(a.wire[1])
        BY <1>3, <2>2, <2>4, LineFacts
      <3>2. CASE StartsWith(l, <<"ERR">>)
        <4>1. Finish("protocol", Failure)
          BY <1>3, <2>2, <2>4, <3>2 DEF ReadLine, BeginsList
        <4> QED
          BY <2>1, <3>1, <4>1, CallFails
      <3>3. CASE ~StartsWith(l, <<"ERR">>)
        <4>1. Parsed(<<l>>)
          BY <1>3, <2>2, <2>4, <3>3 DEF ReadLine, BeginsList
        <4>2. PICK a \in UpsdAnswers(Serialize(call)) :
                  said = a.said /\ (l = a.wire[1] \/ l \in CutLine(a.wire[1]))
          BY <3>1
        <4>3. call.op \in EndlessOps \/ Reads(call, a, <<l>>)
          BY <3>1, <3>3, <4>2, ReadsLine
        <4> QED
          BY <2>1, <3>1, <4>1, <4>2, <4>3, CallReturns
      <3> QED
        BY <3>2, <3>3
    <2> QED
      BY <2>3, <2>4
  <1>4. CASE ReadItem
    <2>1. said' = said
      BY <1>4 DEF ReadItem
    <2>2. PICK text : text = Append(lines, Head(wire))
      OBVIOUS
    <2>3. CASE ~IsEnd(text)
      BY <1>4, <2>1, <2>2, <2>3 DEF ReadItem
    <2>4. CASE IsEnd(text)
      <3>1. /\ call \in Requests /\ said # Nothing
            /\ \E a \in UpsdAnswers(Serialize(call)) :
                 /\ said = a.said
                 /\ PartOf(text, a.wire) /\ Len(text) >= 2 /\ EndsList(text[Len(text)])
        BY <1>4, <2>2, <2>4, ItemFacts
      <3>2. PICK a \in UpsdAnswers(Serialize(call)) :
                 /\ said = a.said
                 /\ PartOf(text, a.wire) /\ Len(text) >= 2 /\ EndsList(text[Len(text)])
        BY <3>1
      <3>3. Reads(call, a, text)
        BY <3>1, <3>2, ReadsList
      <3>4. Parsed(text)
        BY <1>4, <2>2, <2>4 DEF ReadItem
      <3> QED
        BY <2>1, <3>1, <3>2, <3>3, <3>4, CallReturns
    <2> QED
      BY <2>3, <2>4
  <1>5. CASE ReadEnd \/ ReadFails \/ Timeout
    <2>1. said' = said /\ pc # "idle" /\ \E o : Finish(o, Failure)
      BY <1>5 DEF ReadEnd, ReadFails, Timeout
    <2>2. call \in Requests
      BY <2>1 DEF CallInv
    <2> QED
      BY <2>1, <2>2, CallFails
  <1>6. CASE Serve
    <2>1. inbox = <<Serialize(call)>> /\ call \in Requests /\ said = Nothing
      BY <1>6 DEF Serve, CallInv, SessionInv
    <2>2. Head(inbox) = Serialize(call)
      BY <2>1
    <2>3. PICK a \in UpsdAnswers(Serialize(call)) : said' = a.said
      BY <1>6, <2>2 DEF Serve
    <2>4. said' \in Meanings
      BY <2>1, <2>3 DEF Meanings
    <2>5. call # NoCall
      BY <2>1, NoRequest
    <2>6. UNCHANGED <<call, result>>
      BY <1>6 DEF Serve
    <2> QED
      BY <2>1, <2>4, <2>5, <2>6 DEF Calls!Next, Calls!Answer, Calls!Nothing, Nothing
  <1>7. CASE Cut
    BY <1>7 DEF Cut
  <1>8. CASE UNCHANGED vars
    BY <1>8 DEF vars
  <1> QED
    BY <1>1, <1>2, <1>3, <1>4, <1>5, <1>6, <1>7, <1>8 DEF Next

(* The client implements UpsdCall, for any devices, commands and lengths   *)
(* of lists: what NutClient::send returns is what upsd answered to the     *)
(* very request, and all of it, or an error, however connections are       *)
(* reused, cut in the middle of a line, reset and replaced.  The exception *)
(* are the three answers that do not show where they end.                  *)
THEOREM OwnWholeAnswerCorrect == Spec => OwnWholeAnswer
  BY InitCalls, StepCalls, CallAlways, PTL DEF Spec, OwnWholeAnswer, Calls!Spec

-----------------------------------------------------------------------------
LEMMA UnderstoodStep ==
    ASSUME CallInv, ReadLine \/ ReadItem, pc' = "idle", Intact, said.st = "ok"
    PROVE  result' = said
  <1>1. CASE ReadLine
    <2>1. PICK l : l = Head(wire)
      OBVIOUS
    <2>2. ~BeginsList(l)
      <3>1. SUFFICES ASSUME BeginsList(l) PROVE FALSE
        OBVIOUS
      <3>2. pc' = "list"
        BY <1>1, <2>1, <3>1 DEF ReadLine, BeginsList, StartsWith
      <3> QED
        BY <3>2
    <2>5. call \in Requests /\ \E a \in UpsdAnswers(Serialize(call)) : said = a.said /\ a.wire = <<l>>
      BY <1>1, <2>1, <2>2, LineFacts
    <2>6. /\ ~StartsWith(l, <<"ERR">>)
          /\ Deserialize(call.op, <<l>>).ok /\ Answered(Deserialize(call.op, <<l>>).rows) = said
      BY <2>5, ReadsWhole
    <2>7. Parsed(<<l>>)
      BY <1>1, <2>1, <2>2, <2>6 DEF ReadLine, BeginsList
    <2> QED
      BY <2>6, <2>7 DEF Parsed, Finish
  <1>2. CASE ReadItem
    <2>1. PICK text : text = Append(lines, Head(wire))
      OBVIOUS
    <2>2. IsEnd(text)
      <3>1. ~IsEnd(text) => pc' = "list"
        BY <1>2, <2>1 DEF ReadItem
      <3> QED
        BY <3>1
    <2>3. Parsed(text)
      BY <1>2, <2>1, <2>2 DEF ReadItem
    <2>5. /\ call \in Requests
          /\ \E a \in UpsdAnswers(Serialize(call)) :
                 /\ said = a.said
                 /\ PartOf(text, a.wire) /\ Len(text) >= 2 /\ EndsList(text[Len(text)])
                 /\ a.wire = text
      BY <1>2, <2>1, <2>2, ItemFacts
    <2>6. PICK a \in UpsdAnswers(Serialize(call)) :
                 /\ said = a.said
                 /\ PartOf(text, a.wire) /\ Len(text) >= 2 /\ EndsList(text[Len(text)])
                 /\ a.wire = text
      BY <2>5
    <2>7. Reads(call, a, text) /\ Deserialize(call.op, text).ok
      BY <2>5, <2>6, ReadsList
    <2>8. Deserialize(call.op, text) # Fail
      BY <2>7 DEF Fail
    <2>9. Answered(Deserialize(call.op, text).rows) = said
      BY <2>6, <2>7, <2>8 DEF Reads, Fail
    <2> QED
      BY <2>3, <2>7, <2>9 DEF Parsed, Finish
  <1> QED
    BY <1>1, <1>2

(* Requests and answers are understood, for any devices, commands and      *)
(* lengths of lists: the framing and the parsers of client_base take every *)
(* answer that came whole for what upsd said, also the OK of the commands  *)
(* whose connection is given up when it is refused.                        *)
THEOREM UnderstoodCorrect == Spec => Understood
  <1>1. CallInv /\ [Next]_vars
          => [(ReadLine \/ ReadItem) /\ pc' = "idle" /\ Intact /\ said.st = "ok" => result' = said]_vars
    BY UnderstoodStep
  <1> QED
    BY <1>1, CallAlways, PTL DEF Spec, Understood
=============================================================================
