----------------------------- MODULE NutGrammar -----------------------------
(***************************************************************************)
(* The text protocol of upsd as nut_webgui_upsmc writes and reads it: how  *)
(* a request is serialised (command.rs) and how the lines of an answer are *)
(* parsed (internal/parser_utils.rs, response/*.rs).  A line is a sequence *)
(* of tokens, as the lexer yields them; NutText models the lexer.          *)
(***************************************************************************)
EXTENDS Integers, Sequences

(* Token::Text and Token::QuotedText.  "open" is a quote that is never     *)
(* closed, on which the lexer fails.                                       *)
Text(v) == [k |-> "text", v |-> v]
Quoted(v) == [k |-> "quoted", v |-> v]
Unclosed(v) == [k |-> "open", v |-> v]

-----------------------------------------------------------------------------
(* Requests: the words of a command, and which arguments follow them.      *)

SessionCommands ==
    [AttachCommand |-> [words |-> <<"LOGIN">>,  args |-> <<"ups">>],
     DetachCommand |-> [words |-> <<"LOGOUT">>, args |-> <<>>],
     FsdCommand    |-> [words |-> <<"FSD">>,    args |-> <<"ups">>]]

GetCommands ==
    [GetCmdDesc |-> [words |-> <<"GET", "CMDDESC">>, args |-> <<"ups", "name">>],
     GetVarDesc |-> [words |-> <<"GET", "DESC">>,    args |-> <<"ups", "name">>],
     GetVarType |-> [words |-> <<"GET", "TYPE">>,    args |-> <<"ups", "name">>],
     GetUpsDesc |-> [words |-> <<"GET", "UPSDESC">>, args |-> <<"ups">>],
     GetVar     |-> [words |-> <<"GET", "VAR">>,     args |-> <<"ups", "name">>],
     InstCmd    |-> [words |-> <<"INSTCMD">>,        args |-> <<"ups", "name">>]]

ListCommands ==
    [ListClient |-> [words |-> <<"LIST", "CLIENT">>, args |-> <<"ups">>],
     ListCmd    |-> [words |-> <<"LIST", "CMD">>,    args |-> <<"ups">>],
     ListVar    |-> [words |-> <<"LIST", "VAR">>,    args |-> <<"ups">>],
     ListEnum   |-> [words |-> <<"LIST", "ENUM">>,   args |-> <<"ups", "name">>],
     ListRange  |-> [words |-> <<"LIST", "RANGE">>,  args |-> <<"ups", "name">>],
     ListRw     |-> [words |-> <<"LIST", "RW">>,     args |-> <<"ups">>],
     ListUps    |-> [words |-> <<"LIST", "UPS">>,    args |-> <<>>]]

LoginCommands ==
    [Password     |-> [words |-> <<"PASSWORD">>,   args |-> <<"name">>],
     Username     |-> [words |-> <<"USERNAME">>,   args |-> <<"name">>],
     SetVariable  |-> [words |-> <<"SET", "VAR">>, args |-> <<"ups", "name", "value">>],
     GetDaemonVer |-> [words |-> <<"VER">>,        args |-> <<>>],
     GetProtVer   |-> [words |-> <<"NETVER">>,     args |-> <<>>],
     StartTls     |-> [words |-> <<"STARTTLS">>,   args |-> <<>>]]

Commands ==
    [op \in DOMAIN SessionCommands \cup DOMAIN GetCommands \cup DOMAIN ListCommands
              \cup DOMAIN LoginCommands |->
        CASE op \in DOMAIN SessionCommands -> SessionCommands[op]
          [] op \in DOMAIN GetCommands -> GetCommands[op]
          [] op \in DOMAIN ListCommands -> ListCommands[op]
          [] OTHER -> LoginCommands[op]]

(* Serialize::serialize of the command q.op.  Only the value of SET VAR is *)
(* quoted.                                                                 *)
Serialize(q) ==
    LET c == Commands[q.op]
    IN [i \in 1..Len(c.words) |-> Text(c.words[i])]
         \o [i \in 1..Len(c.args) |->
                IF c.args[i] = "value" THEN Quoted(q.value) ELSE Text(q[c.args[i]])]

-----------------------------------------------------------------------------
(* parse_line!: a rule is a word to compare with or a token to capture.    *)

Word(w) == [m |-> "word", v |-> w]
UPS == [m |-> "ups", v |-> ""]
VAR == [m |-> "var", v |-> ""]
CMD == [m |-> "cmd", v |-> ""]
IP == [m |-> "ip", v |-> ""]
TEXT == [m |-> "text", v |-> ""]
QUOTED_TEXT == [m |-> "quoted", v |-> ""]
NUM_VALUE == [m |-> "number", v |-> ""]

(* A text that is no variable or command name (they start with a letter),  *)
(* no number and no address; a device may have any name.                   *)
Odd == "~"

ExtractText(t) == t.k = "text"

(* Faulty variant: a quote that is never closed is taken for a text. *)
ExtractQuotedTextOpen(t) == t.k \in {"quoted", "open"}

ExtractQuotedText(t) == t.k = "quoted"
ExtractNumericValue(t) == t.k = "quoted" /\ t.v # Odd
ExtractUpsName(t) == t.k = "text"
ExtractVarName(t) == t.k = "text" /\ t.v # Odd
ExtractCmdName(t) == t.k = "text" /\ t.v # Odd
ParseIp(t) == t.k = "text" /\ t.v # Odd
CmpLiteral(t, w) == t = Text(w)

Fits(t, r) ==
    CASE r.m = "word" -> CmpLiteral(t, r.v)
      [] r.m = "ups" -> ExtractUpsName(t)
      [] r.m = "var" -> ExtractVarName(t)
      [] r.m = "cmd" -> ExtractCmdName(t)
      [] r.m = "ip" -> ParseIp(t)
      [] r.m = "text" -> ExtractText(t)
      [] r.m = "quoted" -> ExtractQuotedText(t)
      [] r.m = "number" -> ExtractNumericValue(t)

(* end_parser: a line feed or the end of the text follows the last rule.   *)
EndParser(line, rules) == Len(line) = Len(rules)

ParseLine(line, rules) ==
    EndParser(line, rules) /\ \A i \in 1..Len(rules) : Fits(line[i], rules[i])

(* The words to compare with come first in every rule. *)
Words(rules) ==
    CHOOSE n \in 0..Len(rules) :
        /\ \A i \in 1..n : rules[i].m = "word"
        /\ \A i \in (n + 1)..Len(rules) : rules[i].m # "word"

(* The tokens a line yields, in the order of the rules. *)
Captured(line, rules) == [i \in 1..(Len(rules) - Words(rules)) |-> line[Words(rules) + i].v]

Fail == [ok |-> FALSE, rows |-> <<>>]
Got(rows) == [ok |-> TRUE, rows |-> rows]

-----------------------------------------------------------------------------
(* Deserialize for the answers of one line.                                *)

ParseOne(lines, rules) ==
    IF Len(lines) = 1 /\ ParseLine(lines[1], rules)
    THEN Got(<<Captured(lines[1], rules)>>) ELSE Fail

UpsVar     == <<Word("VAR"), UPS, VAR, QUOTED_TEXT>>
UpsVarDesc == <<Word("DESC"), UPS, VAR, QUOTED_TEXT>>
CmdDesc    == <<Word("CMDDESC"), UPS, CMD, QUOTED_TEXT>>
UpsDesc    == <<Word("UPSDESC"), UPS, QUOTED_TEXT>>
ProtOk     == <<Word("OK")>>

(* Faulty variant: the parser of a plain OK for an answer that says more.  *)
ProtOkFsdBare == ProtOk

ProtOkFsd  == <<Word("OK"), Word("FSD-SET")>>
ProtOkDetach == <<Word("OK"), Word("Goodbye")>>
ProtOkTls  == <<Word("OK"), Word("STARTTLS")>>

VarType == {"RW", "ENUM", "RANGE", "NUMBER", "STRING:32", "STRING:3"}

(* TYPE and two names, then any number of types up to the end of the line. *)
UpsVarType(lines) ==
    LET line == lines[1] IN
    IF /\ Len(lines) = 1 /\ Len(line) >= 3
       /\ CmpLiteral(line[1], "TYPE") /\ ExtractUpsName(line[2]) /\ ExtractVarName(line[3])
       /\ \A i \in 4..Len(line) : ExtractText(line[i]) /\ line[i].v \in VarType
    THEN Got(<<[i \in 1..(Len(line) - 1) |-> line[i + 1].v]>>) ELSE Fail

(* NETVER and VER are not parsed. *)
RawText(lines) == Got([i \in 1..Len(lines) |-> [j \in 1..Len(lines[i]) |-> lines[i][j].v]])

-----------------------------------------------------------------------------
(* Deserialize for lists: BEGIN LIST, items as long as the next line       *)
(* starts with the keyword, END LIST, nothing else.  The names of the      *)
(* first line are compared with those of every other line and returned     *)
(* with the items.  (Variables become a map, a repeated name keeping the   *)
(* last value; here the items stay a sequence.)                            *)

Cmp(keys) == [i \in 1..Len(keys) |-> Word(keys[i])]

ListEnd(kw, keys) == <<Word("END"), Word("LIST"), Word(kw)>> \o Cmp(keys)

ParseList(lines, kw, keyRules, itemRules) ==
    LET head == <<Word("BEGIN"), Word("LIST"), Word(kw)>> \o keyRules
        keys == Captured(lines[1], head)
        item == <<Word(kw)>> \o Cmp(keys) \o itemRules
        IsItem(i) == i <= Len(lines) /\ lines[i] # <<>> /\ lines[i][1].v = kw
        last == CHOOSE i \in 1..Len(lines) :
                    ~IsItem(i + 1) /\ \A j \in 2..i : IsItem(j)
    IN
    IF /\ ParseLine(lines[1], head)
       /\ \A i \in 2..last : ParseLine(lines[i], item)
       /\ Len(lines) = last + 1
       /\ ParseLine(lines[last + 1], ListEnd(kw, keys))
    THEN Got(<<keys>> \o [i \in 1..(last - 1) |-> Captured(lines[i + 1], item)]) ELSE Fail

UpsList(lines)    == ParseList(lines, "UPS", <<>>, <<UPS, QUOTED_TEXT>>)
UpsVarList(lines) == ParseList(lines, "VAR", <<UPS>>, <<VAR, QUOTED_TEXT>>)
RwList(lines)     == ParseList(lines, "RW", <<UPS>>, <<VAR, QUOTED_TEXT>>)
CmdList(lines)    == ParseList(lines, "CMD", <<UPS>>, <<CMD>>)
ClientList(lines) == ParseList(lines, "CLIENT", <<UPS>>, <<IP>>)
EnumList(lines)   == ParseList(lines, "ENUM", <<UPS, VAR>>, <<QUOTED_TEXT>>)
RangeList(lines)  == ParseList(lines, "RANGE", <<UPS, VAR>>, <<NUM_VALUE, NUM_VALUE>>)

-----------------------------------------------------------------------------
(* Which parser reads the answer to which command (AsyncNutClient for      *)
(* NutClient, and the methods of NutAuthClient).                           *)
Deserialize(op, lines) ==
    CASE op = "GetVar" -> ParseOne(lines, UpsVar)
      [] op = "GetVarDesc" -> ParseOne(lines, UpsVarDesc)
      [] op = "GetCmdDesc" -> ParseOne(lines, CmdDesc)
      [] op = "GetUpsDesc" -> ParseOne(lines, UpsDesc)
      [] op = "GetVarType" -> UpsVarType(lines)
      [] op \in {"GetProtVer", "GetDaemonVer"} -> RawText(lines)
      [] op = "ListUps" -> UpsList(lines)
      [] op = "ListVar" -> UpsVarList(lines)
      [] op = "ListRw" -> RwList(lines)
      [] op = "ListCmd" -> CmdList(lines)
      [] op = "ListClient" -> ClientList(lines)
      [] op = "ListEnum" -> EnumList(lines)
      [] op = "ListRange" -> RangeList(lines)
      [] op \in {"Username", "Password", "AttachCommand", "SetVariable", "InstCmd"} ->
            ParseOne(lines, ProtOk)
      [] op = "FsdCommand" -> ParseOne(lines, ProtOkFsd)
      [] op = "DetachCommand" -> ParseOne(lines, ProtOkDetach)
      [] op = "StartTls" -> ParseOne(lines, ProtOkTls)
=============================================================================
