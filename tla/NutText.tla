------------------------------- MODULE NutText -------------------------------
(***************************************************************************)
(* The characters of the protocol: the lexer (internal/lexer.rs), the      *)
(* escaping of values (internal/escape.rs) and what counts as a name       *)
(* (ups_name.rs, var_name.rs, cmd_name.rs).  A text is a sequence of       *)
(* characters.                                                             *)
(***************************************************************************)
EXTENDS Integers, Sequences

Quote == "\""
Backslash == "\\"
LineFeed == "\n"
Blanks == {" ", "\t", "\r"}
Whitespace == Blanks \cup {LineFeed}

Letters == {"a", "b", "G", "E", "T", "S", "V", "A", "R"}

(* is_ascii_rfc9271, of the characters used here *)
NameChars == Letters \cup {"-", ".", "_", "0", "1"}

IsUpsName(s) == s # <<>> /\ \A i \in 1..Len(s) : s[i] \notin Whitespace

IsVarName(s) == s # <<>> /\ s[1] \in Letters /\ \A i \in 1..Len(s) : s[i] \in NameChars

IsCmdName(s) == IsVarName(s)

(* One name stands for the table of standard names. *)
StandardNames == {<<"a", ".", "b">>}

(* VarName::new and TryFrom: a name of the table of standard names, or a   *)
(* custom one that passes the check; {} for an error.                      *)
VarNameOf(s, standard) ==
    IF s \in standard THEN {[repr |-> "standard", v |-> s]}
    ELSE IF IsVarName(s) THEN {[repr |-> "custom", v |-> s]} ELSE {}

-----------------------------------------------------------------------------
(* Faulty variant: a backslash is left as it is. *)
EscapedQuote(c) == IF c = Quote THEN <<Backslash, c>> ELSE <<c>>

(* One round of escape_nut_str *)
Escaped(c) == IF c \in {Quote, Backslash} THEN <<Backslash, c>> ELSE <<c>>

(* escape_nut_str *)
Escape(s) ==
    LET Out[i \in 1..(Len(s) + 1)] == IF i = 1 THEN <<>> ELSE Out[i - 1] \o Escaped(s[i - 1])
    IN Out[Len(s) + 1]

(* extract_from_token of a QuotedText: a backslash stands for the          *)
(* character after it, and there is one, or the quote would not be closed. *)
(* The code goes through bytes and makes a char of each one; characters    *)
(* and bytes are the same for ASCII, which is what a text here consists of *)
(* (the readers of bytes outside ASCII are not modelled).                  *)
Unescape(s) ==
    LET From[i \in 1..(Len(s) + 2)] ==
            IF i > Len(s) THEN <<>>
            ELSE IF s[i] # Backslash THEN <<s[i]>> \o From[i + 1]
            ELSE <<s[i + 1]>> \o From[i + 2]
    IN From[1]

(* read_quoted_text: where the quote opened before p is closed, 0 if never. *)
ClosingQuote(b, p) ==
    LET From[i \in 1..(Len(b) + 2)] ==
            IF i > Len(b) THEN 0
            ELSE IF b[i] = Backslash THEN From[i + 2]
            ELSE IF b[i] = Quote THEN i
            ELSE From[i + 1]
    IN From[p]

(* read_text: the first whitespace from p on *)
TextEnd(b, p) ==
    CHOOSE e \in p..(Len(b) + 1) :
        /\ \A i \in p..(e - 1) : b[i] \notin Whitespace
        /\ e = Len(b) + 1 \/ b[e] \in Whitespace

SkipBlanks(b, p) ==
    CHOOSE q \in p..(Len(b) + 1) :
        /\ \A i \in p..(q - 1) : b[i] \in Blanks
        /\ q = Len(b) + 1 \/ b[q] \notin Blanks

(* next_token at p: its kind and value, and where the next one is looked   *)
(* for.                                                                    *)
NextToken(b, p) ==
    LET q == SkipBlanks(b, p)
        close == ClosingQuote(b, q + 1)
    IN
    CASE q > Len(b) -> [k |-> "none", v |-> <<>>, next |-> q]
      [] q <= Len(b) /\ b[q] = LineFeed -> [k |-> "lf", v |-> <<LineFeed>>, next |-> q + 1]
      [] q <= Len(b) /\ b[q] = Quote ->
            IF close = 0 THEN [k |-> "error", v |-> <<>>, next |-> q]
            ELSE [k |-> "quoted", v |-> Unescape(SubSeq(b, q + 1, close - 1)), next |-> close + 1]
      [] OTHER -> [k |-> "text", v |-> SubSeq(b, q, TextEnd(b, q) - 1), next |-> TextEnd(b, q)]

(* The tokens of a buffer up to its end or the first error. *)
Tokens(b) ==
    LET From[p \in 1..(Len(b) + 1)] ==
            LET t == NextToken(b, p) IN
            CASE t.k = "none" -> <<>>
              [] t.k = "error" -> <<[k |-> "error", v |-> <<>>]>>
              [] OTHER -> <<[k |-> t.k, v |-> t.v]>> \o From[t.next]
    IN From[1]

(* SetVariable::serialize *)
SetVarLine(ups, var, value) ==
    <<"S", "E", "T", " ", "V", "A", "R", " ">> \o Escape(ups) \o <<" ">> \o var
      \o <<" ", Quote>> \o Escape(value) \o <<Quote, LineFeed>>
=============================================================================
