------------------------------ MODULE NutValue ------------------------------
(***************************************************************************)
(* Values of device variables (nut_webgui_upsmc, value.rs) and the two     *)
(* validations a request to set one goes through: that of the JSON API     *)
(* (json_api/route/rw.rs) and that of the web form                         *)
(* (hypermedia/route/ups/rw.rs).                                           *)
(*                                                                         *)
(* A text is a sequence of characters.  A number is kept in thousandths,   *)
(* so that rounding to two decimals shows; i64 has 2 * Half values, and an  *)
(* f64 is exact for the integers up to Exact and coarser above.  Texts with *)
(* an exponent, "inf", "nan" and decimals of numbers above Exact are not   *)
(* considered.                                                             *)
(***************************************************************************)
EXTENDS Integers, Sequences, SequencesExt, FiniteSets

CONSTANTS
    Half,       \* the integers below zero, 2^63 in the code
    Exact,      \* every integer up to here is an f64, 2^53 in the code
    Steps       \* the distances of neighbouring integral f64s, 1, 2, 4 ... 2^10 in the code

ASSUME HalfAssumption == Half \in Nat \ {0}

(* The distance p is that of the f64s up to Exact * p; i64 ends below the  *)
(* last of these.                                                          *)
ASSUME StepsAssumption ==
    /\ Exact \in Nat \ {0} /\ Exact < Half
    /\ Steps \subseteq Nat \ {0}
    /\ \A p \in Steps : Exact % p = 0
    /\ \E p \in Steps : Half <= Exact * p

MaxInt == Half - 1
MinInt == -Half
MaxUnsigned == 2 * Half - 1

DigitOf == [c \in {"0", "1", "2", "3", "4", "5", "6", "7", "8", "9"} |->
                CASE c = "0" -> 0 [] c = "1" -> 1 [] c = "2" -> 2 [] c = "3" -> 3
                  [] c = "4" -> 4 [] c = "5" -> 5 [] c = "6" -> 6 [] c = "7" -> 7
                  [] c = "8" -> 8 [] c = "9" -> 9]
Digits == DOMAIN DigitOf

(* Value::Int, Value::Float (in thousandths) and Value::String. *)
Int64(n) == [t |-> "int", n |-> n, s |-> <<>>]
Float(m) == [t |-> "float", n |-> m, s |-> <<>>]
Str(s) == [t |-> "string", n |-> 0, s |-> s]

IsNumeric(v) == v.t \in {"int", "float"}
IsText(v) == v.t = "string"

Abs(n) == IF n < 0 THEN -n ELSE n

(* The number itself, in thousandths *)
Worth(v) == IF v.t = "int" THEN 1000 * v.n ELSE v.n

(* i64 as f64: the nearest f64, the even one of two *)
Spacing(a) == CHOOSE p \in Steps : a <= Exact * p /\ \A q \in Steps : a <= Exact * q => p <= q

RoundTo(n, p) ==
    LET q == n \div p
        r == n % p
    IN p * (IF 2 * r < p \/ (2 * r = p /\ q % 2 = 0) THEN q ELSE q + 1)

Nearest(n) == IF Abs(n) <= Exact THEN n ELSE RoundTo(n, Spacing(Abs(n)))

(* as_lossly_f64 of a number, in thousandths *)
AsF64(v) == IF v.t = "int" THEN 1000 * Nearest(v.n) ELSE v.n

-----------------------------------------------------------------------------
(* Faulty variant: a number may start with a zero. *)
InferTypeZeros(t) ==
    LET points == {i \in 2..Len(t) : t[i] = "."} IN
    IF \/ t = <<>> \/ t[1] \notin Digits \cup {"-"} \/ Cardinality(points) > 1
       \/ \E i \in (2..Len(t)) \ points : t[i] \notin Digits
    THEN "string" ELSE IF points = {} THEN "int" ELSE "float"

(* infer_type: one look at the characters decides. *)
InferType(t) ==
    LET Rest(from, dots, whole) ==
            LET points == {i \in from..Len(t) : t[i] = "."} IN
            IF (\E i \in (from..Len(t)) \ points : t[i] \notin Digits) \/ Cardinality(points) > dots
            THEN "string" ELSE IF points = {} THEN whole ELSE "float"
    IN
    CASE t = <<>> -> "string"
      [] t # <<>> /\ t[1] = "0" ->
            IF Len(t) = 1 THEN "int" ELSE IF t[2] = "." THEN Rest(3, 0, "float") ELSE "string"
      [] t # <<>> /\ t[1] \in (Digits \ {"0"}) \cup {"-"} -> Rest(2, 1, "int")
      [] OTHER -> "string"

(* The sign of a text, and the text behind it. *)
Signed(t) == t # <<>> /\ t[1] \in {"-", "+"}
Sign(t) == IF Signed(t) /\ t[1] = "-" THEN -1 ELSE 1
Unsigned(t) == IF Signed(t) THEN Tail(t) ELSE t

Decimal(ds) ==
    LET Sum[i \in 1..(Len(ds) + 1)] == IF i = 1 THEN 0 ELSE 10 * Sum[i - 1] + DigitOf[ds[i - 1]]
    IN Sum[Len(ds) + 1]

AllDigits(ds) == \A i \in 1..Len(ds) : ds[i] \in Digits

(* str::parse::<i64>: a number in range, or nothing. *)
ParseI64(t) ==
    LET ds == Unsigned(t) IN
    IF ds # <<>> /\ AllDigits(ds) /\ Sign(t) * Decimal(ds) \in MinInt..MaxInt
    THEN {Int64(Sign(t) * Decimal(ds))} ELSE {}

(* str::parse::<f64>: digits around at most one point, at least one digit. *)
ParseF64(t) ==
    LET u == Unsigned(t)
        points == {i \in 1..Len(u) : u[i] = "."}
        whole == IF points = {} THEN u ELSE SubSeq(u, 1, (CHOOSE i \in points : TRUE) - 1)
        part == IF points = {} THEN <<>> ELSE SubSeq(u, Len(whole) + 2, Len(u))
        thousandths == SubSeq(part \o <<"0", "0", "0">>, 1, 3)
    IN IF Cardinality(points) <= 1 /\ AllDigits(whole) /\ AllDigits(part) /\ Len(u) > Cardinality(points)
       THEN {Float(Sign(t) * (1000 * Decimal(whole) + Decimal(thousandths)))} ELSE {}

Else(found, v) == IF found = {} THEN v ELSE CHOOSE x \in found : TRUE

(* Value::infer_from: what upsd reports is a number if it reads as one. *)
InferFrom(t) ==
    CASE InferType(t) = "int" -> Else(ParseI64(t), Str(t))
      [] InferType(t) = "float" -> Else(ParseF64(t), Str(t))
      [] InferType(t) = "string" -> Str(t)

(* Value::infer_number_from, {} for a NumberParseError *)
InferNumberFrom(t) == IF \E i \in 1..Len(t) : t[i] = "." THEN ParseF64(t) ELSE ParseI64(t)

(* A number of a JSON body: a positive one arrives as u64 and is cast.     *)
FromJson(n) == Int64(IF n > MaxInt THEN n - (MaxUnsigned + 1) ELSE n)

-----------------------------------------------------------------------------
(* What is written to upsd. *)

DecimalText[n \in Nat] ==
    LET D(k) == CHOOSE c \in Digits : DigitOf[c] = k IN
    IF n < 10 THEN <<D(n)>> ELSE DecimalText[n \div 10] \o <<D(n % 10)>>

(* "{:.2}": the two decimals a number in thousandths may be rounded to;    *)
(* which of them for 5 thousandths depends on the binary fraction.         *)
Rounded(m) ==
    LET low == Abs(m) \div 10
        up == IF Abs(m) % 10 = 0 THEN {low} ELSE IF Abs(m) % 10 < 5 THEN {low}
              ELSE IF Abs(m) % 10 > 5 THEN {low + 1} ELSE {low, low + 1}
    IN {IF m < 0 THEN -h ELSE h : h \in up}

(* Value::as_str, the possible texts *)
AsStr(v) ==
    LET Minus(n) == IF n < 0 THEN <<"-">> ELSE <<>>
        Two(h) == IF h < 10 THEN <<"0">> \o DecimalText[h] ELSE DecimalText[h]
    IN CASE v.t = "int" -> {Minus(v.n) \o DecimalText[Abs(v.n)]}
         [] v.t = "float" -> {Minus(v.n) \o DecimalText[Abs(h) \div 100] \o <<".">> \o Two(Abs(h) % 100) :
                                h \in Rounded(v.n)}
         [] v.t = "string" -> {v.s}

-----------------------------------------------------------------------------
(* VarDetail *)
StringOf(max) == [k |-> "string", max |-> max, options |-> {}, lo |-> Int64(0), hi |-> Int64(0)]
Number == [k |-> "number", max |-> 0, options |-> {}, lo |-> Int64(0), hi |-> Int64(0)]
EnumOf(opts) == [k |-> "enum", max |-> 0, options |-> opts, lo |-> Int64(0), hi |-> Int64(0)]
RangeOf(lo, hi) == [k |-> "range", max |-> 0, options |-> {}, lo |-> lo, hi |-> hi]

Trim(s) ==
    LET inked == {i \in 1..Len(s) : s[i] # " "} IN
    IF inked = {} THEN <<>>
    ELSE SubSeq(s, CHOOSE i \in inked : \A j \in inked : i <= j,
                   CHOOSE i \in inked : \A j \in inked : j <= i)

(* Faulty variant: the upper end alone is compared. *)
WithinTop(v, d) == IsNumeric(d.lo) /\ IsNumeric(d.hi) /\ AsF64(v) <= AsF64(d.hi)

(* The check of a range, as f64s.  A driver may report ends that are no    *)
(* numbers: then nothing is within.                                        *)
Within(v, d) ==
    /\ IsNumeric(d.lo) /\ IsNumeric(d.hi)
    /\ AsF64(d.lo) <= AsF64(v) /\ AsF64(v) <= AsF64(d.hi)

(* Faulty variant: a range does not contain its upper end. *)
JsonAcceptsOpen(v, d) ==
    CASE d.k = "number" -> IsNumeric(v)
      [] d.k = "string" -> IsText(v) /\ Trim(v.s) # <<>> /\ Len(Trim(v.s)) <= d.max
      [] d.k = "enum" -> v \in d.options
      [] d.k = "range" -> IsNumeric(v) /\ Within(v, d) /\ AsF64(v) < AsF64(d.hi)

(* The checks of json_api::route::rw::patch on a value *)
JsonAccepts(v, d) ==
    CASE d.k = "number" -> IsNumeric(v)
      [] d.k = "string" -> IsText(v) /\ Trim(v.s) # <<>> /\ Len(Trim(v.s)) <= d.max
      [] d.k = "enum" -> v \in d.options
      [] d.k = "range" -> IsNumeric(v) /\ Within(v, d)

(* validate_request of the web form: the value it sends, {} for Invalid.   *)
FormValue(t, d) ==
    CASE d.k = "string" -> IF Trim(t) # <<>> /\ Len(t) <= d.max THEN {Str(t)} ELSE {}
      [] d.k = "number" -> InferNumberFrom(t)
      [] d.k = "enum" -> {Str(t)} \cap d.options
      [] d.k = "range" -> {v \in InferNumberFrom(t) : Within(v, d)}
=============================================================================
