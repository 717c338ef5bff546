----------------------------- MODULE Algorithms -----------------------------
(***************************************************************************)
(* The pure functions of the system against what they are for.  A          *)
(* behaviour picks one case, an input of one of the functions, and stays   *)
(* there; the properties say what the functions make of the case.  The     *)
(* two small components that keep a table of their own, ClientDiff and     *)
(* DescriptionSync, are two further cases, with all their behaviours.      *)
(***************************************************************************)
EXTENDS NutValue, NutText, UpsEvents, ConfigLayers, ClientDiff, DescriptionSync

VARIABLE case

CaseVars == <<case, vars, descvars>>

Texts(chars, max) == UNION {[1..n -> chars] : n \in 0..max}

-----------------------------------------------------------------------------
(* The cases *)

\* a text upsd reports for a variable
ReportedTexts == Texts({"0", "1", "5", ".", "-", "a"}, 5)

\* numbers of a request, from a form, as a JSON integer or as a JSON float
Numbers == {FromJson(n) : n \in MinInt..MaxUnsigned} \cup {Float(m) : m \in -1300..1300}

\* ranges with ends that upsd writes: whole, or with up to two decimals, up to the limits
\* of what an f64 tells apart and beyond, and one that is no range of numbers
Ranges == {RangeOf(Int64(-1), Int64(1)), RangeOf(Float(-1010), Float(1010)),
           RangeOf(Int64(0), Float(500)), RangeOf(Int64(1 - Exact), Int64(Exact - 1)),
           RangeOf(Int64(-Exact), Int64(Exact)), RangeOf(Int64(MinInt), Int64(MaxInt)),
           RangeOf(Str(<<"a">>), Int64(1))}

Details == Ranges \cup {Number, StringOf(1), StringOf(2), EnumOf({InferFrom(<<"1">>), InferFrom(<<"a">>)})}

FormTexts == Texts({"0", "1", "5", ".", "-", "a", " "}, 3)

Values == Texts({"a", Quote, Backslash, " "}, 4)
NameTexts == Texts({"a", "0", ".", " ", Quote}, 3)

UpToTwo == {{}} \cup {{f, g} : f \in Flags, g \in Flags}

\* one field and the path of the file, from every layer
Fields == {"port", "auth", "default_theme", "base_path"}
ScalarOf(f, a, c, r, p, ok, t) ==
    [kind |-> "scalar", field |-> f, allowEnv |-> a, cli |-> c,
     env |-> [NoEnv EXCEPT !.of = [NoEnv.of EXCEPT ![f] = r, !.config_file = p]],
     toml |-> [ok |-> ok, of |-> t, upsd |-> <<>>]]
Scalars(f) ==
    {ScalarOf(f, a, c, r, p, ok, t) :
        a \in BOOLEAN, c \in SUBSET {f, "config_file"}, r \in Raw, p \in {"unset", "blank", "text"},
        ok \in BOOLEAN, t \in SUBSET {f}}

\* an upsd section of the file, another one, and the variables for a name
Sections(name) ==
    UNION {[ks -> SUBSET {"addr", "port"}] : ks \in SUBSET {name, "other"}}
UpsdOf(n, a, p, u, s) ==
    [kind |-> "upsd", cli |-> {"config_file"},
     env |-> [NoEnv EXCEPT !.name = n, !.upsd = [NoEnv.upsd EXCEPT !.addr = a, !.port = p, !.user = u]],
     toml |-> [ok |-> TRUE, of |-> {}, upsd |-> s]]
Upsds ==
    {UpsdOf(n, a, p, u, s) :
        n \in {DefaultKey, "named"}, a \in Raw, p \in {"unset", "text", "bad"}, u \in {"unset", "blank"},
        s \in Sections("named") \cup Sections(DefaultKey)}

-----------------------------------------------------------------------------
NoCase == [kind |-> "none"]

CaseInit == Init /\ DescInit /\ case = NoCase

PickReported == \E t \in ReportedTexts : case' = [kind |-> "reported", text |-> t]
PickNumber == \E v \in Numbers, d \in Details : case' = [kind |-> "number", value |-> v, detail |-> d]
PickForm == \E t \in FormTexts, d \in Details : case' = [kind |-> "form", text |-> t, detail |-> d]
PickRequest == \E u \in {<<"a">>, <<"b", "0">>}, s \in Values, n \in NameTexts :
    /\ VarNameOf(n, StandardNames) # {}
    /\ case' = [kind |-> "request", ups |-> u, name |-> n, value |-> s]
PickStatus == \E old \in UpToTwo, new \in UpToTwo : case' = [kind |-> "status", old |-> old, new |-> new]
PickScalar == \E f \in Fields : \E c \in Scalars(f) : case' = c
PickUpsd == \E c \in Upsds : case' = c
Pick ==
    /\ case = NoCase /\ UNCHANGED <<vars, descvars>>
    /\ \/ PickReported \/ PickNumber \/ PickForm \/ PickRequest
       \/ PickStatus \/ PickScalar \/ PickUpsd

Start ==
    /\ case = NoCase /\ UNCHANGED <<vars, descvars>>
    /\ case' \in {[kind |-> "clients"], [kind |-> "descriptions"]}

StepClients == case.kind = "clients" /\ Next /\ UNCHANGED <<case, descvars>>

StepTable == case.kind = "descriptions" /\ TableStep /\ UNCHANGED <<case, vars>>

StepService == case.kind = "descriptions" /\ ServiceStep /\ UNCHANGED <<case, vars>>

CaseNext == Pick \/ Start \/ StepClients \/ StepTable \/ StepService

(* The description service runs until shutdown and each of its requests    *)
(* ends, by an answer or by its timeout.                                   *)
CaseSpec == CaseInit /\ [][CaseNext]_CaseVars /\ WF_CaseVars(StepService)

-----------------------------------------------------------------------------
(* Values *)

(* What upsd reports is sent back as it was, but for the zeros in front of *)
(* a negative number and what two decimals cannot show: the text of an     *)
(* inferred value infers to a value of the same type, at most half a       *)
(* hundredth away, and from there on nothing changes any more.             *)
ReadBack ==
    case.kind = "reported" =>
        LET v == InferFrom(case.text) IN
        \A out \in AsStr(v) :
            LET w == InferFrom(out) IN
            /\ w.t = v.t /\ w.s = v.s
            /\ Abs(Worth(w) - Worth(v)) <= 5
            /\ \A again \in AsStr(w) : InferFrom(again) = w
            /\ v.t # "float" /\ ~IsPrefix(<<"-", "0">>, case.text) => out = case.text

(* A number that passed the range check is still in the range when it is   *)
(* read from the request: two decimals never round it out.  The check      *)
(* compares f64s, so the number itself is in the range as long as the ends *)
(* are below what an f64 holds exactly; at 2^53 and above a neighbour of   *)
(* an end may pass.                                                        *)
SentInRange ==
    case.kind = "number" /\ JsonAccepts(case.value, case.detail) =>
        LET lo == case.detail.lo
            hi == case.detail.hi
        IN \A out \in AsStr(case.value) :
            /\ InferFrom(out).t = case.value.t
            /\ case.detail.k = "range" =>
                  /\ AsF64(InferFrom(out)) \in AsF64(lo)..AsF64(hi)
                  /\ Abs(Worth(lo)) < 1000 * Exact /\ Abs(Worth(hi)) < 1000 * Exact =>
                        Worth(InferFrom(out)) \in Worth(lo)..Worth(hi)

(* The web form lets nothing through that the JSON API rejects, and a      *)
(* number the API accepts for a number or a range can be typed into the    *)
(* form, if two decimals are enough for it.  Options are excepted: one     *)
(* that is a number is accepted by the API, and the form, which compares   *)
(* it with a text, refuses it although its page offers it.                 *)
RoutesAgree ==
    /\ case.kind = "form" => \A v \in FormValue(case.text, case.detail) : JsonAccepts(v, case.detail)
    /\ case.kind = "number" /\ JsonAccepts(case.value, case.detail) /\ case.detail.k # "enum"
         /\ (case.value.t = "int" \/ case.value.n % 10 = 0) =>
            \A out \in AsStr(case.value) : case.value \in FormValue(out, case.detail)

-----------------------------------------------------------------------------
(* Requests *)

(* The reader of a SET VAR line sees six tokens, whatever the value holds: *)
(* its quotes, backslashes and blanks neither end it early nor change it,  *)
(* and a name is one token.  (Values of one line.)                         *)
RequestTokens ==
    case.kind = "request" =>
        Tokens(SetVarLine(case.ups, case.name, case.value)) =
            LET Word(s) == [k |-> "text", v |-> s] IN
            << Word(<<"S", "E", "T">>), Word(<<"V", "A", "R">>), Word(case.ups), Word(case.name),
               [k |-> "quoted", v |-> case.value], [k |-> "lf", v |-> <<LineFeed>>] >>

-----------------------------------------------------------------------------
(* Status *)

(* A listener who knew the old status and hears the events knows the new   *)
(* one, for the flags whose end is announced, and hears an event of its    *)
(* own for each flag that changed: from the words upsd reports, among them *)
(* some that mean nothing, to the flags.                                   *)
EventsReplay ==
    case.kind = "status" =>
        LET before == UpsStatus(StatusWords(case.old))
            after == UpsStatus(<<"WAIT">> \o StatusWords(case.new) \o <<"HB">>)
            events == Events(before, after)
        IN
        /\ Listen(case.old, events) \cap TwoSided = case.new \cap TwoSided
        /\ Cardinality(events) =
              Cardinality(Unset(case.new, case.old) \cap DOMAIN Added)
                + Cardinality(Unset(case.old, case.new) \cap DOMAIN Removed)

-----------------------------------------------------------------------------
(* Configuration *)

CasesConfigs ==
    IF case.kind = "scalar" THEN LoadConfigs(case.cli, case.allowEnv, case.env, case.toml)
    ELSE LoadConfigs(case.cli, TRUE, case.env, case.toml)

(* The command line wins over the environment, which counts only if it is  *)
(* allowed, and that over the file, which counts only if someone names it. *)
Precedence ==
    case.kind = "scalar" =>
        LET f == case.field
            inEnv == case.allowEnv /\ f \in EnvGiven(case.env.of)
            named == \/ "config_file" \in case.cli
                     \/ case.allowEnv /\ "config_file" \in EnvGiven(case.env.of)
        IN \A config \in CasesConfigs :
              config.of[f] = IF f \in case.cli THEN "cli" ELSE IF inEnv THEN "env"
                             ELSE IF named /\ f \in case.toml.of THEN "toml" ELSE "default"

(* The variables for an upsd reach the namespace they name if they give an *)
(* address or the file has that section, and never another one; whatever   *)
(* the sections of the file say otherwise stays, and there is always an    *)
(* upsd to talk to.  Without an address and a section nothing is demanded  *)
(* here: the documents say that the variables configure the namespace      *)
(* "default", and the code drops them (README, section 5).                 *)
EnvReachesUpsd ==
    case.kind = "upsd" =>
        \A config \in CasesConfigs :
            LET n == case.env.name
                given == EnvGiven(case.env.upsd)
                there == "addr" \in given \/ n \in DOMAIN case.toml.upsd
            IN /\ DOMAIN config.upsd # {}
               /\ there => n \in DOMAIN config.upsd /\ \A f \in given : config.upsd[n][f] = "env"
               /\ \A k \in DOMAIN config.upsd \ {n} : \A f \in UpsdFields : config.upsd[k][f] # "env"
               /\ \A k \in DOMAIN case.toml.upsd :
                     /\ k \in DOMAIN config.upsd
                     /\ \A f \in case.toml.upsd[k] : config.upsd[k][f] = "toml" \/ (k = n /\ f \in given)
=============================================================================
