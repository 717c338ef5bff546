-------------------------- MODULE AlgorithmsProofs --------------------------
(***************************************************************************)
(* The parts of Algorithms that a proof reaches.                           *)
(*   Descriptions   for any devices, names and capacity of the event       *)
(*                  channel: no name on display is forgotten without one   *)
(*                  of the known reasons, none is asked for twice.         *)
(*   Configuration  for any command line, environment and file.            *)
(*   Clients        for lists of any length, with any repetitions.         *)
(*   Status events  for any two statuses.                                  *)
(*   Requests       for any device, variable and value of a SET VAR line.  *)
(*   Values         for any text, any number, and any range whose ends     *)
(*                  have at most two decimals, whatever the width of i64   *)
(*                  and the precision of f64.                              *)
(* The last four are about loops over sequences.  Each loop is a function *)
(* of the number of rounds; a fact about all rounds is shown by looking at *)
(* the least round for which it fails.                                     *)
(***************************************************************************)
EXTENDS Algorithms, FiniteSetTheorems, WellFoundedInduction, TLAPS

(* The inductive invariant. *)

DescType ==
    /\ DOMAIN names \subseteq Ups
    /\ \A d \in DOMAIN names : names[d] \subseteq DescNames
    /\ channel \in Seq(SUBSET Ups)
    /\ describing \in BOOLEAN
    /\ pending \subseteq Ups \X DescNames
    /\ got \subseteq DescNames /\ refused \subseteq DescNames /\ shared \subseteq DescNames

(* Between two announcements the service has nothing in its hands: what it *)
(* asked for when it took one is all that can be in flight.                *)
Idle == ~describing => pending = {} /\ got = {} /\ refused = {}

(* One request for each name. *)
Single == \A p, q \in pending : p[2] = q[2] => p = q

(* What was answered or refused is not waited for. *)
Ended == \A p \in pending : p[2] \notin got \cup refused

Fresh == InFlight \cap shared = {}

DescInv == DescType /\ Idle /\ Single /\ Ended /\ Fresh /\ AccountedFor

-----------------------------------------------------------------------------
LEMMA InitInv == DescInit => DescInv
  <1> SUFFICES ASSUME DescInit PROVE DescInv
    OBVIOUS
  <1>1. DOMAIN names = {}
    BY DEF DescInit
  <1>2. channel \in Seq(SUBSET Ups)
    BY DEF DescInit
  <1>3. DescType /\ Idle /\ Single /\ Ended
    BY <1>1, <1>2 DEF DescInit, DescType, Idle, Single, Ended
  <1>4. Fresh
    BY DEF DescInit, Fresh
  <1>5. AccountedFor
    BY <1>1 DEF AccountedFor
  <1> QED
    BY <1>3, <1>4, <1>5 DEF DescInv

LEMMA TypeStep == DescType /\ [DescNext]_descvars => DescType'
  <1> SUFFICES ASSUME DescType, [DescNext]_descvars PROVE DescType'
    OBVIOUS
  <1> USE DEF DescType
  <1>1. CASE UNCHANGED descvars
    BY <1>1 DEF descvars
  <1>2. ASSUME NEW D \in (SUBSET Ups) \ {{}}, NEW f \in [D -> SUBSET DescNames], Announce(D, f)
        PROVE  DescType'
    <2>1. DOMAIN names' \subseteq Ups /\ \A d \in DOMAIN names' : names'[d] \subseteq DescNames
      BY <1>2 DEF Announce
    <2>2. channel' \in Seq(SUBSET Ups)
      <3>1. Len(channel) = Capacity => Tail(channel) \in Seq(SUBSET Ups)
        BY CapacityAssumption
      <3> QED
        BY <1>2, <3>1 DEF Announce
    <2> QED
      BY <1>2, <2>1, <2>2 DEF Announce
  <1>3. ASSUME NEW d \in Ups, RemoveUps(d) PROVE DescType'
    BY <1>3 DEF RemoveUps
  <1>4. ASSUME NEW d \in Ups, NEW ns \in SUBSET DescNames, Refresh(d, ns) PROVE DescType'
    BY <1>4 DEF Refresh
  <1>5. CASE Overrun
    BY <1>5 DEF Overrun
  <1>6. CASE Receive
    <2>1. Head(channel) \subseteq Ups /\ Tail(channel) \in Seq(SUBSET Ups)
      BY <1>6 DEF Receive
    <2> DEFINE D == Head(channel) \cap DOMAIN names
    <2>2. Wanted(D) \subseteq DescNames
      BY DEF Wanted
    <2>3. PICK whom \in [Wanted(D) -> D] : pending' = {<<whom[n], n>> : n \in Wanted(D)}
      BY <1>6 DEF Receive, AskAbout
    <2>4. pending' \subseteq Ups \X DescNames
      <3>1. ASSUME NEW n \in Wanted(D) PROVE whom[n] \in Ups /\ n \in DescNames
        BY <2>1, <2>2
      <3> HIDE DEF D
      <3> QED
        BY <2>3, <3>1
    <2>5. describing' \in BOOLEAN
      BY <1>6 DEF Receive, AskAbout
    <2> QED
      BY <1>6, <2>1, <2>4, <2>5 DEF Receive
  <1>7. ASSUME NEW d \in Ups, NEW n \in DescNames, DescEnds(d, n) PROVE DescType'
    BY <1>7 DEF DescEnds, DescOk, DescFail
  <1>8. CASE Store
    BY <1>8 DEF Store
  <1> QED
    BY <1>1, <1>2, <1>3, <1>4, <1>5, <1>6, <1>7, <1>8 DEF DescNext, TableStep, ServiceStep

-----------------------------------------------------------------------------
(* The devices of the announcement that are still there. *)
Present == Head(channel) \cap DOMAIN names

(* What the service asks for when it takes an announcement: each name once. *)
LEMMA AskedFor ==
    ASSUME DescType, Receive
    PROVE  /\ \A n : n \in Wanted(Present) <=> \E p \in pending' : p[2] = n
           /\ Single'
           /\ describing' = (Wanted(Present) # {})
  <1>1. PICK whom \in [Wanted(Present) -> Present] : pending' = {<<whom[n], n>> : n \in Wanted(Present)}
    BY DEF Receive, AskAbout, Present
  <1>2. describing' = (Wanted(Present) # {})
    BY DEF Receive, AskAbout, Present
  <1>3. ASSUME NEW n \in Wanted(Present) PROVE \E p \in pending' : p[2] = n
    <2>1. <<whom[n], n>> \in pending'
      BY <1>1
    <2> QED
      BY <2>1
  <1>4. ASSUME NEW p \in pending' PROVE p[2] \in Wanted(Present) /\ p = <<whom[p[2]], p[2]>>
    <2>1. PICK n \in Wanted(Present) : p = <<whom[n], n>>
      BY <1>1
    <2> QED
      BY <2>1
  <1>5. Single'
    <2> SUFFICES ASSUME NEW p \in pending', NEW q \in pending', p[2] = q[2] PROVE p = q
      BY DEF Single
    <2> QED
      BY <1>4
  <1> QED
    BY <1>2, <1>3, <1>4, <1>5

LEMMA WantedFresh == \A D, n : n \in Wanted(D) => n \notin shared
  BY DEF Wanted

(* The names in flight, one by one. *)
LEMMA Flying ==
    /\ \A n : n \in InFlight <=> n \in got \/ n \in refused \/ \E p \in pending : p[2] = n
    /\ \A n : n \in InFlight' <=> n \in got' \/ n \in refused' \/ \E p \in pending' : p[2] = n
  BY DEF InFlight

(* The bookkeeping of the service. *)
LEMMA BooksStep ==
    ASSUME DescInv, [DescNext]_descvars
    PROVE  (Idle /\ Single /\ Ended /\ Fresh)'
  <1> USE DEF DescInv, Idle, Single, Ended
  <1>1. CASE UNCHANGED <<describing, pending, got, refused, shared>>
    <2>1. InFlight' = InFlight
      BY <1>1 DEF InFlight
    <2> QED
      BY <1>1, <2>1 DEF Fresh
  <1>2. CASE Receive
    <2>1. DescType /\ ~describing
      BY <1>2 DEF Receive
    <2>3. got' = {} /\ refused' = {} /\ shared' = shared
      BY <1>2, <2>1 DEF Receive
    <2>4. Fresh'
      BY <1>2, <2>1, <2>3, AskedFor, WantedFresh, Flying DEF Fresh
    <2>5. Idle'
      <3>1. ASSUME ~describing' PROVE pending' = {}
        BY <1>2, <2>1, <3>1, AskedFor
      <3> QED
        BY <2>3, <3>1
    <2>6. Ended'
      BY <2>3
    <2> QED
      BY <1>2, <2>1, <2>4, <2>5, <2>6, AskedFor
  <1>3. ASSUME NEW d \in Ups, NEW n \in DescNames, DescEnds(d, n) PROVE (Idle /\ Single /\ Ended /\ Fresh)'
    <2>1. \A k : k \in InFlight' => k \in InFlight
      BY <1>3, Flying DEF DescEnds, DescOk, DescFail
    <2>2. Fresh'
      BY <1>3, <2>1 DEF DescEnds, DescOk, DescFail, Fresh
    <2>3. Idle' /\ Single'
      BY <1>3 DEF DescEnds, DescOk, DescFail
    <2>4. Ended'
      <3>1. <<d, n>> \in pending /\ pending' = pending \ {<<d, n>>}
        BY <1>3 DEF DescEnds, DescOk, DescFail
      <3>2. got' \cup refused' = (got \cup refused) \cup {n}
        BY <1>3 DEF DescEnds, DescOk, DescFail
      <3>3. \A p \in pending' : p[2] # n
        BY <3>1
      <3> QED
        BY <3>1, <3>2, <3>3
    <2> QED
      BY <2>2, <2>3, <2>4
  <1>4. CASE Store
    <2>1. \A k : k \notin InFlight'
      BY <1>4, Flying DEF Store
    <2> QED
      BY <1>4, <2>1 DEF Store, Fresh
  <1> QED
    BY <1>1, <1>2, <1>3, <1>4
    DEF DescNext, TableStep, ServiceStep, Announce, RemoveUps, Refresh, Overrun, descvars

-----------------------------------------------------------------------------
(* A name of a device that is accounted for. *)
Known(d, n) ==
    \/ <<d, n>> \in excused \/ n \in InFlight
    \/ \E i \in 1..Len(channel) : d \in channel[i]

(* What a queue still announces when its first event is gone, and when one *)
(* is added.                                                               *)
LEMMA Popped ==
    ASSUME NEW s \in Seq(SUBSET Ups), s # <<>>, NEW i \in 1..Len(s), NEW d \in s[i]
    PROVE  d \in Head(s) \/ \E j \in 1..Len(Tail(s)) : d \in Tail(s)[j]
  <1>1. CASE i = 1
    BY <1>1
  <1>2. CASE i # 1
    <2>1. i - 1 \in 1..Len(Tail(s)) /\ Tail(s)[i - 1] = s[i]
      BY <1>2
    <2> QED
      BY <2>1
  <1> QED
    BY <1>1, <1>2

LEMMA Pushed ==
    ASSUME NEW s \in Seq(SUBSET Ups), NEW D \in SUBSET Ups
    PROVE  /\ \A i \in 1..Len(s) : \A d \in s[i] :
                \E j \in 1..Len(Append(s, D)) : d \in Append(s, D)[j]
           /\ \A d \in D : \E j \in 1..Len(Append(s, D)) : d \in Append(s, D)[j]
  <1>1. ASSUME NEW i \in 1..Len(s)
        PROVE  i \in 1..Len(Append(s, D)) /\ Append(s, D)[i] = s[i]
    OBVIOUS
  <1>2. Len(s) + 1 \in 1..Len(Append(s, D)) /\ Append(s, D)[Len(s) + 1] = D
    OBVIOUS
  <1> QED
    BY <1>1, <1>2

(* Each step leaves every name accounted for. *)
LEMMA KnownAnnounce ==
    ASSUME DescInv, NEW D \in (SUBSET Ups) \ {{}}, NEW f \in [D -> SUBSET DescNames], Announce(D, f),
           NEW d \in DOMAIN names', NEW n \in names'[d] \ shared'
    PROVE  Known(d, n)'
  <1> DEFINE s == IF Len(channel) = Capacity THEN Tail(channel) ELSE channel
  <1>1. channel \in Seq(SUBSET Ups) /\ (Len(channel) = Capacity => channel # <<>>)
    BY CapacityAssumption DEF DescInv, DescType
  <1>2. s \in Seq(SUBSET Ups) /\ channel' = Append(s, D)
    BY <1>1 DEF Announce
  <1>3. InFlight' = InFlight
    BY DEF Announce, InFlight
  <1>4. CASE d \in D
    <2> HIDE DEF s
    <2>1. \E j \in 1..Len(channel') : d \in channel'[j]
      BY <1>2, <1>4, Pushed
    <2> QED
      BY <2>1 DEF Known
  <1>5. CASE d \notin D
    <2>1. d \in DOMAIN names /\ n \in names[d] \ shared
      BY <1>5 DEF Announce
    <2>2. Known(d, n)
      BY <2>1 DEF DescInv, AccountedFor, Known
    <2>3. n \in DescNames
      BY <2>1 DEF DescInv, DescType
    <2>4. CASE <<d, n>> \in excused
      <3>1. <<d, n>> \in excused'
        BY <1>5, <2>4 DEF Announce
      <3> QED
        BY <3>1 DEF Known
    <2>5. CASE n \in InFlight
      BY <1>3, <2>5 DEF Known
    <2>6. ASSUME NEW i \in 1..Len(channel), d \in channel[i] PROVE Known(d, n)'
      <3>1. CASE \E j \in 1..Len(s) : d \in s[j]
        <4> HIDE DEF s
        <4>1. \E j \in 1..Len(channel') : d \in channel'[j]
          BY <1>2, <3>1, Pushed
        <4> QED
          BY <4>1 DEF Known
      <3>2. CASE Len(channel) = Capacity /\ d \in Head(channel)
        <4>1. <<d, n>> \in excused'
          BY <1>5, <2>3, <3>2 DEF Announce, Lagged
        <4> QED
          BY <4>1 DEF Known
      <3>3. Len(channel) = Capacity => d \in Head(channel) \/ \E j \in 1..Len(Tail(channel)) : d \in Tail(channel)[j]
        BY <1>1, <2>6, Popped
      <3> QED
        BY <2>6, <3>1, <3>2, <3>3
    <2> QED
      BY <2>2, <2>4, <2>5, <2>6 DEF Known
  <1> QED
    BY <1>4, <1>5

LEMMA KnownRemove ==
    ASSUME DescInv, NEW e \in Ups, RemoveUps(e), NEW d \in DOMAIN names', NEW n \in names'[d] \ shared'
    PROVE  Known(d, n)'
  <1>1. d # e /\ d \in DOMAIN names /\ n \in names[d] \ shared
    BY DEF RemoveUps
  <1>2. Known(d, n)
    BY <1>1 DEF DescInv, AccountedFor, Known
  <1>3. InFlight' = InFlight /\ channel' = channel
    BY DEF RemoveUps, InFlight
  <1>4. <<d, n>> \in excused => <<d, n>> \in excused'
    BY <1>1 DEF RemoveUps
  <1> QED
    BY <1>2, <1>3, <1>4 DEF Known

LEMMA KnownRefresh ==
    ASSUME DescInv, NEW e \in Ups, NEW ns \in SUBSET DescNames, Refresh(e, ns),
           NEW d \in DOMAIN names', NEW n \in names'[d] \ shared'
    PROVE  Known(d, n)'
  <1>1. InFlight' = InFlight /\ channel' = channel /\ excused \subseteq excused'
    BY DEF Refresh, InFlight
  <1>2. CASE d = e /\ n \notin names[d]
    <2>1. <<d, n>> \in excused'
      BY <1>2 DEF Refresh
    <2> QED
      BY <2>1 DEF Known
  <1>3. CASE d # e \/ n \in names[d]
    <2>1. d \in DOMAIN names /\ n \in names[d] \ shared
      BY <1>3 DEF Refresh
    <2>2. Known(d, n)
      BY <2>1 DEF DescInv, AccountedFor, Known
    <2> QED
      BY <1>1, <2>2 DEF Known
  <1> QED
    BY <1>2, <1>3

LEMMA KnownOverrun ==
    ASSUME DescInv, Overrun, NEW d \in DOMAIN names', NEW n \in names'[d] \ shared'
    PROVE  Known(d, n)'
  <1>1. d \in DOMAIN names /\ n \in names[d] \ shared
    BY DEF Overrun
  <1>2. Known(d, n) /\ n \in DescNames
    BY <1>1 DEF DescInv, DescType, AccountedFor, Known
  <1>3. InFlight' = InFlight /\ channel' = Tail(channel) /\ excused \subseteq excused'
    BY DEF Overrun, InFlight
  <1>4. ASSUME NEW i \in 1..Len(channel), d \in channel[i] PROVE Known(d, n)'
    <2>1. d \in Head(channel) \/ \E j \in 1..Len(channel') : d \in channel'[j]
      BY <1>3, <1>4, Popped DEF DescInv, DescType, Overrun
    <2>2. d \in Head(channel) => <<d, n>> \in excused'
      BY <1>2 DEF Overrun, Lagged
    <2> QED
      BY <2>1, <2>2 DEF Known
  <1> QED
    BY <1>2, <1>3, <1>4 DEF Known

(* The names of the announced devices are in flight now.  Nothing was      *)
(* before, so nothing is lost either.                                      *)
LEMMA KnownReceive ==
    ASSUME DescInv, Receive, NEW d \in DOMAIN names', NEW n \in names'[d] \ shared'
    PROVE  Known(d, n)'
  <1>1. d \in DOMAIN names /\ n \in names[d] \ shared
    BY DEF Receive
  <1>2. Known(d, n) /\ n \notin InFlight
    <2>1. n \notin InFlight
      BY Flying DEF DescInv, Idle, Receive
    <2> QED
      BY <1>1, <2>1 DEF DescInv, AccountedFor, Known
  <1>3. channel' = Tail(channel) /\ excused' = excused
    BY DEF Receive
  <1>4. ASSUME NEW i \in 1..Len(channel), d \in channel[i] PROVE Known(d, n)'
    <2>1. d \in Head(channel) \/ \E j \in 1..Len(channel') : d \in channel'[j]
      BY <1>3, <1>4, Popped DEF DescInv, DescType, Receive
    <2>2. ASSUME d \in Head(channel) PROVE n \in InFlight'
      <3>1. n \in Wanted(Present)
        BY <1>1, <2>2 DEF Wanted, Present
      <3>2. \E p \in pending' : p[2] = n
        BY <3>1, AskedFor DEF DescInv
      <3> QED
        BY <3>2, Flying
    <2> QED
      BY <2>1, <2>2 DEF Known
  <1> QED
    BY <1>2, <1>3, <1>4 DEF Known

LEMMA KnownEnds ==
    ASSUME DescInv, NEW e \in Ups, NEW k \in DescNames, DescEnds(e, k),
           NEW d \in DOMAIN names', NEW n \in names'[d] \ shared'
    PROVE  Known(d, n)'
  <1>1. UNCHANGED <<names, shared, channel, excused>>
    BY DEF DescEnds, DescOk, DescFail
  <1>2. Known(d, n)
    BY <1>1 DEF DescInv, AccountedFor, Known
  <1>3. n \in InFlight => n \in InFlight'
    <2> SUFFICES ASSUME n \in InFlight PROVE n \in InFlight'
      OBVIOUS
    <2>1. CASE n = k
      BY <2>1, Flying DEF DescEnds, DescOk, DescFail
    <2>2. CASE n # k
      BY <2>2, Flying DEF DescEnds, DescOk, DescFail
    <2> QED
      BY <2>1, <2>2
  <1> QED
    BY <1>1, <1>2, <1>3 DEF Known

(* What was answered is stored, what was refused is excused. *)
LEMMA KnownStore ==
    ASSUME DescInv, Store, NEW d \in DOMAIN names', NEW n \in names'[d] \ shared'
    PROVE  Known(d, n)'
  <1>1. d \in DOMAIN names /\ n \in names[d] /\ n \notin shared /\ n \notin got
    BY DEF Store
  <1>2. Known(d, n)
    BY <1>1 DEF DescInv, AccountedFor, Known
  <1>3. channel' = channel /\ excused \subseteq excused'
    BY DEF Store
  <1>4. n \in InFlight => <<d, n>> \in excused'
    <2>1. n \in InFlight => n \in refused
      BY <1>1, Flying DEF Store
    <2> QED
      BY <1>1, <2>1 DEF Store
  <1> QED
    BY <1>2, <1>3, <1>4 DEF Known

LEMMA KnownStep ==
    ASSUME DescInv, [DescNext]_descvars
    PROVE  AccountedFor'
  <1> SUFFICES ASSUME NEW d \in DOMAIN names', NEW n \in names'[d] \ shared' PROVE Known(d, n)'
    BY DEF AccountedFor, Known
  <1>1. CASE UNCHANGED descvars
    <2>1. InFlight' = InFlight
      BY <1>1 DEF descvars, InFlight
    <2> QED
      BY <1>1, <2>1 DEF descvars, DescInv, AccountedFor, Known
  <1> QED
    BY <1>1, KnownAnnounce, KnownRemove, KnownRefresh, KnownOverrun, KnownReceive, KnownEnds, KnownStore
    DEF DescNext, TableStep, ServiceStep

-----------------------------------------------------------------------------
LEMMA InvStep == DescInv /\ [DescNext]_descvars => DescInv'
  <1> SUFFICES ASSUME DescInv, [DescNext]_descvars PROVE DescInv'
    OBVIOUS
  <1>1. DescType'
    BY TypeStep DEF DescInv
  <1>2. (Idle /\ Single /\ Ended /\ Fresh)'
    BY BooksStep
  <1>3. AccountedFor'
    BY KnownStep
  <1> QED
    BY <1>1, <1>2, <1>3 DEF DescInv

LEMMA InvAlways == DescSpec => []DescInv
  BY InitInv, InvStep, PTL DEF DescSpec

LEMMA AskedOnceHolds == DescInv => AskedOnce
  BY Flying DEF DescInv, Single, Ended, Fresh, AskedOnce

(* DescriptionSyncService keeps devices, names, queue and requests in their *)
(* ranges: it never asks about a name or a device that no table had.       *)
THEOREM DescTypeCorrect == DescSpec => []DescType
  <1>1. DescInv => DescType
    BY DEF DescInv
  <1> QED
    BY <1>1, InvAlways, PTL

(* A name on display without a description is in a request, in a queued    *)
(* announcement, or was missed for one of the three known reasons (the     *)
(* queue overran, upsd failed, the name came with a refresh), for any      *)
(* number of devices and names and any interleaving with the table.        *)
THEOREM AccountedForCorrect == DescSpec => []AccountedFor
  <1>1. DescInv => AccountedFor
    BY DEF DescInv
  <1> QED
    BY <1>1, InvAlways, PTL

(* DescriptionTask waits for at most one request for a name, however many  *)
(* devices have it, and for none whose answer it has.                      *)
THEOREM AskedOnceCorrect == DescSpec => []AskedOnce
  BY AskedOnceHolds, InvAlways, PTL

-----------------------------------------------------------------------------
(* The configuration, for any command line, environment and file.          *)

(* Nothing is given by an environment that is not looked at. *)
LEMMA NoEnvGiven == EnvGiven(NoEnv.of) = {} /\ EnvGiven(NoEnv.upsd) = {}
  BY DEF EnvGiven, NoEnv, EnvValue, EnvFields, CliFields, UpsdFields

(* The last layers leave the fields of the server alone. *)
LEMMA LayeredFields ==
    ASSUME NEW f \in CliFields, NEW cli, NEW e, NEW file
    PROVE  FallbackLayer(CliLayer(EnvLayer(TomlLayer(DefaultConfig, file), e), cli)).of[f] =
              IF f \in cli THEN "cli" ELSE IF f \in EnvGiven(e.of) THEN "env"
              ELSE IF f \in file.of THEN "toml" ELSE "default"
  <1>1. PICK c0 : c0 = DefaultConfig.of
    OBVIOUS
  <1>2. PICK c1 : c1 = Override(c0, file.of, "toml")
    OBVIOUS
  <1>3. PICK c2 : c2 = Override(c1, EnvGiven(e.of), "env")
    OBVIOUS
  <1>4. PICK c3 : c3 = Override(c2, cli, "cli")
    OBVIOUS
  <1>5. DOMAIN c0 = CliFields /\ c0[f] = "default"
    BY <1>1 DEF DefaultConfig
  <1>6. DOMAIN c1 = CliFields /\ c1[f] = IF f \in file.of THEN "toml" ELSE "default"
    BY <1>2, <1>5 DEF Override
  <1>7. DOMAIN c2 = CliFields /\ c2[f] = IF f \in EnvGiven(e.of) THEN "env" ELSE c1[f]
    BY <1>3, <1>6 DEF Override
  <1>8. c3[f] = IF f \in cli THEN "cli" ELSE c2[f]
    BY <1>4, <1>7 DEF Override
  <1>9. PICK config : config = CliLayer(EnvLayer(TomlLayer(DefaultConfig, file), e), cli)
    OBVIOUS
  <1>10. config.of = c3
    BY <1>1, <1>2, <1>3, <1>4, <1>9 DEF CliLayer, EnvLayer, TomlLayer
  <1>11. FallbackLayer(config).of = config.of
    <2>1. PICK of, upsd : config = [of |-> of, upsd |-> upsd]
      BY <1>9 DEF CliLayer, EnvLayer
    <2> QED
      BY <2>1 DEF FallbackLayer
  <1> QED
    BY <1>6, <1>7, <1>8, <1>9, <1>10, <1>11

(* What load_configs makes of a field, whoever gives it a value. *)
LEMMA FieldLayers ==
    ASSUME NEW f \in CliFields, NEW cli, NEW allowEnv \in BOOLEAN, NEW env, NEW toml,
           NEW config \in LoadConfigs(cli, allowEnv, env, toml)
    PROVE  LET named == \/ "config_file" \in cli
                        \/ allowEnv /\ "config_file" \in EnvGiven(env.of)
           IN config.of[f] = IF f \in cli THEN "cli"
                             ELSE IF allowEnv /\ f \in EnvGiven(env.of) THEN "env"
                             ELSE IF named /\ f \in toml.of THEN "toml" ELSE "default"
  <1>1. PICK e : e = EnvOf(allowEnv, env)
    OBVIOUS
  <1>2. PICK file : file = FileOf(cli, e, toml)
    OBVIOUS
  <1>3. config = FallbackLayer(CliLayer(EnvLayer(TomlLayer(DefaultConfig, file), e), cli))
    BY <1>1, <1>2 DEF LoadConfigs
  <1>4. config.of[f] = IF f \in cli THEN "cli" ELSE IF f \in EnvGiven(e.of) THEN "env"
                       ELSE IF f \in file.of THEN "toml" ELSE "default"
    BY <1>3, LayeredFields
  <1>5. \A g : g \in EnvGiven(e.of) <=> allowEnv /\ g \in EnvGiven(env.of)
    BY <1>1, NoEnvGiven DEF EnvOf
  <1>6. f \in file.of <=> /\ "config_file" \in cli \cup EnvGiven(e.of)
                          /\ f \in toml.of
    BY <1>2 DEF FileOf, NoToml
  <1> QED
    BY <1>4, <1>5, <1>6

(* EnvReachesUpsd of a configuration that env and toml resulted in. *)
UpsdReached(config, env, toml) ==
    LET n == env.name
        given == EnvGiven(env.upsd)
        there == "addr" \in given \/ n \in DOMAIN toml.upsd
    IN /\ DOMAIN config.upsd # {}
       /\ there => n \in DOMAIN config.upsd /\ \A f \in given : config.upsd[n][f] = "env"
       /\ \A k \in DOMAIN config.upsd \ {n} : \A f \in UpsdFields : config.upsd[k][f] # "env"
       /\ \A k \in DOMAIN toml.upsd :
             /\ k \in DOMAIN config.upsd
             /\ \A f \in toml.upsd[k] : config.upsd[k][f] = "toml" \/ (k = n /\ f \in given)

(* What load_configs makes of the sections of the file it is told to read  *)
(* and of the variables for an upsd.                                       *)
LEMMA UpsdLayers ==
    ASSUME NEW cli, "config_file" \in cli,
           NEW env, DOMAIN env.upsd = UpsdFields,
           NEW toml, \A k \in DOMAIN toml.upsd : toml.upsd[k] \subseteq UpsdFields,
           NEW config \in LoadConfigs(cli, TRUE, env, toml)
    PROVE  UpsdReached(config, env, toml)
  <1>1. PICK n : n = env.name
    OBVIOUS
  <1>2. PICK given : given = EnvGiven(env.upsd)
    OBVIOUS
  <1>3. PICK sections : sections = toml.upsd
    OBVIOUS
  <1>4. given \subseteq UpsdFields /\ \A k \in DOMAIN sections : sections[k] \subseteq UpsdFields
    BY <1>2, <1>3 DEF EnvGiven
  <1>5. PICK u1 : u1 = [k \in DOMAIN sections |-> Override(DefaultUpsd, sections[k], "toml")]
    OBVIOUS
  <1>6. TomlLayer(DefaultConfig, toml).upsd = u1
    BY <1>3, <1>5 DEF TomlLayer, DefaultConfig
  <1>7. /\ DOMAIN u1 = DOMAIN sections
        /\ \A k \in DOMAIN u1 : /\ DOMAIN u1[k] = UpsdFields
                                /\ \A f \in UpsdFields :
                                      u1[k][f] = IF f \in sections[k] THEN "toml" ELSE "default"
    BY <1>5 DEF Override, DefaultUpsd
  <1>8. PICK u2 : u2 = EnvUpsd(u1, env)
    OBVIOUS
  <1>9. PICK keys : keys = DOMAIN u1 \cup (IF "addr" \in given THEN {n} ELSE {})
    OBVIOUS
  <1>10. PICK base : base = [k \in keys |-> IF k \in DOMAIN u1 THEN u1[k] ELSE DefaultUpsd]
    OBVIOUS
  <1>11. u2 = [k \in keys |-> IF k = n THEN Override(base[k], given, "env") ELSE base[k]]
    BY <1>1, <1>2, <1>8, <1>9, <1>10, Zenon DEF EnvUpsd
  <1>12. \A k \in keys :
            /\ DOMAIN base[k] = UpsdFields
            /\ \A f \in UpsdFields :
                  base[k][f] = IF k \in DOMAIN u1 THEN u1[k][f] ELSE "default"
    BY <1>7, <1>10 DEF DefaultUpsd
  <1>13. /\ DOMAIN u2 = keys
         /\ \A k \in keys, f \in UpsdFields :
               u2[k][f] = IF k = n /\ f \in given THEN "env" ELSE base[k][f]
    BY <1>11, <1>12 DEF Override
  <1>14. config.upsd = IF keys = {} THEN [k \in {DefaultKey} |-> DefaultUpsd] ELSE u2
    <2>1. config = FallbackLayer(CliLayer(EnvLayer(TomlLayer(DefaultConfig, toml), env), cli))
      BY DEF LoadConfigs, EnvOf, FileOf
    <2>2. PICK t : t = TomlLayer(DefaultConfig, toml)
      OBVIOUS
    <2>3. PICK c : c = CliLayer(EnvLayer(t, env), cli)
      OBVIOUS
    <2>4. EnvUpsd(t.upsd, env) = u2
      BY <1>6, <1>8, <2>2, Zenon
    <2>5. PICK of : c = [of |-> of, upsd |-> u2]
      BY <2>3, <2>4 DEF CliLayer, EnvLayer
    <2>6. c.upsd = u2 /\ config = FallbackLayer(c)
      BY <2>1, <2>2, <2>3, <2>5
    <2> QED
      BY <1>13, <2>5, <2>6 DEF FallbackLayer
  <1>15. PICK upsd : upsd = config.upsd
    OBVIOUS
  <1>16. CASE keys = {}
    <2>1. upsd = [k \in {DefaultKey} |-> DefaultUpsd] /\ DOMAIN sections = {} /\ "addr" \notin given
      BY <1>7, <1>9, <1>14, <1>15, <1>16
    <2> QED
      BY <1>1, <1>2, <1>3, <1>15, <2>1 DEF DefaultUpsd, UpsdReached
  <1>17. CASE keys # {}
    <2>1. upsd = u2
      BY <1>14, <1>15, <1>17
    <2>2. \A f \in given : n \in keys => upsd[n][f] = "env"
      BY <1>4, <1>13, <2>1
    <2>3. \A k \in keys, f \in UpsdFields :
            upsd[k][f] = IF k = n /\ f \in given THEN "env"
                         ELSE IF k \in DOMAIN sections /\ f \in sections[k] THEN "toml" ELSE "default"
      BY <1>7, <1>12, <1>13, <2>1
    <2>4. /\ DOMAIN upsd = keys
          /\ keys = DOMAIN sections \cup (IF "addr" \in given THEN {n} ELSE {})
      BY <1>7, <1>9, <1>13, <2>1
    <2>5. \A k \in DOMAIN sections : k \in keys /\ \A f \in sections[k] : f \in UpsdFields
      BY <1>4, <2>4
    <2>6. "addr" \in given \/ n \in DOMAIN sections <=> n \in keys
      BY <2>4
    <2>7. \A k \in keys \ {n}, f \in UpsdFields : upsd[k][f] # "env"
      BY <2>3
    <2>8. \A k \in DOMAIN sections : \A f \in sections[k] : upsd[k][f] = "toml" \/ (k = n /\ f \in given)
      BY <2>3, <2>5
    <2> QED
      BY <1>1, <1>2, <1>3, <1>15, <1>17, <2>2, <2>4, <2>5, <2>6, <2>7, <2>8
      DEF UpsdReached
  <1> QED
    BY <1>16, <1>17

-----------------------------------------------------------------------------
(* The cases of the configuration are the ones picked. *)
ConfigCase ==
    /\ case.kind = "scalar" => case.field \in CliFields /\ case.allowEnv \in BOOLEAN
    /\ case.kind = "upsd" => /\ "config_file" \in case.cli
                             /\ DOMAIN case.env.upsd = UpsdFields
                             /\ \A k \in DOMAIN case.toml.upsd : case.toml.upsd[k] \subseteq UpsdFields

LEMMA InitCase == CaseInit => ConfigCase
  BY DEF CaseInit, NoCase, ConfigCase

LEMMA CaseStep == ConfigCase /\ [CaseNext]_CaseVars => ConfigCase'
  <1> SUFFICES ASSUME ConfigCase, [CaseNext]_CaseVars PROVE ConfigCase'
    OBVIOUS
  <1>1. CASE UNCHANGED case
    BY <1>1 DEF ConfigCase
  <1>2. CASE PickReported \/ PickNumber \/ PickForm \/ PickRequest \/ PickStatus
    BY <1>2 DEF PickReported, PickNumber, PickForm, PickRequest, PickStatus, ConfigCase
  <1>3. CASE PickScalar
    <2>1. PICK f \in Fields : \E c \in Scalars(f) : case' = c
      BY <1>3 DEF PickScalar
    <2>2. PICK c \in Scalars(f) : case' = c
      BY <2>1
    <2>3. PICK a \in BOOLEAN, cl \in SUBSET {f, "config_file"}, r \in Raw, p \in {"unset", "blank", "text"},
               ok \in BOOLEAN, t \in SUBSET {f} :
            c = ScalarOf(f, a, cl, r, p, ok, t)
      BY <2>2 DEF Scalars
    <2>4. PICK env, toml :
            c = [kind |-> "scalar", field |-> f, allowEnv |-> a, cli |-> cl, env |-> env, toml |-> toml]
      BY <2>3, Zenon DEF ScalarOf
    <2> QED
      BY <2>2, <2>4 DEF Fields, CliFields, ConfigCase
  <1>4. CASE PickUpsd
    <2>1. PICK c \in Upsds : case' = c
      BY <1>4 DEF PickUpsd
    <2>2. PICK n \in {DefaultKey, "named"}, a \in Raw, p \in {"unset", "text", "bad"}, u \in {"unset", "blank"},
               s \in Sections("named") \cup Sections(DefaultKey) :
            c = UpsdOf(n, a, p, u, s)
      BY <2>1 DEF Upsds
    <2>3. PICK given : given = [NoEnv.upsd EXCEPT !.addr = a, !.port = p, !.user = u]
      OBVIOUS
    <2>4. DOMAIN given = UpsdFields
      BY <2>3 DEF NoEnv
    <2>5. PICK env : env = [NoEnv EXCEPT !.name = n, !.upsd = given]
      OBVIOUS
    <2>6. env.upsd = given
      BY <2>5 DEF NoEnv
    <2>7. PICK toml : toml = [ok |-> TRUE, of |-> {}, upsd |-> s]
      OBVIOUS
    <2>8. c = [kind |-> "upsd", cli |-> {"config_file"}, env |-> env, toml |-> toml]
      BY <2>2, <2>3, <2>5, <2>7, Zenon DEF UpsdOf
    <2>9. c.kind = "upsd" /\ c.cli = {"config_file"} /\ c.env = env /\ c.toml = toml
      BY <2>8
    <2>10. \A k \in DOMAIN s : s[k] \subseteq UpsdFields
      <3>1. PICK ks : s \in [ks -> SUBSET {"addr", "port"}]
        BY <2>2 DEF Sections
      <3> QED
        BY <3>1 DEF UpsdFields
    <2>11. c.toml.upsd = s
      BY <2>7, <2>9
    <2> QED
      BY <2>1, <2>4, <2>6, <2>9, <2>10, <2>11 DEF ConfigCase
  <1>5. CASE Start
    BY <1>5 DEF Start, ConfigCase
  <1> QED
    BY <1>1, <1>2, <1>3, <1>4, <1>5
    DEF CaseNext, Pick, StepClients, StepTable, StepService, CaseVars

LEMMA CaseAlways == CaseSpec => []ConfigCase
  BY InitCase, CaseStep, PTL DEF CaseSpec

(* load_configs: the command line wins over an allowed environment, that   *)
(* over a file someone names, and that over the defaults.  FieldLayers     *)
(* says so of every field and of every command line, environment and file. *)
THEOREM PrecedenceCorrect == CaseSpec => []Precedence
  <1>1. ConfigCase => Precedence
    <2> SUFFICES ASSUME ConfigCase, case.kind = "scalar", NEW config \in CasesConfigs
                 PROVE  LET f == case.field
                            inEnv == case.allowEnv /\ f \in EnvGiven(case.env.of)
                            named == \/ "config_file" \in case.cli
                                     \/ case.allowEnv /\ "config_file" \in EnvGiven(case.env.of)
                        IN config.of[f] = IF f \in case.cli THEN "cli" ELSE IF inEnv THEN "env"
                             ELSE IF named /\ f \in case.toml.of THEN "toml" ELSE "default"
      BY DEF Precedence
    <2>1. case.field \in CliFields /\ case.allowEnv \in BOOLEAN
      BY DEF ConfigCase
    <2>2. config \in LoadConfigs(case.cli, case.allowEnv, case.env, case.toml)
      BY DEF CasesConfigs
    <2> QED
      BY <2>1, <2>2, FieldLayers
  <1> QED
    BY <1>1, CaseAlways, PTL

(* The variables for an upsd reach the namespace they name if they give an *)
(* address or the file has that section (only then, see EnvReachesUpsd),   *)
(* and never another one; load_configs loses no section of the file and    *)
(* never ends without an upsd.                                             *)
THEOREM EnvReachesUpsdCorrect == CaseSpec => []EnvReachesUpsd
  <1>1. ConfigCase => EnvReachesUpsd
    <2> SUFFICES ASSUME ConfigCase, case.kind = "upsd" PROVE EnvReachesUpsd
      BY DEF EnvReachesUpsd
    <2>1. CasesConfigs = LoadConfigs(case.cli, TRUE, case.env, case.toml)
      BY DEF CasesConfigs
    <2>2. /\ "config_file" \in case.cli
          /\ DOMAIN case.env.upsd = UpsdFields
          /\ \A k \in DOMAIN case.toml.upsd : case.toml.upsd[k] \subseteq UpsdFields
      BY DEF ConfigCase
    <2>3. \A config \in CasesConfigs : UpsdReached(config, case.env, case.toml)
      BY <2>1, <2>2, UpsdLayers
    <2> QED
      BY <2>3, Zenon DEF EnvReachesUpsd, UpsdReached
  <1> QED
    BY <1>1, CaseAlways, PTL

-----------------------------------------------------------------------------
(* Loops.  A set of numbers that has 0 and with each number the next one   *)
(* has them all, from which follows that the recursive functions that      *)
(* stand for the loops of the code exist, and what each round keeps.       *)
LEMMA LeastNumber ==
    ASSUME NEW T \in SUBSET Nat, T # {}
    PROVE  \E n \in T : \A m \in T : n <= m
  <1>1. PICK R : R = OpToRel(<, Nat)
    OBVIOUS
  <1>2. IsWellFoundedOn(R, Nat)
    BY <1>1, NatLessThanWellFounded
  <1>3. PICK n \in T : \A m \in T : ~(<<m, n>> \in R)
    BY <1>2, WFMin
  <1>4. \A m \in T : m < n => <<m, n>> \in R
    BY <1>1 DEF OpToRel
  <1>5. \A m \in T : m \in Nat /\ n \in Nat /\ ~(m < n)
    BY <1>3, <1>4
  <1> QED
    BY <1>5

LEMMA NumberInduction ==
    ASSUME NEW S, 0 \in S, \A n \in Nat : n \in S => n + 1 \in S
    PROVE  Nat \subseteq S
  <1> SUFFICES ASSUME ~(Nat \subseteq S) PROVE FALSE
    OBVIOUS
  <1>1. PICK T : T = {n \in Nat : n \notin S}
    OBVIOUS
  <1>2. T \in SUBSET Nat /\ T # {}
    BY <1>1
  <1>3. PICK n \in T : \A m \in T : n <= m
    BY <1>2, LeastNumber
  <1>4. n # 0 /\ n - 1 \in Nat /\ n - 1 \notin T
    BY <1>1, <1>3
  <1> QED
    BY <1>1, <1>3, <1>4

(* The states of a loop of n rounds that starts from v and whose i-th      *)
(* round turns w into step[i][w].                                          *)
IsLoop(f, n, V, v, step) ==
    /\ f \in [1..(n + 1) -> V]
    /\ f[1] = v
    /\ \A i \in 1..n : f[i + 1] = step[i][f[i]]

LEMMA LoopExists ==
    ASSUME NEW V, NEW v \in V, NEW N \in Nat, NEW step \in [1..N -> [V -> V]]
    PROVE  \E f : IsLoop(f, N, V, v, step)
  <1>1. PICK S : S = {k \in Nat : k <= N => \E f : IsLoop(f, k, V, v, step)}
    OBVIOUS
  <1>2. 0 \in S
    <2>1. PICK f : f = [i \in 1..(0 + 1) |-> v]
      OBVIOUS
    <2>2. IsLoop(f, 0, V, v, step)
      BY <2>1 DEF IsLoop
    <2> QED
      BY <1>1, <2>2
  <1>3. ASSUME NEW k \in Nat, k \in S PROVE k + 1 \in S
    <2> SUFFICES ASSUME k + 1 <= N PROVE \E f : IsLoop(f, k + 1, V, v, step)
      BY <1>1
    <2>1. PICK f : IsLoop(f, k, V, v, step)
      BY <1>1, <1>3
    <2>2. PICK g : g = [i \in 1..((k + 1) + 1) |-> IF i = k + 2 THEN step[k + 1][f[k + 1]] ELSE f[i]]
      OBVIOUS
    <2>3. step[k + 1][f[k + 1]] \in V
      <3>1. f[k + 1] \in V
        BY <2>1 DEF IsLoop
      <3>2. step[k + 1] \in [V -> V]
        OBVIOUS
      <3> QED
        BY <3>1, <3>2
    <2>4. g \in [1..((k + 1) + 1) -> V]
      BY <2>1, <2>2, <2>3 DEF IsLoop
    <2>5. g[1] = v
      BY <2>1, <2>2 DEF IsLoop
    <2>6. ASSUME NEW i \in 1..(k + 1) PROVE g[i + 1] = step[i][g[i]]
      <3>1. CASE i = k + 1
        BY <2>2, <3>1
      <3>2. CASE i # k + 1
        <4>1. i \in 1..k /\ g[i] = f[i] /\ g[i + 1] = f[i + 1]
          BY <2>2, <3>2
        <4> QED
          BY <2>1, <4>1 DEF IsLoop
      <3> QED
        BY <3>1, <3>2
    <2> QED
      BY <2>4, <2>5, <2>6 DEF IsLoop
  <1>4. N \in S
    BY <1>2, <1>3, NumberInduction
  <1> QED
    BY <1>1, <1>4

(* What holds before the first round and is kept by each round. *)
LEMMA EachRound ==
    ASSUME NEW N \in Nat, NEW S, 1 \in S, \A i \in 1..N : i \in S => i + 1 \in S
    PROVE  1..(N + 1) \subseteq S
  <1>1. PICK T : T = {k \in Nat : k <= N => k + 1 \in S}
    OBVIOUS
  <1>2. 0 \in T
    BY <1>1
  <1>3. ASSUME NEW k \in Nat, k \in T PROVE k + 1 \in T
    BY <1>1, <1>3
  <1>4. Nat \subseteq T
    BY <1>2, <1>3, NumberInduction
  <1>5. ASSUME NEW i \in 1..(N + 1) PROVE i \in S
    <2>1. i - 1 \in T /\ i - 1 <= N /\ (i - 1) + 1 = i
      BY <1>4
    <2> QED
      BY <1>1, <2>1
  <1> QED
    BY <1>5

(* The states of the loop of Missing *)
IsKept(f, s, t) ==
    f = [i \in 1..(Len(s) + 1) |->
            IF i = 1 THEN <<>> 
            ELSE IF Has(t, s[i - 1]) THEN f[i - 1] ELSE Append(f[i - 1], s[i - 1])]

Filters(f, A, s, t) ==
    /\ f \in [1..(Len(s) + 1) -> Seq(A)]
    /\ f[1] = <<>>
    /\ \A i \in 1..Len(s) : f[i + 1] = IF Has(t, s[i]) THEN f[i] ELSE Append(f[i], s[i])
    /\ Missing(s, t) = f[Len(s) + 1]

LEMMA MissingLoop ==
    ASSUME NEW A, NEW s \in Seq(A), NEW t
    PROVE  \E f : Filters(f, A, s, t)
  <1>1. PICK V : V = Seq(A)
    OBVIOUS
  <1>2. PICK step : step = [i \in 1..Len(s) |-> [w \in V |-> IF Has(t, s[i]) THEN w ELSE Append(w, s[i])]]
    OBVIOUS
  <1>3. \A i \in 1..Len(s) : \A w \in V : Append(w, s[i]) \in V
    BY <1>1
  <1>4. step \in [1..Len(s) -> [V -> V]]
    BY <1>2, <1>3
  <1>n. <<>> \in V /\ Len(s) \in Nat
    BY <1>1
  <1>5. PICK f : IsLoop(f, Len(s), V, <<>>, step)
    BY <1>n, <1>4, LoopExists
  <1>6. IsKept(f, s, t)
    <2>1. f \in [1..(Len(s) + 1) -> V] /\ f[1] = <<>>
      BY <1>5 DEF IsLoop
    <2>2. ASSUME NEW i \in 1..Len(s)
          PROVE  f[i + 1] = IF Has(t, s[i]) THEN f[i] ELSE Append(f[i], s[i])
      <3>1. f[i] \in V /\ f[i + 1] = step[i][f[i]]
        BY <1>5, <2>1 DEF IsLoop
      <3> QED
        BY <1>2, <3>1
    <2>3. \A i \in 1..(Len(s) + 1) : i # 1 => i - 1 \in 1..Len(s) /\ (i - 1) + 1 = i
      OBVIOUS
    <2>4. \A i \in 1..(Len(s) + 1) : f[i] = IF i = 1 THEN <<>> 
            ELSE IF Has(t, s[i - 1]) THEN f[i - 1] ELSE Append(f[i - 1], s[i - 1])
      BY <2>1, <2>2, <2>3
    <2> QED
      BY <2>1, <2>4 DEF IsKept
  <1>7. PICK F : F = CHOOSE Kept : IsKept(Kept, s, t)
    OBVIOUS
  <1>8. IsKept(F, s, t)
    BY <1>6, <1>7
  <1>9. Missing(s, t) = F[Len(s) + 1]
    BY <1>7 DEF Missing, IsKept
  <1>10. F[1] = <<>>
    BY <1>n, <1>8 DEF IsKept
  <1>11. ASSUME NEW i \in 1..Len(s)
         PROVE  F[i + 1] = IF Has(t, s[i]) THEN F[i] ELSE Append(F[i], s[i])
    <2>1. i + 1 \in 1..(Len(s) + 1) /\ i + 1 # 1 /\ (i + 1) - 1 = i
      OBVIOUS
    <2>2. F[i + 1] = IF i + 1 = 1 THEN <<>>
            ELSE IF Has(t, s[(i + 1) - 1]) THEN F[(i + 1) - 1] ELSE Append(F[(i + 1) - 1], s[(i + 1) - 1])
      BY <1>8, <2>1 DEF IsKept
    <2> QED
      BY <2>1, <2>2
  <1>12. PICK S : S = {i \in 1..(Len(s) + 1) : F[i] \in Seq(A)}
    OBVIOUS
  <1>13. 1 \in S
    <2>1. 1 \in 1..(Len(s) + 1) /\ F[1] \in Seq(A)
      BY <1>n, <1>1, <1>10
    <2> QED
      BY <1>12, <2>1
  <1>13a. ASSUME NEW i \in 1..Len(s), i \in S PROVE i + 1 \in S
    <2>1. F[i] \in Seq(A) /\ s[i] \in A /\ i + 1 \in 1..(Len(s) + 1)
      BY <1>12, <1>13a
    <2>2. F[i + 1] \in Seq(A)
      <3>1. Append(F[i], s[i]) \in Seq(A)
        BY <2>1
      <3> QED
        BY <1>11, <2>1, <3>1
    <2> QED
      BY <1>12, <2>1, <2>2
  <1>14. 1..(Len(s) + 1) \subseteq S
    BY <1>n, <1>13, <1>13a, EachRound
  <1>15. F \in [1..(Len(s) + 1) -> Seq(A)]
    BY <1>8, <1>12, <1>14 DEF IsKept
  <1> QED
    BY <1>9, <1>10, <1>11, <1>15 DEF Filters

-----------------------------------------------------------------------------
(* How often an address occurs among the first k entries of a list, and in *)
(* the whole of it.                                                        *)
Places(s, k, a) == {j \in 1..k : s[j] = a}
UpTo(s, k, a) == Cardinality(Places(s, k, a))
Count(s, a) == UpTo(s, Len(s), a)

LEMMA PlacesFinite ==
    ASSUME NEW s, NEW k \in Nat, NEW a
    PROVE  IsFiniteSet(Places(s, k, a)) /\ UpTo(s, k, a) \in Nat
  <1>1. IsFiniteSet(1..k)
    BY FS_Interval
  <1>2. Places(s, k, a) \subseteq 1..k
    BY DEF Places
  <1>3. IsFiniteSet(Places(s, k, a))
    BY <1>1, <1>2, FS_Subset
  <1> QED
    BY <1>3, FS_CardinalityType DEF UpTo

LEMMA UpToNone == \A s, a : UpTo(s, 1 - 1, a) = 0
  <1> SUFFICES ASSUME NEW s, NEW a PROVE UpTo(s, 1 - 1, a) = 0
    OBVIOUS
  <1>1. Places(s, 1 - 1, a) = {}
    BY DEF Places
  <1>2. Cardinality({}) = 0
    BY FS_EmptySet
  <1> QED
    BY <1>1, <1>2, Zenon DEF UpTo

(* One entry more. *)
LEMMA UpToNext ==
    ASSUME NEW s, NEW k \in Nat, NEW a
    PROVE  UpTo(s, k + 1, a) = UpTo(s, k, a) + (IF s[k + 1] = a THEN 1 ELSE 0)
  <1>1. IsFiniteSet(Places(s, k, a)) /\ UpTo(s, k, a) \in Nat
    BY PlacesFinite
  <1>2. CASE s[k + 1] = a
    <2>1. Places(s, k + 1, a) = Places(s, k, a) \cup {k + 1} /\ k + 1 \notin Places(s, k, a)
      BY <1>2 DEF Places
    <2> QED
      BY <1>1, <1>2, <2>1, FS_AddElement DEF UpTo
  <1>3. CASE s[k + 1] # a
    <2>1. Places(s, k + 1, a) = Places(s, k, a)
      BY <1>3 DEF Places
    <2> QED
      BY <1>1, <1>3, <2>1 DEF UpTo
  <1> QED
    BY <1>2, <1>3

LEMMA UpToMonotone ==
    ASSUME NEW s, NEW n \in Nat, NEW k \in 0..n, NEW a
    PROVE  UpTo(s, k, a) <= UpTo(s, n, a)
  <1>1. IsFiniteSet(Places(s, n, a))
    BY PlacesFinite
  <1>2. Places(s, k, a) \subseteq Places(s, n, a)
    BY DEF Places
  <1> QED
    BY <1>1, <1>2, FS_Subset DEF UpTo

(* Lists that agree up to k. *)
LEMMA UpToSame ==
    ASSUME NEW s, NEW t, NEW k \in Nat, \A j \in 1..k : s[j] = t[j], NEW a
    PROVE  UpTo(s, k, a) = UpTo(t, k, a)
  <1>1. Places(s, k, a) = Places(t, k, a)
    BY DEF Places
  <1> QED
    BY <1>1 DEF UpTo

LEMMA CountHas ==
    ASSUME NEW A, NEW s \in Seq(A), NEW a
    PROVE  Count(s, a) \in Nat /\ (Count(s, a) = 0 <=> ~Has(s, a))
  <1>1. Len(s) \in Nat
    OBVIOUS
  <1>2. IsFiniteSet(Places(s, Len(s), a)) /\ Count(s, a) \in Nat
    BY <1>1, PlacesFinite DEF Count
  <1>3. Count(s, a) = 0 <=> Places(s, Len(s), a) = {}
    BY <1>2, FS_EmptySet DEF Count, UpTo
  <1>4. Places(s, Len(s), a) = {} <=> ~Has(s, a)
    BY DEF Places, Has
  <1> QED
    BY <1>2, <1>3, <1>4

LEMMA CountAppend ==
    ASSUME NEW A, NEW s \in Seq(A), NEW x \in A, NEW a
    PROVE  Count(Append(s, x), a) = Count(s, a) + (IF x = a THEN 1 ELSE 0)
  <1>1. PICK t : t = Append(s, x)
    OBVIOUS
  <1>2. Len(s) \in Nat /\ Len(t) = Len(s) + 1 /\ t[Len(s) + 1] = x /\ \A j \in 1..Len(s) : t[j] = s[j]
    BY <1>1
  <1>3. UpTo(t, Len(s) + 1, a) = UpTo(t, Len(s), a) + (IF t[Len(s) + 1] = a THEN 1 ELSE 0)
    BY <1>2, UpToNext
  <1>4. UpTo(t, Len(s), a) = UpTo(s, Len(s), a)
    BY <1>2, UpToSame
  <1> QED
    BY <1>1, <1>2, <1>3, <1>4, Zenon DEF Count

LEMMA HasConcat ==
    ASSUME NEW A, NEW s \in Seq(A), NEW t \in Seq(A), NEW a
    PROVE  Has(s \o t, a) <=> Has(s, a) \/ Has(t, a)
  <1>1. PICK u : u = s \o t
    OBVIOUS
  <1>2. /\ Len(s) \in Nat /\ Len(t) \in Nat /\ Len(u) = Len(s) + Len(t)
        /\ \A j \in 1..Len(s) : u[j] = s[j]
        /\ \A j \in 1..Len(t) : u[Len(s) + j] = t[j]
    BY <1>1
  <1>3. ASSUME NEW j \in 1..Len(u), u[j] = a PROVE Has(s, a) \/ Has(t, a)
    <2>1. CASE j <= Len(s)
      BY <1>2, <1>3, <2>1 DEF Has
    <2>2. CASE j > Len(s)
      <3>1. j - Len(s) \in 1..Len(t) /\ Len(s) + (j - Len(s)) = j
        BY <1>2, <2>2
      <3> QED
        BY <1>2, <1>3, <3>1 DEF Has
    <2> QED
      BY <1>2, <2>1, <2>2
  <1>4. \A j \in 1..Len(s) : j \in 1..Len(u)
    BY <1>2
  <1>5. \A j \in 1..Len(t) : Len(s) + j \in 1..Len(u)
    BY <1>2
  <1>6. Has(s, a) \/ Has(t, a) => Has(u, a)
    BY <1>2, <1>4, <1>5 DEF Has
  <1> QED
    BY <1>1, <1>3, <1>6 DEF Has

(* Vec::swap_remove takes one occurrence away and keeps all others. *)
LEMMA CountSwapRemove ==
    ASSUME NEW A, NEW s \in Seq(A), NEW i \in 1..Len(s), NEW a
    PROVE  /\ SwapRemove(s, i) \in Seq(A)
           /\ Count(s, a) = Count(SwapRemove(s, i), a) + (IF s[i] = a THEN 1 ELSE 0)
  <1>1. PICK n \in Nat : n = Len(s) - 1
    OBVIOUS
  <1>2. PICK u : u = [s EXCEPT ![i] = s[Len(s)]]
    OBVIOUS
  <1>3. u \in Seq(A) /\ Len(u) = n + 1
    BY <1>1, <1>2
  <1>4. PICK t : t = SubSeq(u, 1, n)
    OBVIOUS
  <1>5. t \in Seq(A) /\ Len(t) = n /\ \A j \in 1..n : t[j] = u[j]
    BY <1>1, <1>3, <1>4
  <1>6. SwapRemove(s, i) = t
    BY <1>1, <1>2, <1>4 DEF SwapRemove
  <1>7. \A j \in 1..n : t[j] = IF j = i THEN s[n + 1] ELSE s[j]
    BY <1>1, <1>2, <1>5
  <1>8. PICK P, Q : P = Places(s, n + 1, a) /\ Q = Places(t, n, a)
    OBVIOUS
  <1>9. IsFiniteSet(P) /\ IsFiniteSet(Q) /\ Cardinality(P) \in Nat /\ Cardinality(Q) \in Nat
    BY <1>8, PlacesFinite DEF UpTo
  <1>10. Count(s, a) = Cardinality(P) /\ Count(t, a) = Cardinality(Q)
    BY <1>1, <1>5, <1>8 DEF Count, UpTo
  <1>11. /\ \A j : j \in P <=> j \in 1..(n + 1) /\ s[j] = a
         /\ \A j : j \in Q <=> j \in 1..n /\ t[j] = a
    BY <1>8 DEF Places
  <1> DEFINE Same == Cardinality(P) = Cardinality(Q) + (IF s[i] = a THEN 1 ELSE 0)
  <1>i. i \in 1..(n + 1) /\ n + 1 \in 1..(n + 1) /\ n + 1 \notin 1..n
    BY <1>1
  <1>12. ASSUME s[n + 1] = a /\ s[i] = a PROVE Same
    <2>1. Q = P \ {n + 1} /\ n + 1 \in P
      BY <1>7, <1>11, <1>i, <1>12
    <2> QED
      BY <1>9, <1>12, <2>1, FS_RemoveElement
  <1>13. ASSUME s[n + 1] = a /\ s[i] # a PROVE Same
    <2>1. Q \ {i} = P \ {n + 1} /\ n + 1 \in P /\ i \in Q
      BY <1>7, <1>11, <1>i, <1>13
    <2>2. Cardinality(P \ {n + 1}) = Cardinality(P) - 1 /\ Cardinality(Q \ {i}) = Cardinality(Q) - 1
      BY <1>9, <2>1, FS_RemoveElement
    <2>3. Cardinality(P \ {n + 1}) = Cardinality(Q \ {i})
      BY <2>1, Zenon
    <2>4. Cardinality(P) = Cardinality(Q)
      BY <1>9, <2>2, <2>3
    <2> QED
      BY <1>9, <1>13, <2>4
  <1>14. ASSUME s[n + 1] # a /\ s[i] = a PROVE Same
    <2>1. Q = P \ {i} /\ i \in P
      BY <1>7, <1>11, <1>i, <1>14
    <2> QED
      BY <1>9, <1>14, <2>1, FS_RemoveElement
  <1>15. ASSUME s[n + 1] # a /\ s[i] # a PROVE Same
    <2>1. ASSUME NEW j PROVE j \in P <=> j \in Q
      <3>1. j \in P => j \in 1..n /\ j # i
        BY <1>11, <1>15
      <3>2. j \in Q => j # i
        BY <1>7, <1>11, <1>15
      <3> QED
        BY <1>7, <1>11, <1>i, <3>1, <3>2
    <2>2. P = Q
      BY <2>1
    <2> QED
      BY <1>9, <1>15, <2>2
  <1>16. Same
    BY <1>12, <1>13, <1>14, <1>15
  <1> QED
    BY <1>5, <1>6, <1>10, <1>16

-----------------------------------------------------------------------------
(* ClientDiff::diff keeps every occurrence of an address the other list    *)
(* lacks, and nothing else.                                                *)
LEMMA MissingCount ==
    ASSUME NEW A, NEW s \in Seq(A), NEW t
    PROVE  /\ Missing(s, t) \in Seq(A)
           /\ \A a : Count(Missing(s, t), a) = IF Has(t, a) THEN 0 ELSE Count(s, a)
  <1>0. PICK f : Filters(f, A, s, t)
    BY MissingLoop
  <1>1. /\ f \in [1..(Len(s) + 1) -> Seq(A)]
        /\ f[1] = <<>>
        /\ \A i \in 1..Len(s) : f[i + 1] = IF Has(t, s[i]) THEN f[i] ELSE Append(f[i], s[i])
        /\ Missing(s, t) = f[Len(s) + 1]
    BY <1>0 DEF Filters
  <1>2. Len(s) \in Nat /\ Len(s) + 1 \in 1..(Len(s) + 1)
    OBVIOUS
  <1>3. Missing(s, t) \in Seq(A)
    BY <1>1, <1>2
  <1>4. ASSUME NEW a PROVE Count(Missing(s, t), a) = IF Has(t, a) THEN 0 ELSE Count(s, a)
    <2>1. PICK S : S = {i \in 1..(Len(s) + 1) : Count(f[i], a) = IF Has(t, a) THEN 0 ELSE UpTo(s, i - 1, a)}
      OBVIOUS
    <2>2. 1 \in S
      <3>1. Count(f[1], a) = 0
        <4>1. <<>> \in Seq(A) /\ ~Has(<<>>, a)
          BY DEF Has
        <4> QED
          BY <1>1, <4>1, CountHas
      <3>2. UpTo(s, 1 - 1, a) = 0
        BY UpToNone
      <3> QED
        BY <1>2, <2>1, <3>1, <3>2
    <2>3. ASSUME NEW i \in 1..Len(s), i \in S PROVE i + 1 \in S
      <3>1. f[i] \in Seq(A) /\ s[i] \in A /\ i - 1 \in Nat /\ (i - 1) + 1 = i /\ (i + 1) - 1 = i
        BY <1>1, <1>2
      <3>2. Count(f[i], a) = IF Has(t, a) THEN 0 ELSE UpTo(s, i - 1, a)
        BY <2>1, <2>3
      <3>3. UpTo(s, i, a) = UpTo(s, i - 1, a) + (IF s[i] = a THEN 1 ELSE 0) /\ UpTo(s, i - 1, a) \in Nat
        <4>1. UpTo(s, (i - 1) + 1, a) = UpTo(s, i - 1, a) + (IF s[(i - 1) + 1] = a THEN 1 ELSE 0)
          BY <3>1, UpToNext
        <4>2. UpTo(s, i - 1, a) \in Nat
          BY <3>1, PlacesFinite
        <4> QED
          BY <3>1, <4>1, <4>2
      <3>4. Count(Append(f[i], s[i]), a) = Count(f[i], a) + (IF s[i] = a THEN 1 ELSE 0)
        BY <3>1, CountAppend
      <3>5. Count(f[i + 1], a) = IF Has(t, a) THEN 0 ELSE UpTo(s, i, a)
        <4>1. CASE Has(t, s[i])
          <5>1. f[i + 1] = f[i]
            BY <1>1, <4>1
          <5>2. ~Has(t, a) => s[i] # a
            BY <4>1
          <5> QED
            BY <3>2, <3>3, <5>1, <5>2
        <4>2. CASE ~Has(t, s[i])
          <5>1. f[i + 1] = Append(f[i], s[i])
            BY <1>1, <4>2
          <5>2. Has(t, a) => s[i] # a
            BY <4>2
          <5>3. Count(f[i + 1], a) = Count(f[i], a) + (IF s[i] = a THEN 1 ELSE 0)
            BY <3>4, <5>1, Zenon
          <5> QED
            BY <3>2, <3>3, <5>2, <5>3
        <4> QED
          BY <4>1, <4>2
      <3>6. i + 1 \in 1..(Len(s) + 1)
        BY <1>2
      <3> QED
        BY <2>1, <3>1, <3>5, <3>6
    <2>4. 1..(Len(s) + 1) \subseteq S
      BY <1>2, <2>2, <2>3, EachRound
    <2>5. Len(s) + 1 \in S /\ (Len(s) + 1) - 1 = Len(s)
      BY <1>2, <2>4
    <2>6. Count(f[Len(s) + 1], a) = IF Has(t, a) THEN 0 ELSE UpTo(s, Len(s), a)
      BY <2>1, <2>5
    <2> QED
      BY <1>1, <2>6 DEF Count
  <1> QED
    BY <1>3, <1>4

LEMMA DetachOneCount ==
    ASSUME NEW A, NEW s \in Seq(A), NEW x
    PROVE  /\ DetachOne(s, x) \in Seq(A)
           /\ Has(s, x) => \A a : Count(s, a) = Count(DetachOne(s, x), a) + (IF x = a THEN 1 ELSE 0)
  <1>1. CASE ~Has(s, x)
    BY <1>1 DEF DetachOne
  <1>2. CASE Has(s, x)
    <2>1. PICK i : i = Position(s, x)
      OBVIOUS
    <2>2. i \in 1..Len(s) /\ s[i] = x
      <3>1. PICK T : T = {j \in 1..Len(s) : s[j] = x}
        OBVIOUS
      <3>2. T \in SUBSET Nat /\ T # {}
        BY <1>2, <3>1 DEF Has
      <3>3. PICK k \in T : \A m \in T : k <= m
        BY <3>2, LeastNumber
      <3>4. k \in 1..Len(s) /\ s[k] = x /\ \A j \in 1..(k - 1) : s[j] # x
        BY <3>1, <3>3
      <3> QED
        BY <2>1, <3>4, Zenon DEF Position
    <2>3. DetachOne(s, x) = SwapRemove(s, i)
      BY <1>2, <2>1 DEF DetachOne
    <2> QED
      BY <2>2, <2>3, CountSwapRemove
  <1> QED
    BY <1>1, <1>2

(* The states of the loop of Detach *)
IsLeft(f, s, gone) ==
    f = [i \in 1..(Len(gone) + 1) |-> IF i = 1 THEN s ELSE DetachOne(f[i - 1], gone[i - 1])]

Detaches(f, A, s, gone) ==
    /\ f \in [1..(Len(gone) + 1) -> Seq(A)]
    /\ f[1] = s
    /\ \A i \in 1..Len(gone) : f[i + 1] = DetachOne(f[i], gone[i])
    /\ Detach(s, gone) = f[Len(gone) + 1]

LEMMA DetachLoop ==
    ASSUME NEW A, NEW s \in Seq(A), NEW gone \in Seq(A)
    PROVE  \E f : Detaches(f, A, s, gone)
  <1>1. PICK V : V = Seq(A)
    OBVIOUS
  <1>2. PICK step : step = [i \in 1..Len(gone) |-> [w \in V |-> DetachOne(w, gone[i])]]
    OBVIOUS
  <1>3. \A i \in 1..Len(gone) : \A w \in V : DetachOne(w, gone[i]) \in V
    BY <1>1, DetachOneCount
  <1>4. step \in [1..Len(gone) -> [V -> V]]
    BY <1>2, <1>3
  <1>n. s \in V /\ Len(gone) \in Nat
    BY <1>1
  <1>5. PICK f : IsLoop(f, Len(gone), V, s, step)
    BY <1>n, <1>4, LoopExists
  <1>6. IsLeft(f, s, gone)
    <2>1. f \in [1..(Len(gone) + 1) -> V] /\ f[1] = s
      BY <1>5 DEF IsLoop
    <2>2. ASSUME NEW i \in 1..Len(gone)
          PROVE  f[i + 1] = DetachOne(f[i], gone[i])
      <3>1. f[i] \in V /\ f[i + 1] = step[i][f[i]]
        BY <1>5, <2>1 DEF IsLoop
      <3> QED
        BY <1>2, <3>1
    <2>3. \A i \in 1..(Len(gone) + 1) : i # 1 => i - 1 \in 1..Len(gone) /\ (i - 1) + 1 = i
      OBVIOUS
    <2>4. \A i \in 1..(Len(gone) + 1) : f[i] = IF i = 1 THEN s ELSE DetachOne(f[i - 1], gone[i - 1])
      BY <2>1, <2>2, <2>3
    <2> QED
      BY <2>1, <2>4 DEF IsLeft
  <1>7. PICK F : F = CHOOSE Left : IsLeft(Left, s, gone)
    OBVIOUS
  <1>8. IsLeft(F, s, gone)
    BY <1>6, <1>7
  <1>9. Detach(s, gone) = F[Len(gone) + 1]
    BY <1>7 DEF Detach, IsLeft
  <1>10. F[1] = s
    BY <1>n, <1>8 DEF IsLeft
  <1>11. ASSUME NEW i \in 1..Len(gone) PROVE F[i + 1] = DetachOne(F[i], gone[i])
    <2>1. i + 1 \in 1..(Len(gone) + 1) /\ i + 1 # 1 /\ (i + 1) - 1 = i
      OBVIOUS
    <2>2. F[i + 1] = IF i + 1 = 1 THEN s ELSE DetachOne(F[(i + 1) - 1], gone[(i + 1) - 1])
      BY <1>8, <2>1 DEF IsLeft
    <2> QED
      BY <2>1, <2>2
  <1>12. PICK S : S = {i \in 1..(Len(gone) + 1) : F[i] \in Seq(A)}
    OBVIOUS
  <1>13. 1 \in S
    <2>1. 1 \in 1..(Len(gone) + 1) /\ F[1] \in Seq(A)
      BY <1>n, <1>1, <1>10
    <2> QED
      BY <1>12, <2>1
  <1>14. ASSUME NEW i \in 1..Len(gone), i \in S PROVE i + 1 \in S
    <2>1. F[i] \in Seq(A) /\ i + 1 \in 1..(Len(gone) + 1)
      BY <1>12, <1>14
    <2>2. F[i + 1] \in Seq(A)
      BY <1>11, <2>1, DetachOneCount
    <2> QED
      BY <1>12, <2>1, <2>2
  <1>15. 1..(Len(gone) + 1) \subseteq S
    BY <1>n, <1>13, <1>14, EachRound
  <1>16. F \in [1..(Len(gone) + 1) -> Seq(A)]
    BY <1>8, <1>12, <1>15 DEF IsLeft
  <1> QED
    BY <1>9, <1>10, <1>11, <1>16 DEF Detaches

(* Every address that is gone takes one entry with it, as long as the list *)
(* has as many.                                                            *)
LEMMA DetachCount ==
    ASSUME NEW A, NEW s \in Seq(A), NEW gone \in Seq(A), \A a : Count(gone, a) <= Count(s, a)
    PROVE  /\ Detach(s, gone) \in Seq(A)
           /\ \A a : Count(s, a) = Count(Detach(s, gone), a) + Count(gone, a)
  <1>0. PICK f : Detaches(f, A, s, gone)
    BY DetachLoop
  <1>1. /\ f \in [1..(Len(gone) + 1) -> Seq(A)]
        /\ f[1] = s
        /\ \A i \in 1..Len(gone) : f[i + 1] = DetachOne(f[i], gone[i])
        /\ Detach(s, gone) = f[Len(gone) + 1]
    BY <1>0 DEF Detaches
  <1>2. Len(gone) \in Nat /\ Len(gone) + 1 \in 1..(Len(gone) + 1)
    OBVIOUS
  <1>3. Detach(s, gone) \in Seq(A)
    BY <1>1, <1>2
  <1>4. PICK S : S = {i \in 1..(Len(gone) + 1) : \A a : Count(s, a) = Count(f[i], a) + UpTo(gone, i - 1, a)}
    OBVIOUS
  <1>5. 1 \in S
    <2>1. ASSUME NEW a PROVE Count(s, a) = Count(f[1], a) + UpTo(gone, 1 - 1, a)
      <3>2. UpTo(gone, 1 - 1, a) = 0
        BY UpToNone
      <3>3. Count(s, a) \in Nat
        BY CountHas
      <3> QED
        BY <1>1, <3>2, <3>3
    <2> QED
      BY <1>2, <1>4, <2>1
  <1>6. ASSUME NEW i \in 1..Len(gone), i \in S PROVE i + 1 \in S
    <2>1. f[i] \in Seq(A) /\ gone[i] \in A /\ i - 1 \in Nat /\ (i - 1) + 1 = i /\ (i + 1) - 1 = i
      BY <1>1, <1>2
    <2>2. \A a : Count(s, a) = Count(f[i], a) + UpTo(gone, i - 1, a)
      BY <1>4, <1>6
    <2>3. ASSUME NEW a
          PROVE  /\ UpTo(gone, i, a) = UpTo(gone, i - 1, a) + (IF gone[i] = a THEN 1 ELSE 0)
                 /\ UpTo(gone, i - 1, a) \in Nat
      <3>1. UpTo(gone, (i - 1) + 1, a) = UpTo(gone, i - 1, a) + (IF gone[(i - 1) + 1] = a THEN 1 ELSE 0)
        BY <2>1, UpToNext
      <3>2. UpTo(gone, i - 1, a) \in Nat
        BY <2>1, PlacesFinite
      <3> QED
        BY <2>1, <3>1, <3>2
    <2>4. Has(f[i], gone[i])
      <3>1. UpTo(gone, i, gone[i]) <= Count(gone, gone[i])
        BY <1>2, UpToMonotone DEF Count
      <3>2. Count(f[i], gone[i]) \in Nat /\ Count(s, gone[i]) \in Nat /\ Count(gone, gone[i]) \in Nat
        BY <2>1, CountHas
      <3>3. Count(gone, gone[i]) <= Count(s, gone[i])
        OBVIOUS
      <3>4. Count(f[i], gone[i]) # 0
        BY <2>2, <2>3, <3>1, <3>2, <3>3
      <3> QED
        BY <2>1, <3>4, CountHas
    <2>5. ASSUME NEW a PROVE Count(s, a) = Count(f[i + 1], a) + UpTo(gone, i, a)
      <3>1. f[i + 1] = DetachOne(f[i], gone[i])
        BY <1>1
      <3>2. Count(f[i], a) = Count(f[i + 1], a) + (IF gone[i] = a THEN 1 ELSE 0)
        BY <2>1, <2>4, <3>1, DetachOneCount
      <3>3. f[i + 1] \in Seq(A)
        BY <2>1, <3>1, DetachOneCount
      <3>4. Count(f[i], a) \in Nat /\ Count(f[i + 1], a) \in Nat
        BY <2>1, <3>3, CountHas
      <3> QED
        BY <2>2, <2>3, <3>2, <3>4
    <2>6. i + 1 \in 1..(Len(gone) + 1)
      BY <1>2
    <2> QED
      BY <1>4, <2>1, <2>5, <2>6
  <1>7. 1..(Len(gone) + 1) \subseteq S
    BY <1>2, <1>5, <1>6, EachRound
  <1>8. Len(gone) + 1 \in S /\ (Len(gone) + 1) - 1 = Len(gone)
    BY <1>2, <1>7
  <1>9. \A a : Count(s, a) = Count(f[Len(gone) + 1], a) + UpTo(gone, Len(gone), a)
    BY <1>4, <1>8
  <1> QED
    BY <1>1, <1>3, <1>9 DEF Count

(* Who is attached after state_sync took the answer t. *)
LEMMA SyncedClients ==
    ASSUME NEW A, NEW s \in Seq(A), NEW t \in Seq(A)
    PROVE  /\ Detach(s, Disconnected(s, t)) \in Seq(A) /\ Connected(s, t) \in Seq(A)
           /\ \A a : /\ Has(Disconnected(s, t), a) <=> Has(s, a) /\ ~Has(t, a)
                     /\ Has(Connected(s, t), a) <=> Has(t, a) /\ ~Has(s, a)
                     /\ Has(Detach(s, Disconnected(s, t)) \o Connected(s, t), a) <=> Has(t, a)
  <1>1. PICK gone : gone = Missing(s, t)
    OBVIOUS
  <1>2. PICK new : new = Missing(t, s)
    OBVIOUS
  <1>3. Disconnected(s, t) = gone /\ Connected(s, t) = new
    BY <1>1, <1>2 DEF Disconnected, Connected
  <1>4. gone \in Seq(A) /\ \A a : Count(gone, a) = IF Has(t, a) THEN 0 ELSE Count(s, a)
    BY <1>1, MissingCount
  <1>5. new \in Seq(A) /\ \A a : Count(new, a) = IF Has(s, a) THEN 0 ELSE Count(t, a)
    BY <1>2, MissingCount
  <1>6. \A a : /\ Count(s, a) \in Nat /\ (Count(s, a) = 0 <=> ~Has(s, a))
               /\ Count(t, a) \in Nat /\ (Count(t, a) = 0 <=> ~Has(t, a))
               /\ Count(gone, a) \in Nat /\ (Count(gone, a) = 0 <=> ~Has(gone, a))
               /\ Count(new, a) \in Nat /\ (Count(new, a) = 0 <=> ~Has(new, a))
    BY <1>4, <1>5, CountHas
  <1>7. \A a : Count(gone, a) <= Count(s, a)
    BY <1>4, <1>6
  <1>8. PICK left : left = Detach(s, gone)
    OBVIOUS
  <1>9. left \in Seq(A) /\ \A a : Count(s, a) = Count(left, a) + Count(gone, a)
    BY <1>4, <1>7, <1>8, DetachCount
  <1>10. \A a : Count(left, a) \in Nat /\ (Count(left, a) = 0 <=> ~Has(left, a))
    BY <1>9, CountHas
  <1>11. ASSUME NEW a
         PROVE  /\ Has(gone, a) <=> Has(s, a) /\ ~Has(t, a)
                /\ Has(new, a) <=> Has(t, a) /\ ~Has(s, a)
                /\ Has(left, a) <=> Has(s, a) /\ Has(t, a)
    BY <1>4, <1>5, <1>6, <1>9, <1>10
  <1>12. \A a : Has(left \o new, a) <=> Has(left, a) \/ Has(new, a)
    BY <1>5, <1>9, HasConcat
  <1> QED
    BY <1>3, <1>5, <1>8, <1>9, <1>11, <1>12, Zenon

-----------------------------------------------------------------------------
(* The inductive invariant of ClientDiff: what is not published yet would  *)
(* complete what the subscriber knows, unless an insertion overtook it.    *)
Replays == ~overtaken => Heard(known, unsent) = ToSet(attached)

ClientInv ==
    /\ attached \in Seq(Addrs) /\ answer \in Seq(Addrs)
    /\ ClientsMirrored /\ Replays

LEMMA SetOfList ==
    ASSUME NEW A, NEW s \in Seq(A)
    PROVE  \A a : a \in ToSet(s) <=> Has(s, a)
  BY DEF ToSet, Has

LEMMA AnswerList == \A t \in Answers : t \in Seq(Addrs)
  <1> SUFFICES ASSUME NEW t \in Answers PROVE t \in Seq(Addrs)
    OBVIOUS
  <1>1. PICK n \in 0..MaxList : t \in [1..n -> Addrs]
    BY DEF Answers
  <1>2. n \in Nat
    OBVIOUS
  <1> QED
    BY <1>1, <1>2

LEMMA ClientInit == Init => ClientInv
  <1> SUFFICES ASSUME Init PROVE ClientInv
    OBVIOUS
  <1>1. ToSet(<<>>) = {}
    BY DEF ToSet
  <1> QED
    BY <1>1 DEF Init, ClientInv, ClientsMirrored, Replays, Heard

LEMMA ClientStep == ClientInv /\ [Next]_vars => ClientInv'
  <1> SUFFICES ASSUME ClientInv, [Next]_vars PROVE ClientInv'
    OBVIOUS
  <1>1. CASE UNCHANGED vars
    BY <1>1 DEF vars, ClientInv, ClientsMirrored, Replays, Heard
  <1>2. ASSUME NEW t \in Answers, Load(t) PROVE ClientInv'
    BY <1>2, AnswerList DEF Load, ClientInv, ClientsMirrored, Replays, Heard
  <1>3. ASSUME NEW t \in Answers, Sync(t) PROVE ClientInv'
    <2>1. attached \in Seq(Addrs) /\ t \in Seq(Addrs) /\ (~overtaken => known = ToSet(attached))
      BY <1>3, AnswerList DEF Sync, ClientInv, Replays, Heard
    <2>2. PICK gone, new : gone = Disconnected(attached, t) /\ new = Connected(attached, t)
      OBVIOUS
    <2>3. PICK both : both = Detach(attached, gone) \o new
      OBVIOUS
    <2>4. /\ attached' = both /\ answer' = t /\ known' = known /\ overtaken' = overtaken
          /\ unsent' = <<[gone |-> ToSet(gone), new |-> ToSet(new)]>>
      BY <1>3, <2>2, <2>3, Zenon DEF Sync
    <2>5. Detach(attached, gone) \in Seq(Addrs) /\ new \in Seq(Addrs)
      BY <2>1, <2>2, SyncedClients
    <2>6. gone \in Seq(Addrs)
      BY <2>1, <2>2, MissingCount DEF Disconnected
    <2>7. both \in Seq(Addrs)
      BY <2>3, <2>5
    <2>8. ASSUME NEW a
          PROVE  /\ Has(gone, a) <=> Has(attached, a) /\ ~Has(t, a)
                 /\ Has(new, a) <=> Has(t, a) /\ ~Has(attached, a)
                 /\ Has(both, a) <=> Has(t, a)
      BY <2>1, <2>2, <2>3, SyncedClients
    <2>9. \A a : /\ a \in ToSet(attached) <=> Has(attached, a)
                 /\ a \in ToSet(t) <=> Has(t, a)
                 /\ a \in ToSet(gone) <=> Has(gone, a)
                 /\ a \in ToSet(new) <=> Has(new, a)
                 /\ a \in ToSet(both) <=> Has(both, a)
      BY <2>1, <2>5, <2>6, <2>7, SetOfList
    <2>10. ToSet(both) = ToSet(t)
      BY <2>8, <2>9
    <2>11. ~overtaken => (known \ ToSet(gone)) \cup ToSet(new) = ToSet(both)
      BY <2>1, <2>8, <2>9
    <2>12. Heard(known', unsent') = (known \ ToSet(gone)) \cup ToSet(new)
      BY <2>4 DEF Heard
    <2>13. Replays'
      BY <2>4, <2>11, <2>12 DEF Replays
    <2> QED
      BY <2>1, <2>4, <2>7, <2>10, <2>13 DEF ClientInv, ClientsMirrored
  <1>4. CASE Publish
    BY <1>4 DEF Publish, ClientInv, ClientsMirrored, Replays, Heard
  <1> QED
    BY <1>1, <1>2, <1>3, <1>4 DEF Next

LEMMA ClientsAlways == Spec => []ClientInv
  BY ClientInit, ClientStep, PTL DEF Spec

(* state_sync leaves a device with the clients upsd reported and no other: *)
(* for any addresses, in lists of any length, with repetitions on either   *)
(* side.  (As sets: how often an address is listed is not kept.)           *)
THEOREM ClientsMirroredCorrect == Spec => []ClientsMirrored
  <1>1. ClientInv => ClientsMirrored
    BY DEF ClientInv
  <1> QED
    BY <1>1, ClientsAlways, PTL

(* A subscriber who applies the two events of state_sync, disconnections   *)
(* first, has the clients of the device once they are published, unless    *)
(* the device was inserted anew between the diff and its publication.      *)
THEOREM ClientsReplayCorrect == Spec => []ClientsReplay
  <1>1. ClientInv => ClientsReplay
    BY DEF ClientInv, Replays, ClientsReplay, Heard
  <1> QED
    BY <1>1, ClientsAlways, PTL

(* Algorithms runs the two components as they are: what is proved of them  *)
(* holds of its behaviours.                                                *)
LEMMA CaseClients == CaseSpec => Spec /\ DescInit /\ [][DescNext]_descvars
  <1>1. CaseInit => Init /\ DescInit
    BY DEF CaseInit
  <1>2. [CaseNext]_CaseVars => [Next]_vars
    BY DEF CaseNext, CaseVars, Pick, Start, StepClients, StepTable, StepService
  <1>3. [CaseNext]_CaseVars => [DescNext]_descvars
    BY DEF CaseNext, CaseVars, Pick, Start, StepClients, StepTable, StepService, DescNext
  <1> QED
    BY <1>1, <1>2, <1>3, PTL DEF CaseSpec, Spec

-----------------------------------------------------------------------------
(* The words of ups.status. *)
Rows == Len(FlagTable)

LEMMA FlagRows ==
    /\ Rows \in Nat
    /\ \A i, j \in 1..Rows : FlagTable[i][2] = FlagTable[j][2] => i = j
    /\ \A i \in 1..Rows : FlagTable[i][2] # "WAIT" /\ FlagTable[i][2] # "HB"
  <1>1. Rows = 19
    BY DEF FlagTable, Rows
  <1>2. \A i, j \in 1..19 : FlagTable[i][2] = FlagTable[j][2] => i = j
    BY SMTT(60) DEF FlagTable
  <1>3. \A i \in 1..19 : FlagTable[i][2] # "WAIT" /\ FlagTable[i][2] # "HB"
    BY DEF FlagTable
  <1>4. 19 \in Nat
    OBVIOUS
  <1> QED
    BY <1>1, <1>2, <1>3, <1>4, Zenon

FlagWords == {FlagTable[i][2] : i \in 1..Rows}

IsWritten(f, status) ==
    f = [i \in 1..(Rows + 1) |->
            IF i = 1 THEN <<>>
            ELSE IF FlagTable[i - 1][1] \in status THEN Append(f[i - 1], FlagTable[i - 1][2])
            ELSE f[i - 1]]

(* What a round of Display makes of the words so far. *)
Written(w, i, status) == IF FlagTable[i][1] \in status THEN Append(w, FlagTable[i][2]) ELSE w

Writes(f, status) ==
    /\ f \in [1..(Rows + 1) -> Seq(FlagWords)]
    /\ f[1] = <<>>
    /\ \A i \in 1..Rows : f[i + 1] = Written(f[i], i, status)
    /\ StatusWords(status) = f[Rows + 1]

LEMMA WordsLoop == ASSUME NEW status PROVE \E f : Writes(f, status)
  <1>0. Rows \in Nat
    BY FlagRows
  <1>1. PICK V : V = Seq(FlagWords)
    OBVIOUS
  <1>2. PICK step : step = [i \in 1..Rows |-> [w \in V |-> Written(w, i, status)]]
    OBVIOUS
  <1>3. ASSUME NEW i \in 1..Rows, NEW w \in V PROVE Written(w, i, status) \in V
    <2>1. PICK word \in FlagWords : word = FlagTable[i][2]
      BY DEF FlagWords
    <2>2. Append(w, word) \in V
      BY <1>1
    <2> QED
      BY <2>1, <2>2, Zenon DEF Written
  <1>4. step \in [1..Rows -> [V -> V]]
    BY <1>2, <1>3
  <1>5. PICK f : IsLoop(f, Rows, V, <<>>, step)
    <2>1. <<>> \in V
      BY <1>1
    <2> QED
      BY <1>0, <1>4, <2>1, LoopExists
  <1>6. IsWritten(f, status)
    <2>1. f \in [1..(Rows + 1) -> V] /\ f[1] = <<>>
      BY <1>5 DEF IsLoop
    <2>2. ASSUME NEW i \in 1..Rows PROVE f[i + 1] = Written(f[i], i, status)
      <3>1. f[i] \in V /\ f[i + 1] = step[i][f[i]]
        BY <1>0, <1>5, <2>1 DEF IsLoop
      <3> QED
        BY <1>2, <3>1
    <2>3. \A i \in 1..(Rows + 1) : i # 1 => i - 1 \in 1..Rows /\ (i - 1) + 1 = i
      BY <1>0
    <2>4. \A i \in 1..(Rows + 1) : f[i] = IF i = 1 THEN <<>> ELSE Written(f[i - 1], i - 1, status)
      BY <2>1, <2>2, <2>3
    <2>5. f = [i \in 1..(Rows + 1) |-> IF i = 1 THEN <<>> ELSE Written(f[i - 1], i - 1, status)]
      BY <2>1, <2>4
    <2> QED
      BY <2>5 DEF IsWritten, Written
  <1>7. PICK F : F = CHOOSE g : IsWritten(g, status)
    OBVIOUS
  <1>8. IsWritten(F, status)
    BY <1>6, <1>7
  <1>9. StatusWords(status) = F[Rows + 1]
    BY <1>7 DEF StatusWords, IsWritten, Rows
  <1>10. F = [i \in 1..(Rows + 1) |-> IF i = 1 THEN <<>> ELSE Written(F[i - 1], i - 1, status)]
    BY <1>8 DEF IsWritten, Written
  <1>11. F[1] = <<>>
    BY <1>0, <1>10
  <1>12. ASSUME NEW i \in 1..Rows PROVE F[i + 1] = Written(F[i], i, status)
    <2>1. i + 1 \in 1..(Rows + 1) /\ i + 1 # 1 /\ (i + 1) - 1 = i
      BY <1>0
    <2> QED
      BY <1>10, <2>1
  <1>13. PICK S : S = {i \in 1..(Rows + 1) : F[i] \in V}
    OBVIOUS
  <1>14. 1 \in S
    <2>1. 1 \in 1..(Rows + 1) /\ <<>> \in V
      BY <1>0, <1>1
    <2> QED
      BY <1>11, <1>13, <2>1
  <1>15. ASSUME NEW i \in 1..Rows, i \in S PROVE i + 1 \in S
    BY <1>0, <1>3, <1>12, <1>13, <1>15
  <1>16. 1..(Rows + 1) \subseteq S
    BY <1>0, <1>14, <1>15, EachRound
  <1>17. F \in [1..(Rows + 1) -> V]
    BY <1>10, <1>13, <1>16
  <1> QED
    BY <1>1, <1>9, <1>11, <1>12, <1>17 DEF Writes

LEMMA HasAppend ==
    ASSUME NEW A, NEW s \in Seq(A), NEW x \in A, NEW a
    PROVE  Has(Append(s, x), a) <=> Has(s, a) \/ x = a
  <1>1. PICK t : t = Append(s, x)
    OBVIOUS
  <1>2. Len(s) \in Nat /\ Len(t) = Len(s) + 1 /\ t[Len(s) + 1] = x /\ \A j \in 1..Len(s) : t[j] = s[j]
    BY <1>1
  <1>3. \A j \in 1..Len(t) : j \in 1..Len(s) \/ j = Len(s) + 1
    BY <1>2
  <1>4. Len(s) + 1 \in 1..Len(t) /\ \A j \in 1..Len(s) : j \in 1..Len(t)
    BY <1>2
  <1> QED
    BY <1>1, <1>2, <1>3, <1>4 DEF Has

(* Display writes the words of the flags, and no others. *)
LEMMA WordsWritten ==
    ASSUME NEW status
    PROVE  /\ StatusWords(status) \in Seq(FlagWords)
           /\ \A w : Has(StatusWords(status), w) <=>
                        \E j \in 1..Rows : FlagTable[j][1] \in status /\ FlagTable[j][2] = w
  <1>0. PICK f : Writes(f, status)
    BY WordsLoop
  <1>n. Rows \in Nat
    BY FlagRows
  <1>1. /\ f \in [1..(Rows + 1) -> Seq(FlagWords)]
        /\ f[1] = <<>>
        /\ \A i \in 1..Rows : f[i + 1] = Written(f[i], i, status)
        /\ StatusWords(status) = f[Rows + 1]
    BY <1>0 DEF Writes
  <1>2. ASSUME NEW w
        PROVE  Has(f[Rows + 1], w) <=> \E j \in 1..Rows : FlagTable[j][1] \in status /\ FlagTable[j][2] = w
    <2>1. PICK S : S = {i \in 1..(Rows + 1) :
              Has(f[i], w) <=> \E j \in 1..(i - 1) : FlagTable[j][1] \in status /\ FlagTable[j][2] = w}
      OBVIOUS
    <2>2. 1 \in S
      <3>1. ~Has(f[1], w)
        BY <1>1 DEF Has
      <3> QED
        BY <1>n, <2>1, <3>1
    <2>3. ASSUME NEW i \in 1..Rows, i \in S PROVE i + 1 \in S
      <3>1. Has(f[i], w) <=> \E j \in 1..(i - 1) : FlagTable[j][1] \in status /\ FlagTable[j][2] = w
        BY <2>1, <2>3
      <3>2. PICK word \in FlagWords : word = FlagTable[i][2]
        BY DEF FlagWords
      <3>3. f[i] \in Seq(FlagWords)
        BY <1>n, <1>1
      <3>4. Has(Append(f[i], word), w) <=> Has(f[i], w) \/ word = w
        BY <3>3, HasAppend
      <3>5. Has(f[i + 1], w) <=> Has(f[i], w) \/ (FlagTable[i][1] \in status /\ FlagTable[i][2] = w)
        <4>1. f[i + 1] = Written(f[i], i, status)
          BY <1>1
        <4> QED
          BY <3>2, <3>4, <4>1, Zenon DEF Written
      <3>6. \A j : j \in 1..((i + 1) - 1) <=> j \in 1..(i - 1) \/ j = i
        BY <1>n
      <3>7. Has(f[i + 1], w) <=> \E j \in 1..((i + 1) - 1) : FlagTable[j][1] \in status /\ FlagTable[j][2] = w
        BY <3>1, <3>5, <3>6, Zenon
      <3>8. i + 1 \in 1..(Rows + 1)
        BY <1>n
      <3> QED
        BY <2>1, <3>7, <3>8, Zenon
    <2>4. 1..(Rows + 1) \subseteq S
      BY <1>n, <2>2, <2>3, EachRound
    <2>5. (Rows + 1) \in S
      BY <1>n, <2>4
    <2>6. (Rows + 1) - 1 = Rows
      BY <1>n
    <2>7. Has(f[Rows + 1], w) <=>
            \E j \in 1..((Rows + 1) - 1) : FlagTable[j][1] \in status /\ FlagTable[j][2] = w
      BY <2>1, <2>5, Zenon
    <2> QED
      BY <2>6, <2>7, Zenon
  <1>3. f[Rows + 1] \in Seq(FlagWords)
    BY <1>n, <1>1
  <1> QED
    BY <1>1, <1>2, <1>3, Zenon


(* UpsStatus::new reads what Display writes, with or without words it does *)
(* not know.                                                               *)
LEMMA StatusReadBack ==
    ASSUME NEW status \in SUBSET Flags, NEW words,
           \A w : Has(StatusWords(status), w) => Has(words, w),
           \A w : Has(words, w) => Has(StatusWords(status), w) \/ w = "WAIT" \/ w = "HB"
    PROVE  UpsStatus(words) = status
  <1>1. \A w : Has(StatusWords(status), w) <=>
               \E j \in 1..Rows : FlagTable[j][1] \in status /\ FlagTable[j][2] = w
    BY WordsWritten
  <1>2. \A f : f \in UpsStatus(words) <=> \E j \in 1..Rows : Has(words, FlagTable[j][2]) /\ f = FlagTable[j][1]
    BY DEF UpsStatus, Has, Rows
  <1>3. \A j \in 1..Rows : Has(words, FlagTable[j][2]) <=> FlagTable[j][1] \in status
    <2> SUFFICES ASSUME NEW j \in 1..Rows
                 PROVE  Has(words, FlagTable[j][2]) <=> FlagTable[j][1] \in status
      OBVIOUS
    <2>1. FlagTable[j][1] \in status => Has(words, FlagTable[j][2])
      BY <1>1, Zenon
    <2>2. ASSUME Has(words, FlagTable[j][2]) PROVE FlagTable[j][1] \in status
      <3>1. Has(StatusWords(status), FlagTable[j][2])
        BY <2>2, FlagRows, Zenon
      <3>2. PICK k \in 1..Rows : FlagTable[k][1] \in status /\ FlagTable[k][2] = FlagTable[j][2]
        BY <1>1, <3>1, Zenon
      <3>3. k = j
        BY <3>2, FlagRows, Zenon
      <3> QED
        BY <3>2, <3>3, Zenon
    <2> QED
      BY <2>1, <2>2
  <1>4. \A f \in status : \E j \in 1..Rows : f = FlagTable[j][1]
    BY DEF Flags, Rows
  <1>5. ASSUME NEW f \in status PROVE f \in UpsStatus(words)
    <2>1. PICK j \in 1..Rows : f = FlagTable[j][1]
      BY <1>4
    <2>2. Has(words, FlagTable[j][2])
      BY <1>3, <2>1, Zenon
    <2> QED
      BY <1>2, <2>1, <2>2, Zenon
  <1>6. ASSUME NEW f \in UpsStatus(words) PROVE f \in status
    <2>1. PICK j \in 1..Rows : Has(words, FlagTable[j][2]) /\ f = FlagTable[j][1]
      BY <1>2, <1>6, Zenon
    <2> QED
      BY <1>3, <2>1, Zenon
  <1> QED
    BY <1>5, <1>6

(* The words of the two lists of EventsReplay. *)
LEMMA ReportedStatus ==
    ASSUME NEW status \in SUBSET Flags
    PROVE  /\ UpsStatus(StatusWords(status)) = status
           /\ UpsStatus(<<"WAIT">> \o StatusWords(status) \o <<"HB">>) = status
  <1>1. UpsStatus(StatusWords(status)) = status
    BY StatusReadBack
  <1>2. PICK A : A = FlagWords \cup {"WAIT", "HB"}
    OBVIOUS
  <1>3. PICK ws \in Seq(A) : ws = StatusWords(status)
    <2>1. StatusWords(status) \in Seq(FlagWords) /\ FlagWords \subseteq A
      BY <1>2, WordsWritten
    <2> QED
      BY <2>1
  <1>4. PICK u, v : u = <<"WAIT">> /\ v = <<"HB">>
    OBVIOUS
  <1>5. /\ u \in Seq(A) /\ v \in Seq(A) /\ u \o ws \in Seq(A)
        /\ \A w : (Has(u, w) <=> w = "WAIT") /\ (Has(v, w) <=> w = "HB")
    BY <1>2, <1>4 DEF Has
  <1>6. \A w : Has((u \o ws) \o v, w) <=> w = "WAIT" \/ Has(ws, w) \/ w = "HB"
    <2>1. \A w : Has(u \o ws, w) <=> Has(u, w) \/ Has(ws, w)
      BY <1>5, HasConcat
    <2>2. PICK x \in Seq(A) : x = u \o ws
      BY <1>5, Zenon
    <2>3. \A w : Has(x \o v, w) <=> Has(x, w) \/ Has(v, w)
      BY <1>5, HasConcat
    <2> QED
      BY <1>5, <2>1, <2>2, <2>3, Zenon
  <1>7. UpsStatus((u \o ws) \o v) = status
    BY <1>3, <1>6, StatusReadBack
  <1> QED
    BY <1>1, <1>3, <1>4, <1>7

-----------------------------------------------------------------------------
(* Events *)
LEMMA EventNames ==
    /\ \A f, g \in DOMAIN Added : Added[f] = Added[g] => f = g
    /\ \A f, g \in DOMAIN Removed : Removed[f] = Removed[g] => f = g
    /\ \A f \in DOMAIN Added, g \in DOMAIN Removed : Added[f] # Removed[g]
    /\ DOMAIN Removed \subseteq DOMAIN Added
  <1>1. \A f, g \in DOMAIN Added : Added[f] = Added[g] => f = g
    BY SMTT(60) DEF Added
  <1>2. \A f, g \in DOMAIN Removed : Removed[f] = Removed[g] => f = g
    BY SMTT(60) DEF Removed
  <1>3. \A f \in DOMAIN Added, g \in DOMAIN Removed : Added[f] # Removed[g]
    BY SMTT(60) DEF Added, Removed
  <1>4. DOMAIN Removed \subseteq DOMAIN Added
    BY SMTT(60) DEF Added, Removed
  <1> QED
    BY <1>1, <1>2, <1>3, <1>4

(* As many events as flags, if no two flags have the same one. *)
LEMMA DistinctEvents ==
    ASSUME NEW F, IsFiniteSet(F), NEW event, F \subseteq DOMAIN event,
           \A f, g \in F : event[f] = event[g] => f = g,
           NEW E, E = {event[f] : f \in F}
    PROVE  IsFiniteSet(E) /\ Cardinality(E) = Cardinality(F)
  <1>1. PICK h : h = [f \in F |-> event[f]]
    OBVIOUS
  <1>2. h \in Bijection(F, E)
    BY <1>1 DEF Bijection, Injection, Surjection, IsInjective
  <1>3. ExistsBijection(F, E)
    BY <1>2 DEF ExistsBijection
  <1> QED
    BY <1>3, FS_Bijection

LEMMA FlagsFinite == IsFiniteSet(Flags)
  <1>1. PICK h : h = [i \in 1..Rows |-> FlagTable[i][1]]
    OBVIOUS
  <1>2. h \in Surjection(1..Rows, Flags)
    BY <1>1 DEF Surjection, Flags, Rows
  <1>3. IsFiniteSet(1..Rows)
    BY FlagRows, FS_Interval
  <1> QED
    BY <1>2, <1>3, FS_Surjection

(* What the events of a change tell. *)
Told(old, new, events) ==
    /\ Listen(old, events) \cap TwoSided = new \cap TwoSided
    /\ Cardinality(events) =
          Cardinality(Unset(new, old) \cap DOMAIN Added)
            + Cardinality(Unset(old, new) \cap DOMAIN Removed)

LEMMA EventsTell ==
    ASSUME NEW old \in SUBSET Flags, NEW new \in SUBSET Flags
    PROVE  Told(old, new, Events(old, new))
  <1>1. PICK up : up = Unset(new, old) \cap DOMAIN Added
    OBVIOUS
  <1>2. PICK down : down = Unset(old, new) \cap DOMAIN Removed
    OBVIOUS
  <1>3. PICK ups, downs : ups = {Added[f] : f \in up} /\ downs = {Removed[f] : f \in down}
    OBVIOUS
  <1>4. PICK events : events = downs \cup ups
    OBVIOUS
  <1>5. Events(old, new) = events
    BY <1>1, <1>2, <1>3, <1>4, Zenon DEF Events
  <1>6. up \subseteq DOMAIN Added /\ down \subseteq DOMAIN Removed
    BY <1>1, <1>2
  <1>7. IsFiniteSet(up) /\ IsFiniteSet(down)
    <2>1. up \subseteq Flags /\ down \subseteq Flags
      BY <1>1, <1>2 DEF Unset
    <2> QED
      BY <2>1, FlagsFinite, FS_Subset
  <1>8. IsFiniteSet(ups) /\ Cardinality(ups) = Cardinality(up)
    BY <1>3, <1>6, <1>7, EventNames, DistinctEvents
  <1>9. IsFiniteSet(downs) /\ Cardinality(downs) = Cardinality(down)
    BY <1>3, <1>6, <1>7, EventNames, DistinctEvents
  <1>10. downs \cap ups = {}
    BY <1>3, <1>6, EventNames
  <1>11. Cardinality(events) = Cardinality(up) + Cardinality(down)
    <2>1. Cardinality(events) = Cardinality(downs) + Cardinality(ups) - Cardinality(downs \cap ups)
      BY <1>4, <1>8, <1>9, FS_Union
    <2>2. Cardinality(downs \cap ups) = 0
      BY <1>10, FS_EmptySet
    <2>3. Cardinality(up) \in Nat /\ Cardinality(down) \in Nat
      BY <1>7, FS_CardinalityType
    <2> QED
      BY <1>8, <1>9, <2>1, <2>2, <2>3
  <1>12. \A f \in DOMAIN Added : Added[f] \in events <=> f \in up
    BY <1>3, <1>4, <1>6, EventNames
  <1>13. \A f \in DOMAIN Removed : Removed[f] \in events <=> f \in down
    BY <1>3, <1>4, <1>6, EventNames
  <1>14. \A f : f \in Listen(old, events) /\ f \in DOMAIN Removed <=> f \in new /\ f \in DOMAIN Removed
    <2> SUFFICES ASSUME NEW f \in DOMAIN Removed PROVE f \in Listen(old, events) <=> f \in new
      OBVIOUS
    <2>1. f \in DOMAIN Added
      BY EventNames
    <2>2. f \in Listen(old, events) <=> (f \in old \/ Added[f] \in events) /\ Removed[f] \notin events
      BY <2>1 DEF Listen
    <2>3. f \in Listen(old, events) <=> (f \in old \/ f \in up) /\ f \notin down
      BY <1>12, <1>13, <2>1, <2>2, Zenon
    <2> QED
      BY <1>1, <1>2, <2>1, <2>3 DEF Unset
  <1>15. Listen(old, events) \cap TwoSided = new \cap TwoSided
    BY <1>14 DEF TwoSided
  <1> QED
    BY <1>1, <1>2, <1>5, <1>11, <1>15, Zenon DEF Told

(* The status of a case is made of flags. *)
StatusCase ==
    case.kind = "status" => case.old \in SUBSET Flags /\ case.new \in SUBSET Flags

LEMMA StatusInit == CaseInit => StatusCase
  BY DEF CaseInit, NoCase, StatusCase

LEMMA StatusStep == StatusCase /\ [CaseNext]_CaseVars => StatusCase'
  <1> SUFFICES ASSUME StatusCase, [CaseNext]_CaseVars PROVE StatusCase'
    OBVIOUS
  <1>1. CASE UNCHANGED case
    BY <1>1 DEF StatusCase
  <1>2. CASE PickReported \/ PickNumber \/ PickForm \/ PickRequest
    BY <1>2 DEF PickReported, PickNumber, PickForm, PickRequest, StatusCase
  <1>3. CASE PickStatus
    <2>1. PICK old \in UpToTwo, new \in UpToTwo : case' = [kind |-> "status", old |-> old, new |-> new]
      BY <1>3 DEF PickStatus
    <2>2. old \in SUBSET Flags /\ new \in SUBSET Flags
      BY <2>1 DEF UpToTwo
    <2> QED
      BY <2>1, <2>2 DEF StatusCase
  <1>4. CASE PickScalar
    <2>1. PICK c : case' = c /\ \E f \in Fields : c \in Scalars(f)
      BY <1>4 DEF PickScalar
    <2>2. PICK f, a, cl, r, p, ok, t : c = ScalarOf(f, a, cl, r, p, ok, t)
      BY <2>1 DEF Scalars
    <2>3. PICK env, toml :
            c = [kind |-> "scalar", field |-> f, allowEnv |-> a, cli |-> cl, env |-> env, toml |-> toml]
      BY <2>2, Zenon DEF ScalarOf
    <2> QED
      BY <2>1, <2>3 DEF StatusCase
  <1>5. CASE PickUpsd
    <2>1. PICK c : case' = c /\ c \in Upsds
      BY <1>5 DEF PickUpsd
    <2>2. PICK n, a, p, u, s : c = UpsdOf(n, a, p, u, s)
      BY <2>1 DEF Upsds
    <2>3. PICK cli, env, toml : c = [kind |-> "upsd", cli |-> cli, env |-> env, toml |-> toml]
      BY <2>2, Zenon DEF UpsdOf
    <2> QED
      BY <2>1, <2>3 DEF StatusCase
  <1>6. CASE Start
    BY <1>6 DEF Start, StatusCase
  <1> QED
    BY <1>1, <1>2, <1>3, <1>4, <1>5, <1>6
    DEF CaseNext, Pick, StepClients, StepTable, StepService, CaseVars

(* UpsEvents::new says of every pair of statuses what changed: a listener  *)
(* who knew the old one knows the new one, for the flags whose end is      *)
(* announced, and hears one event for each flag that changed.  Holds from  *)
(* the words that are read to the events, for all flags.                   *)
THEOREM EventsTold ==
    \A old, new \in SUBSET Flags :
        Told(old, new, Events(UpsStatus(StatusWords(old)),
                              UpsStatus(<<"WAIT">> \o StatusWords(new) \o <<"HB">>)))
  BY ReportedStatus, EventsTell

(* The same of the cases of the run. *)
THEOREM EventsReplayCorrect == CaseSpec => []EventsReplay
  <1>1. StatusCase => EventsReplay
    <2> SUFFICES ASSUME case.kind = "status", case.old \in SUBSET Flags, case.new \in SUBSET Flags
                 PROVE  EventsReplay
      BY DEF StatusCase, EventsReplay
    <2> QED
      BY EventsTold, Zenon DEF EventsReplay, Told
  <1>2. CaseSpec => []StatusCase
    BY StatusInit, StatusStep, PTL DEF CaseSpec
  <1> QED
    BY <1>1, <1>2, PTL

-----------------------------------------------------------------------------
(* Recursion from the end of a buffer: the value at a position depends on  *)
(* the values behind it.                                                   *)
Backward(step, N, V) ==
    /\ step \in [1..N -> [[1..N -> V] -> V]]
    /\ \A g, h \in [1..N -> V] : \A p \in 1..N :
          (\A q \in (p + 1)..N : g[q] = h[q]) => step[p][g] = step[p][h]

Solves(f, step, N, V) == f \in [1..N -> V] /\ \A p \in 1..N : f[p] = step[p][f]

LEMMA FromTheEnd ==
    ASSUME NEW V, V # {}, NEW N \in Nat, NEW step, Backward(step, N, V)
    PROVE  \E f : Solves(f, step, N, V)
  <1>0. /\ step \in [1..N -> [[1..N -> V] -> V]]
        /\ \A g, h \in [1..N -> V] : \A p \in 1..N :
              (\A q \in (p + 1)..N : g[q] = h[q]) => step[p][g] = step[p][h]
    BY DEF Backward
  <1>1. PICK S : S = {k \in Nat : \E f \in [1..N -> V] : \A p \in 1..N : p > N - k => f[p] = step[p][f]}
    OBVIOUS
  <1>2. 0 \in S
    <2>1. PICK v \in V : TRUE
      OBVIOUS
    <2>2. PICK f : f = [p \in 1..N |-> v]
      OBVIOUS
    <2>3. f \in [1..N -> V]
      BY <2>2
    <2>4. \A p \in 1..N : ~(p > N - 0)
      OBVIOUS
    <2> QED
      BY <1>1, <2>3, <2>4
  <1>3. ASSUME NEW k \in Nat, k \in S PROVE k + 1 \in S
    <2>1. PICK f \in [1..N -> V] : \A p \in 1..N : p > N - k => f[p] = step[p][f]
      BY <1>1, <1>3
    <2>2. \A p \in 1..N : step[p][f] \in V
      <3> SUFFICES ASSUME NEW p \in 1..N PROVE step[p][f] \in V
        OBVIOUS
      <3>1. step[p] \in [[1..N -> V] -> V]
        BY <1>0
      <3> QED
        BY <3>1
    <2>3. PICK g : g = [p \in 1..N |-> IF p = N - k THEN step[p][f] ELSE f[p]]
      OBVIOUS
    <2>4. g \in [1..N -> V]
      BY <2>2, <2>3
    <2>5. ASSUME NEW p \in 1..N, p > N - (k + 1) PROVE g[p] = step[p][g]
      <3>1. \A q \in (p + 1)..N : f[q] = g[q]
        <4> SUFFICES ASSUME NEW q \in (p + 1)..N PROVE f[q] = g[q]
          OBVIOUS
        <4>1. q \in 1..N /\ q # N - k
          BY <2>5
        <4> QED
          BY <2>3, <4>1
      <3>2. step[p][f] = step[p][g]
        BY <1>0, <2>4, <3>1
      <3>3. CASE p = N - k
        BY <2>3, <3>2, <3>3
      <3>4. CASE p # N - k
        <4>1. p > N - k
          BY <2>5, <3>4
        <4> QED
          BY <2>1, <2>3, <3>2, <3>4, <4>1
      <3> QED
        BY <3>3, <3>4
    <2> QED
      BY <1>1, <2>4, <2>5
  <1>4. N \in S
    BY <1>2, <1>3, NumberInduction
  <1>5. PICK f \in [1..N -> V] : \A p \in 1..N : p > N - N => f[p] = step[p][f]
    BY <1>1, <1>4
  <1>6. \A p \in 1..N : p > N - N
    OBVIOUS
  <1> QED
    BY <1>5, <1>6 DEF Solves

(* What holds of a position if it holds of all positions behind it. *)
LEMMA DownTo ==
    ASSUME NEW N \in Nat, NEW S, \A p \in 1..N : (\A q \in (p + 1)..N : q \in S) => p \in S
    PROVE  1..N \subseteq S
  <1>1. PICK T : T = {k \in Nat : \A p \in 1..N : p > N - k => p \in S}
    OBVIOUS
  <1>2. 0 \in T
    <2>1. \A p \in 1..N : ~(p > N - 0)
      OBVIOUS
    <2> QED
      BY <1>1, <2>1
  <1>3. ASSUME NEW k \in Nat, k \in T PROVE k + 1 \in T
    <2>1. ASSUME NEW p \in 1..N, p > N - (k + 1) PROVE p \in S
      <3>1. \A q \in (p + 1)..N : q \in 1..N /\ q > N - k
        BY <2>1
      <3> QED
        BY <1>1, <1>3, <3>1
    <2> QED
      BY <1>1, <2>1
  <1>4. N \in T
    BY <1>2, <1>3, NumberInduction
  <1>5. \A p \in 1..N : p > N - N
    OBVIOUS
  <1> QED
    BY <1>1, <1>4, <1>5

-----------------------------------------------------------------------------
(* read_quoted_text *)
IsClosing(F, b) ==
    F = [i \in 1..(Len(b) + 2) |->
            IF i > Len(b) THEN 0
            ELSE IF b[i] = Backslash THEN F[i + 2]
            ELSE IF b[i] = Quote THEN i
            ELSE F[i + 1]]

LEMMA ClosingEq ==
    ASSUME NEW A, NEW b \in Seq(A)
    PROVE  \E F : /\ IsClosing(F, b)
                  /\ \A p \in 1..(Len(b) + 2) : ClosingQuote(b, p) = F[p]
  <1>1. PICK n \in Nat : n = Len(b)
    OBVIOUS
  <1>2. PICK N \in Nat : N = n + 2
    BY <1>1
  <1>v. PICK V : V = Nat
    OBVIOUS
  <1> DEFINE at(g, i) == IF i > n THEN 0
                         ELSE IF b[i] = Backslash THEN g[i + 2]
                         ELSE IF b[i] = Quote THEN i
                         ELSE g[i + 1]
  <1>3. PICK step : step = [i \in 1..N |-> [g \in [1..N -> V] |-> at(g, i)]]
    OBVIOUS
  <1>4. ASSUME NEW i \in 1..N, NEW g \in [1..N -> V] PROVE at(g, i) \in V
    BY <1>2, <1>v
  <1>5. step \in [1..N -> [[1..N -> V] -> V]]
    BY <1>3, <1>4
  <1>6. ASSUME NEW g \in [1..N -> V], NEW h \in [1..N -> V], NEW p \in 1..N,
               \A q \in (p + 1)..N : g[q] = h[q]
        PROVE  step[p][g] = step[p][h]
    <2>1. p <= n => g[p + 1] = h[p + 1] /\ g[p + 2] = h[p + 2]
      BY <1>2, <1>6
    <2>2. at(g, p) = at(h, p)
      BY <2>1
    <2> QED
      BY <1>3, <2>2
  <1>b. Backward(step, N, V)
    BY <1>5, <1>6 DEF Backward
  <1>7. PICK f : Solves(f, step, N, V)
    <2>0. 0 \in V
      BY <1>v
    <2>1. V # {}
      BY <2>0
    <2> QED
      BY <1>b, <2>1, FromTheEnd
  <1>8. f \in [1..N -> V] /\ \A p \in 1..N : f[p] = at(f, p)
    BY <1>3, <1>7 DEF Solves
  <1>9. f = [i \in 1..N |-> at(f, i)]
    BY <1>8
  <1>10. IsClosing(f, b)
    BY <1>1, <1>2, <1>9 DEF IsClosing
  <1>11. PICK F : F = CHOOSE g : IsClosing(g, b)
    OBVIOUS
  <1>12. IsClosing(F, b)
    BY <1>10, <1>11
  <1>13. \A p \in 1..(Len(b) + 2) : ClosingQuote(b, p) = F[p]
    BY <1>11 DEF ClosingQuote, IsClosing
  <1> QED
    BY <1>12, <1>13

(* Where a closing quote is found, and that it lies behind the opening one. *)
LEMMA ClosingRound ==
    ASSUME NEW A, NEW b \in Seq(A), NEW p \in 1..Len(b)
    PROVE  ClosingQuote(b, p) = IF b[p] = Backslash THEN ClosingQuote(b, p + 2)
                                ELSE IF b[p] = Quote THEN p ELSE ClosingQuote(b, p + 1)
  <1>1. PICK F : IsClosing(F, b) /\ \A i \in 1..(Len(b) + 2) : ClosingQuote(b, i) = F[i]
    BY ClosingEq
  <1>2. p \in 1..(Len(b) + 2) /\ p + 1 \in 1..(Len(b) + 2) /\ p + 2 \in 1..(Len(b) + 2) /\ ~(p > Len(b))
    OBVIOUS
  <1>3. F[p] = IF p > Len(b) THEN 0 ELSE IF b[p] = Backslash THEN F[p + 2]
               ELSE IF b[p] = Quote THEN p ELSE F[p + 1]
    BY <1>1, <1>2 DEF IsClosing
  <1> QED
    BY <1>1, <1>2, <1>3, Zenon

LEMMA ClosingBound ==
    ASSUME NEW A, NEW b \in Seq(A)
    PROVE  \A p \in 1..(Len(b) + 2) : ClosingQuote(b, p) = 0 \/ ClosingQuote(b, p) \in p..Len(b)
  <1>1. PICK F : IsClosing(F, b) /\ \A i \in 1..(Len(b) + 2) : ClosingQuote(b, i) = F[i]
    BY ClosingEq
  <1>2. PICK n \in Nat : n = Len(b)
    OBVIOUS
  <1>3. PICK N \in Nat : N = n + 2
    BY <1>2
  <1>4. PICK S : S = {p \in 1..N : F[p] = 0 \/ F[p] \in p..n}
    OBVIOUS
  <1>5. ASSUME NEW p \in 1..N, \A q \in (p + 1)..N : q \in S PROVE p \in S
    <2>1. F[p] = IF p > n THEN 0 ELSE IF b[p] = Backslash THEN F[p + 2]
                 ELSE IF b[p] = Quote THEN p ELSE F[p + 1]
      BY <1>1, <1>2, <1>3 DEF IsClosing
    <2>2. CASE p > n
      BY <1>4, <2>1, <2>2
    <2>3. CASE ~(p > n)
      <3>1. p + 1 \in (p + 1)..N /\ p + 2 \in (p + 1)..N /\ p \in p..n
        BY <1>3, <2>3
      <3>2. p + 1 \in S /\ p + 2 \in S
        BY <1>5, <3>1
      <3>3. F[p + 1] = 0 \/ F[p + 1] \in p..n
        BY <1>4, <3>2
      <3>4. F[p + 2] = 0 \/ F[p + 2] \in p..n
        BY <1>4, <3>2
      <3> QED
        BY <1>4, <2>1, <2>3, <3>1, <3>3, <3>4
    <2> QED
      BY <2>2, <2>3
  <1>6. 1..N \subseteq S
    BY <1>5, DownTo
  <1> QED
    BY <1>1, <1>2, <1>3, <1>4, <1>6

(* extract_from_token *)
IsUnescaping(F, s) ==
    F = [i \in 1..(Len(s) + 2) |->
            IF i > Len(s) THEN <<>>
            ELSE IF s[i] # Backslash THEN <<s[i]>> \o F[i + 1]
            ELSE <<s[i + 1]>> \o F[i + 2]]

LEMMA UnescapeEq ==
    ASSUME NEW A, NEW s \in Seq(A)
    PROVE  \E F : IsUnescaping(F, s) /\ Unescape(s) = F[1]
  <1>1. PICK n \in Nat : n = Len(s)
    OBVIOUS
  <1>2. PICK N \in Nat : N = n + 2
    BY <1>1
  <1>c. PICK C : C = {s[i] : i \in 1..N}
    OBVIOUS
  <1>v. PICK V : V = Seq(C)
    OBVIOUS
  <1> DEFINE at(g, i) == IF i > n THEN <<>>
                         ELSE IF s[i] # Backslash THEN <<s[i]>> \o g[i + 1]
                         ELSE <<s[i + 1]>> \o g[i + 2]
  <1>3. PICK step : step = [i \in 1..N |-> [g \in [1..N -> V] |-> at(g, i)]]
    OBVIOUS
  <1>j. ASSUME NEW x \in C, NEW w \in V PROVE <<x>> \o w \in V
    BY <1>v
  <1>4. ASSUME NEW i \in 1..N, NEW g \in [1..N -> V] PROVE at(g, i) \in V
    <2>1. <<>> \in V
      BY <1>v
    <2>2. CASE i > n
      BY <2>1, <2>2
    <2>3. CASE ~(i > n)
      <3>1. s[i] \in C /\ s[i + 1] \in C /\ g[i + 1] \in V /\ g[i + 2] \in V
        BY <1>2, <1>c, <2>3
      <3>2. <<s[i]>> \o g[i + 1] \in V /\ <<s[i + 1]>> \o g[i + 2] \in V
        BY <1>j, <3>1
      <3> QED
        BY <2>3, <3>2
    <2> QED
      BY <2>2, <2>3
  <1>5. step \in [1..N -> [[1..N -> V] -> V]]
    BY <1>3, <1>4
  <1>6. ASSUME NEW g \in [1..N -> V], NEW h \in [1..N -> V], NEW p \in 1..N,
               \A q \in (p + 1)..N : g[q] = h[q]
        PROVE  step[p][g] = step[p][h]
    <2>1. p <= n => g[p + 1] = h[p + 1] /\ g[p + 2] = h[p + 2]
      BY <1>2, <1>6
    <2>2. at(g, p) = at(h, p)
      BY <2>1
    <2> QED
      BY <1>3, <2>2
  <1>b. Backward(step, N, V)
    BY <1>5, <1>6 DEF Backward
  <1>7. PICK f : Solves(f, step, N, V)
    <2>0. <<>> \in V
      BY <1>v
    <2>1. V # {}
      BY <2>0
    <2> QED
      BY <1>b, <2>1, FromTheEnd
  <1>8. f \in [1..N -> V] /\ \A p \in 1..N : f[p] = at(f, p)
    BY <1>3, <1>7 DEF Solves
  <1>9. f = [i \in 1..N |-> at(f, i)]
    BY <1>8
  <1>10. IsUnescaping(f, s)
    BY <1>1, <1>2, <1>9 DEF IsUnescaping
  <1>11. PICK F : F = CHOOSE g : IsUnescaping(g, s)
    OBVIOUS
  <1>12. IsUnescaping(F, s)
    BY <1>10, <1>11
  <1>13. Unescape(s) = F[1]
    BY <1>11 DEF Unescape, IsUnescaping
  <1> QED
    BY <1>12, <1>13

-----------------------------------------------------------------------------
(* next_token *)

(* Where blanks and texts end. *)
LEMMA SkipBlanksAt ==
    ASSUME NEW A, NEW b \in Seq(A), NEW p \in 1..(Len(b) + 1), NEW q \in p..(Len(b) + 1),
           \A i \in p..(q - 1) : b[i] \in Blanks, q = Len(b) + 1 \/ b[q] \notin Blanks
    PROVE  SkipBlanks(b, p) = q
  <1>1. PICK r : r = SkipBlanks(b, p)
    OBVIOUS
  <1>2. /\ r \in p..(Len(b) + 1)
        /\ \A i \in p..(r - 1) : b[i] \in Blanks
        /\ r = Len(b) + 1 \/ b[r] \notin Blanks
    BY <1>1, Zenon DEF SkipBlanks
  <1>3. ~(r < q) /\ ~(q < r)
    BY <1>2
  <1> QED
    BY <1>1, <1>2, <1>3

LEMMA SkipBlanksIn ==
    ASSUME NEW A, NEW b \in Seq(A), NEW p \in 1..(Len(b) + 1)
    PROVE  /\ SkipBlanks(b, p) \in p..(Len(b) + 1)
           /\ SkipBlanks(b, p) = Len(b) + 1 \/ b[SkipBlanks(b, p)] \notin Blanks
  <1>1. PICK T : T = {q \in p..(Len(b) + 1) : q = Len(b) + 1 \/ b[q] \notin Blanks}
    OBVIOUS
  <1>2. T \in SUBSET Nat /\ T # {}
    <2>1. Len(b) + 1 \in T
      BY <1>1
    <2> QED
      BY <1>1, <2>1
  <1>3. PICK q \in T : \A m \in T : q <= m
    BY <1>2, LeastNumber
  <1>4. \A i \in p..(q - 1) : b[i] \in Blanks
    BY <1>1, <1>3
  <1>5. SkipBlanks(b, p) = q
    BY <1>1, <1>3, <1>4, SkipBlanksAt
  <1> QED
    BY <1>1, <1>3, <1>5

LEMMA TextEndAt ==
    ASSUME NEW A, NEW b \in Seq(A), NEW p \in 1..(Len(b) + 1), NEW e \in p..(Len(b) + 1),
           \A i \in p..(e - 1) : b[i] \notin Whitespace, e = Len(b) + 1 \/ b[e] \in Whitespace
    PROVE  TextEnd(b, p) = e
  <1>1. PICK r : r = TextEnd(b, p)
    OBVIOUS
  <1>2. /\ r \in p..(Len(b) + 1)
        /\ \A i \in p..(r - 1) : b[i] \notin Whitespace
        /\ r = Len(b) + 1 \/ b[r] \in Whitespace
    BY <1>1, Zenon DEF TextEnd
  <1>3. ~(r < e) /\ ~(e < r)
    BY <1>2
  <1> QED
    BY <1>1, <1>2, <1>3

LEMMA TextEndIn ==
    ASSUME NEW A, NEW b \in Seq(A), NEW p \in 1..Len(b), b[p] \notin Whitespace
    PROVE  TextEnd(b, p) \in (p + 1)..(Len(b) + 1)
  <1>1. PICK T : T = {q \in p..(Len(b) + 1) : q = Len(b) + 1 \/ b[q] \in Whitespace}
    OBVIOUS
  <1>2. T \in SUBSET Nat /\ T # {}
    <2>1. Len(b) + 1 \in T
      BY <1>1
    <2> QED
      BY <1>1, <2>1
  <1>3. PICK q \in T : \A m \in T : q <= m
    BY <1>2, LeastNumber
  <1>4. \A i \in p..(q - 1) : b[i] \notin Whitespace
    BY <1>1, <1>3
  <1>5. TextEnd(b, p) = q
    BY <1>1, <1>3, <1>4, TextEndAt
  <1>6. q # p
    BY <1>1, <1>3
  <1> QED
    BY <1>1, <1>3, <1>5, <1>6

-----------------------------------------------------------------------------
(* escape_nut_str *)
IsEscaping(F, s) ==
    F = [i \in 1..(Len(s) + 1) |-> IF i = 1 THEN <<>> ELSE F[i - 1] \o Escaped(s[i - 1])]

(* The states of the loop *)
Escapes(f, s, A) ==
    /\ f \in [1..(Len(s) + 1) -> Seq(A)]
    /\ f[1] = <<>>
    /\ \A i \in 1..Len(s) : f[i + 1] = f[i] \o Escaped(s[i])
    /\ Escape(s) = f[Len(s) + 1]

LEMMA EscapedText == ASSUME NEW A, Backslash \in A, NEW c \in A PROVE Escaped(c) \in Seq(A)
  BY DEF Escaped

LEMMA EscapeLoop ==
    ASSUME NEW A, Backslash \in A, NEW s \in Seq(A)
    PROVE  \E f : Escapes(f, s, A)
  <1>1. PICK n \in Nat : n = Len(s)
    OBVIOUS
  <1>2. PICK V : V = Seq(A)
    OBVIOUS
  <1>3. PICK step : step = [i \in 1..n |-> [w \in V |-> w \o Escaped(s[i])]]
    OBVIOUS
  <1>4. ASSUME NEW i \in 1..n, NEW w \in V PROVE w \o Escaped(s[i]) \in V
    <2>1. s[i] \in A
      BY <1>1
    <2>2. PICK x \in Seq(A) : x = Escaped(s[i])
      BY <2>1, EscapedText
    <2> QED
      BY <1>2, <2>2
  <1>5. step \in [1..n -> [V -> V]]
    BY <1>3, <1>4
  <1>6. PICK f : IsLoop(f, n, V, <<>>, step)
    <2>1. <<>> \in V
      BY <1>2
    <2> QED
      BY <1>5, <2>1, LoopExists
  <1>7. f \in [1..(n + 1) -> V] /\ f[1] = <<>>
    BY <1>6 DEF IsLoop
  <1>8. ASSUME NEW i \in 1..n PROVE f[i + 1] = f[i] \o Escaped(s[i])
    <2>1. f[i] \in V /\ f[i + 1] = step[i][f[i]]
      BY <1>6, <1>7 DEF IsLoop
    <2> QED
      BY <1>3, <2>1
  <1>9. \A i \in 1..(n + 1) : i # 1 => i - 1 \in 1..n /\ (i - 1) + 1 = i
    OBVIOUS
  <1>10. \A i \in 1..(n + 1) : f[i] = IF i = 1 THEN <<>> ELSE f[i - 1] \o Escaped(s[i - 1])
    BY <1>7, <1>8, <1>9, Zenon
  <1>11. f = [i \in 1..(n + 1) |-> IF i = 1 THEN <<>> ELSE f[i - 1] \o Escaped(s[i - 1])]
    BY <1>7, <1>10
  <1>12. IsEscaping(f, s)
    BY <1>1, <1>11, Zenon DEF IsEscaping
  <1>13. PICK F : F = CHOOSE g : IsEscaping(g, s)
    OBVIOUS
  <1>14. IsEscaping(F, s)
    BY <1>12, <1>13
  <1>15. Escape(s) = F[n + 1]
    BY <1>1, <1>13 DEF Escape, IsEscaping
  <1>16. F = [i \in 1..(n + 1) |-> IF i = 1 THEN <<>> ELSE F[i - 1] \o Escaped(s[i - 1])]
    BY <1>1, <1>14, Zenon DEF IsEscaping
  <1>17. F[1] = <<>>
    BY <1>16
  <1>18. ASSUME NEW i \in 1..n PROVE F[i + 1] = F[i] \o Escaped(s[i])
    <2>1. i + 1 \in 1..(n + 1) /\ i + 1 # 1 /\ (i + 1) - 1 = i
      OBVIOUS
    <2> QED
      BY <1>16, <2>1
  <1>19. PICK S : S = {i \in 1..(n + 1) : F[i] \in V}
    OBVIOUS
  <1>20. 1 \in S
    <2>1. <<>> \in V
      BY <1>2
    <2> QED
      BY <1>17, <1>19, <2>1
  <1>21. ASSUME NEW i \in 1..n, i \in S PROVE i + 1 \in S
    <2>1. F[i] \in V /\ i + 1 \in 1..(n + 1)
      BY <1>19, <1>21
    <2>2. F[i + 1] \in V
      BY <1>4, <1>18, <2>1
    <2> QED
      BY <1>19, <2>1, <2>2
  <1>22. 1..(n + 1) \subseteq S
    BY <1>20, <1>21, EachRound
  <1>23. \A i \in 1..(n + 1) : F[i] \in V
    BY <1>19, <1>22
  <1>24. F \in [1..(n + 1) -> V]
    BY <1>16, <1>23
  <1>25. \A i \in 1..n : F[i + 1] = F[i] \o Escaped(s[i])
    BY <1>18
  <1> QED
    BY <1>1, <1>2, <1>15, <1>17, <1>24, <1>25, Zenon DEF Escapes

(* e holds the characters of s, the one at i at at[i], behind a backslash  *)
(* if it needs one.                                                        *)
Encodes(at, e, s) ==
    /\ at \in [1..(Len(s) + 1) -> 1..(Len(e) + 1)]
    /\ at[1] = 1
    /\ at[Len(s) + 1] = Len(e) + 1
    /\ \A i \in 1..Len(s) :
          IF s[i] \in {Quote, Backslash}
            THEN e[at[i]] = Backslash /\ e[at[i] + 1] = s[i] /\ at[i + 1] = at[i] + 2
            ELSE e[at[i]] = s[i] /\ at[i + 1] = at[i] + 1

LEMMA Joined ==
    ASSUME NEW A, NEW v \in Seq(A), NEW w \in Seq(A)
    PROVE  /\ v \o w \in Seq(A)
           /\ Len(v \o w) = Len(v) + Len(w)
           /\ \A k \in 1..Len(v) : (v \o w)[k] = v[k]
           /\ \A k \in 1..Len(w) : (v \o w)[Len(v) + k] = w[k]
  <1>1. v \o w \in Seq(A) /\ Len(v \o w) = Len(v) + Len(w)
    OBVIOUS
  <1>2. \A k \in 1..Len(v) : (v \o w)[k] = v[k]
    OBVIOUS
  <1>3. \A k \in 1..Len(w) : (v \o w)[Len(v) + k] = w[k]
    OBVIOUS
  <1> QED
    BY <1>1, <1>2, <1>3

LEMMA EscapedLen ==
    ASSUME NEW A, Backslash \in A, NEW c \in A, NEW w \in Seq(A)
    PROVE  /\ w \o Escaped(c) \in Seq(A)
           /\ \A k \in 1..Len(w) : (w \o Escaped(c))[k] = w[k]
           /\ IF c \in {Quote, Backslash}
                THEN /\ Len(w \o Escaped(c)) = Len(w) + 2
                     /\ (w \o Escaped(c))[Len(w) + 1] = Backslash
                     /\ (w \o Escaped(c))[Len(w) + 2] = c
                ELSE /\ Len(w \o Escaped(c)) = Len(w) + 1
                     /\ (w \o Escaped(c))[Len(w) + 1] = c
  <1>1. CASE c \in {Quote, Backslash}
    <2>0. <<Backslash, c>> \in Seq(A)
      OBVIOUS
    <2>1. PICK x \in Seq(A) : x = <<Backslash, c>>
      BY <2>0, Zenon
    <2>2. Escaped(c) = x
      BY <1>1, <2>1, Zenon DEF Escaped
    <2>3. Len(x) = 2 /\ x[1] = Backslash /\ x[2] = c
      BY <2>1
    <2>4. /\ w \o x \in Seq(A)
          /\ \A k \in 1..Len(w) : (w \o x)[k] = w[k]
          /\ Len(w \o x) = Len(w) + 2
          /\ (w \o x)[Len(w) + 1] = Backslash
          /\ (w \o x)[Len(w) + 2] = c
      <3>1. /\ w \o x \in Seq(A)
            /\ Len(w \o x) = Len(w) + Len(x)
            /\ \A k \in 1..Len(w) : (w \o x)[k] = w[k]
            /\ \A k \in 1..Len(x) : (w \o x)[Len(w) + k] = x[k]
        BY Joined
      <3>2. 1 \in 1..Len(x) /\ 2 \in 1..Len(x)
        BY <2>3
      <3> QED
        BY <2>3, <3>1, <3>2, Zenon
    <2> QED
      BY <1>1, <2>2, <2>4, Zenon
  <1>2. CASE c \notin {Quote, Backslash}
    <2>0. <<c>> \in Seq(A)
      OBVIOUS
    <2>1. PICK x \in Seq(A) : x = <<c>>
      BY <2>0, Zenon
    <2>2. Escaped(c) = x
      BY <1>2, <2>1, Zenon DEF Escaped
    <2>3. Len(x) = 1 /\ x[1] = c
      BY <2>1
    <2>4. /\ w \o x \in Seq(A)
          /\ \A k \in 1..Len(w) : (w \o x)[k] = w[k]
          /\ Len(w \o x) = Len(w) + 1
          /\ (w \o x)[Len(w) + 1] = c
      <3>1. /\ w \o x \in Seq(A)
            /\ Len(w \o x) = Len(w) + Len(x)
            /\ \A k \in 1..Len(w) : (w \o x)[k] = w[k]
            /\ \A k \in 1..Len(x) : (w \o x)[Len(w) + k] = x[k]
        BY Joined
      <3>2. 1 \in 1..Len(x)
        BY <2>3
      <3> QED
        BY <2>3, <3>1, <3>2, Zenon
    <2> QED
      BY <1>2, <2>2, <2>4, Zenon
  <1> QED
    BY <1>1, <1>2

(* w begins with v. *)
Begins(v, w) == Len(v) <= Len(w) /\ \A k \in 1..Len(v) : w[k] = v[k]

(* The text that is written only grows. *)
LEMMA EscapeGrows ==
    ASSUME NEW A, Backslash \in A, NEW s \in Seq(A), NEW f, Escapes(f, s, A)
    PROVE  \A i \in 1..(Len(s) + 1) : Begins(f[i], f[Len(s) + 1])
  <1>1. PICK n \in Nat : n = Len(s)
    OBVIOUS
  <1>2. /\ f \in [1..(n + 1) -> Seq(A)]
        /\ \A i \in 1..n : f[i + 1] = f[i] \o Escaped(s[i])
    BY <1>1, Zenon DEF Escapes
  <1>3. PICK N \in Nat : N = n + 1
    OBVIOUS
  <1>4. PICK S : S = {i \in 1..N : Begins(f[i], f[N])}
    OBVIOUS
  <1>5. ASSUME NEW p \in 1..N, \A q \in (p + 1)..N : q \in S PROVE p \in S
    <2>1. CASE p = N
      <3>1. PICK x \in Seq(A) : x = f[N]
        BY <1>2, <1>3
      <3>2. Begins(x, x)
        BY DEF Begins
      <3> QED
        BY <1>4, <2>1, <3>1, <3>2
    <2>2. CASE p # N
      <3>1. p \in 1..n /\ p + 1 \in 1..N /\ p + 1 \in (p + 1)..N
        BY <1>3, <2>2
      <3>2. Begins(f[p + 1], f[N])
        BY <1>4, <1>5, <3>1
      <3>3. PICK x \in Seq(A) : x = f[p]
        BY <1>2, <1>3
      <3>4. PICK y \in Seq(A) : y = f[p + 1]
        BY <1>2, <1>3, <3>1
      <3>5. PICK z \in Seq(A) : z = f[N]
        BY <1>2, <1>3
      <3>6. s[p] \in A
        BY <1>1, <3>1
      <3>7. y = x \o Escaped(s[p])
        BY <1>2, <3>1, <3>3, <3>4
      <3>8. Len(x) <= Len(y) /\ \A k \in 1..Len(x) : y[k] = x[k]
        <4>1. \A k \in 1..Len(x) : y[k] = x[k]
          BY <3>6, <3>7, EscapedLen
        <4>2. Len(y) = Len(x) + 2 \/ Len(y) = Len(x) + 1
          BY <3>6, <3>7, EscapedLen, SMTT(30)
        <4> QED
          BY <4>1, <4>2
      <3>9. Len(y) <= Len(z) /\ \A k \in 1..Len(y) : z[k] = y[k]
        BY <3>2, <3>4, <3>5, Zenon DEF Begins
      <3>10. Begins(x, z)
        BY <3>8, <3>9 DEF Begins
      <3> QED
        BY <1>4, <3>3, <3>5, <3>10, Zenon
    <2> QED
      BY <2>1, <2>2
  <1>6. 1..N \subseteq S
    BY <1>5, DownTo
  <1> QED
    BY <1>1, <1>3, <1>4, <1>6

LEMMA EscapeEncodes ==
    ASSUME NEW A, Backslash \in A, NEW s \in Seq(A)
    PROVE  Escape(s) \in Seq(A) /\ \E at : Encodes(at, Escape(s), s)
  <1>0. PICK f : Escapes(f, s, A)
    BY EscapeLoop
  <1>1. PICK n \in Nat : n = Len(s)
    OBVIOUS
  <1>2. /\ f \in [1..(n + 1) -> Seq(A)]
        /\ f[1] = <<>>
        /\ \A i \in 1..n : f[i + 1] = f[i] \o Escaped(s[i])
        /\ Escape(s) = f[n + 1]
    BY <1>0, <1>1, Zenon DEF Escapes
  <1>3. PICK e \in Seq(A) : e = Escape(s)
    BY <1>2
  <1>4. \A i \in 1..(n + 1) : f[i] \in Seq(A) /\ Len(f[i]) \in Nat
    BY <1>2
  <1>5. \A i \in 1..(n + 1) : Len(f[i]) <= Len(e) /\ \A k \in 1..Len(f[i]) : e[k] = f[i][k]
    BY <1>0, <1>1, <1>2, <1>3, EscapeGrows DEF Begins
  <1>6. PICK at : at = [i \in 1..(n + 1) |-> Len(f[i]) + 1]
    OBVIOUS
  <1>7. at \in [1..(n + 1) -> 1..(Len(e) + 1)]
    <2> SUFFICES ASSUME NEW i \in 1..(n + 1) PROVE Len(f[i]) + 1 \in 1..(Len(e) + 1)
      BY <1>6
    <2> QED
      BY <1>4, <1>5
  <1>8. at[1] = 1
    <2>1. Len(<<>>) = 0
      OBVIOUS
    <2> QED
      BY <1>2, <1>6, <2>1
  <1>9. at[n + 1] = Len(e) + 1
    BY <1>2, <1>3, <1>6
  <1>10. ASSUME NEW i \in 1..n
         PROVE  IF s[i] \in {Quote, Backslash}
                  THEN e[at[i]] = Backslash /\ e[at[i] + 1] = s[i] /\ at[i + 1] = at[i] + 2
                  ELSE e[at[i]] = s[i] /\ at[i + 1] = at[i] + 1
    <2>1. i \in 1..(n + 1) /\ i + 1 \in 1..(n + 1) /\ s[i] \in A
      BY <1>1
    <2>2. PICK w \in Seq(A) : w = f[i]
      BY <1>4, <2>1
    <2>3. PICK y \in Seq(A) : y = f[i + 1]
      BY <1>4, <2>1
    <2>4. y = w \o Escaped(s[i])
      BY <1>2, <2>2, <2>3
    <2>5. at[i] = Len(w) + 1 /\ at[i + 1] = Len(y) + 1
      BY <1>6, <2>1, <2>2, <2>3
    <2>6. \A k \in 1..Len(y) : e[k] = y[k]
      BY <1>5, <2>1, <2>3
    <2>c. PICK c \in A : c = s[i]
      BY <2>1
    <2>7. CASE s[i] \in {Quote, Backslash}
      <3>1. Len(y) = Len(w) + 2 /\ y[Len(w) + 1] = Backslash /\ y[Len(w) + 2] = s[i]
        <4>1. IF c \in {Quote, Backslash}
                THEN Len(w \o Escaped(c)) = Len(w) + 2 /\ (w \o Escaped(c))[Len(w) + 1] = Backslash
                       /\ (w \o Escaped(c))[Len(w) + 2] = c
                ELSE TRUE
          BY EscapedLen, ZenonT(40)
        <4> QED
          BY <2>4, <2>7, <2>c, <4>1, Zenon
      <3>2. e[Len(w) + 1] = Backslash /\ e[Len(w) + 2] = s[i]
        BY <2>6, <3>1
      <3> QED
        BY <2>5, <2>7, <3>1, <3>2
    <2>8. CASE s[i] \notin {Quote, Backslash}
      <3>1. Len(y) = Len(w) + 1 /\ y[Len(w) + 1] = s[i]
        <4>1. IF c \in {Quote, Backslash}
                THEN TRUE
                ELSE Len(w \o Escaped(c)) = Len(w) + 1 /\ (w \o Escaped(c))[Len(w) + 1] = c
          BY EscapedLen, ZenonT(40)
        <4> QED
          BY <2>4, <2>8, <2>c, <4>1, Zenon
      <3>2. e[Len(w) + 1] = s[i]
        BY <2>6, <3>1
      <3> QED
        BY <2>5, <2>8, <3>1, <3>2
    <2> QED
      BY <2>7, <2>8
  <1>11. Encodes(at, e, s)
    BY <1>1, <1>7, <1>8, <1>9, <1>10 DEF Encodes
  <1> QED
    BY <1>3, <1>11

(* A text without quotes and backslashes is left as it is. *)
LEMMA EscapePlain ==
    ASSUME NEW A, Backslash \in A, NEW s \in Seq(A),
           \A i \in 1..Len(s) : s[i] \notin {Quote, Backslash}
    PROVE  Escape(s) = s
  <1>1. PICK e \in Seq(A) : e = Escape(s)
    BY EscapeEncodes
  <1>2. PICK at : Encodes(at, e, s)
    BY <1>1, EscapeEncodes
  <1>3. PICK n \in Nat : n = Len(s)
    OBVIOUS
  <1>4. /\ at[1] = 1
        /\ at[n + 1] = Len(e) + 1
        /\ \A i \in 1..n : e[at[i]] = s[i] /\ at[i + 1] = at[i] + 1
    BY <1>2, <1>3 DEF Encodes
  <1>5. PICK S : S = {i \in 1..(n + 1) : at[i] = i}
    OBVIOUS
  <1>6. 1 \in S
    BY <1>4, <1>5
  <1>7. ASSUME NEW i \in 1..n, i \in S PROVE i + 1 \in S
    BY <1>4, <1>5, <1>7
  <1>8. 1..(n + 1) \subseteq S
    BY <1>6, <1>7, EachRound
  <1>9. Len(e) = n
    BY <1>4, <1>5, <1>8
  <1>10. \A i \in 1..n : e[i] = s[i]
    <2>1. \A i \in 1..n : at[i] = i
      BY <1>5, <1>8
    <2> QED
      BY <1>4, <2>1, Zenon
  <1>11. e = s
    BY <1>3, <1>9, <1>10
  <1> QED
    BY <1>1, <1>11

(* What is written is read back. *)
LEMMA UnescapeEscape ==
    ASSUME NEW A, Backslash \in A, NEW s \in Seq(A)
    PROVE  Unescape(Escape(s)) = s
  <1>1. PICK e \in Seq(A) : e = Escape(s)
    BY EscapeEncodes
  <1>2. PICK at : Encodes(at, e, s)
    BY <1>1, EscapeEncodes
  <1>3. PICK n \in Nat : n = Len(s)
    OBVIOUS
  <1>m. PICK m \in Nat : m = Len(e)
    OBVIOUS
  <1>4. /\ at \in [1..(n + 1) -> 1..(m + 1)]
        /\ at[1] = 1
        /\ at[n + 1] = m + 1
        /\ \A i \in 1..n :
              IF s[i] \in {Quote, Backslash}
                THEN e[at[i]] = Backslash /\ e[at[i] + 1] = s[i] /\ at[i + 1] = at[i] + 2
                ELSE e[at[i]] = s[i] /\ at[i + 1] = at[i] + 1
    BY <1>2, <1>3, <1>m, Zenon DEF Encodes
  <1>5. PICK F : IsUnescaping(F, e) /\ Unescape(e) = F[1]
    BY UnescapeEq
  <1>6. \A p \in 1..(m + 2) :
           F[p] = IF p > m THEN <<>>
                  ELSE IF e[p] # Backslash THEN <<e[p]>> \o F[p + 1]
                  ELSE <<e[p + 1]>> \o F[p + 2]
    BY <1>5, <1>m DEF IsUnescaping
  (* the characters from i on are read from at[i] on *)
  <1> DEFINE Rest(w, i) == /\ w \in Seq(A)
                           /\ Len(w) = (n + 1) - i
                           /\ \A k \in 1..((n + 1) - i) : w[k] = s[(i + k) - 1]
  <1>7. PICK N \in Nat : N = n + 1
    OBVIOUS
  <1>8. PICK S : S = {i \in 1..N : Rest(F[at[i]], i)}
    OBVIOUS
  <1>9. ASSUME NEW i \in 1..N, \A q \in (i + 1)..N : q \in S PROVE i \in S
    <2>1. CASE i = N
      <3>1. F[at[i]] = <<>>
        <4>1. at[i] = m + 1 /\ m + 1 \in 1..(m + 2) /\ m + 1 > m
          BY <1>4, <1>7, <2>1
        <4> QED
          BY <1>6, <4>1
      <3>2. <<>> \in Seq(A) /\ Len(<<>>) = 0
        OBVIOUS
      <3>3. Rest(<<>>, i)
        BY <1>7, <2>1, <3>2
      <3> QED
        BY <1>8, <3>1, <3>3
    <2>2. CASE i # N
      <3>1. i \in 1..n /\ i + 1 \in 1..N /\ i + 1 \in (i + 1)..N
        BY <1>7, <2>2
      <3>2. PICK w : w = F[at[i + 1]]
        OBVIOUS
      <3>3. Rest(w, i + 1)
        <4>1. i + 1 \in S
          BY <1>9, <3>1
        <4> QED
          BY <1>8, <3>2, <4>1
      <3>4. at[i] \in 1..(m + 1) /\ at[i + 1] \in 1..(m + 1)
        BY <1>4, <1>7, <3>1
      <3>5. F[at[i]] = <<s[i]>> \o w
        <4>1. CASE s[i] \in {Quote, Backslash}
          <5>1. e[at[i]] = Backslash /\ e[at[i] + 1] = s[i] /\ at[i + 1] = at[i] + 2
            BY <1>4, <3>1, <4>1
          <5>2. at[i] \in 1..(m + 2) /\ ~(at[i] > m)
            BY <3>4, <5>1
          <5>3. F[at[i]] = <<e[at[i] + 1]>> \o F[at[i] + 2]
            BY <1>6, <5>1, <5>2
          <5> QED
            BY <3>2, <5>1, <5>3
        <4>2. CASE s[i] \notin {Quote, Backslash}
          <5>1. e[at[i]] = s[i] /\ at[i + 1] = at[i] + 1
            BY <1>4, <3>1, <4>2
          <5>2. at[i] \in 1..(m + 2) /\ ~(at[i] > m) /\ s[i] # Backslash
            BY <3>4, <4>2, <5>1
          <5>3. F[at[i]] = <<e[at[i]]>> \o F[at[i] + 1]
            BY <1>6, <5>1, <5>2
          <5> QED
            BY <3>2, <5>1, <5>3
        <4> QED
          BY <4>1, <4>2
      <3>6. s[i] \in A
        BY <1>3, <3>1
      <3>7. PICK c \in Seq(A) : c = <<s[i]>> /\ Len(c) = 1 /\ c[1] = s[i]
        <4>1. <<s[i]>> \in Seq(A) /\ Len(<<s[i]>>) = 1 /\ <<s[i]>>[1] = s[i]
          BY <3>6
        <4> QED
          BY <4>1, Zenon
      <3>8. Rest(c \o w, i)
        <4>1. w \in Seq(A) /\ Len(w) = n - i /\ \A k \in 1..(n - i) : w[k] = s[i + k]
          BY <3>3
        <4>2. c \o w \in Seq(A) /\ Len(c \o w) = (n + 1) - i
          <5>1. c \o w \in Seq(A) /\ Len(c \o w) = Len(c) + Len(w)
            BY <4>1, Joined
          <5>2. 1 + (n - i) = (n + 1) - i
            BY <3>1
          <5> QED
            BY <3>7, <4>1, <5>1, <5>2, Zenon
        <4>3. ASSUME NEW k \in 1..((n + 1) - i) PROVE (c \o w)[k] = s[(i + k) - 1]
          <5>1. CASE k = 1
            <6>1. (c \o w)[1] = c[1]
              BY <3>7, <4>1, Joined
            <6>2. (i + 1) - 1 = i
              OBVIOUS
            <6> QED
              BY <3>7, <5>1, <6>1, <6>2
          <5>2. CASE k # 1
            <6>1. k - 1 \in 1..(n - i) /\ Len(c) + (k - 1) = k /\ i + (k - 1) = (i + k) - 1
              BY <3>1, <3>7, <5>2
            <6>2. (c \o w)[Len(c) + (k - 1)] = w[k - 1]
              BY <4>1, <6>1, Joined
            <6> QED
              BY <4>1, <6>1, <6>2
          <5> QED
            BY <5>1, <5>2
        <4> QED
          BY <4>2, <4>3
      <3> QED
        BY <1>8, <3>5, <3>7, <3>8
    <2> QED
      BY <2>1, <2>2
  <1>10. 1..N \subseteq S
    BY <1>9, DownTo
  <1>11. PICK w : w = Unescape(e)
    OBVIOUS
  <1>12. Rest(w, 1)
    BY <1>4, <1>5, <1>7, <1>8, <1>10, <1>11
  <1>13. w \in Seq(A) /\ Len(w) = n /\ \A k \in 1..n : w[k] = s[k]
    BY <1>12
  <1>14. w = s
    BY <1>3, <1>13
  <1> QED
    BY <1>1, <1>11, <1>14

-----------------------------------------------------------------------------
(* The four kinds of token *)
LEMMA Delimiters ==
    /\ Quote # LineFeed /\ Quote # Backslash /\ Quote \notin Blanks /\ LineFeed \notin Blanks
    /\ Quote \notin Whitespace
  BY DEF Quote, LineFeed, Backslash, Blanks, Whitespace

LEMMA NextNone ==
    ASSUME NEW A, NEW b \in Seq(A), NEW p, SkipBlanks(b, p) = Len(b) + 1
    PROVE  NextToken(b, p) = [k |-> "none", v |-> <<>>, next |-> Len(b) + 1]
  <1>1. PICK q \in Nat : q = Len(b) + 1
    OBVIOUS
  <1>2. q > Len(b) /\ ~(q <= Len(b))
    BY <1>1
  <1> QED
    BY <1>1, <1>2 DEF NextToken

LEMMA NextLineFeed ==
    ASSUME NEW A, NEW b \in Seq(A), NEW p, NEW q \in 1..Len(b), q = SkipBlanks(b, p), b[q] = LineFeed
    PROVE  NextToken(b, p) = [k |-> "lf", v |-> <<LineFeed>>, next |-> q + 1]
  <1>1. ~(q > Len(b)) /\ q <= Len(b) /\ b[q] # Quote
    BY Delimiters
  <1> QED
    BY <1>1 DEF NextToken

LEMMA NextQuoted ==
    ASSUME NEW A, NEW b \in Seq(A), NEW p, NEW q \in 1..Len(b), q = SkipBlanks(b, p), b[q] = Quote
    PROVE  NextToken(b, p) =
             IF ClosingQuote(b, q + 1) = 0 THEN [k |-> "error", v |-> <<>>, next |-> q]
             ELSE [k |-> "quoted", v |-> Unescape(SubSeq(b, q + 1, ClosingQuote(b, q + 1) - 1)),
                   next |-> ClosingQuote(b, q + 1) + 1]
  <1>1. ~(q > Len(b)) /\ q <= Len(b) /\ b[q] # LineFeed
    BY Delimiters
  <1> QED
    BY <1>1 DEF NextToken

LEMMA NextText ==
    ASSUME NEW A, NEW b \in Seq(A), NEW p, NEW q \in 1..Len(b), q = SkipBlanks(b, p),
           b[q] # Quote, b[q] # LineFeed
    PROVE  NextToken(b, p) =
             [k |-> "text", v |-> SubSeq(b, q, TextEnd(b, q) - 1), next |-> TextEnd(b, q)]
  <1>1. ~(q > Len(b)) /\ q <= Len(b)
    OBVIOUS
  <1> QED
    BY <1>1 DEF NextToken

(* A token takes at least one character. *)
LEMMA NextTokenIn ==
    ASSUME NEW A, NEW b \in Seq(A), NEW p \in 1..(Len(b) + 1),
           NextToken(b, p).k # "none", NextToken(b, p).k # "error"
    PROVE  NextToken(b, p).next \in (p + 1)..(Len(b) + 1)
  <1>1. PICK q \in p..(Len(b) + 1) : q = SkipBlanks(b, p)
    BY SkipBlanksIn
  <1>2. CASE q > Len(b)
    <2>1. q = Len(b) + 1
      BY <1>2
    <2>2. NextToken(b, p) = [k |-> "none", v |-> <<>>, next |-> Len(b) + 1]
      BY <1>1, <2>1, NextNone, Zenon
    <2> QED
      BY <2>2
  <1>3. CASE ~(q > Len(b))
    <2>1. q \in 1..Len(b) /\ q + 1 \in (p + 1)..(Len(b) + 1) /\ q + 1 \in 1..(Len(b) + 2)
      BY <1>3
    <2>2. CASE b[q] = LineFeed
      BY <1>1, <2>1, <2>2, NextLineFeed
    <2>3. CASE b[q] = Quote
      <3>1. PICK close : close = ClosingQuote(b, q + 1)
        OBVIOUS
      <3>2. close = 0 \/ close \in (q + 1)..Len(b)
        BY <2>1, <3>1, ClosingBound
      <3>3. NextToken(b, p) =
              IF close = 0 THEN [k |-> "error", v |-> <<>>, next |-> q]
              ELSE [k |-> "quoted", v |-> Unescape(SubSeq(b, q + 1, close - 1)), next |-> close + 1]
        BY <1>1, <2>1, <2>3, <3>1, NextQuoted
      <3>4. CASE close = 0
        BY <3>3, <3>4
      <3>5. CASE close # 0
        <4>1. NextToken(b, p).next = close + 1
          BY <3>3, <3>5
        <4>2. close + 1 \in (p + 1)..(Len(b) + 1)
          BY <3>2, <3>5
        <4> QED
          BY <4>1, <4>2
      <3> QED
        BY <3>4, <3>5
    <2>4. CASE b[q] # LineFeed /\ b[q] # Quote
      <3>1. b[q] \notin Blanks
        <4>1. SkipBlanks(b, p) \in p..(Len(b) + 1) /\ (q = Len(b) + 1 \/ b[q] \notin Blanks)
          BY <1>1, SkipBlanksIn
        <4> QED
          BY <2>1, <4>1
      <3>2. b[q] \notin Whitespace
        BY <2>4, <3>1 DEF Whitespace
      <3>3. TextEnd(b, q) \in (q + 1)..(Len(b) + 1)
        BY <2>1, <3>2, TextEndIn
      <3>4. NextToken(b, p).next = TextEnd(b, q)
        BY <1>1, <2>1, <2>4, NextText
      <3> QED
        BY <3>3, <3>4
    <2> QED
      BY <2>2, <2>3, <2>4
  <1> QED
    BY <1>2, <1>3

Tok(kind, text) == [k |-> kind, v |-> text]

(* What Tokens makes of the token t and the function F of the positions    *)
(* behind it                                                               *)
TokenRound(F, t) ==
    CASE t.k = "none" -> <<>>
      [] t.k = "error" -> <<[k |-> "error", v |-> <<>>]>>
      [] OTHER -> <<[k |-> t.k, v |-> t.v]>> \o F[t.next]

IsTokens(F, b) == F = [p \in 1..(Len(b) + 1) |-> TokenRound(F, NextToken(b, p))]

LEMMA TokensFrom ==
    ASSUME NEW A, NEW b \in Seq(A)
    PROVE  \E F : /\ Tokens(b) = F[1]
                  /\ \A p \in 1..(Len(b) + 1) : F[p] = TokenRound(F, NextToken(b, p))
  <1>1. PICK N \in Nat : N = Len(b) + 1
    OBVIOUS
  <1>2. PICK nt : nt = [p \in 1..N |-> NextToken(b, p)]
    OBVIOUS
  <1>t. PICK T : T = {Tok(nt[p].k, nt[p].v) : p \in 1..N} \cup {Tok("error", <<>>)}
    OBVIOUS
  <1>v. PICK V : V = Seq(T)
    OBVIOUS
  <1>3. PICK step : step = [p \in 1..N |-> [g \in [1..N -> V] |-> TokenRound(g, nt[p])]]
    OBVIOUS
  <1>n. ASSUME NEW p \in 1..N, nt[p].k # "none", nt[p].k # "error" PROVE nt[p].next \in (p + 1)..N
    BY <1>1, <1>2, <1>n, NextTokenIn
  <1>e. <<>> \in V
    BY <1>v
  <1>4. ASSUME NEW p \in 1..N, NEW g \in [1..N -> V] PROVE TokenRound(g, nt[p]) \in V
    <2>1. CASE nt[p].k = "none"
      BY <1>e, <2>1 DEF TokenRound
    <2>2. CASE nt[p].k = "error"
      <3>1. Tok("error", <<>>) \in T
        BY <1>t
      <3>2. <<Tok("error", <<>>)>> \in V
        BY <1>v, <3>1
      <3>3. TokenRound(g, nt[p]) = <<Tok("error", <<>>)>>
        BY <2>2 DEF TokenRound, Tok
      <3> QED
        BY <3>2, <3>3
    <2>3. CASE nt[p].k # "none" /\ nt[p].k # "error"
      <3>1. nt[p].next \in 1..N
        BY <1>n, <2>3
      <3>2. PICK w \in V : w = g[nt[p].next]
        BY <3>1
      <3>3. PICK x \in T : x = Tok(nt[p].k, nt[p].v)
        BY <1>t
      <3>4. <<x>> \o w \in V
        BY <1>v
      <3>5. TokenRound(g, nt[p]) = <<x>> \o w
        BY <2>3, <3>2, <3>3, Zenon DEF TokenRound, Tok
      <3> QED
        BY <3>4, <3>5
    <2> QED
      BY <2>1, <2>2, <2>3
  <1>5. step \in [1..N -> [[1..N -> V] -> V]]
    BY <1>3, <1>4
  <1>6. ASSUME NEW g \in [1..N -> V], NEW h \in [1..N -> V], NEW p \in 1..N,
               \A q \in (p + 1)..N : g[q] = h[q]
        PROVE  step[p][g] = step[p][h]
    <2>1. nt[p].k # "none" /\ nt[p].k # "error" => g[nt[p].next] = h[nt[p].next]
      BY <1>n, <1>6
    <2>2. TokenRound(g, nt[p]) = TokenRound(h, nt[p])
      BY <2>1, Zenon DEF TokenRound
    <2> QED
      BY <1>3, <2>2
  <1>b. Backward(step, N, V)
    BY <1>5, <1>6 DEF Backward
  <1>7. PICK f : Solves(f, step, N, V)
    <2>1. V # {}
      BY <1>e
    <2> QED
      BY <1>b, <2>1, FromTheEnd
  <1>8. f \in [1..N -> V] /\ \A p \in 1..N : f[p] = TokenRound(f, nt[p])
    BY <1>3, <1>7 DEF Solves
  <1>9. f = [p \in 1..N |-> TokenRound(f, NextToken(b, p))]
    BY <1>2, <1>8
  <1>10. IsTokens(f, b)
    BY <1>1, <1>9, Zenon DEF IsTokens
  <1>11. PICK F : F = CHOOSE g : IsTokens(g, b)
    OBVIOUS
  <1>12. IsTokens(F, b)
    BY <1>10, <1>11
  <1>13. Tokens(b) = F[1]
    BY <1>11 DEF Tokens, IsTokens, TokenRound
  <1>14. \A p \in 1..(Len(b) + 1) : F[p] = TokenRound(F, NextToken(b, p))
    BY <1>12 DEF IsTokens
  <1> QED
    BY <1>13, <1>14

-----------------------------------------------------------------------------
(* SetVariable::serialize *)

(* w is in b behind the first n characters. *)
LiesAt(b, n, w) == n + Len(w) <= Len(b) /\ \A k \in 1..Len(w) : b[n + k] = w[k]

LEMMA SubSeqAt ==
    ASSUME NEW A, NEW b \in Seq(A), NEW q \in 1..(Len(b) + 1), NEW m \in Nat, q + m <= Len(b) + 1
    PROVE  /\ SubSeq(b, q, (q + m) - 1) \in Seq(A)
           /\ Len(SubSeq(b, q, (q + m) - 1)) = m
           /\ \A k \in 1..m : SubSeq(b, q, (q + m) - 1)[k] = b[(q - 1) + k]
  <1>1. SubSeq(b, q, (q + m) - 1) \in Seq(A)
    OBVIOUS
  <1>2. Len(SubSeq(b, q, (q + m) - 1)) = m
    OBVIOUS
  <1>3. \A k \in 1..m : SubSeq(b, q, (q + m) - 1)[k] = b[(q - 1) + k]
    OBVIOUS
  <1> QED
    BY <1>1, <1>2, <1>3

LEMMA LiesLast ==
    ASSUME NEW A, NEW v \in Seq(A), NEW w \in Seq(A)
    PROVE  LiesAt(v \o w, Len(v), w)
  <1>1. PICK b \in Seq(A) : b = v \o w
    BY Joined, Zenon
  <1>2. Len(b) = Len(v) + Len(w) /\ \A k \in 1..Len(w) : b[Len(v) + k] = w[k]
    <2>1. Len(v \o w) = Len(v) + Len(w) /\ \A k \in 1..Len(w) : (v \o w)[Len(v) + k] = w[k]
      BY Joined
    <2> QED
      BY <1>1, <2>1, Zenon
  <1>3. LiesAt(b, Len(v), w)
    BY <1>2 DEF LiesAt
  <1> QED
    BY <1>1, <1>3

LEMMA LiesFirst ==
    ASSUME NEW A, NEW v \in Seq(A), NEW w \in Seq(A), NEW x \in Seq(A), NEW n \in Nat, LiesAt(v, n, x)
    PROVE  LiesAt(v \o w, n, x)
  <1>1. PICK b \in Seq(A) : b = v \o w
    BY Joined, Zenon
  <1>2. Len(b) = Len(v) + Len(w) /\ \A k \in 1..Len(v) : b[k] = v[k]
    BY <1>1, Joined, Zenon
  <1>3. n + Len(x) <= Len(v) /\ \A k \in 1..Len(x) : v[n + k] = x[k]
    BY DEF LiesAt
  <1>4. \A k \in 1..Len(x) : n + k \in 1..Len(v)
    BY <1>3
  <1>5. LiesAt(b, n, x)
    <2>1. n + Len(x) <= Len(b)
      BY <1>2, <1>3
    <2>2. \A k \in 1..Len(x) : b[n + k] = x[k]
      BY <1>2, <1>3, <1>4, Zenon
    <2> QED
      BY <2>1, <2>2, Zenon DEF LiesAt
  <1> QED
    BY <1>1, <1>5

Verb == <<"S", "E", "T", " ", "V", "A", "R", " ">>
Blank == <<" ">>
Open == <<" ", Quote>>
End == <<Quote, LineFeed>>

(* The characters of a request *)
LineChars == {"S", "E", "T", "V", "A", "R", " ", Quote, LineFeed, Backslash}

LEMMA ShortText ==
    ASSUME NEW A, NEW c1 \in A, NEW c2 \in A
    PROVE  <<c1>> \in Seq(A) /\ <<c1, c2>> \in Seq(A)
  OBVIOUS

LEMMA VerbText ==
    ASSUME NEW A, NEW c1 \in A, NEW c2 \in A, NEW c3 \in A, NEW c4 \in A,
           NEW c5 \in A, NEW c6 \in A, NEW c7 \in A, NEW c8 \in A
    PROVE  <<c1, c2, c3, c4, c5, c6, c7, c8>> \in Seq(A)
  OBVIOUS

LEMMA LineParts ==
    ASSUME NEW A, LineChars \subseteq A
    PROVE  /\ Verb \in Seq(A) /\ Len(Verb) = 8
           /\ Blank \in Seq(A) /\ Len(Blank) = 1 /\ Blank[1] = " "
           /\ Open \in Seq(A) /\ Len(Open) = 2 /\ Open[1] = " " /\ Open[2] = Quote
           /\ End \in Seq(A) /\ Len(End) = 2 /\ End[1] = Quote /\ End[2] = LineFeed
           /\ Verb[1] = "S" /\ Verb[2] = "E" /\ Verb[3] = "T" /\ Verb[4] = " "
           /\ Verb[5] = "V" /\ Verb[6] = "A" /\ Verb[7] = "R" /\ Verb[8] = " "
  <1>0. /\ "S" \in A /\ "E" \in A /\ "T" \in A /\ "V" \in A /\ "A" \in A /\ "R" \in A /\ " " \in A
        /\ Quote \in A /\ LineFeed \in A
    BY Zenon DEF LineChars
  <1>1. Verb \in Seq(A)
    BY <1>0, VerbText, Zenon DEF Verb
  <1>2. Blank \in Seq(A) /\ Open \in Seq(A) /\ End \in Seq(A)
    BY <1>0, ShortText, Zenon DEF Blank, Open, End
  <1>3. /\ Len(Verb) = 8
        /\ Verb[1] = "S" /\ Verb[2] = "E" /\ Verb[3] = "T" /\ Verb[4] = " "
        /\ Verb[5] = "V" /\ Verb[6] = "A" /\ Verb[7] = "R" /\ Verb[8] = " "
    BY DEF Verb
  <1>4. Len(Blank) = 1 /\ Blank[1] = " "
    BY DEF Blank
  <1>5. Len(Open) = 2 /\ Open[1] = " " /\ Open[2] = Quote
    BY DEF Open
  <1>6. Len(End) = 2 /\ End[1] = Quote /\ End[2] = LineFeed
    BY DEF End
  <1> QED
    BY <1>1, <1>2, <1>3, <1>4, <1>5, <1>6

(* A line with the name u of a device, the name v of a variable and the    *)
(* text e between the quotes: what is where                                *)
Line(u, v, e) == Verb \o u \o Blank \o v \o Open \o e \o End

LEMMA LineLayout ==
    ASSUME NEW A, LineChars \subseteq A, NEW u \in Seq(A), NEW v \in Seq(A), NEW e \in Seq(A)
    PROVE  /\ Line(u, v, e) \in Seq(A)
           /\ Len(Line(u, v, e)) = Len(u) + Len(v) + Len(e) + 13
           /\ LiesAt(Line(u, v, e), 0, Verb)
           /\ LiesAt(Line(u, v, e), 8, u)
           /\ LiesAt(Line(u, v, e), 8 + Len(u), Blank)
           /\ LiesAt(Line(u, v, e), 9 + Len(u), v)
           /\ LiesAt(Line(u, v, e), 9 + Len(u) + Len(v), Open)
           /\ LiesAt(Line(u, v, e), 11 + Len(u) + Len(v), e)
           /\ LiesAt(Line(u, v, e), 11 + Len(u) + Len(v) + Len(e), End)
  <1>0. /\ Verb \in Seq(A) /\ Blank \in Seq(A) /\ Open \in Seq(A) /\ End \in Seq(A)
        /\ Len(Verb) = 8 /\ Len(Blank) = 1 /\ Len(Open) = 2 /\ Len(End) = 2
    BY LineParts
  <1>1. PICK l1 \in Seq(A) : l1 = Verb \o u
    BY <1>0, Joined, Zenon
  <1>2. PICK l2 \in Seq(A) : l2 = l1 \o Blank
    BY <1>0, Joined, Zenon
  <1>3. PICK l3 \in Seq(A) : l3 = l2 \o v
    BY Joined, Zenon
  <1>4. PICK l4 \in Seq(A) : l4 = l3 \o Open
    BY <1>0, Joined, Zenon
  <1>5. PICK l5 \in Seq(A) : l5 = l4 \o e
    BY Joined, Zenon
  <1>6. PICK l6 \in Seq(A) : l6 = l5 \o End
    BY <1>0, Joined, Zenon
  <1>7. Line(u, v, e) = l6
    BY <1>1, <1>2, <1>3, <1>4, <1>5, <1>6, Zenon DEF Line
  <1>8. Len(u) \in Nat /\ Len(v) \in Nat /\ Len(e) \in Nat
    OBVIOUS
  <1>9. /\ Len(l1) = 8 + Len(u)
        /\ Len(l2) = Len(l1) + 1
        /\ Len(l3) = Len(l2) + Len(v)
        /\ Len(l4) = Len(l3) + 2
        /\ Len(l5) = Len(l4) + Len(e)
        /\ Len(l6) = Len(l5) + 2
    <2>1. \A x, y \in Seq(A) : Len(x \o y) = Len(x) + Len(y)
      BY Joined, Zenon
    <2>2. Len(l1) = Len(Verb) + Len(u)
      BY <1>0, <1>1, <2>1, Zenon
    <2>3. Len(l2) = Len(l1) + Len(Blank)
      BY <1>0, <1>2, <2>1, Zenon
    <2>4. Len(l3) = Len(l2) + Len(v)
      BY <1>3, <2>1, Zenon
    <2>5. Len(l4) = Len(l3) + Len(Open)
      BY <1>0, <1>4, <2>1, Zenon
    <2>6. Len(l5) = Len(l4) + Len(e)
      BY <1>5, <2>1, Zenon
    <2>7. Len(l6) = Len(l5) + Len(End)
      BY <1>0, <1>6, <2>1, Zenon
    <2> QED
      BY <1>0, <2>2, <2>3, <2>4, <2>5, <2>6, <2>7, Zenon
  <1>10. /\ Len(l1) = 8 + Len(u)
         /\ Len(l2) = 9 + Len(u)
         /\ Len(l3) = 9 + Len(u) + Len(v)
         /\ Len(l4) = 11 + Len(u) + Len(v)
         /\ Len(l5) = 11 + Len(u) + Len(v) + Len(e)
         /\ Len(l6) = Len(u) + Len(v) + Len(e) + 13
    BY <1>8, <1>9
  <1>11. ASSUME NEW n \in Nat, NEW x \in Seq(A), LiesAt(l1, n, x) PROVE LiesAt(l2, n, x)
    BY <1>0, <1>2, <1>11, LiesFirst, Zenon
  <1>12. ASSUME NEW n \in Nat, NEW x \in Seq(A), LiesAt(l2, n, x) PROVE LiesAt(l3, n, x)
    BY <1>3, <1>12, LiesFirst, Zenon
  <1>13. ASSUME NEW n \in Nat, NEW x \in Seq(A), LiesAt(l3, n, x) PROVE LiesAt(l4, n, x)
    BY <1>0, <1>4, <1>13, LiesFirst, Zenon
  <1>14. ASSUME NEW n \in Nat, NEW x \in Seq(A), LiesAt(l4, n, x) PROVE LiesAt(l5, n, x)
    BY <1>5, <1>14, LiesFirst, Zenon
  <1>15. ASSUME NEW n \in Nat, NEW x \in Seq(A), LiesAt(l5, n, x) PROVE LiesAt(l6, n, x)
    BY <1>0, <1>6, <1>15, LiesFirst, Zenon
  <1>16. LiesAt(l1, 0, Verb)
    <2>1. 0 + Len(Verb) <= Len(l1)
      BY <1>0, <1>8, <1>9
    <2>2. \A k \in 1..Len(Verb) : l1[k] = Verb[k]
      BY <1>0, <1>1, Joined, ZenonT(40)
    <2>3. \A k \in 1..Len(Verb) : 0 + k = k
      BY <1>0
    <2> QED
      BY <2>1, <2>2, <2>3, Zenon DEF LiesAt
  <1>17. /\ LiesAt(l1, Len(Verb), u) /\ LiesAt(l2, Len(l1), Blank) /\ LiesAt(l3, Len(l2), v)
         /\ LiesAt(l4, Len(l3), Open) /\ LiesAt(l5, Len(l4), e) /\ LiesAt(l6, Len(l5), End)
    BY <1>0, <1>1, <1>2, <1>3, <1>4, <1>5, <1>6, LiesLast, Zenon
  <1>18. 0 \in Nat /\ Len(Verb) \in Nat /\ Len(l1) \in Nat /\ Len(l2) \in Nat /\ Len(l3) \in Nat /\ Len(l4) \in Nat
    BY <1>0, <1>8, <1>10
  <1>19. /\ LiesAt(l6, 0, Verb) /\ LiesAt(l6, Len(Verb), u) /\ LiesAt(l6, Len(l1), Blank)
         /\ LiesAt(l6, Len(l2), v) /\ LiesAt(l6, Len(l3), Open) /\ LiesAt(l6, Len(l4), e)
         /\ LiesAt(l6, Len(l5), End)
    BY <1>0, <1>11, <1>12, <1>13, <1>14, <1>15, <1>16, <1>17, <1>18, Zenon
  <1> QED
    BY <1>0, <1>7, <1>10, <1>19, Zenon

(* The text between the quotes of a line is closed where it ends. *)
LEMMA ClosedBehind ==
    ASSUME NEW A, NEW b \in Seq(A), NEW s \in Seq(A), NEW e \in Seq(A), NEW at, Encodes(at, e, s),
           NEW n \in Nat, LiesAt(b, n, e), n + Len(e) < Len(b), b[n + Len(e) + 1] = Quote
    PROVE  ClosingQuote(b, n + 1) = n + Len(e) + 1
  <1>1. PICK l \in Nat : l = Len(s)
    OBVIOUS
  <1>2. PICK m \in Nat : m = Len(e)
    OBVIOUS
  <1>3. /\ at \in [1..(l + 1) -> 1..(m + 1)]
        /\ at[1] = 1
        /\ at[l + 1] = m + 1
        /\ \A i \in 1..l :
              IF s[i] \in {Quote, Backslash}
                THEN e[at[i]] = Backslash /\ e[at[i] + 1] = s[i] /\ at[i + 1] = at[i] + 2
                ELSE e[at[i]] = s[i] /\ at[i + 1] = at[i] + 1
    BY <1>1, <1>2, Zenon DEF Encodes
  <1>4. /\ n + m < Len(b)
        /\ b[n + m + 1] = Quote
        /\ \A k \in 1..m : b[n + k] = e[k]
    BY <1>2, Zenon DEF LiesAt
  <1>5. PICK S : S = {i \in 1..(l + 1) : ClosingQuote(b, n + 1) = ClosingQuote(b, n + at[i])}
    OBVIOUS
  <1>6. 1 \in S
    BY <1>3, <1>5
  <1>7. ASSUME NEW i \in 1..l, i \in S PROVE i + 1 \in S
    <2>1. i \in 1..(l + 1) /\ i + 1 \in 1..(l + 1)
      OBVIOUS
    <2>2. at[i] \in 1..(m + 1) /\ at[i + 1] \in 1..(m + 1) /\ (at[i + 1] = at[i] + 2 \/ at[i + 1] = at[i] + 1)
      BY <1>3, <2>1
    <2>3. at[i] \in 1..m
      BY <2>2
    <2>4. n + at[i] \in 1..Len(b) /\ b[n + at[i]] = e[at[i]]
      <3>1. n + at[i] \in 1..Len(b)
        BY <1>4, <2>3, SMTT(30)
      <3> QED
        BY <1>4, <2>3, <3>1, Zenon
    <2>5. ClosingQuote(b, n + at[i]) =
            IF b[n + at[i]] = Backslash THEN ClosingQuote(b, (n + at[i]) + 2)
            ELSE IF b[n + at[i]] = Quote THEN n + at[i] ELSE ClosingQuote(b, (n + at[i]) + 1)
      BY <2>4, ClosingRound
    <2>6. (n + at[i]) + 2 = n + (at[i] + 2) /\ (n + at[i]) + 1 = n + (at[i] + 1)
      BY <2>3
    <2>7. ClosingQuote(b, n + at[i]) = ClosingQuote(b, n + at[i + 1])
      <3>1. CASE s[i] \in {Quote, Backslash}
        <4>1. e[at[i]] = Backslash /\ at[i + 1] = at[i] + 2
          BY <1>3, <3>1
        <4> QED
          BY <2>4, <2>5, <2>6, <4>1, Zenon
      <3>2. CASE s[i] \notin {Quote, Backslash}
        <4>1. e[at[i]] = s[i] /\ at[i + 1] = at[i] + 1 /\ s[i] # Quote /\ s[i] # Backslash
          BY <1>3, <3>2
        <4> QED
          BY <2>4, <2>5, <2>6, <4>1, Zenon
      <3> QED
        BY <3>1, <3>2
    <2> QED
      BY <1>5, <1>7, <2>1, <2>7, Zenon
  <1>8. 1..(l + 1) \subseteq S
    BY <1>6, <1>7, EachRound
  <1>9. l + 1 \in 1..(l + 1)
    OBVIOUS
  <1>10. ClosingQuote(b, n + 1) = ClosingQuote(b, n + (m + 1))
    BY <1>3, <1>5, <1>8, <1>9
  <1>11. n + (m + 1) = n + m + 1 /\ n + m + 1 \in 1..Len(b)
    BY <1>4
  <1>12. ClosingQuote(b, n + m + 1) = n + m + 1
    BY <1>4, <1>11, ClosingRound, Delimiters
  <1> QED
    BY <1>2, <1>10, <1>11, <1>12

LEMMA SameText ==
    ASSUME NEW A, NEW x \in Seq(A), NEW y \in Seq(A), NEW n \in Nat, Len(x) = n, Len(y) = n,
           \A k \in 1..n : x[k] = y[k]
    PROVE  x = y
  OBVIOUS

Found(kind, text, p) == [k |-> kind, v |-> text, next |-> p]

LEMMA SkipNone ==
    ASSUME NEW A, NEW b \in Seq(A), NEW p \in 1..Len(b), b[p] \notin Blanks
    PROVE  SkipBlanks(b, p) = p
  <1>1. p \in 1..(Len(b) + 1) /\ p \in p..(Len(b) + 1) /\ \A i \in p..(p - 1) : b[i] \in Blanks
    OBVIOUS
  <1> QED
    BY <1>1, SkipBlanksAt

LEMMA SkipOne ==
    ASSUME NEW A, NEW b \in Seq(A), NEW p \in 1..Len(b), p + 1 <= Len(b), b[p] \in Blanks, b[p + 1] \notin Blanks
    PROVE  SkipBlanks(b, p) = p + 1
  <1>1. p \in 1..(Len(b) + 1) /\ p + 1 \in p..(Len(b) + 1)
    OBVIOUS
  <1>2. \A i \in p..((p + 1) - 1) : b[i] \in Blanks
    <2>1. \A i \in p..((p + 1) - 1) : i = p
      OBVIOUS
    <2> QED
      BY <2>1
  <1> QED
    BY <1>1, <1>2, SkipBlanksAt

(* A word w of a line, from q on and in front of a blank *)
WordAt(b, w, p, n, q, r) ==
    /\ q \in 1..Len(b) /\ r \in 1..Len(b) /\ n \in Nat
    /\ SkipBlanks(b, p) = q /\ q = n + 1 /\ r = q + Len(w) /\ r # q
    /\ \A k \in 1..Len(w) : w[k] \notin Whitespace /\ w[k] # Quote
    /\ LiesAt(b, n, w) /\ b[r] \in Blanks

LEMMA WordToken ==
    ASSUME NEW A, NEW b \in Seq(A), NEW w \in Seq(A), NEW p, NEW n, NEW q, NEW r,
           WordAt(b, w, p, n, q, r)
    PROVE  NextToken(b, p) = Found("text", w, r)
  <1>0. /\ q \in 1..Len(b) /\ r \in 1..Len(b) /\ n \in Nat
        /\ SkipBlanks(b, p) = q /\ q = n + 1 /\ r = q + Len(w) /\ r # q
        /\ \A k \in 1..Len(w) : w[k] \notin Whitespace /\ w[k] # Quote
        /\ LiesAt(b, n, w) /\ b[r] \in Blanks
    BY DEF WordAt
  <1> USE <1>0
  <1>1. PICK m \in Nat : m = Len(w)
    OBVIOUS
  <1>2. m > 0 /\ q + m <= Len(b) /\ 1 \in 1..m /\ (q - 1) + 1 = q /\ q - 1 = n /\ r = q + m
    BY <1>1
  <1>3. \A k \in 1..m : b[(q - 1) + k] = w[k]
    BY <1>1, <1>2, Zenon DEF LiesAt
  <1>w. \A k \in 1..m : w[k] \notin Whitespace /\ w[k] # Quote
    BY <1>1, Zenon
  <1>4. b[q] = w[1]
    BY <1>2, <1>3
  <1>5. b[q] # LineFeed /\ b[q] # Quote
    BY <1>2, <1>4, <1>w DEF Whitespace
  <1>7. \A i \in q..((q + m) - 1) : b[i] \notin Whitespace
    <2> SUFFICES ASSUME NEW i \in q..((q + m) - 1) PROVE b[i] \notin Whitespace
      OBVIOUS
    <2>1. i - (q - 1) \in 1..m /\ (q - 1) + (i - (q - 1)) = i
      OBVIOUS
    <2> QED
      BY <1>3, <1>w, <2>1
  <1>8. TextEnd(b, q) = q + m
    <2>1. q \in 1..(Len(b) + 1) /\ q + m \in q..(Len(b) + 1)
      BY <1>2
    <2>2. b[q + m] \in Whitespace
      BY <1>2, Zenon DEF Whitespace
    <2> QED
      BY <1>7, <2>1, <2>2, TextEndAt
  <1>9. SubSeq(b, q, (q + m) - 1) = w
    <2>1. PICK x : x = SubSeq(b, q, (q + m) - 1)
      OBVIOUS
    <2>2. q \in 1..(Len(b) + 1) /\ q + m <= Len(b) + 1
      BY <1>2
    <2>3. x \in Seq(A) /\ Len(x) = m /\ \A k \in 1..m : x[k] = b[(q - 1) + k]
      BY <2>1, <2>2, SubSeqAt
    <2>4. \A k \in 1..m : x[k] = w[k]
      BY <1>3, <2>3
    <2>5. x = w
      BY <1>1, <2>3, <2>4, SameText, ZenonT(40)
    <2> QED
      BY <2>1, <2>5
  <1>10. NextToken(b, p) = [k |-> "text", v |-> SubSeq(b, q, TextEnd(b, q) - 1), next |-> TextEnd(b, q)]
    BY <1>5, NextText
  <1> QED
    BY <1>2, <1>8, <1>9, <1>10, Zenon DEF Found

(* The tokens of a line of a request: for all texts u and v that are words *)
(* and all values.                                                         *)
IsWord(u, A) ==
    /\ u \in Seq(A)
    /\ Len(u) > 0
    /\ \A k \in 1..Len(u) : u[k] \notin Whitespace \cup {Quote, Backslash}

Word(s) == Tok("text", s)
Quoted(s) == Tok("quoted", s)
LineEnd == Tok("lf", <<LineFeed>>)

Three(w, c1, c2, c3) == w = <<c1, c2, c3>> /\ Len(w) = 3 /\ w[1] = c1 /\ w[2] = c2 /\ w[3] = c3

LEMMA ThreeText ==
    ASSUME NEW A, NEW c1 \in A, NEW c2 \in A, NEW c3 \in A
    PROVE  \E w \in Seq(A) : Three(w, c1, c2, c3)
  <1>1. <<c1, c2, c3>> \in Seq(A)
    OBVIOUS
  <1>2. Len(<<c1, c2, c3>>) = 3 /\ <<c1, c2, c3>>[1] = c1 /\ <<c1, c2, c3>>[2] = c2 /\ <<c1, c2, c3>>[3] = c3
    OBVIOUS
  <1> QED
    BY <1>1, <1>2, Zenon DEF Three

LEMMA ThreePlain ==
    ASSUME NEW A, NEW w \in Seq(A), Len(w) = 3,
           w[1] \in {"S", "V"}, w[2] \in {"E", "A"}, w[3] \in {"T", "R"}
    PROVE  \A k \in 1..Len(w) : w[k] \notin Whitespace /\ w[k] # Quote
  <1>1. \A k \in 1..Len(w) : k = 1 \/ k = 2 \/ k = 3
    OBVIOUS
  <1>2. \A c \in {"S", "V", "E", "A", "T", "R"} : c \notin Whitespace /\ c # Quote
    BY DEF Whitespace, Blanks, LineFeed, Quote
  <1> QED
    BY <1>1, <1>2, Zenon

LEMMA ThreeAt ==
    ASSUME NEW A, NEW b \in Seq(A), NEW w \in Seq(A), Len(w) = 3, NEW n \in Nat, n + 3 <= Len(b),
           NEW i1, NEW i2, NEW i3, i1 = n + 1, i2 = n + 2, i3 = n + 3,
           b[i1] = w[1], b[i2] = w[2], b[i3] = w[3]
    PROVE  LiesAt(b, n, w)
  <1>1. \A k \in 1..Len(w) : k = 1 \/ k = 2 \/ k = 3
    OBVIOUS
  <1>2. \A k \in 1..Len(w) : b[n + k] = w[k]
    BY <1>1, Zenon
  <1> QED
    BY <1>2 DEF LiesAt

LEMMA RoundAt ==
    ASSUME NEW F, NEW kind \in {"text", "quoted", "lf"}, NEW text, NEW p
    PROVE  TokenRound(F, Found(kind, text, p)) = <<Tok(kind, text)>> \o F[p]
  <1>0. PICK t : t = Found(kind, text, p)
    OBVIOUS
  <1>1. t.k = kind /\ t.v = text /\ t.next = p /\ kind # "none" /\ kind # "error"
    BY <1>0 DEF Found
  <1> QED
    BY <1>0, <1>1, Zenon DEF TokenRound, Tok

(* y is w with t in front. *)
Fronts(t, w, y) == Len(y) = Len(w) + 1 /\ y[1] = t /\ \A k \in 1..Len(w) : y[k + 1] = w[k]

LEMMA InFront ==
    ASSUME NEW C, NEW t \in C, NEW w \in Seq(C), NEW y \in Seq(C),
           Fronts(t, w, y)
    PROVE  <<t>> \o w = y
  <1>0. Len(y) = Len(w) + 1 /\ y[1] = t /\ \A k \in 1..Len(w) : y[k + 1] = w[k]
    BY DEF Fronts
  <1>1. PICK c \in Seq(C) : c = <<t>> /\ Len(c) = 1 /\ c[1] = t
    <2>1. <<t>> \in Seq(C) /\ Len(<<t>>) = 1 /\ <<t>>[1] = t
      OBVIOUS
    <2> QED
      BY <2>1, Zenon
  <1>2. PICK x \in Seq(C) : x = c \o w
    BY Joined, Zenon
  <1>3. /\ Len(x) = Len(c) + Len(w)
        /\ \A k \in 1..Len(c) : x[k] = c[k]
        /\ \A k \in 1..Len(w) : x[Len(c) + k] = w[k]
    BY <1>2, Joined
  <1>4. ASSUME NEW k \in 1..Len(y) PROVE x[k] = y[k]
    <2>1. CASE k = 1
      BY <1>0, <1>1, <1>3, <2>1
    <2>2. CASE k # 1
      <3>1. k - 1 \in 1..Len(w) /\ Len(c) + (k - 1) = k /\ (k - 1) + 1 = k
        BY <1>0, <1>1, <2>2
      <3>2. x[Len(c) + (k - 1)] = w[k - 1] /\ y[(k - 1) + 1] = w[k - 1]
        BY <1>0, <1>3, <3>1, Zenon
      <3> QED
        BY <3>1, <3>2, Zenon
    <2> QED
      BY <2>1, <2>2
  <1>n. PICK n \in Nat : n = Len(y)
    OBVIOUS
  <1>5. Len(x) = n /\ Len(y) = n
    BY <1>0, <1>1, <1>3, <1>n
  <1>6. \A k \in 1..n : x[k] = y[k]
    BY <1>4, <1>n
  <1>7. x = y
    BY <1>5, <1>6
  <1> QED
    BY <1>1, <1>2, <1>7, Zenon

(* Six singletons in a row *)
Row(t1, t2, t3, t4, t5, t6) ==
    <<t1>> \o (<<t2>> \o (<<t3>> \o (<<t4>> \o (<<t5>> \o (<<t6>> \o <<>>)))))

LEMMA SixJoined ==
    ASSUME NEW C, NEW t1 \in C, NEW t2 \in C, NEW t3 \in C, NEW t4 \in C, NEW t5 \in C, NEW t6 \in C
    PROVE  Row(t1, t2, t3, t4, t5, t6) = <<t1, t2, t3, t4, t5, t6>>
  <1>6. <<t6>> \o <<>> = <<t6>>
    <2>1. PICK w \in Seq(C) : w = <<>> /\ Len(w) = 0
      <3>1. <<>> \in Seq(C) /\ Len(<<>>) = 0
        OBVIOUS
      <3> QED
        BY <3>1
    <2>2. PICK y \in Seq(C) : y = <<t6>> /\ Len(y) = 1 /\ y[1] = t6
      <3>1. <<t6>> \in Seq(C) /\ Len(<<t6>>) = 1
        OBVIOUS
      <3> QED
        BY <3>1
    <2>3. \A k \in 1..Len(w) : y[k + 1] = w[k]
      BY <2>1, <2>2
    <2> QED
      <3>1. Fronts(t6, w, y)
        BY <2>1, <2>2, <2>3 DEF Fronts
      <3>2. <<t6>> \o w = y
        BY <3>1, InFront
      <3> QED
        BY <2>1, <2>2, <3>2, Zenon
  <1>5. <<t5>> \o <<t6>> = <<t5, t6>>
    <2>1. PICK w \in Seq(C) : w = <<t6>> /\ Len(w) = 1 /\ w[1] = t6
      <3>1. <<t6>> \in Seq(C) /\ Len(<<t6>>) = 1
        OBVIOUS
      <3> QED
        BY <3>1
    <2>2. PICK y \in Seq(C) : y = <<t5, t6>> /\ Len(y) = 2 /\ y[1] = t5 /\ y[2] = t6
      <3>1. <<t5, t6>> \in Seq(C) /\ Len(<<t5, t6>>) = 2
        OBVIOUS
      <3> QED
        BY <3>1
    <2>3. \A k \in 1..Len(w) : y[k + 1] = w[k]
      BY <2>1, <2>2
    <2> QED
      <3>1. Fronts(t5, w, y)
        BY <2>1, <2>2, <2>3 DEF Fronts
      <3>2. <<t5>> \o w = y
        BY <3>1, InFront
      <3> QED
        BY <2>1, <2>2, <3>2, Zenon
  <1>4. <<t4>> \o <<t5, t6>> = <<t4, t5, t6>>
    <2>1. PICK w \in Seq(C) : w = <<t5, t6>> /\ Len(w) = 2 /\ w[1] = t5 /\ w[2] = t6
      <3>1. <<t5, t6>> \in Seq(C) /\ Len(<<t5, t6>>) = 2
        OBVIOUS
      <3> QED
        BY <3>1
    <2>2. PICK y \in Seq(C) : y = <<t4, t5, t6>> /\ Len(y) = 3 /\ y[1] = t4 /\ y[2] = t5 /\ y[3] = t6
      <3>1. <<t4, t5, t6>> \in Seq(C) /\ Len(<<t4, t5, t6>>) = 3
        OBVIOUS
      <3> QED
        BY <3>1
    <2>3. \A k \in 1..Len(w) : y[k + 1] = w[k]
      BY <2>1, <2>2
    <2> QED
      <3>1. Fronts(t4, w, y)
        BY <2>1, <2>2, <2>3 DEF Fronts
      <3>2. <<t4>> \o w = y
        BY <3>1, InFront
      <3> QED
        BY <2>1, <2>2, <3>2, Zenon
  <1>3. <<t3>> \o <<t4, t5, t6>> = <<t3, t4, t5, t6>>
    <2>1. PICK w \in Seq(C) : w = <<t4, t5, t6>> /\ Len(w) = 3 /\ w[1] = t4 /\ w[2] = t5 /\ w[3] = t6
      <3>1. <<t4, t5, t6>> \in Seq(C) /\ Len(<<t4, t5, t6>>) = 3
        OBVIOUS
      <3> QED
        BY <3>1
    <2>2. PICK y \in Seq(C) : y = <<t3, t4, t5, t6>> /\ Len(y) = 4 /\ y[1] = t3 /\ y[2] = t4 /\ y[3] = t5 /\ y[4] = t6
      <3>1. <<t3, t4, t5, t6>> \in Seq(C) /\ Len(<<t3, t4, t5, t6>>) = 4
        OBVIOUS
      <3> QED
        BY <3>1
    <2>3. \A k \in 1..Len(w) : y[k + 1] = w[k]
      BY <2>1, <2>2
    <2> QED
      <3>1. Fronts(t3, w, y)
        BY <2>1, <2>2, <2>3 DEF Fronts
      <3>2. <<t3>> \o w = y
        BY <3>1, InFront
      <3> QED
        BY <2>1, <2>2, <3>2, Zenon
  <1>2. <<t2>> \o <<t3, t4, t5, t6>> = <<t2, t3, t4, t5, t6>>
    <2>1. PICK w \in Seq(C) : w = <<t3, t4, t5, t6>> /\ Len(w) = 4 /\ w[1] = t3 /\ w[2] = t4 /\ w[3] = t5 /\ w[4] = t6
      <3>1. <<t3, t4, t5, t6>> \in Seq(C) /\ Len(<<t3, t4, t5, t6>>) = 4
        OBVIOUS
      <3> QED
        BY <3>1
    <2>2. PICK y \in Seq(C) : y = <<t2, t3, t4, t5, t6>> /\ Len(y) = 5 /\ y[1] = t2 /\ y[2] = t3 /\ y[3] = t4 /\ y[4] = t5 /\ y[5] = t6
      <3>1. <<t2, t3, t4, t5, t6>> \in Seq(C) /\ Len(<<t2, t3, t4, t5, t6>>) = 5
        OBVIOUS
      <3> QED
        BY <3>1
    <2>3. \A k \in 1..Len(w) : y[k + 1] = w[k]
      BY <2>1, <2>2
    <2> QED
      <3>1. Fronts(t2, w, y)
        BY <2>1, <2>2, <2>3 DEF Fronts
      <3>2. <<t2>> \o w = y
        BY <3>1, InFront
      <3> QED
        BY <2>1, <2>2, <3>2, Zenon
  <1>1. <<t1>> \o <<t2, t3, t4, t5, t6>> = <<t1, t2, t3, t4, t5, t6>>
    <2>1. PICK w \in Seq(C) : w = <<t2, t3, t4, t5, t6>> /\ Len(w) = 5 /\ w[1] = t2 /\ w[2] = t3 /\ w[3] = t4 /\ w[4] = t5 /\ w[5] = t6
      <3>1. <<t2, t3, t4, t5, t6>> \in Seq(C) /\ Len(<<t2, t3, t4, t5, t6>>) = 5
        OBVIOUS
      <3> QED
        BY <3>1
    <2>2. PICK y \in Seq(C) : y = <<t1, t2, t3, t4, t5, t6>> /\ Len(y) = 6 /\ y[1] = t1 /\ y[2] = t2 /\ y[3] = t3 /\ y[4] = t4 /\ y[5] = t5 /\ y[6] = t6
      <3>1. <<t1, t2, t3, t4, t5, t6>> \in Seq(C) /\ Len(<<t1, t2, t3, t4, t5, t6>>) = 6
        OBVIOUS
      <3> QED
        BY <3>1
    <2>3. \A k \in 1..Len(w) : y[k + 1] = w[k]
      BY <2>1, <2>2
    <2> QED
      <3>1. Fronts(t1, w, y)
        BY <2>1, <2>2, <2>3 DEF Fronts
      <3>2. <<t1>> \o w = y
        BY <3>1, InFront
      <3> QED
        BY <2>1, <2>2, <3>2, Zenon
  <1> QED
    BY <1>1, <1>2, <1>3, <1>4, <1>5, <1>6, Zenon DEF Row

LEMMA RoundWord == \A F, text, p : TokenRound(F, Found("text", text, p)) = <<Tok("text", text)>> \o F[p]
  BY RoundAt

LEMMA RoundQuoted == \A F, text, p : TokenRound(F, Found("quoted", text, p)) = <<Tok("quoted", text)>> \o F[p]
  BY RoundAt

LEMMA RoundEnd == \A F, text, p : TokenRound(F, Found("lf", text, p)) = <<Tok("lf", text)>> \o F[p]
  BY RoundAt

LEMMA SixIn ==
    ASSUME NEW t1, NEW t2, NEW t3, NEW t4, NEW t5, NEW t6
    PROVE  \E C : t1 \in C /\ t2 \in C /\ t3 \in C /\ t4 \in C /\ t5 \in C /\ t6 \in C
  <1>1. PICK C : C = {t1, t2, t3, t4, t5, t6}
    OBVIOUS
  <1> QED
    BY <1>1

LEMMA LineTokens ==
    ASSUME NEW A, LineChars \subseteq A, NEW u, NEW v, IsWord(u, A), IsWord(v, A), NEW s \in Seq(A)
    PROVE  Tokens(SetVarLine(u, v, s)) =
             << Word(<<"S", "E", "T">>), Word(<<"V", "A", "R">>), Word(u), Word(v), Quoted(s), LineEnd >>
  <1>a. Backslash \in A /\ "S" \in A /\ "E" \in A /\ "T" \in A /\ "V" \in A /\ "A" \in A /\ "R" \in A
    BY Zenon DEF LineChars
  <1>u. u \in Seq(A) /\ Len(u) > 0
        /\ \A k \in 1..Len(u) : u[k] \notin Whitespace /\ u[k] # Quote /\ u[k] \notin {Quote, Backslash}
    BY DEF IsWord
  <1>v. v \in Seq(A) /\ Len(v) > 0 /\ \A k \in 1..Len(v) : v[k] \notin Whitespace /\ v[k] # Quote
    BY DEF IsWord
  <1>1. Escape(u) = u
    BY <1>a, <1>u, EscapePlain
  <1>2. PICK e \in Seq(A) : e = Escape(s)
    BY <1>a, EscapeEncodes
  <1>3. PICK at : Encodes(at, e, s)
    BY <1>a, <1>2, EscapeEncodes
  <1>4. Unescape(e) = s
    BY <1>a, <1>2, UnescapeEscape
  <1>5. PICK b \in Seq(A) : b = SetVarLine(u, v, s) /\ b = Line(u, v, e)
    <2>1. Line(u, v, e) \in Seq(A)
      BY <1>u, <1>v, LineLayout
    <2>2. SetVarLine(u, v, s) = Line(u, v, e)
      BY <1>1, <1>2, Zenon DEF SetVarLine, Line, Verb, Blank, Open, End
    <2> QED
      BY <2>1, <2>2, Zenon
  <1>6. /\ Len(b) = Len(u) + Len(v) + Len(e) + 13
        /\ LiesAt(b, 0, Verb)
        /\ LiesAt(b, 8, u)
        /\ LiesAt(b, 8 + Len(u), Blank)
        /\ LiesAt(b, 9 + Len(u), v)
        /\ LiesAt(b, 9 + Len(u) + Len(v), Open)
        /\ LiesAt(b, 11 + Len(u) + Len(v), e)
        /\ LiesAt(b, 11 + Len(u) + Len(v) + Len(e), End)
    <2>1. /\ Len(Line(u, v, e)) = Len(u) + Len(v) + Len(e) + 13
          /\ LiesAt(Line(u, v, e), 0, Verb)
          /\ LiesAt(Line(u, v, e), 8, u)
          /\ LiesAt(Line(u, v, e), 8 + Len(u), Blank)
          /\ LiesAt(Line(u, v, e), 9 + Len(u), v)
          /\ LiesAt(Line(u, v, e), 9 + Len(u) + Len(v), Open)
          /\ LiesAt(Line(u, v, e), 11 + Len(u) + Len(v), e)
          /\ LiesAt(Line(u, v, e), 11 + Len(u) + Len(v) + Len(e), End)
      BY <1>u, <1>v, LineLayout, SMTT(30)
    <2> QED
      BY <1>5, <2>1, Zenon
  <1>7. PICK n \in Nat : n = Len(u)
    BY <1>u
  <1>8. PICK m \in Nat : m = Len(v)
    BY <1>v
  <1>9. PICK l \in Nat : l = Len(e)
    OBVIOUS
  <1>10. n > 0 /\ m > 0
    BY <1>7, <1>8, <1>u, <1>v
  <1>11. /\ Len(b) = n + m + l + 13
         /\ LiesAt(b, 8, u)
         /\ LiesAt(b, 9 + n, v)
         /\ LiesAt(b, 11 + n + m, e)
    BY <1>6, <1>7, <1>8, <1>9, Zenon
  <1>12. /\ b[1] = "S" /\ b[2] = "E" /\ b[3] = "T" /\ b[4] = " "
         /\ b[5] = "V" /\ b[6] = "A" /\ b[7] = "R" /\ b[8] = " "
    <2>1. \A k \in 1..8 : b[0 + k] = Verb[k]
      BY <1>6, LineParts, Zenon DEF LiesAt
    <2>2. \A k \in 1..8 : b[k] = Verb[k]
      BY <2>1
    <2>3. b[1] = Verb[1] /\ b[2] = Verb[2] /\ b[3] = Verb[3] /\ b[4] = Verb[4]
      BY <2>2
    <2>4. b[5] = Verb[5] /\ b[6] = Verb[6] /\ b[7] = Verb[7] /\ b[8] = Verb[8]
      BY <2>2
    <2> QED
      BY <2>3, <2>4, LineParts, Zenon
  <1>13. b[9 + n] = " "
    <2>1. \A k \in 1..1 : b[(8 + n) + k] = Blank[k]
      BY <1>6, <1>7, LineParts, Zenon DEF LiesAt
    <2>2. (8 + n) + 1 = 9 + n
      OBVIOUS
    <2>3. b[9 + n] = Blank[1]
      BY <2>1, <2>2
    <2> QED
      BY <2>3, LineParts
  <1>14. b[10 + n + m] = " " /\ b[11 + n + m] = Quote
    <2>1. \A k \in 1..2 : b[(9 + n + m) + k] = Open[k]
      BY <1>6, <1>7, <1>8, LineParts, Zenon DEF LiesAt
    <2>2. (9 + n + m) + 1 = 10 + n + m /\ (9 + n + m) + 2 = 11 + n + m
      OBVIOUS
    <2>3. b[10 + n + m] = Open[1] /\ b[11 + n + m] = Open[2]
      BY <2>1, <2>2
    <2> QED
      BY <2>3, LineParts
  <1>15. b[12 + n + m + l] = Quote /\ b[13 + n + m + l] = LineFeed
    <2>1. \A k \in 1..2 : b[(11 + n + m + l) + k] = End[k]
      BY <1>6, <1>7, <1>8, <1>9, LineParts, Zenon DEF LiesAt
    <2>2. (11 + n + m + l) + 1 = 12 + n + m + l /\ (11 + n + m + l) + 2 = 13 + n + m + l
      OBVIOUS
    <2>3. b[12 + n + m + l] = End[1] /\ b[13 + n + m + l] = End[2]
      BY <2>1, <2>2
    <2> QED
      BY <2>3, LineParts
  <1>s. " " \in Blanks /\ "S" \notin Blanks /\ "V" \notin Blanks
    BY DEF Blanks
  <1>b. \A k \in 1..Len(b) : b[k] = " " => b[k] \in Blanks
    BY DEF Blanks
  (* the six tokens and the end *)
  <1>20. NextToken(b, 1) = Found("text", <<"S", "E", "T">>, 4)
    <2>1. PICK w \in Seq(A) : w = <<"S", "E", "T">> /\ Len(w) = 3 /\ w[1] = "S" /\ w[2] = "E" /\ w[3] = "T"
      <3>1. \E w \in Seq(A) : Three(w, "S", "E", "T")
        BY <1>a, ThreeText, Zenon
      <3> QED
        BY <3>1, Zenon DEF Three
    <2>2. \A k \in 1..Len(w) : w[k] \notin Whitespace /\ w[k] # Quote
      BY <2>1, ThreePlain
    <2>3. 1 \in 1..Len(b) /\ 4 \in 1..Len(b) /\ 1 = 0 + 1 /\ 4 # 1
      BY <1>11
    <2>4. LiesAt(b, 0, w)
      <3>1. 0 \in Nat /\ 0 + 3 <= Len(b) /\ 1 = 0 + 1 /\ 2 = 0 + 2 /\ 3 = 0 + 3
        BY <1>11
      <3>2. b[1] = w[1] /\ b[2] = w[2] /\ b[3] = w[3]
        BY <1>12, <2>1, Zenon
      <3> QED
        BY <2>1, <3>1, <3>2, ThreeAt, Zenon
    <2>5. SkipBlanks(b, 1) = 1
      <3>1. b[1] \notin Blanks
        BY <1>12, <1>s, Zenon
      <3> QED
        BY <2>3, <3>1, SkipNone
    <2>6. b[4] \in Blanks
      BY <1>12, <1>s, Zenon
    <2>7. 0 \in Nat /\ 4 = 1 + Len(w)
      BY <2>1
    <2> QED
      <3>1. WordAt(b, w, 1, 0, 1, 4)
        BY <2>2, <2>3, <2>4, <2>5, <2>6, <2>7, Zenon DEF WordAt
      <3>2. NextToken(b, 1) = Found("text", w, 4)
        BY <3>1, WordToken
      <3> QED
        BY <2>1, <3>2, Zenon
  <1>21. NextToken(b, 4) = Found("text", <<"V", "A", "R">>, 8)
    <2>1. PICK w \in Seq(A) : w = <<"V", "A", "R">> /\ Len(w) = 3 /\ w[1] = "V" /\ w[2] = "A" /\ w[3] = "R"
      <3>1. \E w \in Seq(A) : Three(w, "V", "A", "R")
        BY <1>a, ThreeText, Zenon
      <3> QED
        BY <3>1, Zenon DEF Three
    <2>2. \A k \in 1..Len(w) : w[k] \notin Whitespace /\ w[k] # Quote
      BY <2>1, ThreePlain
    <2>3. 4 \in 1..Len(b) /\ 4 + 1 <= Len(b) /\ 5 \in 1..Len(b) /\ 8 \in 1..Len(b) /\ 5 = 4 + 1 /\ 8 # 5
      BY <1>11
    <2>4. LiesAt(b, 4, w)
      <3>1. 4 \in Nat /\ 4 + 3 <= Len(b) /\ 5 = 4 + 1 /\ 6 = 4 + 2 /\ 7 = 4 + 3
        BY <1>11
      <3>2. b[5] = w[1] /\ b[6] = w[2] /\ b[7] = w[3]
        BY <1>12, <2>1, Zenon
      <3> QED
        BY <2>1, <3>1, <3>2, ThreeAt, Zenon
    <2>5. SkipBlanks(b, 4) = 5
      <3>1. b[5] \notin Blanks /\ b[4] \in Blanks
        BY <1>12, <1>s, Zenon
      <3> QED
        BY <2>3, <3>1, SkipOne
    <2>6. b[8] \in Blanks
      BY <1>12, <1>s, Zenon
    <2>7. 4 \in Nat /\ 8 = 5 + Len(w)
      BY <2>1
    <2> QED
      <3>1. WordAt(b, w, 4, 4, 5, 8)
        BY <2>2, <2>3, <2>4, <2>5, <2>6, <2>7, Zenon DEF WordAt
      <3>2. NextToken(b, 4) = Found("text", w, 8)
        BY <3>1, WordToken
      <3> QED
        BY <2>1, <3>2, Zenon
  <1>22. NextToken(b, 8) = Found("text", u, 9 + n)
    <2>1. 8 \in 1..Len(b) /\ 8 + 1 <= Len(b) /\ 9 \in 1..Len(b) /\ 9 + n <= Len(b) /\ 9 + n \in 1..Len(b) /\ 9 - 1 = 8
      BY <1>11
    <2>2. b[9] = u[1]
      <3>1. \A k \in 1..n : b[8 + k] = u[k]
        BY <1>7, <1>11, Zenon DEF LiesAt
      <3>2. 1 \in 1..n /\ 8 + 1 = 9
        BY <1>10
      <3> QED
        BY <3>1, <3>2
    <2>3. SkipBlanks(b, 8) = 9
      <3>1. u[1] \notin Whitespace
        BY <1>7, <1>10, <1>u
      <3>2. b[9] \notin Blanks /\ b[8] \in Blanks
        BY <1>12, <1>s, <2>2, <3>1, Zenon DEF Whitespace
      <3> QED
        BY <2>1, <3>2, SkipOne
    <2>4. b[9 + n] \in Blanks
      BY <1>b, <1>13, <2>1
    <2>5. 8 \in Nat /\ 9 = 8 + 1 /\ 9 + n = 9 + Len(u) /\ 9 + n # 9
      BY <1>7, <1>10
    <2> QED
      <3>1. WordAt(b, u, 8, 8, 9, 9 + n)
        BY <1>11, <1>u, <2>1, <2>3, <2>4, <2>5, Zenon DEF WordAt
      <3> QED
        BY <1>u, <3>1, WordToken
  <1>23. NextToken(b, 9 + n) = Found("text", v, 10 + n + m)
    <2>1. PICK q \in Nat : q = 10 + n
      OBVIOUS
    <2>2. /\ 9 + n \in 1..Len(b) /\ (9 + n) + 1 = q /\ q <= Len(b) /\ q \in 1..Len(b)
          /\ q + m <= Len(b) /\ q - 1 = 9 + n /\ q + m = 10 + n + m /\ q + m \in 1..Len(b)
      BY <1>11, <2>1
    <2>3. b[q] = v[1]
      <3>1. \A k \in 1..m : b[(9 + n) + k] = v[k]
        BY <1>8, <1>11, Zenon DEF LiesAt
      <3>2. 1 \in 1..m
        BY <1>10
      <3> QED
        BY <2>2, <3>1, <3>2
    <2>4. SkipBlanks(b, 9 + n) = q
      <3>1. v[1] \notin Whitespace
        BY <1>8, <1>10, <1>v
      <3>2. b[q] \notin Blanks
        BY <2>3, <3>1 DEF Whitespace
      <3>3. b[9 + n] \in Blanks
        BY <1>b, <1>13, <2>2
      <3> QED
        BY <2>2, <3>2, <3>3, SkipOne
    <2>5. b[q + m] \in Blanks
      BY <1>b, <1>14, <2>2
    <2>6. 9 + n \in Nat /\ q = (9 + n) + 1 /\ q + m = q + Len(v) /\ q + m # q
      BY <1>8, <1>10, <2>1
    <2>7. NextToken(b, 9 + n) = Found("text", v, q + m)
      <3>1. WordAt(b, v, 9 + n, 9 + n, q, q + m)
        BY <1>11, <1>v, <2>2, <2>4, <2>5, <2>6, Zenon DEF WordAt
      <3> QED
        BY <1>v, <3>1, WordToken
    <2> QED
      BY <2>2, <2>7, Zenon
  <1>24. NextToken(b, 10 + n + m) = Found("quoted", s, 13 + n + m + l)
    <2>1. PICK q \in Nat : q = 11 + n + m
      OBVIOUS
    <2>2. /\ 10 + n + m \in 1..Len(b) /\ (10 + n + m) + 1 = q /\ q <= Len(b) /\ q \in 1..Len(b)
          /\ q + l < Len(b) /\ q + l + 1 = 12 + n + m + l
      BY <1>11, <2>1
    <2>3. b[10 + n + m] \in Blanks /\ b[q] = Quote /\ b[q + l + 1] = Quote
      BY <1>b, <1>14, <1>15, <2>1, <2>2
    <2>4. SkipBlanks(b, 10 + n + m) = q
      BY <2>2, <2>3, SkipOne, Delimiters
    <2>5. LiesAt(b, q, e)
      BY <1>11, <2>1, Zenon
    <2>6. ClosingQuote(b, q + 1) = q + l + 1
      BY <1>3, <1>9, <2>2, <2>3, <2>5, ClosedBehind
    <2>7. (q + l + 1) - 1 = ((q + 1) + l) - 1 /\ q + l + 1 # 0 /\ (q + l + 1) + 1 = 13 + n + m + l
      BY <2>1
    <2>8. SubSeq(b, q + 1, ((q + 1) + l) - 1) = e
      <3>1. PICK x : x = SubSeq(b, q + 1, ((q + 1) + l) - 1)
        OBVIOUS
      <3>2. q + 1 \in 1..(Len(b) + 1) /\ (q + 1) + l <= Len(b) + 1 /\ (q + 1) - 1 = q
        BY <2>2
      <3>3. x \in Seq(A) /\ Len(x) = l /\ \A k \in 1..l : x[k] = b[((q + 1) - 1) + k]
        BY <3>1, <3>2, SubSeqAt
      <3>4. \A k \in 1..l : b[q + k] = e[k]
        BY <1>9, <2>5, Zenon DEF LiesAt
      <3>5. \A k \in 1..l : x[k] = e[k]
        BY <3>2, <3>3, <3>4
      <3>6. x = e
        BY <1>9, <3>3, <3>5
      <3> QED
        BY <3>1, <3>6
    <2>9. NextToken(b, 10 + n + m) =
            IF ClosingQuote(b, q + 1) = 0 THEN [k |-> "error", v |-> <<>>, next |-> q]
            ELSE [k |-> "quoted", v |-> Unescape(SubSeq(b, q + 1, ClosingQuote(b, q + 1) - 1)),
                  next |-> ClosingQuote(b, q + 1) + 1]
      BY <2>2, <2>3, <2>4, NextQuoted
    <2> QED
      BY <1>4, <2>6, <2>7, <2>8, <2>9, Zenon DEF Found
  <1>25. NextToken(b, 13 + n + m + l) = Found("lf", <<LineFeed>>, 14 + n + m + l)
    <2>1. PICK q \in Nat : q = 13 + n + m + l
      OBVIOUS
    <2>2. q \in 1..Len(b) /\ q + 1 = 14 + n + m + l
      BY <1>11, <2>1
    <2>3. b[q] = LineFeed
      BY <1>15, <2>1
    <2>4. SkipBlanks(b, q) = q
      BY <2>2, <2>3, SkipNone, Delimiters
    <2>5. NextToken(b, q) = [k |-> "lf", v |-> <<LineFeed>>, next |-> q + 1]
      BY <2>2, <2>3, <2>4, NextLineFeed
    <2> QED
      BY <2>1, <2>2, <2>5, Zenon DEF Found
  <1>26. NextToken(b, 14 + n + m + l).k = "none"
    <2>1. PICK q \in Nat : q = 14 + n + m + l
      OBVIOUS
    <2>2. q = Len(b) + 1
      BY <1>11, <2>1
    <2>3. q \in 1..(Len(b) + 1) /\ q \in q..(Len(b) + 1) /\ \A i \in q..(q - 1) : b[i] \in Blanks
      BY <2>2
    <2>4. SkipBlanks(b, q) = Len(b) + 1
      BY <2>2, <2>3, SkipBlanksAt
    <2>5. NextToken(b, q) = [k |-> "none", v |-> <<>>, next |-> Len(b) + 1]
      BY <2>4, NextNone
    <2>6. NextToken(b, q).k = "none"
      BY <2>5
    <2> QED
      BY <2>1, <2>6
  <1>27. PICK F : /\ Tokens(b) = F[1]
                  /\ \A p \in 1..(Len(b) + 1) : F[p] = TokenRound(F, NextToken(b, p))
    BY TokensFrom
  <1>28. /\ 1 \in 1..(Len(b) + 1) /\ 4 \in 1..(Len(b) + 1) /\ 8 \in 1..(Len(b) + 1)
         /\ 9 + n \in 1..(Len(b) + 1) /\ 10 + n + m \in 1..(Len(b) + 1)
         /\ 13 + n + m + l \in 1..(Len(b) + 1) /\ 14 + n + m + l \in 1..(Len(b) + 1)
    BY <1>11
  <1>29. F[14 + n + m + l] = <<>>
    BY <1>26, <1>27, <1>28 DEF TokenRound
  <1>30. F[13 + n + m + l] = <<LineEnd>> \o F[14 + n + m + l]
    <2>1. F[13 + n + m + l] = TokenRound(F, NextToken(b, 13 + n + m + l))
      BY <1>27, <1>28, Zenon
    <2>2. TokenRound(F, NextToken(b, 13 + n + m + l)) = <<Tok("lf", <<LineFeed>>)>> \o F[14 + n + m + l]
      BY <1>25, RoundEnd, Zenon
    <2> QED
      BY <2>1, <2>2, Zenon DEF LineEnd
  <1>31. F[10 + n + m] = <<Quoted(s)>> \o F[13 + n + m + l]
    <2>1. F[10 + n + m] = TokenRound(F, NextToken(b, 10 + n + m))
      BY <1>27, <1>28, Zenon
    <2>2. TokenRound(F, NextToken(b, 10 + n + m)) = <<Tok("quoted", s)>> \o F[13 + n + m + l]
      BY <1>24, RoundQuoted, Zenon
    <2> QED
      BY <2>1, <2>2, Zenon DEF Quoted
  <1>32. F[9 + n] = <<Word(v)>> \o F[10 + n + m]
    <2>1. F[9 + n] = TokenRound(F, NextToken(b, 9 + n))
      BY <1>27, <1>28, Zenon
    <2>2. TokenRound(F, NextToken(b, 9 + n)) = <<Tok("text", v)>> \o F[10 + n + m]
      BY <1>23, RoundWord, Zenon
    <2> QED
      BY <2>1, <2>2, Zenon DEF Word
  <1>33. F[8] = <<Word(u)>> \o F[9 + n]
    <2>1. F[8] = TokenRound(F, NextToken(b, 8))
      BY <1>27, <1>28, Zenon
    <2>2. TokenRound(F, NextToken(b, 8)) = <<Tok("text", u)>> \o F[9 + n]
      BY <1>22, RoundWord, Zenon
    <2> QED
      BY <2>1, <2>2, Zenon DEF Word
  <1>34. F[4] = <<Word(<<"V", "A", "R">>)>> \o F[8]
    <2>1. F[4] = TokenRound(F, NextToken(b, 4))
      BY <1>27, <1>28, Zenon
    <2>2. TokenRound(F, NextToken(b, 4)) = <<Tok("text", <<"V", "A", "R">>)>> \o F[8]
      BY <1>21, RoundWord, Zenon
    <2> QED
      BY <2>1, <2>2, Zenon DEF Word
  <1>35. F[1] = <<Word(<<"S", "E", "T">>)>> \o F[4]
    <2>1. F[1] = TokenRound(F, NextToken(b, 1))
      BY <1>27, <1>28, Zenon
    <2>2. TokenRound(F, NextToken(b, 1)) = <<Tok("text", <<"S", "E", "T">>)>> \o F[4]
      BY <1>20, RoundWord, Zenon
    <2> QED
      BY <2>1, <2>2, Zenon DEF Word
  <1>36. F[1] = << Word(<<"S", "E", "T">>), Word(<<"V", "A", "R">>), Word(u), Word(v), Quoted(s), LineEnd >>
    <2>1. PICK C : /\ Word(<<"S", "E", "T">>) \in C /\ Word(<<"V", "A", "R">>) \in C /\ Word(u) \in C
                   /\ Word(v) \in C /\ Quoted(s) \in C /\ LineEnd \in C
      BY SixIn, Zenon
    <2> QED
      <3>1. PICK t1, t2, t3, t4, t5, t6 :
              /\ t1 = Word(<<"S", "E", "T">>) /\ t2 = Word(<<"V", "A", "R">>) /\ t3 = Word(u)
              /\ t4 = Word(v) /\ t5 = Quoted(s) /\ t6 = LineEnd
        OBVIOUS
      <3>2. F[1] = Row(t1, t2, t3, t4, t5, t6)
        BY <1>29, <1>30, <1>31, <1>32, <1>33, <1>34, <1>35, <3>1, Zenon DEF Row
      <3>3. t1 \in C /\ t2 \in C /\ t3 \in C /\ t4 \in C /\ t5 \in C /\ t6 \in C
        BY <2>1, <3>1, Zenon
      <3>4. F[1] = <<t1, t2, t3, t4, t5, t6>>
        BY <3>2, <3>3, SixJoined, SMTT(30)
      <3> QED
        BY <3>1, <3>4, Zenon
  <1> QED
    BY <1>5, <1>27, <1>36

(* What the names are made of *)
LEMMA NameIsWord ==
    ASSUME NEW A, NEW n \in Seq(A), VarNameOf(n, StandardNames) # {}
    PROVE  IsWord(n, A)
  <1>1. \A c \in NameChars : c \notin Whitespace \cup {Quote, Backslash}
    BY DEF NameChars, Letters, Whitespace, Blanks, LineFeed, Quote, Backslash
  <1>2. CASE IsVarName(n)
    <2>1. n # <<>> /\ \A i \in 1..Len(n) : n[i] \in NameChars
      BY <1>2 DEF IsVarName
    <2>2. Len(n) > 0
      BY <2>1
    <2>3. \A k \in 1..Len(n) : n[k] \notin Whitespace \cup {Quote, Backslash}
      BY <1>1, <2>1
    <2> QED
      BY <2>2, <2>3 DEF IsWord
  <1>3. CASE n \in StandardNames
    <2>1. n = <<"a", ".", "b">>
      BY <1>3 DEF StandardNames
    <2>2. Len(n) = 3 /\ n[1] = "a" /\ n[2] = "." /\ n[3] = "b"
      BY <2>1
    <2>3. "a" \in NameChars /\ "." \in NameChars /\ "b" \in NameChars
      BY DEF NameChars, Letters
    <2>4. \A k \in 1..Len(n) : k = 1 \/ k = 2 \/ k = 3
      BY <2>2
    <2>5. \A k \in 1..Len(n) : n[k] \in NameChars
      BY <2>2, <2>3, <2>4, Zenon
    <2>6. \A k \in 1..Len(n) : n[k] \notin Whitespace \cup {Quote, Backslash}
      BY <1>1, <2>5
    <2>7. Len(n) > 0
      BY <2>2
    <2> QED
      BY <2>6, <2>7 DEF IsWord
  <1> QED
    BY <1>2, <1>3 DEF VarNameOf

Chars == LineChars \cup NameChars

(* The request of a case is made of words and a text. *)
RequestCase ==
    case.kind = "request" => IsWord(case.ups, Chars) /\ IsWord(case.name, Chars) /\ case.value \in Seq(Chars)

LEMMA TextsAreTexts ==
    ASSUME NEW C, NEW A, C \subseteq A, NEW max \in Nat, NEW s \in Texts(C, max)
    PROVE  s \in Seq(A)
  <1>1. PICK n \in 0..max : s \in [1..n -> C]
    BY DEF Texts
  <1>2. s \in [1..n -> A]
    BY <1>1
  <1> QED
    BY <1>1, <1>2

LEMMA RequestInit == CaseInit => RequestCase
  BY DEF CaseInit, NoCase, RequestCase

LEMMA RequestStep == RequestCase /\ [CaseNext]_CaseVars => RequestCase'
  <1> SUFFICES ASSUME RequestCase, [CaseNext]_CaseVars PROVE RequestCase'
    OBVIOUS
  <1>1. CASE UNCHANGED case
    BY <1>1 DEF RequestCase
  <1>2. CASE PickReported \/ PickNumber \/ PickForm \/ PickStatus
    BY <1>2 DEF PickReported, PickNumber, PickForm, PickStatus, RequestCase
  <1>3. CASE PickRequest
    <2>1. PICK u \in {<<"a">>, <<"b", "0">>}, s \in Values, n \in NameTexts :
            /\ VarNameOf(n, StandardNames) # {}
            /\ case' = [kind |-> "request", ups |-> u, name |-> n, value |-> s]
      BY <1>3, Zenon DEF PickRequest
    <2>2. s \in Seq(Chars)
      <3>1. {"a", Quote, Backslash, " "} \subseteq Chars
        BY DEF Chars, LineChars, NameChars, Letters
      <3>2. s \in Texts({"a", Quote, Backslash, " "}, 4) /\ 4 \in Nat
        BY <2>1 DEF Values
      <3> QED
        BY <3>1, <3>2, TextsAreTexts
    <2>3. n \in Seq(Chars)
      <3>1. {"a", "0", ".", " ", Quote} \subseteq Chars
        BY DEF Chars, LineChars, NameChars, Letters
      <3>2. n \in Texts({"a", "0", ".", " ", Quote}, 3) /\ 3 \in Nat
        BY <2>1 DEF NameTexts
      <3> QED
        BY <3>1, <3>2, TextsAreTexts
    <2>4. IsWord(n, Chars)
      BY <2>1, <2>3, NameIsWord
    <2>5. IsWord(u, Chars)
      <3>1. "a" \in Chars /\ "b" \in Chars /\ "0" \in Chars
        BY DEF Chars, NameChars, Letters
      <3>2. \A c \in {"a", "b", "0"} : c \notin Whitespace \cup {Quote, Backslash}
        BY DEF Whitespace, Blanks, LineFeed, Quote, Backslash
      <3>3. ASSUME u = <<"a">> PROVE IsWord(u, Chars)
        <4>1. u \in Seq(Chars)
          BY <3>1, <3>3, ShortText, Zenon
        <4>2. Len(u) = 1 /\ u[1] = "a"
          BY <3>3
        <4> QED
          BY <3>2, <4>1, <4>2 DEF IsWord
      <3>4. ASSUME u = <<"b", "0">> PROVE IsWord(u, Chars)
        <4>1. u \in Seq(Chars)
          BY <3>1, <3>4, ShortText, Zenon
        <4>2. Len(u) = 2 /\ u[1] = "b" /\ u[2] = "0"
          BY <3>4
        <4>3. \A k \in 1..Len(u) : k = 1 \/ k = 2
          BY <4>2
        <4>4. \A k \in 1..Len(u) : u[k] \notin Whitespace \cup {Quote, Backslash}
          BY <3>2, <4>2, <4>3, Zenon
        <4> QED
          BY <4>1, <4>2, <4>4 DEF IsWord
      <3> QED
        BY <2>1, <3>3, <3>4, Zenon
    <2> QED
      BY <2>1, <2>2, <2>4, <2>5 DEF RequestCase
  <1>4. CASE PickScalar
    <2>1. PICK c : case' = c /\ \E f \in Fields : c \in Scalars(f)
      BY <1>4 DEF PickScalar
    <2>2. PICK f, a, cl, r, p, ok, t : c = ScalarOf(f, a, cl, r, p, ok, t)
      BY <2>1 DEF Scalars
    <2>3. PICK env, toml :
            c = [kind |-> "scalar", field |-> f, allowEnv |-> a, cli |-> cl, env |-> env, toml |-> toml]
      BY <2>2, Zenon DEF ScalarOf
    <2> QED
      BY <2>1, <2>3 DEF RequestCase
  <1>5. CASE PickUpsd
    <2>1. PICK c : case' = c /\ c \in Upsds
      BY <1>5 DEF PickUpsd
    <2>2. PICK n, a, p, u, s : c = UpsdOf(n, a, p, u, s)
      BY <2>1 DEF Upsds
    <2>3. PICK cli, env, toml : c = [kind |-> "upsd", cli |-> cli, env |-> env, toml |-> toml]
      BY <2>2, Zenon DEF UpsdOf
    <2> QED
      BY <2>1, <2>3 DEF RequestCase
  <1>6. CASE Start
    BY <1>6 DEF Start, RequestCase
  <1> QED
    BY <1>1, <1>2, <1>3, <1>4, <1>5, <1>6
    DEF CaseNext, Pick, StepClients, StepTable, StepService, CaseVars

(* SetVariable::serialize, whatever its value: the reader of the line sees *)
(* the six tokens that were meant, for all names that are words (nonempty, *)
(* without blanks, quotes and backslashes) and all values, of any length   *)
(* and over any characters: what escape_nut_str writes, read_quoted_text   *)
(* ends where the value ends, and extract_from_token gives the value back. *)
THEOREM RequestRead ==
    \A A : LineChars \subseteq A =>
        \A u, v : IsWord(u, A) /\ IsWord(v, A) =>
            \A s \in Seq(A) :
                Tokens(SetVarLine(u, v, s)) =
                    << Word(<<"S", "E", "T">>), Word(<<"V", "A", "R">>), Word(u), Word(v),
                       Quoted(s), LineEnd >>
  BY LineTokens

(* The same of the cases of the run. *)
THEOREM RequestTokensCorrect == CaseSpec => []RequestTokens
  <1>1. RequestCase => RequestTokens
    <2> SUFFICES ASSUME case.kind = "request", IsWord(case.ups, Chars), IsWord(case.name, Chars),
                        case.value \in Seq(Chars)
                 PROVE  RequestTokens
      BY DEF RequestCase, RequestTokens
    <2>1. LineChars \subseteq Chars
      BY DEF Chars
    <2>2. Tokens(SetVarLine(case.ups, case.name, case.value)) =
            << Word(<<"S", "E", "T">>), Word(<<"V", "A", "R">>), Word(case.ups), Word(case.name),
               Quoted(case.value), LineEnd >>
      <3>1. PICK A, u, v, s : A = Chars /\ u = case.ups /\ v = case.name /\ s = case.value
        OBVIOUS
      <3>2. LineChars \subseteq A /\ IsWord(u, A) /\ IsWord(v, A) /\ s \in Seq(A)
        BY <2>1, <3>1, Zenon
      <3>3. Tokens(SetVarLine(u, v, s)) =
              << Word(<<"S", "E", "T">>), Word(<<"V", "A", "R">>), Word(u), Word(v), Quoted(s), LineEnd >>
        BY <3>2, LineTokens
      <3> QED
        BY <3>1, <3>3, Zenon
    <2> QED
      BY <2>2, Zenon DEF RequestTokens, Word, Quoted, LineEnd, Tok
  <1>2. CaseSpec => []RequestCase
    BY RequestInit, RequestStep, PTL DEF CaseSpec
  <1> QED
    BY <1>1, <1>2, PTL

-----------------------------------------------------------------------------
(* Numbers in decimal notation. *)
LEMMA DigitFacts ==
    /\ Digits = {"0", "1", "2", "3", "4", "5", "6", "7", "8", "9"}
    /\ \A c \in Digits : DigitOf[c] \in 0..9
    /\ DigitOf["0"] = 0
    /\ \A c \in Digits : DigitOf[c] = 0 => c = "0"
    /\ {".", "-", "+", " "} \cap Digits = {}
  <1>1. Digits = {"0", "1", "2", "3", "4", "5", "6", "7", "8", "9"}
    BY DEF Digits, DigitOf
  <1>2. /\ DigitOf["0"] = 0 /\ DigitOf["1"] = 1 /\ DigitOf["2"] = 2 /\ DigitOf["3"] = 3
        /\ DigitOf["4"] = 4 /\ DigitOf["5"] = 5 /\ DigitOf["6"] = 6 /\ DigitOf["7"] = 7
        /\ DigitOf["8"] = 8 /\ DigitOf["9"] = 9
    BY DEF DigitOf
  <1> QED
    BY <1>1, <1>2

LEMMA SameDigit == ASSUME NEW c \in Digits, NEW d \in Digits, DigitOf[c] = DigitOf[d] PROVE c = d
  <1>1. Digits = {"0", "1", "2", "3", "4", "5", "6", "7", "8", "9"}
    BY DEF Digits, DigitOf
  <1>2. /\ DigitOf["0"] = 0 /\ DigitOf["1"] = 1 /\ DigitOf["2"] = 2 /\ DigitOf["3"] = 3
        /\ DigitOf["4"] = 4 /\ DigitOf["5"] = 5 /\ DigitOf["6"] = 6 /\ DigitOf["7"] = 7
        /\ DigitOf["8"] = 8 /\ DigitOf["9"] = 9
    BY DEF DigitOf
  <1> QED
    BY <1>1, <1>2

(* The digit of a number below ten. *)
DigitFor(k) == CHOOSE c \in Digits : DigitOf[c] = k

LEMMA DigitForIs == ASSUME NEW k \in 0..9 PROVE DigitFor(k) \in Digits /\ DigitOf[DigitFor(k)] = k
  <1>1. Digits = {"0", "1", "2", "3", "4", "5", "6", "7", "8", "9"}
    BY DEF Digits, DigitOf
  <1>2. /\ DigitOf["0"] = 0 /\ DigitOf["1"] = 1 /\ DigitOf["2"] = 2 /\ DigitOf["3"] = 3
        /\ DigitOf["4"] = 4 /\ DigitOf["5"] = 5 /\ DigitOf["6"] = 6 /\ DigitOf["7"] = 7
        /\ DigitOf["8"] = 8 /\ DigitOf["9"] = 9
    BY DEF DigitOf
  <1>3. \E c \in Digits : DigitOf[c] = k
    BY <1>1, <1>2
  <1> QED
    BY <1>3, Zenon DEF DigitFor

(* The states of the loop of Decimal *)
IsSumming(f, ds) ==
    f = [i \in 1..(Len(ds) + 1) |-> IF i = 1 THEN 0 ELSE 10 * f[i - 1] + DigitOf[ds[i - 1]]]

Sums(f, ds) ==
    /\ f \in [1..(Len(ds) + 1) -> Nat]
    /\ f[1] = 0
    /\ \A i \in 1..Len(ds) : f[i + 1] = 10 * f[i] + DigitOf[ds[i]]
    /\ Decimal(ds) = f[Len(ds) + 1]

LEMMA SumLoop ==
    ASSUME NEW ds \in Seq(Digits)
    PROVE  \E f : Sums(f, ds)
  <1>1. PICK n \in Nat : n = Len(ds)
    OBVIOUS
  <1>2. \A i \in 1..n : DigitOf[ds[i]] \in 0..9
    <2> SUFFICES ASSUME NEW i \in 1..n PROVE DigitOf[ds[i]] \in 0..9
      OBVIOUS
    <2>1. ds[i] \in Digits
      BY <1>1
    <2> QED
      BY <2>1, DigitFacts
  <1>3. PICK step : step = [i \in 1..n |-> [w \in Nat |-> 10 * w + DigitOf[ds[i]]]]
    OBVIOUS
  <1>4. ASSUME NEW i \in 1..n, NEW w \in Nat PROVE 10 * w + DigitOf[ds[i]] \in Nat
    <2>1. PICK d \in 0..9 : d = DigitOf[ds[i]]
      BY <1>2
    <2> QED
      BY <2>1
  <1>5. step \in [1..n -> [Nat -> Nat]]
    BY <1>3, <1>4
  <1>6. PICK f : IsLoop(f, n, Nat, 0, step)
    BY <1>5, LoopExists
  <1>7. f \in [1..(n + 1) -> Nat] /\ f[1] = 0
    BY <1>6 DEF IsLoop
  <1>8. ASSUME NEW i \in 1..n PROVE f[i + 1] = 10 * f[i] + DigitOf[ds[i]]
    <2>1. f[i] \in Nat /\ f[i + 1] = step[i][f[i]]
      BY <1>6, <1>7 DEF IsLoop
    <2> QED
      BY <1>3, <2>1, Zenon
  <1>9. \A i \in 1..(n + 1) : i # 1 => i - 1 \in 1..n /\ (i - 1) + 1 = i
    OBVIOUS
  <1>10. \A i \in 1..(n + 1) : f[i] = IF i = 1 THEN 0 ELSE 10 * f[i - 1] + DigitOf[ds[i - 1]]
    BY <1>7, <1>8, <1>9, Zenon
  <1>11. f = [i \in 1..(n + 1) |-> IF i = 1 THEN 0 ELSE 10 * f[i - 1] + DigitOf[ds[i - 1]]]
    BY <1>7, <1>10
  <1>12. IsSumming(f, ds)
    BY <1>1, <1>11, Zenon DEF IsSumming
  <1>13. PICK F : F = CHOOSE g : IsSumming(g, ds)
    OBVIOUS
  <1>14. IsSumming(F, ds)
    BY <1>12, <1>13
  <1>15. Decimal(ds) = F[n + 1]
    BY <1>1, <1>13 DEF Decimal, IsSumming
  <1>16. F = [i \in 1..(n + 1) |-> IF i = 1 THEN 0 ELSE 10 * F[i - 1] + DigitOf[ds[i - 1]]]
    BY <1>1, <1>14, Zenon DEF IsSumming
  <1>17. F[1] = 0
    BY <1>16
  <1>18. ASSUME NEW i \in 1..n PROVE F[i + 1] = 10 * F[i] + DigitOf[ds[i]]
    <2>1. i + 1 \in 1..(n + 1) /\ i + 1 # 1 /\ (i + 1) - 1 = i
      OBVIOUS
    <2>2. F[i + 1] = 10 * F[(i + 1) - 1] + DigitOf[ds[(i + 1) - 1]]
      BY <1>16, <2>1, Zenon
    <2> QED
      BY <2>1, <2>2, Zenon
  <1>19. PICK S : S = {i \in 1..(n + 1) : F[i] \in Nat}
    OBVIOUS
  <1>20. 1 \in S
    BY <1>17, <1>19
  <1>21. ASSUME NEW i \in 1..n, i \in S PROVE i + 1 \in S
    <2>1. F[i] \in Nat /\ i + 1 \in 1..(n + 1)
      BY <1>19, <1>21
    <2>2. F[i + 1] \in Nat
      BY <1>4, <1>18, <2>1
    <2> QED
      BY <1>19, <2>1, <2>2
  <1>22. 1..(n + 1) \subseteq S
    BY <1>20, <1>21, EachRound
  <1>23. \A i \in 1..(n + 1) : F[i] \in Nat
    BY <1>19, <1>22
  <1>24. F \in [1..(n + 1) -> Nat]
    BY <1>16, <1>23
  <1>25. \A i \in 1..n : F[i + 1] = 10 * F[i] + DigitOf[ds[i]]
    BY <1>18
  <1> QED
    BY <1>1, <1>15, <1>17, <1>24, <1>25, Zenon DEF Sums

LEMMA DecimalNumber == ASSUME NEW ds \in Seq(Digits) PROVE Decimal(ds) \in Nat
  <1>1. PICK f : Sums(f, ds)
    BY SumLoop
  <1>2. PICK n \in Nat : n = Len(ds)
    OBVIOUS
  <1>3. f \in [1..(n + 1) -> Nat] /\ Decimal(ds) = f[n + 1]
    BY <1>1, <1>2 DEF Sums
  <1> QED
    BY <1>3

LEMMA DecimalNone == Decimal(<<>>) = 0
  <1>0. PICK D : D = Digits
    OBVIOUS
  <1>1. PICK e \in Seq(Digits) : e = <<>>
    <2>1. <<>> \in Seq(D)
      OBVIOUS
    <2> QED
      BY <1>0, <2>1, Zenon
  <1>2. PICK f : Sums(f, e)
    BY SumLoop
  <1>3. Len(e) + 1 = 1
    BY <1>1
  <1>4. Decimal(e) = f[Len(e) + 1] /\ f[1] = 0
    BY <1>2 DEF Sums
  <1> QED
    BY <1>1, <1>3, <1>4, Zenon

(* One more digit *)
LEMMA DecimalAppend ==
    ASSUME NEW ds \in Seq(Digits), NEW c \in Digits, NEW e, e = Append(ds, c)
    PROVE  e \in Seq(Digits) /\ Decimal(e) = 10 * Decimal(ds) + DigitOf[c]
  <1>1. PICK n \in Nat : n = Len(ds)
    OBVIOUS
  <1>2. e \in Seq(Digits) /\ Len(e) = n + 1 /\ e[n + 1] = c /\ \A i \in 1..n : e[i] = ds[i]
    BY <1>1
  <1>3. PICK f : Sums(f, ds)
    BY SumLoop
  <1>4. PICK g : Sums(g, e)
    BY <1>2, SumLoop
  <1>5. /\ f[1] = 0 /\ \A i \in 1..n : f[i + 1] = 10 * f[i] + DigitOf[ds[i]]
        /\ Decimal(ds) = f[n + 1]
    BY <1>1, <1>3, Zenon DEF Sums
  <1>6. /\ g[1] = 0 /\ \A i \in 1..(n + 1) : g[i + 1] = 10 * g[i] + DigitOf[e[i]]
        /\ Decimal(e) = g[(n + 1) + 1]
    BY <1>2, <1>4, Zenon DEF Sums
  <1>7. PICK S : S = {i \in 1..(n + 1) : f[i] = g[i]}
    OBVIOUS
  <1>8. 1 \in S
    BY <1>5, <1>6, <1>7
  <1>9. ASSUME NEW i \in 1..n, i \in S PROVE i + 1 \in S
    <2>1. i \in 1..(n + 1) /\ i + 1 \in 1..(n + 1) /\ f[i] = g[i]
      BY <1>7, <1>9
    <2>2. f[i + 1] = g[i + 1]
      BY <1>2, <1>5, <1>6, <2>1, Zenon
    <2> QED
      BY <1>7, <2>1, <2>2
  <1>10. 1..(n + 1) \subseteq S
    BY <1>8, <1>9, EachRound
  <1>11. n + 1 \in 1..(n + 1)
    OBVIOUS
  <1>12. f[n + 1] = g[n + 1]
    BY <1>7, <1>10, <1>11
  <1> QED
    BY <1>2, <1>5, <1>6, <1>11, <1>12, Zenon

(* A number that does not begin with a zero is not zero. *)
LEMMA DecimalPositive ==
    ASSUME NEW ds \in Seq(Digits), ds # <<>>, ds[1] # "0"
    PROVE  Decimal(ds) > 0
  <1>1. PICK n \in Nat \ {0} : n = Len(ds)
    OBVIOUS
  <1>2. PICK f : Sums(f, ds)
    BY SumLoop
  <1>3. /\ f \in [1..(n + 1) -> Nat] /\ f[1] = 0
        /\ \A i \in 1..n : f[i + 1] = 10 * f[i] + DigitOf[ds[i]]
        /\ Decimal(ds) = f[n + 1]
    BY <1>1, <1>2, Zenon DEF Sums
  <1>4. \A i \in 1..n : ds[i] \in Digits
    BY <1>1
  <1>5. PICK S : S = {i \in 1..(n + 1) : i = 1 \/ f[i] > 0}
    OBVIOUS
  <1>6. 1 \in S
    BY <1>5
  <1>7. ASSUME NEW i \in 1..n, i \in S PROVE i + 1 \in S
    <2>1. i \in 1..(n + 1) /\ i + 1 \in 1..(n + 1) /\ (i = 1 \/ f[i] > 0)
      BY <1>5, <1>7
    <2>2. PICK d \in 0..9 : d = DigitOf[ds[i]]
      BY <1>4, DigitFacts
    <2>3. i = 1 => d # 0
      BY <1>4, <2>2, DigitFacts
    <2>4. PICK k \in Nat : k = f[i]
      BY <1>3, <2>1
    <2>5. f[i + 1] = 10 * k + d
      BY <1>3, <2>2, <2>4, Zenon
    <2>6. i = 1 \/ k > 0
      BY <2>1, <2>4, Zenon
    <2>7. 10 * k + d > 0
      BY <2>3, <2>6
    <2> QED
      BY <1>5, <2>1, <2>5, <2>7, Zenon
  <1>8. 1..(n + 1) \subseteq S
    BY <1>6, <1>7, EachRound
  <1>9. n + 1 \in 1..(n + 1) /\ n + 1 # 1
    BY <1>1
  <1>10. n + 1 \in S
    BY <1>8, <1>9, Zenon
  <1>11. f[n + 1] > 0
    BY <1>5, <1>9, <1>10, Zenon
  <1> QED
    BY <1>3, <1>11, Zenon

(* All but the last *)
LEMMA FrontLast ==
    ASSUME NEW A, NEW s \in Seq(A), s # <<>>
    PROVE  \E u \in Seq(A), c \in A : s = Append(u, c) /\ Len(s) = Len(u) + 1
                                      /\ (u # <<>> => u[1] = s[1])
  <1>1. PICK n \in Nat : Len(s) = n + 1
    <2>1. PICK k \in Nat \ {0} : k = Len(s)
      OBVIOUS
    <2>2. k - 1 \in Nat /\ k = (k - 1) + 1
      OBVIOUS
    <2> QED
      BY <2>1, <2>2, Zenon
  <1>2. PICK u : u = SubSeq(s, 1, n)
    OBVIOUS
  <1>3. u \in Seq(A) /\ Len(u) = n /\ \A i \in 1..n : u[i] = s[i]
    BY <1>1, <1>2
  <1>4. PICK c \in A : c = s[n + 1]
    BY <1>1
  <1>5. s = Append(u, c)
    BY <1>1, <1>3, <1>4
  <1>6. u # <<>> => u[1] = s[1]
    BY <1>3
  <1>7. Len(s) = Len(u) + 1
    BY <1>1, <1>3
  <1> QED
    BY <1>3, <1>4, <1>5, <1>6, <1>7

(* The text of a number: its digits, the first of them a zero only if it   *)
(* is the only one.                                                        *)
Canonical(t, n) ==
    /\ t \in Seq(Digits) /\ t # <<>>
    /\ t[1] = "0" => Len(t) = 1
    /\ Decimal(t) = n

(* One digit *)
LEMMA CanonicalDigit ==
    ASSUME NEW n \in 0..9, NEW c \in Digits, DigitOf[c] = n
    PROVE  Canonical(<<c>>, n)
  <1>1. PICK D : D = Digits
    OBVIOUS
  <1>2. PICK e : e = <<>>
    OBVIOUS
  <1>3. e \in Seq(D)
    BY <1>2
  <1>4. PICK t : t = Append(e, c)
    OBVIOUS
  <1>5. t = <<c>>
    BY <1>2, <1>4
  <1>6. t \in Seq(Digits) /\ Decimal(t) = 10 * Decimal(e) + DigitOf[c]
    BY <1>1, <1>3, <1>4, DecimalAppend, Zenon
  <1>7. Decimal(e) = 0
    BY <1>2, DecimalNone
  <1>8. Decimal(t) = n
    <2>1. PICK z \in Nat : z = Decimal(e) /\ z = 0
      BY <1>7
    <2>2. Decimal(t) = 10 * z + n
      BY <1>6, <2>1, Zenon
    <2> QED
      BY <2>1, <2>2
  <1>9. Len(t) = 1 /\ t # <<>>
    BY <1>5
  <1>10. Canonical(t, n)
    BY <1>6, <1>8, <1>9, Zenon DEF Canonical
  <1> QED
    BY <1>5, <1>10, Zenon

(* One more digit *)
LEMMA CanonicalAppend ==
    ASSUME NEW q \in Nat \ {0}, NEW u, Canonical(u, q), NEW c \in Digits
    PROVE  Canonical(Append(u, c), 10 * q + DigitOf[c])
  <1>1. u \in Seq(Digits) /\ u # <<>> /\ (u[1] = "0" => Len(u) = 1) /\ Decimal(u) = q
    BY DEF Canonical
  <1>2. PICK t : t = Append(u, c)
    OBVIOUS
  <1>3. t \in Seq(Digits) /\ Decimal(t) = 10 * Decimal(u) + DigitOf[c]
    BY <1>1, <1>2, DecimalAppend, Zenon
  <1>4. u[1] # "0"
    <2> SUFFICES ASSUME u[1] = "0" PROVE FALSE
      OBVIOUS
    <2>1. Len(u) = 1
      BY <1>1
    <2>2. PICK v \in Seq(Digits), d \in Digits : u = Append(v, d) /\ Len(u) = Len(v) + 1
      BY <1>1, FrontLast
    <2>3. v = <<>> /\ d = u[1]
      <3>1. Len(v) = 0
        BY <2>1, <2>2
      <3> QED
        BY <2>2, <3>1
    <2>4. Decimal(u) = 10 * Decimal(v) + DigitOf[d]
      BY <2>2, DecimalAppend, Zenon
    <2>5. PICK z \in Nat : z = Decimal(v) /\ z = 0
      BY <2>3, DecimalNone
    <2>6. PICK y \in Nat : y = DigitOf[d] /\ y = 0
      BY <2>3, DigitFacts
    <2>7. q = 10 * z + y
      BY <1>1, <2>4, <2>5, <2>6, Zenon
    <2> QED
      BY <2>5, <2>6, <2>7
  <1>5. t # <<>> /\ t[1] = u[1]
    BY <1>1, <1>2
  <1>6. Decimal(t) = 10 * q + DigitOf[c]
    BY <1>1, <1>3, Zenon
  <1>7. Canonical(t, 10 * q + DigitOf[c])
    BY <1>3, <1>4, <1>5, <1>6, Zenon DEF Canonical
  <1> QED
    BY <1>2, <1>7, Zenon

(* The last digit of a number, and what is in front of it. *)
LEMMA CanonicalParts ==
    ASSUME NEW n \in Nat, NEW t, Canonical(t, n)
    PROVE  \E u \in Seq(Digits), c \in Digits :
              /\ t = Append(u, c) /\ DigitOf[c] = n % 10
              /\ n < 10 => u = <<>>
              /\ n >= 10 => Canonical(u, n \div 10)
  <1>1. t \in Seq(Digits) /\ t # <<>> /\ (t[1] = "0" => Len(t) = 1) /\ Decimal(t) = n
    BY DEF Canonical
  <1>2. PICK u \in Seq(Digits), c \in Digits :
            t = Append(u, c) /\ Len(t) = Len(u) + 1 /\ (u # <<>> => u[1] = t[1])
    BY <1>1, FrontLast
  <1>3. PICK q \in Nat : q = Decimal(u)
    BY DecimalNumber
  <1>4. PICK d \in 0..9 : d = DigitOf[c]
    BY DigitFacts
  <1>5. n = 10 * q + d
    <2>1. Decimal(t) = 10 * Decimal(u) + DigitOf[c]
      BY <1>2, DecimalAppend, Zenon
    <2> QED
      BY <1>1, <1>3, <1>4, <2>1, Zenon
  <1>6. q = n \div 10 /\ d = n % 10
    BY <1>5
  <1>7. u # <<>> => u[1] # "0"
    <2> SUFFICES ASSUME u # <<>>, u[1] = "0" PROVE FALSE
      OBVIOUS
    <2>1. Len(t) = 1
      BY <1>1, <1>2, Zenon
    <2>2. PICK k \in Nat \ {0} : k = Len(u)
      OBVIOUS
    <2>3. 1 = k + 1
      BY <1>2, <2>1, <2>2, Zenon
    <2> QED
      BY <2>3
  <1>8. u # <<>> => q > 0
    BY <1>3, <1>7, DecimalPositive, Zenon
  <1>9. n < 10 => u = <<>>
    <2>1. n < 10 => ~(q > 0)
      BY <1>5
    <2> QED
      BY <1>8, <2>1, Zenon
  <1>10. ASSUME n >= 10 PROVE Canonical(u, n \div 10)
    <2>1. q # 0
      BY <1>5, <1>10
    <2>2. u # <<>>
      <3> SUFFICES ASSUME u = <<>> PROVE FALSE
        OBVIOUS
      <3> QED
        BY <1>3, <2>1, DecimalNone
    <2> QED
      BY <1>3, <1>6, <1>7, <2>2, Zenon DEF Canonical
  <1> QED
    BY <1>2, <1>4, <1>6, <1>9, <1>10, Zenon

(* Every number has one text, and no other. *)
LEMMA CanonicalExists == \A n \in Nat : \E t : Canonical(t, n)
  <1> SUFFICES ASSUME ~ \A n \in Nat : \E t : Canonical(t, n) PROVE FALSE
    OBVIOUS
  <1>1. PICK T : T = {n \in Nat : ~ \E t : Canonical(t, n)}
    OBVIOUS
  <1>2. T \in SUBSET Nat /\ T # {}
    BY <1>1, Zenon
  <1>3. PICK n \in T : \A m \in T : n <= m
    BY <1>2, LeastNumber
  <1>4. n \in Nat /\ ~ \E t : Canonical(t, n)
    BY <1>1, <1>3, Zenon
  <1>5. CASE n < 10
    <2>1. n \in 0..9
      BY <1>4, <1>5
    <2>2. Canonical(<<DigitFor(n)>>, n)
      BY <2>1, DigitForIs, CanonicalDigit
    <2> QED
      BY <1>4, <2>2
  <1>6. CASE n >= 10
    <2>1. PICK q \in Nat \ {0}, d \in 0..9 : n = 10 * q + d /\ q < n
      <3>1. n \div 10 \in Nat \ {0} /\ n % 10 \in 0..9 /\ n = 10 * (n \div 10) + (n % 10) /\ n \div 10 < n
        BY <1>4, <1>6
      <3> QED
        BY <3>1
    <2>2. q \notin T
      BY <1>3, <1>4, <2>1
    <2>3. PICK u : Canonical(u, q)
      BY <1>1, <2>2
    <2>4. PICK c \in Digits : DigitOf[c] = d
      BY DigitForIs
    <2>5. Canonical(Append(u, c), 10 * q + DigitOf[c])
      BY <2>3, CanonicalAppend
    <2>6. 10 * q + DigitOf[c] = n
      BY <2>1, <2>4, Zenon
    <2> QED
      BY <1>4, <2>5, <2>6, Zenon
  <1> QED
    BY <1>4, <1>5, <1>6

LEMMA CanonicalUnique ==
    \A n \in Nat : \A t, u : Canonical(t, n) /\ Canonical(u, n) => t = u
  <1> SUFFICES ASSUME ~ \A n \in Nat : \A t, u : Canonical(t, n) /\ Canonical(u, n) => t = u PROVE FALSE
    OBVIOUS
  <1>1. PICK T : T = {n \in Nat : ~ \A t, u : Canonical(t, n) /\ Canonical(u, n) => t = u}
    OBVIOUS
  <1>2. T \in SUBSET Nat /\ T # {}
    BY <1>1, Zenon
  <1>3. PICK n \in T : \A m \in T : n <= m
    BY <1>2, LeastNumber
  <1>4. n \in Nat /\ ~ \A t, u : Canonical(t, n) /\ Canonical(u, n) => t = u
    BY <1>1, <1>3, Zenon
  <1>5. PICK t, u : Canonical(t, n) /\ Canonical(u, n) /\ t # u
    BY <1>4
  <1>6. PICK v \in Seq(Digits), c \in Digits :
            /\ t = Append(v, c) /\ DigitOf[c] = n % 10
            /\ n < 10 => v = <<>>
            /\ n >= 10 => Canonical(v, n \div 10)
    BY <1>4, <1>5, CanonicalParts
  <1>7. PICK w \in Seq(Digits), d \in Digits :
            /\ u = Append(w, d) /\ DigitOf[d] = n % 10
            /\ n < 10 => w = <<>>
            /\ n >= 10 => Canonical(w, n \div 10)
    BY <1>4, <1>5, CanonicalParts
  <1>8. c = d
    BY <1>6, <1>7, SameDigit
  <1>9. v = w
    <2>1. CASE n < 10
      BY <1>6, <1>7, <2>1, Zenon
    <2>2. CASE n >= 10
      <3>1. PICK q \in Nat : q = n \div 10 /\ q < n
        BY <1>4, <2>2
      <3>2. q \notin T
        BY <1>3, <1>4, <3>1
      <3> QED
        BY <1>1, <1>6, <1>7, <2>2, <3>1, <3>2, Zenon
    <2>3. n < 10 \/ n >= 10
      BY <1>4
    <2> QED
      BY <2>1, <2>2, <2>3
  <1> QED
    BY <1>5, <1>6, <1>7, <1>8, <1>9, Zenon

(* The equation that defines DecimalText has a solution, and every         *)
(* solution gives each number its text.                                    *)
IsNotation(f) ==
    f = [n \in Nat |-> IF n < 10 THEN <<DigitFor(n)>> ELSE f[n \div 10] \o <<DigitFor(n % 10)>>]

LEMMA AppendIsJoin == ASSUME NEW A, NEW u \in Seq(A), NEW c \in A PROVE u \o <<c>> = Append(u, c)
  OBVIOUS

(* One round of DecimalText *)
LEMMA NotationRound ==
    ASSUME NEW n \in Nat, n >= 10, NEW u, Canonical(u, n \div 10)
    PROVE  Canonical(u \o <<DigitFor(n % 10)>>, n)
  <1>1. PICK q \in Nat \ {0} : q = n \div 10
    OBVIOUS
  <1>2. PICK d \in 0..9 : d = n % 10
    OBVIOUS
  <1>3. n = 10 * q + d
    BY <1>1, <1>2
  <1>4. PICK c \in Digits : c = DigitFor(d) /\ DigitOf[c] = d
    BY DigitForIs
  <1>5. Canonical(Append(u, c), 10 * q + DigitOf[c])
    BY <1>1, CanonicalAppend
  <1>6. u \o <<c>> = Append(u, c)
    <2>1. u \in Seq(Digits)
      BY DEF Canonical
    <2> QED
      BY <2>1, AppendIsJoin
  <1> QED
    BY <1>2, <1>3, <1>4, <1>5, <1>6, Zenon

LEMMA NotationExists == \E f : IsNotation(f)
  <1>1. PICK f : f = [n \in Nat |-> CHOOSE t : Canonical(t, n)]
    OBVIOUS
  <1>2. \A n \in Nat : Canonical(f[n], n)
    BY <1>1, CanonicalExists
  <1>3. ASSUME NEW n \in Nat
        PROVE  f[n] = IF n < 10 THEN <<DigitFor(n)>> ELSE f[n \div 10] \o <<DigitFor(n % 10)>>
    <2>1. CASE n < 10
      <3>1. n \in 0..9
        BY <2>1
      <3>2. Canonical(<<DigitFor(n)>>, n)
        BY <3>1, DigitForIs, CanonicalDigit
      <3>3. f[n] = <<DigitFor(n)>>
        BY <1>2, <3>2, CanonicalUnique, Zenon
      <3> QED
        BY <2>1, <3>3, Zenon
    <2>2. CASE ~(n < 10)
      <3>1. n >= 10 /\ n \div 10 \in Nat
        BY <2>2
      <3>2. Canonical(f[n \div 10] \o <<DigitFor(n % 10)>>, n)
        BY <1>2, <3>1, NotationRound
      <3>3. f[n] = f[n \div 10] \o <<DigitFor(n % 10)>>
        BY <1>2, <3>2, CanonicalUnique, Zenon
      <3> QED
        BY <2>2, <3>3, Zenon
    <2> QED
      BY <2>1, <2>2
  <1>4. PICK g : g = [n \in Nat |-> IF n < 10 THEN <<DigitFor(n)>>
                                    ELSE f[n \div 10] \o <<DigitFor(n % 10)>>]
    OBVIOUS
  <1>5. f = g
    <2>1. \A n \in Nat : f[n] = g[n]
      BY <1>3, <1>4, Zenon
    <2>2. f = [n \in Nat |-> f[n]] /\ g = [n \in Nat |-> g[n]]
      BY <1>1, <1>4
    <2>3. [n \in Nat |-> f[n]] = [n \in Nat |-> g[n]]
      BY <2>1
    <2> QED
      BY <2>2, <2>3, Zenon
  <1> QED
    BY <1>4, <1>5, Zenon DEF IsNotation

(* The text of a number is read as this number. *)
LEMMA DecimalTextIs == \A n \in Nat : Canonical(DecimalText[n], n)
  <1>1. DecimalText = CHOOSE f : IsNotation(f)
    BY Zenon DEF DecimalText, IsNotation, DigitFor
  <1>2. PICK f : f = DecimalText
    OBVIOUS
  <1>3. IsNotation(f)
    BY <1>1, <1>2, NotationExists, Zenon
  <1>4. \A n \in Nat : f[n] = IF n < 10 THEN <<DigitFor(n)>> ELSE f[n \div 10] \o <<DigitFor(n % 10)>>
    BY <1>3, Zenon DEF IsNotation
  <1>5. \A n \in Nat : Canonical(f[n], n)
    <2> SUFFICES ASSUME ~ \A n \in Nat : Canonical(f[n], n) PROVE FALSE
      OBVIOUS
    <2>1. PICK T : T = {n \in Nat : ~Canonical(f[n], n)}
      OBVIOUS
    <2>2. T \in SUBSET Nat /\ T # {}
      BY <2>1, Zenon
    <2>3. PICK n \in T : \A m \in T : n <= m
      BY <2>2, LeastNumber
    <2>4. n \in Nat /\ ~Canonical(f[n], n)
      BY <2>1, <2>3, Zenon
    <2>5. CASE n < 10
      <3>1. n \in 0..9
        BY <2>4, <2>5
      <3>2. Canonical(<<DigitFor(n)>>, n)
        BY <3>1, DigitForIs, CanonicalDigit
      <3> QED
        BY <1>4, <2>4, <2>5, <3>2, Zenon
    <2>6. CASE ~(n < 10)
      <3>1. n >= 10
        BY <2>4, <2>6
      <3>2. PICK q \in Nat : q = n \div 10 /\ q < n
        BY <2>4, <3>1
      <3>3. q \notin T
        BY <2>3, <2>4, <3>2
      <3>4. Canonical(f[n \div 10], n \div 10)
        BY <2>1, <3>2, <3>3, Zenon
      <3>5. Canonical(f[n \div 10] \o <<DigitFor(n % 10)>>, n)
        BY <2>4, <3>1, <3>4, NotationRound
      <3> QED
        BY <1>4, <2>4, <2>6, <3>5, Zenon
    <2> QED
      BY <2>5, <2>6
  <1> QED
    BY <1>2, <1>5, Zenon

LEMMA Appended ==
    ASSUME NEW A, NEW u \in Seq(A), NEW c \in A
    PROVE  /\ Append(u, c) \in Seq(A)
           /\ Len(Append(u, c)) = Len(u) + 1
           /\ Append(u, c)[Len(u) + 1] = c
           /\ \A k \in 1..Len(u) : Append(u, c)[k] = u[k]
  OBVIOUS

LEMMA PairText ==
    ASSUME NEW A, NEW c \in A, NEW d \in A
    PROVE  Append(<<c>>, d) = <<c, d>> /\ <<c>> \o <<d>> = <<c, d>>
  <1>1. PICK u : u = <<c>>
    OBVIOUS
  <1>2. u \in Seq(A) /\ Len(u) = 1 /\ u[1] = c
    BY <1>1
  <1>3. PICK v : v = <<c, d>>
    OBVIOUS
  <1>4. v \in Seq(A) /\ Len(v) = 2 /\ v[1] = c /\ v[2] = d
    BY <1>3
  <1>5. PICK w : w = Append(u, d)
    OBVIOUS
  <1>6. w \in Seq(A) /\ Len(w) = 2 /\ w[1] = c /\ w[2] = d
    <2>1. w \in Seq(A) /\ Len(w) = Len(u) + 1 /\ w[Len(u) + 1] = d /\ \A k \in 1..Len(u) : w[k] = u[k]
      <3>1. u \in Seq(A)
        BY <1>2
      <3>2. /\ Append(u, d) \in Seq(A) /\ Len(Append(u, d)) = Len(u) + 1
            /\ Append(u, d)[Len(u) + 1] = d /\ \A k \in 1..Len(u) : Append(u, d)[k] = u[k]
        BY <3>1, Appended
      <3> QED
        BY <1>5, <3>2, Zenon
    <2>2. Len(u) + 1 = 2 /\ 1 \in 1..Len(u)
      BY <1>2
    <2> QED
      BY <1>2, <2>1, <2>2, Zenon
  <1>7. w = v
    <2>1. PICK n \in Nat : n = 2
      OBVIOUS
    <2>2. Len(w) = n /\ Len(v) = n
      BY <1>4, <1>6, <2>1, Zenon
    <2>3. \A i \in 1..n : w[i] = v[i]
      BY <1>4, <1>6, <2>1
    <2> QED
      BY <1>4, <1>6, <2>2, <2>3
  <1>8. u \o <<d>> = Append(u, d)
    BY <1>2, AppendIsJoin
  <1> QED
    BY <1>1, <1>3, <1>5, <1>7, <1>8, Zenon

(* Two decimals *)
TwoDigits(h) == IF h < 10 THEN <<"0">> \o DecimalText[h] ELSE DecimalText[h]

LEMMA SmallText ==
    ASSUME NEW n \in 0..9
    PROVE  \E c \in Digits : DecimalText[n] = <<c>> /\ DigitOf[c] = n
  <1>1. n \in Nat /\ Canonical(DecimalText[n], n)
    BY DecimalTextIs
  <1>2. PICK c \in Digits : c = DigitFor(n) /\ DigitOf[c] = n
    BY DigitForIs
  <1>3. Canonical(<<c>>, n)
    BY <1>2, CanonicalDigit
  <1>4. DecimalText[n] = <<c>>
    BY <1>1, <1>3, CanonicalUnique, Zenon
  <1> QED
    BY <1>2, <1>4

LEMMA TwoDigitsAre ==
    ASSUME NEW h \in 0..99
    PROVE  \E c, d \in Digits : TwoDigits(h) = <<c, d>> /\ h = 10 * DigitOf[c] + DigitOf[d]
  <1>1. CASE h < 10
    <2>1. h \in 0..9
      BY <1>1
    <2>2. PICK d \in Digits : DecimalText[h] = <<d>> /\ DigitOf[d] = h
      BY <2>1, SmallText
    <2>3. TwoDigits(h) = <<"0">> \o <<d>>
      BY <1>1, <2>2, Zenon DEF TwoDigits
    <2>5. "0" \in Digits /\ DigitOf["0"] = 0
      BY DigitFacts
    <2>4. <<"0">> \o <<d>> = <<"0", d>>
      BY <2>5, PairText
    <2>6. h = 10 * 0 + h
      OBVIOUS
    <2> QED
      BY <2>2, <2>3, <2>4, <2>5, <2>6, Zenon
  <1>2. CASE h >= 10
    <2>1. h \in Nat
      OBVIOUS
    <2>2. Canonical(DecimalText[h], h)
      BY <2>1, DecimalTextIs
    <2>3. PICK u \in Seq(Digits), d \in Digits :
            /\ DecimalText[h] = Append(u, d) /\ DigitOf[d] = h % 10
            /\ Canonical(u, h \div 10)
      BY <1>2, <2>1, <2>2, CanonicalParts
    <2>4. PICK q \in 0..9 : q = h \div 10
      OBVIOUS
    <2>5. PICK c \in Digits : DecimalText[q] = <<c>> /\ DigitOf[c] = q
      BY SmallText
    <2>6. u = <<c>>
      <3>1. q \in Nat
        OBVIOUS
      <3>2. Canonical(<<c>>, q)
        BY <2>5, <3>1, DecimalTextIs, Zenon
      <3> QED
        BY <2>3, <2>4, <3>1, <3>2, CanonicalUnique, Zenon
    <2>7. Append(<<c>>, d) = <<c, d>>
      BY PairText
    <2>8. TwoDigits(h) = <<c, d>>
      <3>1. ~(h < 10)
        BY <1>2
      <3> QED
        BY <2>3, <2>6, <2>7, <3>1, Zenon DEF TwoDigits
    <2>9. h = 10 * q + (h % 10)
      BY <2>4
    <2>10. h = 10 * DigitOf[c] + DigitOf[d]
      BY <2>3, <2>5, <2>9, Zenon
    <2> QED
      BY <2>8, <2>10, Zenon
  <1> QED
    BY <1>1, <1>2

-----------------------------------------------------------------------------
(* The type of a text: what follows its first character. *)
RestType(t, from, dots, whole) ==
    LET points == {i \in from..Len(t) : t[i] = "."} IN
    IF (\E i \in (from..Len(t)) \ points : t[i] \notin Digits) \/ Cardinality(points) > dots
    THEN "string" ELSE IF points = {} THEN whole ELSE "float"

LEMMA TypeCases ==
    ASSUME NEW t, t # <<>>
    PROVE  /\ t[1] = "0" /\ Len(t) = 1 => InferType(t) = "int"
           /\ t[1] = "0" /\ Len(t) # 1 /\ t[2] = "." => InferType(t) = RestType(t, 3, 0, "float")
           /\ t[1] = "0" /\ Len(t) # 1 /\ t[2] # "." => InferType(t) = "string"
           /\ t[1] \in (Digits \ {"0"}) \cup {"-"} => InferType(t) = RestType(t, 2, 1, "int")
           /\ t[1] # "0" /\ t[1] \notin (Digits \ {"0"}) \cup {"-"} => InferType(t) = "string"
  <1>1. InferType(t) =
          CASE t = <<>> -> "string"
            [] t # <<>> /\ t[1] = "0" ->
                  IF Len(t) = 1 THEN "int" ELSE IF t[2] = "." THEN RestType(t, 3, 0, "float") ELSE "string"
            [] t # <<>> /\ t[1] \in (Digits \ {"0"}) \cup {"-"} -> RestType(t, 2, 1, "int")
            [] OTHER -> "string"
    BY Zenon DEF InferType, RestType
  <1>2. t[1] = "0" => t[1] \notin (Digits \ {"0"}) \cup {"-"}
    BY DigitFacts
  <1>3. ASSUME t[1] = "0"
        PROVE  InferType(t) = IF Len(t) = 1 THEN "int" ELSE IF t[2] = "." THEN RestType(t, 3, 0, "float") ELSE "string"
    BY <1>1, <1>2, <1>3, Zenon
  <1>4. ASSUME t[1] \in (Digits \ {"0"}) \cup {"-"} PROVE InferType(t) = RestType(t, 2, 1, "int")
    BY <1>1, <1>2, <1>4, Zenon
  <1>5. ASSUME t[1] # "0", t[1] \notin (Digits \ {"0"}) \cup {"-"} PROVE InferType(t) = "string"
    BY <1>1, <1>5, Zenon
  <1> QED
    BY <1>3, <1>4, <1>5, Zenon

LEMMA RestDigits ==
    ASSUME NEW t, NEW from, NEW dots \in Nat, NEW whole, \A i \in from..Len(t) : t[i] \in Digits
    PROVE  RestType(t, from, dots, whole) = whole
  <1>1. PICK points : points = {i \in from..Len(t) : t[i] = "."}
    OBVIOUS
  <1>2. "." \notin Digits
    BY DigitFacts
  <1>3. points = {}
    BY <1>1, <1>2, Zenon
  <1>4. ~(Cardinality(points) > dots)
    BY <1>3, FS_EmptySet
  <1>5. ~ \E i \in (from..Len(t)) \ points : t[i] \notin Digits
    BY Zenon
  <1> QED
    BY <1>1, <1>3, <1>4, <1>5, Zenon DEF RestType

LEMMA RestPoint ==
    ASSUME NEW t, NEW from, NEW p \in from..Len(t), t[p] = ".",
           \A i \in from..Len(t) : i # p => t[i] \in Digits, NEW whole
    PROVE  RestType(t, from, 1, whole) = "float"
  <1>1. PICK points : points = {i \in from..Len(t) : t[i] = "."}
    OBVIOUS
  <1>2. "." \notin Digits
    BY DigitFacts
  <1>3. points = {p}
    BY <1>1, <1>2, Zenon
  <1>4. ~(Cardinality(points) > 1) /\ points # {}
    <2>1. Cardinality(points) = 1
      BY <1>3, FS_Singleton, Zenon
    <2>2. ~(1 > 1)
      OBVIOUS
    <2> QED
      BY <1>3, <2>1, <2>2, Zenon
  <1>5. ~ \E i \in (from..Len(t)) \ points : t[i] \notin Digits
    BY <1>3, Zenon
  <1> QED
    BY <1>1, <1>4, <1>5, Zenon DEF RestType

LEMMA RestKinds ==
    ASSUME NEW t, NEW from, NEW dots, NEW whole
    PROVE  RestType(t, from, dots, whole) \in {"string", "float", whole}
  BY Zenon DEF RestType

LEMMA TypeKinds ==
    ASSUME NEW t
    PROVE  /\ InferType(t) \in {"int", "float", "string"}
           /\ InferType(t) = "int" => /\ t # <<>>
                                      /\ \/ t[1] = "0" /\ Len(t) = 1
                                         \/ t[1] \in (Digits \ {"0"}) \cup {"-"}
  <1>1. CASE t = <<>>
    <2>1. InferType(t) = "string"
      BY <1>1, Zenon DEF InferType
    <2> QED
      BY <2>1
  <1>2. CASE t # <<>>
    <2>1. CASE t[1] = "0"
      <3>1. CASE Len(t) = 1
        BY <1>2, <2>1, <3>1, TypeCases
      <3>2. CASE Len(t) # 1
        <4>1. RestType(t, 3, 0, "float") \in {"string", "float"}
          BY RestKinds
        <4>2. InferType(t) \in {"string", "float"}
          BY <1>2, <2>1, <3>2, <4>1, TypeCases, Zenon
        <4> QED
          BY <4>2
      <3> QED
        BY <3>1, <3>2
    <2>2. CASE t[1] # "0"
      <3>1. RestType(t, 2, 1, "int") \in {"string", "float", "int"}
        BY RestKinds
      <3>2. CASE t[1] \in (Digits \ {"0"}) \cup {"-"}
        BY <1>2, <3>1, <3>2, TypeCases, Zenon
      <3>3. CASE t[1] \notin (Digits \ {"0"}) \cup {"-"}
        <4>1. InferType(t) = "string"
          BY <1>2, <2>2, <3>3, TypeCases, Zenon
        <4> QED
          BY <4>1
      <3> QED
        BY <3>2, <3>3
    <2> QED
      BY <2>1, <2>2
  <1> QED
    BY <1>1, <1>2

-----------------------------------------------------------------------------
(* The characters of a number *)
NumberChars == Digits \cup {"-", "."}

(* A text and the same text behind a minus. *)
LEMMA Negated ==
    ASSUME NEW u \in Seq(NumberChars), NEW t, t = <<"-">> \o u
    PROVE  /\ t \in Seq(NumberChars) /\ Len(t) = 1 + Len(u) /\ t # <<>> /\ t[1] = "-"
           /\ \A i \in 1..Len(u) : t[1 + i] = u[i]
           /\ Unsigned(t) = u /\ Sign(t) = -1
  <1>1. PICK v : v = <<"-">>
    OBVIOUS
  <1>2. v \in Seq(NumberChars) /\ Len(v) = 1 /\ v[1] = "-"
    <2>1. "-" \in NumberChars
      BY DEF NumberChars
    <2> QED
      BY <1>1, <2>1
  <1>3. /\ t \in Seq(NumberChars) /\ Len(t) = Len(v) + Len(u)
        /\ \A k \in 1..Len(v) : t[k] = v[k]
        /\ \A k \in 1..Len(u) : t[Len(v) + k] = u[k]
    <2>1. v \in Seq(NumberChars)
      BY <1>2
    <2>2. /\ v \o u \in Seq(NumberChars) /\ Len(v \o u) = Len(v) + Len(u)
          /\ \A k \in 1..Len(v) : (v \o u)[k] = v[k]
          /\ \A k \in 1..Len(u) : (v \o u)[Len(v) + k] = u[k]
      BY <2>1, Joined
    <2> QED
      BY <1>1, <2>2, Zenon
  <1>4. 1 \in 1..Len(v)
    BY <1>2
  <1>5. Len(t) = 1 + Len(u) /\ t[1] = "-" /\ \A i \in 1..Len(u) : t[1 + i] = u[i]
    BY <1>2, <1>3, <1>4, Zenon
  <1>6. t # <<>>
    BY <1>3, <1>5
  <1>7. Signed(t)
    BY <1>5, <1>6 DEF Signed
  <1>8. Tail(t) = u
    <2>1. PICK n \in Nat : n = Len(u)
      OBVIOUS
    <2>2. PICK x : x = Tail(t)
      OBVIOUS
    <2>3. x \in Seq(NumberChars) /\ Len(x) = n /\ \A i \in 1..n : x[i] = t[1 + i]
      BY <1>3, <1>5, <1>6, <2>1, <2>2
    <2>4. \A i \in 1..n : x[i] = u[i]
      BY <1>5, <2>1, <2>3, Zenon
    <2>5. x = u
      BY <2>1, <2>3, <2>4, SameText
    <2> QED
      BY <2>2, <2>5, Zenon
  <1>9. Unsigned(t) = u
    BY <1>7, <1>8, Zenon DEF Unsigned
  <1>10. Sign(t) = -1
    BY <1>5, <1>7, Zenon DEF Sign
  <1> QED
    BY <1>3, <1>5, <1>6, <1>9, <1>10

LEMMA Plain ==
    ASSUME NEW t, t = <<>> \/ t[1] \in Digits
    PROVE  Unsigned(t) = t /\ Sign(t) = 1
  <1>1. ~Signed(t)
    BY DigitFacts DEF Signed
  <1> QED
    BY <1>1, Zenon DEF Unsigned, Sign

LEMMA DigitsAreChars == ASSUME NEW t \in Seq(Digits) PROVE t \in Seq(NumberChars)
  <1>1. Digits \subseteq NumberChars
    BY DEF NumberChars
  <1> QED
    BY <1>1

-----------------------------------------------------------------------------
(* Integers.  What is written of one *)
IntOut(n) == (IF n < 0 THEN <<"-">> ELSE <<>>) \o DecimalText[Abs(n)]

I64Of(ds, sign) ==
    IF ds # <<>> /\ AllDigits(ds) /\ sign * Decimal(ds) \in MinInt..MaxInt
    THEN {Int64(sign * Decimal(ds))} ELSE {}

LEMMA ParseI64Is == \A t : ParseI64(t) = I64Of(Unsigned(t), Sign(t))
  BY Zenon DEF ParseI64, I64Of

LEMMA OnlyOne == \A x, v : Else({x}, v) = x
  <1> SUFFICES ASSUME NEW x, NEW v PROVE Else({x}, v) = x
    OBVIOUS
  <1>1. {x} # {} /\ \A y \in {x} : y = x
    OBVIOUS
  <1>2. (CHOOSE y \in {x} : TRUE) \in {x}
    BY <1>1, Zenon
  <1> QED
    BY <1>1, <1>2, Zenon DEF Else

LEMMA IntRange == ASSUME NEW n \in MinInt..MaxInt PROVE n \in Int
  BY HalfAssumption DEF MinInt, MaxInt

LEMMA IntOutPlain ==
    ASSUME NEW n \in Nat
    PROVE  IntOut(n) = DecimalText[n]
  <1>1. ~(n < 0) /\ Abs(n) = n
    BY DEF Abs
  <1>2. DecimalText[n] \in Seq(Digits)
    BY DecimalTextIs DEF Canonical
  <1>3. <<>> \o DecimalText[n] = DecimalText[n]
    BY <1>2
  <1> QED
    BY <1>1, <1>3, Zenon DEF IntOut

LEMMA IntOutMinus ==
    ASSUME NEW n \in Nat \ {0}
    PROVE  IntOut(-n) = <<"-">> \o DecimalText[n]
  <1>1. -n < 0 /\ Abs(-n) = n
    BY DEF Abs
  <1> QED
    BY <1>1, Zenon DEF IntOut

(* A text that an integer is read from and that holds no point. *)
ReadsInt(t, n) ==
    /\ InferType(t) = "int" /\ ParseI64(t) = {Int64(n)}
    /\ \A i \in 1..Len(t) : t[i] # "."

LEMMA ReadsIntPlain ==
    ASSUME NEW n \in MinInt..MaxInt, n >= 0, NEW t, Canonical(t, n)
    PROVE  ReadsInt(t, n)
  <1>1. t \in Seq(Digits) /\ t # <<>> /\ (t[1] = "0" => Len(t) = 1) /\ Decimal(t) = n
    BY DEF Canonical
  <1>2. \A i \in 1..Len(t) : t[i] \in Digits
    BY <1>1
  <1>3. t[1] \in Digits
    BY <1>1
  <1>4. InferType(t) = "int"
    <2>1. CASE t[1] = "0"
      BY <1>1, <2>1, TypeCases
    <2>2. CASE t[1] # "0"
      <3>1. t[1] \in (Digits \ {"0"}) \cup {"-"}
        BY <1>3, <2>2
      <3>2. \A i \in 2..Len(t) : t[i] \in Digits
        BY <1>1, <1>2
      <3>3. RestType(t, 2, 1, "int") = "int"
        BY <3>2, RestDigits
      <3> QED
        BY <1>1, <3>1, <3>3, TypeCases, Zenon
    <2> QED
      BY <2>1, <2>2
  <1>5. Unsigned(t) = t /\ Sign(t) = 1
    BY <1>3, Plain
  <1>6. 1 * n = n
    BY IntRange
  <1>7. AllDigits(t)
    BY <1>2, Zenon DEF AllDigits
  <1>8. I64Of(t, 1) = {Int64(n)}
    BY <1>1, <1>6, <1>7, Zenon DEF I64Of
  <1>9. \A i \in 1..Len(t) : t[i] # "."
    BY <1>2, DigitFacts
  <1> QED
    BY <1>4, <1>5, <1>8, <1>9, ParseI64Is, Zenon DEF ReadsInt

LEMMA ReadsIntMinus ==
    ASSUME NEW n \in MinInt..MaxInt, NEW u \in Seq(Digits), u # <<>>, n = -Decimal(u),
           NEW t, t = <<"-">> \o u
    PROVE  ReadsInt(t, n)
  <1>0. u \in Seq(NumberChars)
    BY DigitsAreChars
  <1>1. /\ t \in Seq(NumberChars) /\ Len(t) = 1 + Len(u) /\ t # <<>> /\ t[1] = "-"
        /\ \A i \in 1..Len(u) : t[1 + i] = u[i]
        /\ Unsigned(t) = u /\ Sign(t) = -1
    BY <1>0, Negated
  <1>2. \A i \in 1..Len(u) : u[i] \in Digits
    OBVIOUS
  <1>3. PICK m \in Nat : m = Len(u)
    OBVIOUS
  <1>4. \A i \in 2..Len(t) : t[i] \in Digits
    <2> SUFFICES ASSUME NEW i \in 2..(1 + m) PROVE t[i] \in Digits
      BY <1>1, <1>3, Zenon
    <2>1. i - 1 \in 1..m /\ 1 + (i - 1) = i
      BY <1>3
    <2> QED
      BY <1>1, <1>2, <1>3, <2>1, Zenon
  <1>5. InferType(t) = "int"
    <2>1. t[1] \in (Digits \ {"0"}) \cup {"-"}
      BY <1>1
    <2>2. RestType(t, 2, 1, "int") = "int"
      BY <1>4, RestDigits
    <2> QED
      BY <1>1, <2>1, <2>2, TypeCases, Zenon
  <1>6. PICK k \in Nat : k = Decimal(u)
    BY DecimalNumber
  <1>7. (-1) * k = -k
    OBVIOUS
  <1>8. AllDigits(u)
    BY <1>2, Zenon DEF AllDigits
  <1>9. I64Of(u, -1) = {Int64(n)}
    BY <1>6, <1>7, <1>8, Zenon DEF I64Of
  <1>10. \A i \in 1..Len(t) : t[i] # "."
    <2> SUFFICES ASSUME NEW i \in 1..(1 + m) PROVE t[i] # "."
      BY <1>1, <1>3, Zenon
    <2>1. CASE i = 1
      BY <1>1, <2>1
    <2>2. CASE i # 1
      <3>1. i \in 2..(1 + m)
        BY <2>2, <1>3
      <3>2. t[i] \in Digits
        BY <1>1, <1>3, <1>4, <3>1, Zenon
      <3> QED
        BY <3>2, DigitFacts
    <2> QED
      BY <2>1, <2>2
  <1> QED
    BY <1>1, <1>5, <1>9, <1>10, ParseI64Is, Zenon DEF ReadsInt

(* What is written of an integer is read as this integer. *)
LEMMA IntRead ==
    ASSUME NEW n \in MinInt..MaxInt
    PROVE  ReadsInt(IntOut(n), n)
  <1>0. n \in Int
    BY IntRange
  <1>1. CASE n >= 0
    <2>1. n \in Nat
      BY <1>0, <1>1
    <2>2. IntOut(n) = DecimalText[n] /\ Canonical(DecimalText[n], n)
      BY <2>1, IntOutPlain, DecimalTextIs
    <2> QED
      BY <1>1, <2>2, ReadsIntPlain
  <1>2. CASE n < 0
    <2>1. PICK k \in Nat \ {0} : k = -n
      BY <1>0, <1>2
    <2>2. n = -k
      BY <1>0, <2>1
    <2>3. IntOut(-k) = <<"-">> \o DecimalText[k]
      BY IntOutMinus
    <2>4. PICK u : u = DecimalText[k]
      OBVIOUS
    <2>5. u \in Seq(Digits) /\ u # <<>> /\ Decimal(u) = k
      BY <2>4, DecimalTextIs DEF Canonical
    <2>6. ReadsInt(<<"-">> \o u, n)
      BY <2>2, <2>5, ReadsIntMinus
    <2> QED
      BY <2>2, <2>3, <2>4, <2>6, Zenon
  <1> QED
    BY <1>0, <1>1, <1>2

LEMMA InferInt ==
    ASSUME NEW t, NEW n, ReadsInt(t, n)
    PROVE  InferFrom(t) = Int64(n) /\ InferNumberFrom(t) = {Int64(n)}
  <1>1. InferType(t) = "int" /\ ParseI64(t) = {Int64(n)}
    BY DEF ReadsInt
  <1>2. InferFrom(t) = Else(ParseI64(t), Str(t))
    BY <1>1 DEF InferFrom
  <1>3. InferNumberFrom(t) = ParseI64(t)
    BY Zenon DEF ReadsInt, InferNumberFrom
  <1> QED
    BY <1>1, <1>2, <1>3, OnlyOne, Zenon

LEMMA DigitSeq ==
    ASSUME NEW A, NEW u \in Seq(A), AllDigits(u)
    PROVE  u \in Seq(Digits)
  <1>1. PICK n \in Nat : n = Len(u)
    OBVIOUS
  <1>2. \A i \in 1..n : u[i] \in Digits
    BY <1>1 DEF AllDigits
  <1> QED
    BY <1>1, <1>2

LEMMA Behind ==
    ASSUME NEW A, NEW t \in Seq(A), t # <<>>
    PROVE  /\ Tail(t) \in Seq(A) /\ Len(t) = 1 + Len(Tail(t)) /\ t = <<t[1]>> \o Tail(t)
           /\ \A i \in 1..Len(Tail(t)) : Tail(t)[i] = t[1 + i]
  <1>1. PICK u : u = Tail(t)
    OBVIOUS
  <1>2. u \in Seq(A) /\ Len(t) = 1 + Len(u) /\ \A i \in 1..Len(u) : u[i] = t[1 + i]
    BY <1>1
  <1>3. PICK c \in A : c = t[1]
    OBVIOUS
  <1>4. PICK v : v = <<c>>
    OBVIOUS
  <1>5. v \in Seq(A) /\ Len(v) = 1 /\ v[1] = c
    BY <1>4
  <1>6. PICK n \in Nat : n = Len(u)
    BY <1>2
  <1>7. PICK w : w = v \o u
    OBVIOUS
  <1>8. /\ w \in Seq(A) /\ Len(w) = Len(v) + Len(u)
        /\ \A k \in 1..Len(v) : w[k] = v[k]
        /\ \A k \in 1..Len(u) : w[Len(v) + k] = u[k]
    <2>1. v \in Seq(A) /\ u \in Seq(A)
      BY <1>2, <1>5
    <2>2. /\ v \o u \in Seq(A) /\ Len(v \o u) = Len(v) + Len(u)
          /\ \A k \in 1..Len(v) : (v \o u)[k] = v[k]
          /\ \A k \in 1..Len(u) : (v \o u)[Len(v) + k] = u[k]
      BY <2>1, Joined
    <2> QED
      BY <1>7, <2>2, Zenon
  <1>9. /\ Len(w) = 1 + n /\ w[1] = c /\ \A k \in 1..n : w[1 + k] = u[k]
    <2>1. 1 \in 1..Len(v)
      BY <1>5
    <2> QED
      BY <1>5, <1>6, <1>8, <2>1, Zenon
  <1>10. \A k \in 1..(1 + n) : t[k] = w[k]
    <2> SUFFICES ASSUME NEW k \in 1..(1 + n) PROVE t[k] = w[k]
      OBVIOUS
    <2>1. CASE k = 1
      BY <1>3, <1>9, <2>1
    <2>2. CASE k # 1
      <3>1. k - 1 \in 1..n /\ 1 + (k - 1) = k
        BY <1>6, <2>2
      <3> QED
        BY <1>2, <1>6, <1>9, <3>1, Zenon
    <2> QED
      BY <2>1, <2>2
  <1>11. 1 + n \in Nat /\ Len(t) = 1 + n
    BY <1>2, <1>6
  <1>12. t = w
    BY <1>8, <1>9, <1>10, <1>11, SameText
  <1> QED
    BY <1>1, <1>2, <1>3, <1>4, <1>7, <1>12, Zenon

(* A text whose first character is a digit that an integer is read from is *)
(* the text of that integer, and with a minus too, if no zero follows.     *)
LEMMA IntKept ==
    ASSUME NEW A, NEW t \in Seq(A), InferType(t) = "int", ParseI64(t) # {}
    PROVE  \E n \in MinInt..MaxInt :
              /\ ParseI64(t) = {Int64(n)}
              /\ ~IsPrefix(<<"-", "0">>, t) => IntOut(n) = t
  <1>1. t # <<>> /\ (t[1] = "0" => Len(t) = 1) /\ t[1] \in Digits \cup {"-"}
    BY TypeKinds, DigitFacts
  <1>2. CASE t[1] \in Digits
    <2>1. Unsigned(t) = t /\ Sign(t) = 1
      BY <1>2, Plain
    <2>2. /\ AllDigits(t) /\ 1 * Decimal(t) \in MinInt..MaxInt
          /\ ParseI64(t) = {Int64(1 * Decimal(t))}
      BY <2>1, ParseI64Is, Zenon DEF I64Of
    <2>3. t \in Seq(Digits)
      BY <2>2, DigitSeq
    <2>4. PICK n \in Nat : n = Decimal(t)
      BY <2>3, DecimalNumber
    <2>5. 1 * n = n
      OBVIOUS
    <2>6. n \in MinInt..MaxInt /\ ParseI64(t) = {Int64(n)}
      BY <2>2, <2>4, <2>5, Zenon
    <2>7. Canonical(t, n)
      BY <1>1, <2>3, <2>4, Zenon DEF Canonical
    <2>8. IntOut(n) = t
      BY <2>7, IntOutPlain, DecimalTextIs, CanonicalUnique, Zenon
    <2> QED
      BY <2>6, <2>8, Zenon
  <1>3. CASE t[1] = "-"
    <2>1. Signed(t)
      BY <1>1, <1>3 DEF Signed
    <2>2. PICK u : u = Tail(t)
      OBVIOUS
    <2>3. Unsigned(t) = u /\ Sign(t) = -1
      BY <1>3, <2>1, <2>2, Zenon DEF Unsigned, Sign
    <2>4. /\ u # <<>> /\ AllDigits(u) /\ (-1) * Decimal(u) \in MinInt..MaxInt
          /\ ParseI64(t) = {Int64((-1) * Decimal(u))}
      BY <2>3, ParseI64Is, Zenon DEF I64Of
    <2>5. /\ u \in Seq(A) /\ Len(t) = 1 + Len(u) /\ t = <<t[1]>> \o u
          /\ \A i \in 1..Len(u) : u[i] = t[1 + i]
      BY <1>1, <2>2, Behind, Zenon
    <2>6. u \in Seq(Digits)
      BY <2>4, <2>5, DigitSeq
    <2>7. PICK k \in Nat : k = Decimal(u)
      BY <2>6, DecimalNumber
    <2>8. (-1) * k = -k
      OBVIOUS
    <2>9. -k \in MinInt..MaxInt /\ ParseI64(t) = {Int64(-k)}
      BY <2>4, <2>7, <2>8, Zenon
    <2>10. ASSUME ~IsPrefix(<<"-", "0">>, t) PROVE IntOut(-k) = t
      <3>1. u[1] # "0"
        <4> SUFFICES ASSUME u[1] = "0" PROVE IsPrefix(<<"-", "0">>, t)
          BY <2>10
        <4>1. PICK m \in Nat \ {0} : m = Len(u)
          BY <2>4, <2>6
        <4>2. t[2] = "0" /\ Len(t) = 1 + m
          <5>1. 1 \in 1..m /\ 1 + 1 = 2
            BY <4>1
          <5> QED
            BY <2>5, <4>1, <5>1, Zenon
        <4>3. PICK x : x = <<"-", "0">>
          OBVIOUS
        <4>4. Len(x) = 2 /\ x[1] = "-" /\ x[2] = "0" /\ x \in Seq({"-", "0"})
          BY <4>3
        <4>5. PICK y : y = SubSeq(t, 1, 2)
          OBVIOUS
        <4>6. y \in Seq(A) /\ Len(y) = 2 /\ \A i \in 1..2 : y[i] = t[i]
          BY <4>1, <4>2, <4>5
        <4>7. PICK z : z = SubSeq(x, 1, 2)
          OBVIOUS
        <4>8. z \in Seq({"-", "0"}) /\ Len(z) = 2 /\ \A i \in 1..2 : z[i] = x[i]
          BY <4>4, <4>7
        <4>9. y = z
          <5>1. PICK two \in Nat : two = 2
            OBVIOUS
          <5>2. Len(y) = two /\ Len(z) = two
            BY <4>6, <4>8, <5>1, Zenon
          <5>3. \A i \in 1..two : y[i] = z[i]
            BY <1>3, <4>2, <4>4, <4>6, <4>8, <5>1
          <5>4. PICK B : B = A \cup {"-", "0"}
            OBVIOUS
          <5>5. A \subseteq B /\ {"-", "0"} \subseteq B
            BY <5>4
          <5>6. y \in Seq(B) /\ z \in Seq(B)
            BY <4>6, <4>8, <5>5
          <5> QED
            BY <5>2, <5>3, <5>6, SameText
        <4>10. Len(x) <= Len(t)
          BY <4>1, <4>2, <4>4
        <4>11. SubSeq(x, 1, Len(x)) = SubSeq(t, 1, Len(x))
          BY <4>4, <4>5, <4>7, <4>9, Zenon
        <4> QED
          BY <4>3, <4>10, <4>11, Zenon DEF IsPrefix
      <3>2. Canonical(u, k)
        BY <2>4, <2>6, <2>7, <3>1, Zenon DEF Canonical
      <3>3. k \in Nat \ {0}
        <4>1. k > 0
          BY <2>4, <2>6, <2>7, <3>1, DecimalPositive, Zenon
        <4> QED
          BY <4>1
      <3>4. DecimalText[k] = u
        BY <3>2, DecimalTextIs, CanonicalUnique, Zenon
      <3>5. IntOut(-k) = <<"-">> \o DecimalText[k]
        BY <3>3, IntOutMinus
      <3> QED
        BY <1>3, <2>5, <3>4, <3>5, Zenon
    <2> QED
      BY <2>9, <2>10, Zenon
  <1> QED
    BY <1>1, <1>2, <1>3

-----------------------------------------------------------------------------
(* Floats, in thousandths.  The text between the sign and the end *)
Laid(u, w, c, d) ==
    /\ u \in Seq(NumberChars) /\ w \in Seq(Digits) /\ c \in Digits /\ d \in Digits
    /\ w # <<>> /\ (w[1] = "0" => Len(w) = 1)
    /\ Len(u) = Len(w) + 3
    /\ \A i \in 1..Len(w) : u[i] = w[i]
    /\ u[Len(w) + 1] = "." /\ u[Len(w) + 2] = c /\ u[Len(w) + 3] = d

PointsOf(u) == {i \in 1..Len(u) : u[i] = "."}
WholeOf(u) == IF PointsOf(u) = {} THEN u ELSE SubSeq(u, 1, (CHOOSE i \in PointsOf(u) : TRUE) - 1)
FractionOf(u) == IF PointsOf(u) = {} THEN <<>> ELSE SubSeq(u, Len(WholeOf(u)) + 2, Len(u))
ThousandthsOf(u) == SubSeq(FractionOf(u) \o <<"0", "0", "0">>, 1, 3)

(* in thousandths *)
Amount(u) == 1000 * Decimal(WholeOf(u)) + Decimal(ThousandthsOf(u))

F64Of(u, sign) ==
    IF Cardinality(PointsOf(u)) <= 1 /\ AllDigits(WholeOf(u)) /\ AllDigits(FractionOf(u))
          /\ Len(u) > Cardinality(PointsOf(u))
    THEN {Float(sign * Amount(u))} ELSE {}

LEMMA ParseF64Is == \A t : ParseF64(t) = F64Of(Unsigned(t), Sign(t))
  BY Zenon DEF ParseF64, F64Of, Amount, PointsOf, WholeOf, FractionOf, ThousandthsOf

LEMMA LaidPoints ==
    ASSUME NEW u, NEW w, NEW c, NEW d, Laid(u, w, c, d)
    PROVE  PointsOf(u) = {Len(w) + 1}
  <1>1. PICK n \in Nat : n = Len(w)
    BY DEF Laid
  <1>2. /\ Len(u) = n + 3 /\ \A i \in 1..n : u[i] = w[i]
        /\ u[n + 1] = "." /\ u[n + 2] = c /\ u[n + 3] = d
    BY <1>1, Zenon DEF Laid
  <1>3. c # "." /\ d # "." /\ \A i \in 1..n : w[i] # "."
    <2>1. \A i \in 1..n : w[i] \in Digits
      BY <1>1 DEF Laid
    <2> QED
      BY <2>1, DigitFacts DEF Laid
  <1>4. \A i \in 1..(n + 3) : u[i] = "." <=> i = n + 1
    <2> SUFFICES ASSUME NEW i \in 1..(n + 3) PROVE u[i] = "." <=> i = n + 1
      OBVIOUS
    <2>1. i \in 1..n \/ i = n + 1 \/ i = n + 2 \/ i = n + 3
      BY <1>1
    <2>2. CASE i \in 1..n
      <3>1. i # n + 1
        BY <1>1, <2>2
      <3> QED
        BY <1>2, <1>3, <2>2, <3>1
    <2>3. CASE i = n + 1
      BY <1>2, <2>3
    <2>4. CASE i = n + 2
      <3>1. i # n + 1
        BY <1>1, <2>4
      <3> QED
        BY <1>2, <1>3, <2>4, <3>1, Zenon
    <2>5. CASE i = n + 3
      <3>1. i # n + 1
        BY <1>1, <2>5
      <3> QED
        BY <1>2, <1>3, <2>5, <3>1, Zenon
    <2> QED
      BY <2>1, <2>2, <2>3, <2>4, <2>5
  <1>5. n + 1 \in 1..(n + 3)
    BY <1>1
  <1>6. {i \in 1..(n + 3) : u[i] = "."} = {n + 1}
    BY <1>4, <1>5, Zenon
  <1> QED
    BY <1>1, <1>2, <1>6, Zenon DEF PointsOf

LEMMA LaidParts ==
    ASSUME NEW u, NEW w, NEW c, NEW d, Laid(u, w, c, d)
    PROVE  WholeOf(u) = w /\ FractionOf(u) = <<c, d>>
  <1>1. PICK n \in Nat : n = Len(w)
    BY DEF Laid
  <1>2. /\ Len(u) = n + 3 /\ \A i \in 1..n : u[i] = w[i]
        /\ u[n + 1] = "." /\ u[n + 2] = c /\ u[n + 3] = d
        /\ u \in Seq(NumberChars)
    BY <1>1, Zenon DEF Laid
  <1>3. PointsOf(u) = {n + 1}
    BY <1>1, LaidPoints, Zenon
  <1>4. PointsOf(u) # {} /\ (CHOOSE i \in PointsOf(u) : TRUE) = n + 1
    <2>1. \E i : i \in PointsOf(u)
      BY <1>3
    <2>2. (CHOOSE i \in PointsOf(u) : TRUE) \in PointsOf(u)
      BY <2>1, Zenon
    <2> QED
      BY <1>3, <2>1, <2>2, Zenon
  <1>5. (n + 1) - 1 = n
    BY <1>1
  <1>6. WholeOf(u) = SubSeq(u, 1, n)
    BY <1>4, <1>5, Zenon DEF WholeOf
  <1>7. PICK x : x = SubSeq(u, 1, n)
    OBVIOUS
  <1>8. x \in Seq(NumberChars) /\ Len(x) = n /\ \A i \in 1..n : x[i] = u[i]
    BY <1>1, <1>2, <1>7
  <1>9. w \in Seq(NumberChars)
    BY DigitsAreChars DEF Laid
  <1>10. x = w
    <2>1. \A i \in 1..n : x[i] = w[i]
      BY <1>2, <1>8, Zenon
    <2>2. Len(w) = n
      BY <1>1, Zenon
    <2> QED
      BY <1>8, <1>9, <2>1, <2>2, SameText
  <1>11. WholeOf(u) = w
    BY <1>6, <1>7, <1>10, Zenon
  <1>12. FractionOf(u) = SubSeq(u, n + 2, n + 3)
    BY <1>1, <1>2, <1>4, <1>11, Zenon DEF FractionOf
  <1>13. PICK y : y = SubSeq(u, n + 2, n + 3)
    OBVIOUS
  <1>14. y \in Seq(NumberChars) /\ Len(y) = 2 /\ y[1] = u[n + 2] /\ y[2] = u[n + 3]
    BY <1>1, <1>2, <1>13
  <1>15. PICK z : z = <<c, d>>
    OBVIOUS
  <1>16. z \in Seq(NumberChars) /\ Len(z) = 2 /\ z[1] = c /\ z[2] = d
    <2>1. c \in NumberChars /\ d \in NumberChars
      BY DEF Laid, NumberChars
    <2> QED
      BY <1>15, <2>1
  <1>17. y = z
    <2>1. PICK two \in Nat : two = 2
      OBVIOUS
    <2>2. Len(y) = two /\ Len(z) = two
      BY <1>14, <1>16, <2>1, Zenon
    <2>3. \A i \in 1..two : y[i] = z[i]
      BY <1>2, <1>14, <1>16, <2>1
    <2> QED
      BY <1>14, <1>16, <2>2, <2>3, SameText
  <1> QED
    BY <1>11, <1>12, <1>13, <1>15, <1>17, Zenon

(* Two decimals, with a zero behind them. *)
LEMMA LaidThousandths ==
    ASSUME NEW u, NEW w, NEW c, NEW d, Laid(u, w, c, d)
    PROVE  Decimal(ThousandthsOf(u)) = 10 * (10 * DigitOf[c] + DigitOf[d])
  <1>1. c \in Digits /\ d \in Digits /\ "0" \in Digits /\ DigitOf["0"] = 0
    BY DigitFacts DEF Laid
  <1>2. PICK f : f = <<c, d>>
    OBVIOUS
  <1>3. f \in Seq(Digits) /\ Len(f) = 2 /\ f[1] = c /\ f[2] = d
    BY <1>1, <1>2
  <1>4. PICK z : z = <<"0", "0", "0">>
    OBVIOUS
  <1>5. z \in Seq(Digits) /\ Len(z) = 3 /\ z[1] = "0"
    BY <1>1, <1>4
  <1>6. PICK j : j = f \o z
    OBVIOUS
  <1>7. /\ j \in Seq(Digits) /\ Len(j) = Len(f) + Len(z)
        /\ \A k \in 1..Len(f) : j[k] = f[k]
        /\ \A k \in 1..Len(z) : j[Len(f) + k] = z[k]
    <2>1. f \in Seq(Digits) /\ z \in Seq(Digits)
      BY <1>3, <1>5
    <2>2. /\ f \o z \in Seq(Digits) /\ Len(f \o z) = Len(f) + Len(z)
          /\ \A k \in 1..Len(f) : (f \o z)[k] = f[k]
          /\ \A k \in 1..Len(z) : (f \o z)[Len(f) + k] = z[k]
      BY <2>1, Joined
    <2> QED
      BY <1>6, <2>2, Zenon
  <1>8. Len(j) = 5 /\ j[1] = c /\ j[2] = d /\ j[3] = "0"
    <2>1. /\ 1 \in 1..Len(f) /\ 2 \in 1..Len(f) /\ 1 \in 1..Len(z)
          /\ Len(f) + Len(z) = 5 /\ Len(f) + 1 = 3
      BY <1>3, <1>5
    <2> QED
      BY <1>3, <1>5, <1>7, <2>1, Zenon
  <1>9. PICK x : x = SubSeq(j, 1, 3)
    OBVIOUS
  <1>10. x \in Seq(Digits) /\ Len(x) = 3 /\ \A i \in 1..3 : x[i] = j[i]
    BY <1>7, <1>8, <1>9
  <1>11. PICK y : y = Append(f, "0")
    OBVIOUS
  <1>12. y \in Seq(Digits) /\ Decimal(y) = 10 * Decimal(f) + DigitOf["0"]
    BY <1>1, <1>3, <1>11, DecimalAppend, Zenon
  <1>13. Len(y) = 3 /\ y[1] = c /\ y[2] = d /\ y[3] = "0"
    <2>1. f \in Seq(Digits)
      BY <1>3
    <2>2. Len(y) = Len(f) + 1 /\ y[Len(f) + 1] = "0" /\ \A k \in 1..Len(f) : y[k] = f[k]
      <3>1. /\ Len(Append(f, "0")) = Len(f) + 1 /\ Append(f, "0")[Len(f) + 1] = "0"
            /\ \A k \in 1..Len(f) : Append(f, "0")[k] = f[k]
        BY <1>1, <2>1, Appended
      <3> QED
        BY <1>11, <3>1, Zenon
    <2>3. Len(f) + 1 = 3 /\ 1 \in 1..Len(f) /\ 2 \in 1..Len(f)
      BY <1>3
    <2> QED
      BY <1>3, <2>2, <2>3, Zenon
  <1>14. x = y
    <2>1. PICK three \in Nat : three = 3
      OBVIOUS
    <2>2. Len(x) = three /\ Len(y) = three
      BY <1>10, <1>13, <2>1, Zenon
    <2>3. \A i \in 1..three : x[i] = y[i]
      BY <1>8, <1>10, <1>13, <2>1
    <2> QED
      BY <1>10, <1>12, <2>2, <2>3, SameText
  <1>15. ThousandthsOf(u) = y
    <2>1. FractionOf(u) = f
      BY <1>2, LaidParts, Zenon
    <2> QED
      BY <1>4, <1>6, <1>9, <1>14, <2>1, Zenon DEF ThousandthsOf
  <1>16. Decimal(f) = 10 * DigitOf[c] + DigitOf[d]
    <2>1. PICK e : e = <<c>>
      OBVIOUS
    <2>2. PICK k \in 0..9 : k = DigitOf[c]
      BY <1>1, DigitFacts
    <2>3. e \in Seq(Digits) /\ Decimal(e) = k
      BY <1>1, <2>1, <2>2, CanonicalDigit DEF Canonical
    <2>4. f = Append(e, d)
      BY <1>1, <1>2, <2>1, PairText, Zenon
    <2> QED
      BY <1>1, <2>2, <2>3, <2>4, DecimalAppend, Zenon
  <1>17. PICK m \in Nat : m = Decimal(f)
    BY <1>3, DecimalNumber
  <1>18. 10 * m + 0 = 10 * m
    BY <1>17
  <1> QED
    BY <1>1, <1>12, <1>15, <1>16, <1>17, <1>18, Zenon

LEMMA JoinJoin ==
    ASSUME NEW A, NEW a \in Seq(A), NEW b \in Seq(A), NEW c \in Seq(A)
    PROVE  (a \o b) \o c = a \o (b \o c)
  OBVIOUS

(* The text of a whole number, a point and two digits *)
LEMMA LaidText ==
    ASSUME NEW a \in Nat, NEW h \in 0..99, NEW w, w = DecimalText[a]
    PROVE  \E c, d : /\ Laid((w \o <<".">>) \o TwoDigits(h), w, c, d)
                     /\ h = 10 * DigitOf[c] + DigitOf[d] /\ TwoDigits(h) \in Seq(NumberChars)
  <1>1. w \in Seq(Digits) /\ w # <<>> /\ (w[1] = "0" => Len(w) = 1)
    BY DecimalTextIs DEF Canonical
  <1>2. w \in Seq(NumberChars)
    BY <1>1, DigitsAreChars
  <1>3. PICK c, d \in Digits : TwoDigits(h) = <<c, d>> /\ h = 10 * DigitOf[c] + DigitOf[d]
    BY TwoDigitsAre
  <1>4. c \in NumberChars /\ d \in NumberChars /\ "." \in NumberChars
    BY DEF NumberChars
  <1>5. PICK p : p = <<".">>
    OBVIOUS
  <1>6. p \in Seq(NumberChars) /\ Len(p) = 1 /\ p[1] = "."
    BY <1>4, <1>5
  <1>7. PICK f : f = <<c, d>>
    OBVIOUS
  <1>8. f \in Seq(NumberChars) /\ Len(f) = 2 /\ f[1] = c /\ f[2] = d
    BY <1>4, <1>7
  <1>9. PICK n \in Nat : n = Len(w)
    BY <1>1
  <1>10. PICK x : x = w \o p
    OBVIOUS
  <1>11. x \in Seq(NumberChars) /\ Len(x) = n + 1 /\ x[n + 1] = "." /\ \A i \in 1..n : x[i] = w[i]
    <2>1. p \in Seq(NumberChars)
      BY <1>6
    <2>2. /\ w \o p \in Seq(NumberChars) /\ Len(w \o p) = Len(w) + Len(p)
          /\ \A k \in 1..Len(w) : (w \o p)[k] = w[k]
          /\ \A k \in 1..Len(p) : (w \o p)[Len(w) + k] = p[k]
      BY <1>2, <2>1, Joined
    <2>3. 1 \in 1..Len(p)
      BY <1>6
    <2> QED
      BY <1>6, <1>9, <1>10, <2>2, <2>3, Zenon
  <1>12. PICK u : u = x \o f
    OBVIOUS
  <1>13. /\ u \in Seq(NumberChars) /\ Len(u) = (n + 1) + 2 /\ \A i \in 1..(n + 1) : u[i] = x[i]
         /\ u[(n + 1) + 1] = c /\ u[(n + 1) + 2] = d
    <2>1. x \in Seq(NumberChars) /\ f \in Seq(NumberChars)
      BY <1>8, <1>11
    <2>2. /\ x \o f \in Seq(NumberChars) /\ Len(x \o f) = Len(x) + Len(f)
          /\ \A k \in 1..Len(x) : (x \o f)[k] = x[k]
          /\ \A k \in 1..Len(f) : (x \o f)[Len(x) + k] = f[k]
      BY <2>1, Joined
    <2>3. 1 \in 1..Len(f) /\ 2 \in 1..Len(f)
      BY <1>8
    <2> QED
      BY <1>8, <1>11, <1>12, <2>2, <2>3, Zenon
  <1>14. /\ (n + 1) + 2 = n + 3 /\ (n + 1) + 1 = n + 2 /\ n + 1 \in 1..(n + 1)
         /\ \A i \in 1..n : i \in 1..(n + 1)
    BY <1>9
  <1>15. /\ Len(u) = n + 3 /\ u[n + 1] = "." /\ u[n + 2] = c /\ u[n + 3] = d
         /\ \A i \in 1..n : u[i] = w[i]
    BY <1>11, <1>13, <1>14, Zenon
  <1>16. Laid(u, w, c, d)
    BY <1>1, <1>9, <1>13, <1>15, Zenon DEF Laid
  <1> QED
    BY <1>3, <1>5, <1>7, <1>8, <1>10, <1>12, <1>16, Zenon

(* The value of such a text *)
LEMMA LaidValue ==
    ASSUME NEW u, NEW w, NEW c, NEW d, Laid(u, w, c, d), NEW sign \in {1, -1},
           NEW k \in Nat, Decimal(w) = k \div 100, 10 * DigitOf[c] + DigitOf[d] = k % 100
    PROVE  F64Of(u, sign) = {Float(sign * (10 * k))}
  <1>1. w \in Seq(Digits) /\ c \in Digits /\ d \in Digits
    BY DEF Laid
  <1>2. WholeOf(u) = w /\ FractionOf(u) = <<c, d>>
    BY LaidParts
  <1>3. AllDigits(WholeOf(u))
    <2>1. \A i \in 1..Len(w) : w[i] \in Digits
      BY <1>1
    <2> QED
      BY <1>2, <2>1, Zenon DEF AllDigits
  <1>4. AllDigits(FractionOf(u))
    <2>1. PICK f : f = <<c, d>>
      OBVIOUS
    <2>2. f \in Seq(Digits)
      BY <1>1, <2>1
    <2>3. \A i \in 1..Len(f) : f[i] \in Digits
      BY <2>2
    <2> QED
      BY <1>2, <2>1, <2>3, Zenon DEF AllDigits
  <1>5. Cardinality(PointsOf(u)) = 1
    BY LaidPoints, FS_Singleton, Zenon
  <1>6. 1 <= 1 /\ Len(u) > 1
    <2>1. PICK n \in Nat : n = Len(w)
      BY <1>1
    <2>2. Len(u) = n + 3
      BY <2>1, Zenon DEF Laid
    <2>3. n + 3 > 1
      BY <2>1
    <2>4. 1 <= 1
      OBVIOUS
    <2> QED
      BY <2>2, <2>3, <2>4, Zenon
  <1>7. Decimal(ThousandthsOf(u)) = 10 * (k % 100)
    BY LaidThousandths, ZenonT(60)
  <1>8. 1000 * (k \div 100) + 10 * (k % 100) = 10 * k
    OBVIOUS
  <1>9. Amount(u) = 10 * k
    <2>1. Decimal(WholeOf(u)) = k \div 100
      BY <1>2, Zenon
    <2>2. PICK a \in Nat : a = k \div 100
      OBVIOUS
    <2>3. PICK b \in Nat : b = k % 100
      OBVIOUS
    <2>4. 1000 * a + 10 * b = 10 * k
      BY <2>2, <2>3
    <2>5. Decimal(WholeOf(u)) = a /\ Decimal(ThousandthsOf(u)) = 10 * b
      BY <1>7, <2>1, <2>2, <2>3, Zenon
    <2>6. PICK x, y : x = Decimal(WholeOf(u)) /\ y = Decimal(ThousandthsOf(u))
      OBVIOUS
    <2>7. x = a /\ y = 10 * b
      BY <2>5, <2>6, Zenon
    <2>8. 1000 * x + y = 10 * k
      BY <2>4, <2>7
    <2> QED
      BY <2>6, <2>8 DEF Amount
  <1>10. Cardinality(PointsOf(u)) <= 1 /\ Len(u) > Cardinality(PointsOf(u))
    BY <1>5, <1>6
  <1>11. F64Of(u, sign) = {Float(sign * Amount(u))}
    BY <1>3, <1>4, <1>10, Zenon DEF F64Of
  <1>12. PICK s : s = Amount(u)
    OBVIOUS
  <1>13. PICK v : v = 10 * k
    OBVIOUS
  <1>14. s = v
    BY <1>9, <1>12, <1>13, Zenon
  <1>15. F64Of(u, sign) = {Float(sign * s)}
    BY <1>11, <1>12, Zenon
  <1>16. F64Of(u, sign) = {Float(sign * v)}
    BY <1>14, <1>15, Zenon
  <1> QED
    BY <1>13, <1>16, Zenon

(* A text that a float is read from, and that has a point *)
ReadsFloat(t, m) ==
    /\ InferType(t) = "float" /\ ParseF64(t) = {Float(m)}
    /\ \E i \in 1..Len(t) : t[i] = "."

(* What is written of h hundredths, as a number below zero or not *)
FloatOut(minus, h) ==
    (((IF minus THEN <<"-">> ELSE <<>>) \o DecimalText[h \div 100]) \o <<".">>) \o TwoDigits(h % 100)

LEMMA LaidDigits ==
    ASSUME NEW u, NEW w, NEW c, NEW d, Laid(u, w, c, d), NEW n \in Nat, n = Len(w)
    PROVE  /\ n > 0 /\ Len(u) = n + 3 /\ u[n + 1] = "." /\ u[1] = w[1]
           /\ \A i \in 1..(n + 3) : i # n + 1 => u[i] \in Digits
           /\ u[1] = "0" => n = 1
           /\ u[1] \in Digits
  <1>1. /\ w \in Seq(Digits) /\ w # <<>> /\ (w[1] = "0" => n = 1)
        /\ Len(u) = n + 3 /\ \A i \in 1..n : u[i] = w[i]
        /\ u[n + 1] = "." /\ u[n + 2] = c /\ u[n + 3] = d /\ c \in Digits /\ d \in Digits
    BY Zenon DEF Laid
  <1>2. n > 0
    BY <1>1
  <1>3. \A i \in 1..n : w[i] \in Digits
    BY <1>1
  <1>4. \A i \in 1..(n + 3) : i # n + 1 => i \in 1..n \/ i = n + 2 \/ i = n + 3
    OBVIOUS
  <1>5. 1 \in 1..n
    BY <1>2
  <1>6. \A i \in 1..(n + 3) : i # n + 1 => u[i] \in Digits
    BY <1>1, <1>3, <1>4, Zenon
  <1>7. u[1] = w[1] /\ w[1] \in Digits
    BY <1>1, <1>3, <1>5, Zenon
  <1>8. u[1] = "0" => n = 1
    BY <1>1, <1>7, Zenon
  <1>9. u[1] \in Digits
    BY <1>7, Zenon
  <1> QED
    BY <1>1, <1>2, <1>6, <1>7, <1>8, <1>9, Zenon

LEMMA FloatReadPlain ==
    ASSUME NEW k \in Nat
    PROVE  ReadsFloat(FloatOut(FALSE, k), 10 * k)
  <1>1. PICK a \in Nat : a = k \div 100
    OBVIOUS
  <1>2. PICK h \in 0..99 : h = k % 100
    OBVIOUS
  <1>3. PICK w : w = DecimalText[a]
    OBVIOUS
  <1>4. PICK u : u = (w \o <<".">>) \o TwoDigits(h)
    OBVIOUS
  <1>5. PICK c, d : /\ Laid(u, w, c, d) /\ h = 10 * DigitOf[c] + DigitOf[d]
                    /\ TwoDigits(h) \in Seq(NumberChars)
    BY <1>3, <1>4, LaidText, Zenon
  <1>6. Canonical(w, a)
    BY <1>3, DecimalTextIs
  <1>7. w \in Seq(Digits) /\ Decimal(w) = a
    BY <1>6 DEF Canonical
  <1>8. FloatOut(FALSE, k) = u
    <2>1. <<>> \o w = w
      BY <1>7
    <2> QED
      BY <1>1, <1>2, <1>3, <1>4, <2>1, Zenon DEF FloatOut
  <1>9. PICK n \in Nat : n = Len(w)
    BY <1>7
  <1>10. /\ n > 0 /\ Len(u) = n + 3 /\ u[n + 1] = "."
         /\ \A i \in 1..(n + 3) : i # n + 1 => u[i] \in Digits
         /\ u[1] = "0" => n = 1
         /\ u[1] \in Digits
    BY <1>5, <1>9, LaidDigits, Zenon
  <1>11. u # <<>> /\ Len(u) # 1
    BY <1>10
  <1>12. InferType(u) = "float"
    <2>1. CASE u[1] = "0"
      <3>1. n = 1
        BY <1>10, <2>1, Zenon
      <3>2. u[2] = "."
        BY <1>10, <3>1
      <3>3. \A i \in 3..Len(u) : u[i] \in Digits
        BY <1>10, <3>1
      <3>4. RestType(u, 3, 0, "float") = "float"
        BY <3>3, RestDigits
      <3> QED
        BY <1>11, <2>1, <3>2, <3>4, TypeCases, Zenon
    <2>2. CASE u[1] # "0"
      <3>1. u[1] \in (Digits \ {"0"}) \cup {"-"}
        BY <1>10, <2>2, Zenon
      <3>2. n + 1 \in 2..Len(u) /\ u[n + 1] = "."
        BY <1>10
      <3>3. \A i \in 2..Len(u) : i # n + 1 => u[i] \in Digits
        BY <1>10
      <3>4. RestType(u, 2, 1, "int") = "float"
        BY <3>2, <3>3, RestPoint
      <3> QED
        BY <1>11, <3>1, <3>4, TypeCases, Zenon
    <2> QED
      BY <2>1, <2>2
  <1>13. Unsigned(u) = u /\ Sign(u) = 1
    BY <1>10, Plain
  <1>14. F64Of(u, 1) = {Float(1 * (10 * k))}
    <2>1. Decimal(w) = k \div 100 /\ 10 * DigitOf[c] + DigitOf[d] = k % 100
      BY <1>1, <1>2, <1>5, <1>7, Zenon
    <2> QED
      BY <1>5, <2>1, LaidValue
  <1>15. 1 * (10 * k) = 10 * k
    OBVIOUS
  <1>16. \E i \in 1..Len(u) : u[i] = "."
    <2>1. n + 1 \in 1..Len(u)
      BY <1>10
    <2> QED
      BY <1>10, <2>1, Zenon
  <1>17. ParseF64(u) = {Float(10 * k)}
    BY <1>13, <1>14, <1>15, ParseF64Is, Zenon
  <1> QED
    BY <1>8, <1>12, <1>16, <1>17, Zenon DEF ReadsFloat

LEMMA FloatReadMinus ==
    ASSUME NEW k \in Nat
    PROVE  ReadsFloat(FloatOut(TRUE, k), -(10 * k))
  <1>1. PICK a \in Nat : a = k \div 100
    OBVIOUS
  <1>2. PICK h \in 0..99 : h = k % 100
    OBVIOUS
  <1>3. PICK w : w = DecimalText[a]
    OBVIOUS
  <1>4. PICK u : u = (w \o <<".">>) \o TwoDigits(h)
    OBVIOUS
  <1>5. PICK c, d : /\ Laid(u, w, c, d) /\ h = 10 * DigitOf[c] + DigitOf[d]
                    /\ TwoDigits(h) \in Seq(NumberChars)
    BY <1>3, <1>4, LaidText, Zenon
  <1>6. Canonical(w, a)
    BY <1>3, DecimalTextIs
  <1>7. w \in Seq(Digits) /\ Decimal(w) = a
    BY <1>6 DEF Canonical
  <1>8. FloatOut(TRUE, k) = <<"-">> \o u
    <2>1. w \in Seq(NumberChars)
      BY <1>7, DigitsAreChars
    <2>2. PICK m : m = <<"-">>
      OBVIOUS
    <2>3. PICK p : p = <<".">>
      OBVIOUS
    <2>4. m \in Seq(NumberChars) /\ p \in Seq(NumberChars)
      <3>1. "-" \in NumberChars /\ "." \in NumberChars
        BY DEF NumberChars
      <3> QED
        BY <2>2, <2>3, <3>1
    <2>5. PICK f : f = TwoDigits(h)
      OBVIOUS
    <2>6. (m \o w) \o p = m \o (w \o p)
      BY <2>1, <2>4, JoinJoin
    <2>7. w \o p \in Seq(NumberChars)
      BY <2>1, <2>4, Joined
    <2>8. (m \o (w \o p)) \o f = m \o ((w \o p) \o f)
      <3>1. f \in Seq(NumberChars) /\ m \in Seq(NumberChars)
        BY <1>5, <2>4, <2>5, Zenon
      <3>2. PICK x : x = w \o p
        OBVIOUS
      <3>3. x \in Seq(NumberChars)
        BY <2>7, <3>2, Zenon
      <3>4. (m \o x) \o f = m \o (x \o f)
        BY <3>1, <3>3, JoinJoin
      <3> QED
        BY <3>2, <3>4, Zenon
    <2> QED
      BY <1>1, <1>2, <1>3, <1>4, <2>2, <2>3, <2>5, <2>6, <2>8, Zenon DEF FloatOut
  <1>9. PICK n \in Nat : n = Len(w)
    BY <1>7
  <1>10. /\ n > 0 /\ Len(u) = n + 3 /\ u[n + 1] = "."
         /\ \A i \in 1..(n + 3) : i # n + 1 => u[i] \in Digits
    BY <1>5, <1>9, LaidDigits, Zenon
  <1>11. PICK t : t = <<"-">> \o u
    OBVIOUS
  <1>12. /\ Len(t) = 1 + Len(u) /\ t # <<>> /\ t[1] = "-"
         /\ \A i \in 1..Len(u) : t[1 + i] = u[i]
         /\ Unsigned(t) = u /\ Sign(t) = -1
    <2>1. u \in Seq(NumberChars)
      BY <1>5, Zenon DEF Laid
    <2> QED
      BY <1>11, <2>1, Negated
  <1>13. n + 2 \in 2..Len(t) /\ t[n + 2] = "." /\ n + 2 \in 1..Len(t)
    <2>1. n + 1 \in 1..Len(u) /\ 1 + (n + 1) = n + 2
      BY <1>10
    <2>2. t[n + 2] = "."
      BY <1>10, <1>12, <2>1, Zenon
    <2>3. Len(t) = 1 + (n + 3)
      BY <1>10, <1>12, Zenon
    <2> QED
      BY <1>10, <2>2, <2>3
  <1>14. InferType(t) = "float"
    <2>1. \A i \in 2..Len(t) : i # n + 2 => t[i] \in Digits
      <3>1. Len(t) = 1 + (n + 3)
        BY <1>10, <1>12, Zenon
      <3> SUFFICES ASSUME NEW i \in 2..(1 + (n + 3)), i # n + 2 PROVE t[i] \in Digits
        BY <3>1, Zenon
      <3>2. i - 1 \in 1..(n + 3) /\ 1 + (i - 1) = i /\ i - 1 # n + 1
        OBVIOUS
      <3> QED
        BY <1>10, <1>12, <3>2, Zenon
    <2>2. RestType(t, 2, 1, "int") = "float"
      BY <1>13, <2>1, RestPoint
    <2>3. t[1] \in (Digits \ {"0"}) \cup {"-"}
      BY <1>12
    <2> QED
      BY <1>12, <2>2, <2>3, TypeCases, Zenon
  <1>15. F64Of(u, -1) = {Float((-1) * (10 * k))}
    <2>1. Decimal(w) = k \div 100 /\ 10 * DigitOf[c] + DigitOf[d] = k % 100
      BY <1>1, <1>2, <1>5, <1>7, Zenon
    <2> QED
      BY <1>5, <2>1, LaidValue
  <1>16. (-1) * (10 * k) = -(10 * k)
    OBVIOUS
  <1>17. ParseF64(t) = {Float(-(10 * k))}
    BY <1>12, <1>15, <1>16, ParseF64Is, Zenon
  <1> QED
    BY <1>8, <1>11, <1>13, <1>14, <1>17, Zenon DEF ReadsFloat

LEMMA InferFloat ==
    ASSUME NEW t, NEW m, ReadsFloat(t, m)
    PROVE  InferFrom(t) = Float(m) /\ InferNumberFrom(t) = {Float(m)}
  <1>1. InferType(t) = "float" /\ ParseF64(t) = {Float(m)}
    BY DEF ReadsFloat
  <1>2. InferFrom(t) = Else(ParseF64(t), Str(t))
    BY <1>1 DEF InferFrom
  <1>3. InferNumberFrom(t) = ParseF64(t)
    BY Zenon DEF ReadsFloat, InferNumberFrom
  <1> QED
    BY <1>1, <1>2, <1>3, OnlyOne, Zenon

-----------------------------------------------------------------------------
(* What is written of a value *)
LEMMA AsStrInt == ASSUME NEW n PROVE AsStr(Int64(n)) = {IntOut(n)}
  <1>1. PICK v : v = Int64(n)
    OBVIOUS
  <1>2. v.t = "int" /\ v.n = n
    BY <1>1 DEF Int64
  <1>3. AsStr(v) = {IntOut(v.n)}
    BY <1>2, Zenon DEF AsStr, IntOut
  <1> QED BY <1>1, <1>2, <1>3, Zenon

LEMMA AsStrStr == ASSUME NEW s PROVE AsStr(Str(s)) = {s}
  <1>1. PICK v : v = Str(s)
    OBVIOUS
  <1>2. v.t = "string" /\ v.s = s
    BY <1>1 DEF Str
  <1>3. v.t # "int" /\ v.t # "float"
    BY <1>2
  <1>4. AsStr(v) = {v.s}
    BY <1>2, <1>3 DEF AsStr
  <1> QED BY <1>1, <1>2, <1>4, Zenon

LEMMA AsStrFloat == ASSUME NEW m PROVE AsStr(Float(m)) = {FloatOut(m < 0, Abs(h)) : h \in Rounded(m)}
  <1>1. PICK v : v = Float(m)
    OBVIOUS
  <1>2. v.t = "float" /\ v.n = m
    BY <1>1 DEF Float
  <1>3. v.t # "int" /\ v.t # "string"
    BY <1>2
  <1>4. AsStr(v) = {FloatOut(v.n < 0, Abs(h)) : h \in Rounded(v.n)}
    BY <1>2, <1>3, Zenon DEF AsStr, FloatOut, TwoDigits
  <1> QED BY <1>1, <1>2, <1>4, Zenon

LEMMA AbsIs == ASSUME NEW n \in Int PROVE Abs(n) \in Nat /\ (n >= 0 => Abs(n) = n) /\ (n < 0 => Abs(n) = -n)
  BY DEF Abs

(* Two decimals are at most half a hundredth away, and on the same side    *)
(* of zero.                                                                *)
LEMMA RoundedIs ==
    ASSUME NEW m \in Int, NEW h \in Rounded(m)
    PROVE  /\ h \in Int /\ (m < 0 => h <= 0) /\ (m >= 0 => h >= 0)
           /\ 10 * h - m <= 5 /\ m - 10 * h <= 5
           /\ m % 10 = 0 => 10 * h = m
  <1>1. PICK a \in Nat : a = Abs(m) /\ (m >= 0 => a = m) /\ (m < 0 => a = -m)
    BY AbsIs
  <1>2. PICK low \in Nat : low = a \div 10
    OBVIOUS
  <1>3. PICK r \in 0..9 : r = a % 10
    OBVIOUS
  <1>4. a = 10 * low + r
    BY <1>2, <1>3
  <1>5. \E k \in {low, low + 1} :
           /\ h = IF m < 0 THEN -k ELSE k
           /\ k = low => r <= 5
           /\ k = low + 1 => r >= 5
    BY <1>1, <1>2, <1>3 DEF Rounded
  <1>6. PICK k \in {low, low + 1} :
           /\ h = IF m < 0 THEN -k ELSE k
           /\ k = low => r <= 5
           /\ k = low + 1 => r >= 5
    BY <1>5
  <1>7. ASSUME m % 10 = 0 PROVE r = 0
    BY <1>1, <1>3, <1>7
  <1>8. 10 * k - a <= 5 /\ a - 10 * k <= 5 /\ k \in Nat /\ (r = 0 => 10 * k = a)
    BY <1>4, <1>6
  <1> QED BY <1>1, <1>6, <1>7, <1>8

(* What is written of a float is read as the float that it was rounded to. *)
LEMMA FloatStep ==
    ASSUME NEW m \in Int, NEW out \in AsStr(Float(m))
    PROVE  \E h \in Int : /\ ReadsFloat(out, 10 * h) /\ 10 * h - m <= 5 /\ m - 10 * h <= 5
                          /\ h \in Rounded(m) /\ (m % 10 = 0 => 10 * h = m)
  <1>1. PICK h \in Rounded(m) : out = FloatOut(m < 0, Abs(h))
    BY AsStrFloat, Zenon
  <1>2. /\ h \in Int /\ (m < 0 => h <= 0) /\ (m >= 0 => h >= 0)
        /\ 10 * h - m <= 5 /\ m - 10 * h <= 5 /\ (m % 10 = 0 => 10 * h = m)
    BY RoundedIs
  <1>3. PICK k \in Nat : k = Abs(h)
    BY <1>2, AbsIs
  <1>4. ReadsFloat(out, 10 * h)
    <2>1. CASE m < 0
      <3>1. out = FloatOut(TRUE, k)
        BY <1>1, <1>3, <2>1, Zenon
      <3>2. -(10 * k) = 10 * h
        BY <1>2, <1>3, <2>1 DEF Abs
      <3> QED BY <3>1, <3>2, FloatReadMinus, Zenon
    <2>2. CASE ~(m < 0)
      <3>1. out = FloatOut(FALSE, k)
        BY <1>1, <1>3, <2>2, Zenon DEF FloatOut
      <3>2. 10 * k = 10 * h
        BY <1>2, <1>3, <2>2 DEF Abs
      <3> QED BY <3>1, <3>2, FloatReadPlain, Zenon
    <2> QED BY <2>1, <2>2
  <1> QED BY <1>1, <1>2, <1>4, Zenon

(* A part of a text *)
LEMMA PartOf ==
    ASSUME NEW A, NEW u \in Seq(A), NEW i \in Nat \ {0}, NEW n \in Nat, n = Len(u), NEW j \in Nat, j <= n
    PROVE  SubSeq(u, i, j) \in Seq(A)
  <1>1. CASE i > j
    BY <1>1
  <1>2. CASE i <= j
    BY <1>2
  <1> QED
    BY <1>1, <1>2

(* What parses as a float is one, of so many thousandths. *)
LEMMA F64Number ==
    ASSUME NEW A, NEW t \in Seq(A), ParseF64(t) # {}
    PROVE  \E m \in Int : ParseF64(t) = {Float(m)}
  <1>1. PICK u : u = Unsigned(t)
    OBVIOUS
  <1>2. u \in Seq(A)
    <2>1. CASE Signed(t)
      <3>1. t # <<>>
        BY <2>1 DEF Signed
      <3>2. u = Tail(t)
        BY <1>1, <2>1, Zenon DEF Unsigned
      <3> QED
        BY <3>1, <3>2, Behind, Zenon
    <2>2. CASE ~Signed(t)
      BY <1>1, <2>2, Zenon DEF Unsigned
    <2> QED
      BY <2>1, <2>2
  <1>3. /\ AllDigits(WholeOf(u)) /\ AllDigits(FractionOf(u))
        /\ ParseF64(t) = {Float(Sign(t) * Amount(u))}
    <2>1. PICK s : s = Sign(t)
      OBVIOUS
    <2>2. ParseF64(t) = F64Of(u, s)
      BY <1>1, <2>1, ParseF64Is, Zenon
    <2>3. F64Of(u, s) # {}
      BY <2>2, Zenon
    <2>4. /\ AllDigits(WholeOf(u)) /\ AllDigits(FractionOf(u))
          /\ F64Of(u, s) = {Float(s * Amount(u))}
      BY <2>3, Zenon DEF F64Of
    <2> QED
      BY <2>1, <2>2, <2>4, Zenon
  <1>4. PICK n \in Nat : n = Len(u)
    BY <1>2
  <1>5. WholeOf(u) \in Seq(A)
    <2>1. CASE PointsOf(u) = {}
      BY <1>2, <2>1, Zenon DEF WholeOf
    <2>2. CASE PointsOf(u) # {}
      <3>1. PICK p : p = CHOOSE i \in PointsOf(u) : TRUE
        OBVIOUS
      <3>2. p \in PointsOf(u)
        BY <2>2, <3>1, Zenon
      <3>3. p \in 1..Len(u)
        BY <3>2, Zenon DEF PointsOf
      <3>4. PICK q \in Nat : q = p - 1 /\ q <= n
        BY <1>4, <3>3
      <3>5. PICK i \in Nat \ {0} : i = 1
        OBVIOUS
      <3>6. SubSeq(u, i, q) \in Seq(A)
        BY <1>2, <1>4, <3>4, PartOf
      <3> QED
        BY <2>2, <3>1, <3>4, <3>5, <3>6, Zenon DEF WholeOf
    <2> QED
      BY <2>1, <2>2
  <1>6. FractionOf(u) \in Seq(A)
    <2>1. CASE PointsOf(u) = {}
      <3>1. <<>> \in Seq(A)
        OBVIOUS
      <3> QED
        BY <2>1, <3>1, Zenon DEF FractionOf
    <2>2. CASE PointsOf(u) # {}
      <3>1. PICK k \in Nat : k = Len(WholeOf(u))
        BY <1>5
      <3>2. PICK i \in Nat \ {0} : i = k + 2
        OBVIOUS
      <3>3. n <= n
        OBVIOUS
      <3>4. SubSeq(u, i, n) \in Seq(A)
        BY <1>2, <1>4, <3>3, PartOf
      <3> QED
        BY <1>4, <2>2, <3>1, <3>2, <3>4, Zenon DEF FractionOf
    <2> QED
      BY <2>1, <2>2
  <1>7. PICK w : w = WholeOf(u)
    OBVIOUS
  <1>8. PICK a \in Nat : a = Decimal(w)
    BY <1>3, <1>5, <1>7, DigitSeq, DecimalNumber
  <1>9. PICK f : f = FractionOf(u)
    OBVIOUS
  <1>10. f \in Seq(Digits)
    BY <1>3, <1>6, <1>9, DigitSeq
  <1>11. PICK z : z = <<"0", "0", "0">>
    OBVIOUS
  <1>12. z \in Seq(Digits) /\ Len(z) = 3
    BY <1>11, DigitFacts
  <1>13. PICK j : j = f \o z
    OBVIOUS
  <1>14. j \in Seq(Digits) /\ Len(j) = Len(f) + Len(z)
    <2>1. f \o z \in Seq(Digits) /\ Len(f \o z) = Len(f) + Len(z)
      BY <1>10, <1>12, Joined
    <2> QED
      BY <1>13, <2>1, Zenon
  <1>15. SubSeq(j, 1, 3) \in Seq(Digits)
    <2>1. PICK k \in Nat : k = Len(f)
      BY <1>10
    <2>2. PICK l \in Nat : l = Len(j) /\ 3 <= l
      BY <1>12, <1>14, <2>1
    <2>3. 1 \in Nat \ {0} /\ 3 \in Nat
      OBVIOUS
    <2> QED
      BY <1>14, <2>2, <2>3, PartOf
  <1>16. PICK b \in Nat : b = Decimal(ThousandthsOf(u))
    <2>1. ThousandthsOf(u) = SubSeq(j, 1, 3)
      BY <1>9, <1>11, <1>13, Zenon DEF ThousandthsOf
    <2> QED
      BY <1>15, <2>1, DecimalNumber
  <1>17. Sign(t) \in {1, -1}
    BY DEF Sign
  <1>18. PICK s \in {1, -1} : s = Sign(t)
    BY <1>17
  <1>19. PICK e \in Int : e = Amount(u)
    BY <1>7, <1>8, <1>16 DEF Amount
  <1>20. PICK m \in Int : m = s * e
    OBVIOUS
  <1>21. ParseF64(t) = {Float(m)}
    BY <1>3, <1>18, <1>19, <1>20, Zenon
  <1> QED
    BY <1>21

(* The fields of a value *)
LEMMA IntFields ==
    \A n : /\ Int64(n).t = "int" /\ Int64(n).n = n /\ Int64(n).s = <<>>
           /\ Worth(Int64(n)) = 1000 * n /\ AsF64(Int64(n)) = 1000 * Nearest(n)
  BY DEF Int64, Worth, AsF64

LEMMA FloatFields ==
    \A m : /\ Float(m).t = "float" /\ Float(m).n = m /\ Float(m).s = <<>>
           /\ Worth(Float(m)) = m /\ AsF64(Float(m)) = m
  BY DEF Float, Worth, AsF64

LEMMA StrFields ==
    \A s : Str(s).t = "string" /\ Str(s).n = 0 /\ Str(s).s = s /\ Worth(Str(s)) = 0
  BY DEF Str, Worth

-----------------------------------------------------------------------------
(* The nearest f64 of an integer *)
LEMMA TimesMonotone ==
    ASSUME NEW p \in Nat \ {0}, NEW a \in Int, NEW b \in Int, a <= b
    PROVE  p * a \in Int /\ p * b \in Int /\ p * a <= p * b
  OBVIOUS

(* Among the distances there is one for every i64. *)
LEMMA SpacingIs == ASSUME NEW a \in 0..Half PROVE Spacing(a) \in Steps
  <1>1. PICK T : T = {p \in Steps : a <= Exact * p}
    OBVIOUS
  <1>2. T \in SUBSET Nat
    BY <1>1, StepsAssumption
  <1>3. T # {}
    <2>1. PICK p \in Steps : Half <= Exact * p
      BY StepsAssumption
    <2>2. PICK e \in Nat : e = Exact * p
      BY StepsAssumption
    <2>3. a <= e
      BY <2>1, <2>2, HalfAssumption
    <2> QED
      BY <1>1, <2>2, <2>3
  <1>4. PICK p \in T : \A q \in T : p <= q
    BY <1>2, <1>3, LeastNumber
  <1>5. p \in Steps /\ a <= Exact * p /\ \A q \in Steps : a <= Exact * q => p <= q
    BY <1>1, <1>4, Zenon
  <1> QED
    BY <1>5, Zenon DEF Spacing

(* Rounding to a distance that divides Exact does not pass Exact. *)
LEMMA RoundToBeyond ==
    ASSUME NEW n \in Int, NEW p \in Steps
    PROVE  /\ RoundTo(n, p) \in Int
           /\ n > Exact => RoundTo(n, p) >= Exact
           /\ n < -Exact => RoundTo(n, p) <= -Exact
  <1>1. p \in Nat \ {0} /\ Exact \in Nat \ {0} /\ Exact % p = 0
    BY StepsAssumption
  <1>2. PICK q \in Int : q = n \div p /\ p * q <= n /\ n < p * (q + 1)
    BY <1>1
  <1>3. PICK k \in Int : Exact = p * k
    <2>1. PICK k \in Int : k = Exact \div p
      BY <1>1
    <2>2. PICK r \in Int : r = Exact % p
      BY <1>1
    <2>3. Exact = p * k + r
      BY <1>1, <2>1, <2>2
    <2>4. r = 0
      BY <1>1, <2>2, Zenon
    <2>5. PICK e \in Int : e = p * k
      BY <1>1
    <2>6. Exact = e + 0
      BY <2>3, <2>4, <2>5, Zenon
    <2>7. Exact = e
      BY <2>6
    <2> QED
      BY <2>5, <2>7, Zenon
  <1>4. PICK z : z \in {q, q + 1} /\ RoundTo(n, p) = p * z
    <2>1. RoundTo(n, p) = p * (IF 2 * (n % p) < p \/ (2 * (n % p) = p /\ (n \div p) % 2 = 0)
                               THEN n \div p ELSE (n \div p) + 1)
      BY Zenon DEF RoundTo
    <2> QED
      BY <1>2, <2>1
  <1>5. z \in Int /\ q <= z /\ z <= q + 1
    BY <1>4
  <1>6. PICK m \in Int : m = p * z
    BY <1>1, <1>5
  <1>7. ASSUME n > Exact PROVE m >= Exact
    <2>1. k <= q
      <3> SUFFICES ASSUME q + 1 <= k PROVE FALSE
        OBVIOUS
      <3>1. p * (q + 1) \in Int /\ p * k \in Int /\ p * (q + 1) <= p * k
        BY <1>1, TimesMonotone
      <3> QED
        BY <1>1, <1>2, <1>3, <1>7, <3>1
    <2>2. k <= z
      BY <1>5, <2>1
    <2>3. p * k <= p * z
      BY <1>1, <1>5, <2>2, TimesMonotone
    <2> QED
      BY <1>3, <1>6, <2>3, Zenon
  <1>8. ASSUME n < -Exact PROVE m <= -Exact
    <2>1. PICK j \in Int : j = -k
      OBVIOUS
    <2>2. p * j = -Exact
      BY <1>1, <1>3, <2>1
    <2>3. q + 1 <= j
      <3> SUFFICES ASSUME j <= q PROVE FALSE
        BY <2>1
      <3>1. p * q \in Int /\ p * j \in Int /\ p * j <= p * q
        BY <1>1, TimesMonotone
      <3> QED
        BY <1>1, <1>2, <1>8, <2>2, <3>1
    <2>4. z <= j
      BY <1>5, <2>1, <2>3
    <2>5. p * z <= p * j
      BY <1>1, <1>5, <2>1, <2>4, TimesMonotone
    <2> QED
      BY <1>6, <2>2, <2>5, Zenon
  <1> QED
    BY <1>4, <1>6, <1>7, <1>8, Zenon

(* i64 as f64: exact up to Exact, and beyond it what is not. *)
LEMMA NearestIs ==
    ASSUME NEW n \in MinInt..MaxInt
    PROVE  /\ Nearest(n) \in Int
           /\ Abs(n) <= Exact => Nearest(n) = n
           /\ n > Exact => Nearest(n) >= Exact
           /\ n < -Exact => Nearest(n) <= -Exact
  <1>1. n \in Int /\ Abs(n) \in 0..Half /\ Half \in Nat
    BY HalfAssumption DEF MinInt, MaxInt, Abs
  <1>2. CASE Abs(n) <= Exact
    <2>1. Nearest(n) = n
      BY <1>2, Zenon DEF Nearest
    <2>2. ~(n > Exact) /\ ~(n < -Exact)
      BY <1>1, <1>2, StepsAssumption DEF Abs
    <2> QED
      BY <1>1, <2>1, <2>2, Zenon
  <1>3. CASE ~(Abs(n) <= Exact)
    <2>1. PICK p \in Steps : p = Spacing(Abs(n))
      BY <1>1, SpacingIs, Zenon
    <2>2. Nearest(n) = RoundTo(n, p)
      BY <1>3, <2>1, Zenon DEF Nearest
    <2> QED
      BY <1>1, <1>3, <2>2, RoundToBeyond, Zenon
  <1> QED
    BY <1>2, <1>3

-----------------------------------------------------------------------------

LEMMA AbsWithin == ASSUME NEW a \in Int, NEW b \in Int, a - b <= 5, b - a <= 5 PROVE Abs(a - b) <= 5
  BY DEF Abs

(* What a value is inferred as: a text, or a number in the text. *)
Outcome(t) ==
    \/ InferFrom(t) = Str(t)
    \/ \E n \in MinInt..MaxInt :
          InferFrom(t) = Int64(n) /\ (~IsPrefix(<<"-", "0">>, t) => IntOut(n) = t)
    \/ \E m \in Int : InferFrom(t) = Float(m)

LEMMA Inferred ==
    ASSUME NEW A, NEW t \in Seq(A)
    PROVE  Outcome(t)
  <1>1. CASE InferType(t) = "int" /\ ParseI64(t) # {}
    <2>1. PICK n \in MinInt..MaxInt : /\ ParseI64(t) = {Int64(n)}
                                      /\ ~IsPrefix(<<"-", "0">>, t) => IntOut(n) = t
      BY <1>1, IntKept
    <2>4. ParseI64(t) = {Int64(n)}
      BY <2>1
    <2>2. InferFrom(t) = Else(ParseI64(t), Str(t))
      BY <1>1 DEF InferFrom
    <2>3. InferFrom(t) = Int64(n)
      BY <2>2, <2>4, OnlyOne, Zenon
    <2> QED
      BY <2>1, <2>3 DEF Outcome
  <1>2. CASE InferType(t) = "float" /\ ParseF64(t) # {}
    <2>1. PICK m \in Int : ParseF64(t) = {Float(m)}
      BY <1>2, F64Number
    <2>2. InferFrom(t) = Else(ParseF64(t), Str(t))
      BY <1>2 DEF InferFrom
    <2>3. InferFrom(t) = Float(m)
      BY <2>1, <2>2, OnlyOne, Zenon
    <2> QED
      BY <2>1, <2>3, Zenon DEF Outcome
  <1>3. CASE \/ InferType(t) = "string"
             \/ InferType(t) = "int" /\ ParseI64(t) = {}
             \/ InferType(t) = "float" /\ ParseF64(t) = {}
    BY <1>3 DEF InferFrom, Else, Outcome
  <1>4. InferType(t) = "int" \/ InferType(t) = "float" \/ InferType(t) = "string"
    BY TypeKinds
  <1> QED
    BY <1>1, <1>2, <1>3, <1>4, Zenon

-----------------------------------------------------------------------------
(* A number that may be sent: an i64, or a float. *)
IsNumber(v) == (\E n \in MinInt..MaxInt : v = Int64(n)) \/ (\E m \in Int : v = Float(m))

(* A number is sent as a text that a number of the same type is read from, *)
(* at most half a hundredth away; two decimals and integers are kept.      *)
LEMMA NumberSent ==
    ASSUME NEW v, IsNumber(v), NEW out \in AsStr(v)
    PROVE  \E w : /\ InferFrom(out) = w /\ InferNumberFrom(out) = {w} /\ IsNumber(w)
                  /\ w.t = v.t /\ w.s = v.s
                  /\ v.n \in Int /\ w.n \in Int
                  /\ v.t = "int" => w = v
                  /\ v.t = "float" => /\ w.n - v.n <= 5 /\ v.n - w.n <= 5
                                      /\ (v.n % 10 = 0 => w = v)
                                      /\ \E h \in Int : w.n = 10 * h
  <1>1. CASE \E n \in MinInt..MaxInt : v = Int64(n)
    <2>1. PICK n \in MinInt..MaxInt : v = Int64(n)
      BY <1>1
    <2>2. v.t = "int" /\ v.n = n /\ n \in Int
      BY <2>1, IntFields, IntRange
    <2>3. out = IntOut(n)
      BY <2>1, AsStrInt, Zenon
    <2>4. InferFrom(out) = v /\ InferNumberFrom(out) = {v}
      BY <2>1, <2>3, IntRead, InferInt, Zenon
    <2>5. v.t # "float"
      BY <2>2
    <2> QED
      BY <2>2, <2>4, <2>5, Zenon
  <1>2. CASE \E m \in Int : v = Float(m)
    <2>1. PICK m \in Int : v = Float(m)
      BY <1>2
    <2>2. v.t = "float" /\ v.n = m /\ v.s = <<>>
      BY <2>1, FloatFields, Zenon
    <2>3. out \in AsStr(Float(m))
      BY <2>1, Zenon
    <2>4. PICK h \in Int : /\ ReadsFloat(out, 10 * h) /\ 10 * h - m <= 5 /\ m - 10 * h <= 5
                           /\ m % 10 = 0 => 10 * h = m
      BY <2>3, FloatStep
    <2>5. PICK k \in Int : k = 10 * h
      OBVIOUS
    <2>6. PICK w : w = Float(k)
      OBVIOUS
    <2>7. w.t = "float" /\ w.n = k /\ w.s = <<>>
      BY <2>6, FloatFields, Zenon
    <2>8. ReadsFloat(out, k)
      BY <2>4, <2>5, Zenon
    <2>9. InferFrom(out) = w /\ InferNumberFrom(out) = {w}
      BY <2>6, <2>8, InferFloat, Zenon
    <2>10. IsNumber(w)
      BY <2>6, Zenon DEF IsNumber
    <2>11. k - m <= 5 /\ m - k <= 5 /\ (m % 10 = 0 => k = m)
      BY <2>4, <2>5
    <2>12. v.t # "int"
      BY <2>2
    <2>13. v.n % 10 = 0 => w = v
      BY <2>1, <2>2, <2>6, <2>11, Zenon
    <2>14. w.n - v.n <= 5 /\ v.n - w.n <= 5 /\ v.n \in Int /\ w.n \in Int /\ w.t = v.t /\ w.s = v.s
      BY <2>2, <2>7, <2>11, Zenon
    <2>15. \E g \in Int : w.n = 10 * g
      BY <2>5, <2>7, Zenon
    <2> QED
      BY <2>9, <2>10, <2>12, <2>13, <2>14, <2>15, Zenon
  <1> QED
    BY <1>1, <1>2, Zenon DEF IsNumber

LEMMA NumberFields ==
    ASSUME NEW v, IsNumber(v)
    PROVE  /\ v.t = "int" \/ v.t = "float"
           /\ v.n \in Int /\ v.s = <<>> /\ IsNumeric(v) /\ Worth(v) \in Int /\ AsF64(v) \in Int
           /\ v.t = "int" => v.n \in MinInt..MaxInt /\ Worth(v) = 1000 * v.n /\ AsF64(v) = 1000 * Nearest(v.n)
           /\ v.t = "float" => Worth(v) = v.n /\ AsF64(v) = v.n
  <1>1. CASE \E n \in MinInt..MaxInt : v = Int64(n)
    <2>1. PICK n \in MinInt..MaxInt : v = Int64(n)
      BY <1>1
    <2>2. /\ v.t = "int" /\ v.n = n /\ v.s = <<>>
          /\ Worth(v) = 1000 * n /\ AsF64(v) = 1000 * Nearest(n)
      BY <2>1, IntFields
    <2>3. n \in Int /\ Nearest(n) \in Int
      BY IntRange, NearestIs
    <2> QED
      BY <2>2, <2>3 DEF IsNumeric
  <1>2. CASE \E m \in Int : v = Float(m)
    BY <1>2, FloatFields DEF IsNumeric
  <1> QED
    BY <1>1, <1>2, Zenon DEF IsNumber

LEMMA FloatWorth ==
    ASSUME NEW v, IsNumber(v), v.t = "float"
    PROVE  Worth(v) = v.n
  BY NumberFields

(* Value::infer_from and as_str, for any text upsd reports: what is sent   *)
(* back reads as a value of the same type, at most half a hundredth away,  *)
(* from there on nothing changes any more, and a text or an integer        *)
(* without zeros behind its minus is sent back as it was.                  *)
THEOREM TextReadBack ==
    ASSUME NEW A, NEW t \in Seq(A), NEW v, v = InferFrom(t), NEW out \in AsStr(v), NEW w, w = InferFrom(out)
    PROVE  /\ w.t = v.t /\ w.s = v.s
           /\ Abs(Worth(w) - Worth(v)) <= 5
           /\ \A again \in AsStr(w) : InferFrom(again) = w
           /\ v.t # "float" /\ ~IsPrefix(<<"-", "0">>, t) => out = t
  <1>1. CASE v = Str(t)
    <2>1. out = t
      BY <1>1, AsStrStr, Zenon
    <2>2. w = v
      BY <2>1, Zenon
    <2>3. Abs(Worth(w) - Worth(v)) <= 5
      <3>1. Worth(w) = 0 /\ Worth(v) = 0
        <4>1. Worth(Str(t)) = 0
          BY StrFields
        <4> QED
          BY <1>1, <2>2, <4>1, Zenon
      <3>2. Abs(0 - 0) <= 5
        BY DEF Abs
      <3> QED
        BY <3>1, <3>2, Zenon
    <2>4. ASSUME NEW again \in AsStr(w) PROVE InferFrom(again) = w
      <3>1. again \in AsStr(Str(t))
        BY <1>1, <2>2, <2>4, Zenon
      <3>2. again = t
        BY <3>1, AsStrStr, Zenon
      <3> QED
        BY <2>2, <3>2, Zenon
    <2> QED
      BY <2>1, <2>2, <2>3, <2>4, Zenon
  <1>2. CASE IsNumber(v)
    <2>1. /\ InferFrom(out) = w /\ IsNumber(w)
          /\ w.t = v.t /\ w.s = v.s /\ v.n \in Int /\ w.n \in Int
          /\ v.t = "int" => w = v
          /\ v.t = "float" => /\ w.n - v.n <= 5 /\ v.n - w.n <= 5
                              /\ \E h \in Int : w.n = 10 * h
      BY <1>2, NumberSent, Zenon
    <2>2. Abs(Worth(w) - Worth(v)) <= 5
      <3>1. CASE v.t = "int"
        <4>1. PICK x \in Int : x = Worth(v)
          BY <1>2, NumberFields
        <4>2. x - x <= 5
          OBVIOUS
        <4>3. Abs(x - x) <= 5
          BY <4>2, AbsWithin
        <4> QED
          BY <2>1, <3>1, <4>1, <4>3, Zenon
      <3>2. CASE v.t = "float"
        <4>1. PICK x \in Int : x = v.n
          BY <2>1
        <4>2. PICK y \in Int : y = w.n
          BY <2>1
        <4>3. Abs(y - x) <= 5
          BY <2>1, <3>2, <4>1, <4>2, AbsWithin
        <4>4. Worth(v) = x
          BY <1>2, <3>2, <4>1, FloatWorth, Zenon
        <4>5. w.t = "float"
          BY <2>1, <3>2, Zenon
        <4>6. Worth(w) = y
          BY <2>1, <4>2, <4>5, FloatWorth, Zenon
        <4> QED
          BY <4>3, <4>4, <4>6, Zenon
      <3> QED
        BY <1>2, <3>1, <3>2, NumberFields
    <2>3. ASSUME NEW again \in AsStr(w) PROVE InferFrom(again) = w
      <3>1. PICK x : /\ InferFrom(again) = x /\ (w.t = "int" => x = w)
                     /\ w.t = "float" => (w.n % 10 = 0 => x = w)
        BY <2>1, <2>3, NumberSent, Zenon
      <3>2. CASE w.t = "int"
        BY <3>1, <3>2, Zenon
      <3>3. CASE w.t = "float"
        <4>1. PICK h \in Int : w.n = 10 * h
          BY <2>1, <3>3
        <4>2. (10 * h) % 10 = 0
          OBVIOUS
        <4> QED
          BY <3>1, <3>3, <4>1, <4>2, Zenon
      <3> QED
        BY <2>1, <3>2, <3>3, NumberFields
    <2>4. ASSUME v.t # "float", ~IsPrefix(<<"-", "0">>, t) PROVE out = t
      <3>1. v # Str(t)
        BY <1>2, StrFields, NumberFields
      <3>2. \A m : v # Float(m)
        BY <2>4, FloatFields, Zenon
      <3>3. Outcome(t)
        BY Inferred
      <3>4. PICK n \in MinInt..MaxInt : v = Int64(n) /\ IntOut(n) = t
        BY <2>4, <3>1, <3>2, <3>3, Zenon DEF Outcome
      <3> QED
        BY <3>4, AsStrInt, Zenon
    <2> QED
      BY <2>1, <2>2, <2>3, <2>4, Zenon
  <1>3. v = Str(t) \/ IsNumber(v)
    <2>1. Outcome(t)
      BY Inferred
    <2> QED
      BY <2>1, Zenon DEF Outcome, IsNumber
  <1> QED
    BY <1>1, <1>2, <1>3, Zenon

-----------------------------------------------------------------------------
(* A range whose ends have at most two decimals, as upsd writes them, if   *)
(* they are numbers                                                        *)
TwoDecimals(e) == IsNumeric(e) => IsNumber(e) /\ \E a \in Int : Worth(e) = 10 * a

Hundredths(d) == TwoDecimals(d.lo) /\ TwoDecimals(d.hi)

(* What the check compares with: also a multiple of ten thousandths, and   *)
(* the end itself below Exact.                                             *)
LEMMA EndIs ==
    ASSUME NEW e, IsNumeric(e), TwoDecimals(e)
    PROVE  /\ Worth(e) \in Int
           /\ \E a \in Int : AsF64(e) = 10 * a
           /\ Abs(Worth(e)) < 1000 * Exact => AsF64(e) = Worth(e)
  <1>1. IsNumber(e) /\ \E a \in Int : Worth(e) = 10 * a
    BY DEF TwoDecimals
  <1>2. CASE e.t = "int"
    <2>1. PICK n \in MinInt..MaxInt : n = e.n /\ Worth(e) = 1000 * n /\ AsF64(e) = 1000 * Nearest(n)
      BY <1>1, <1>2, NumberFields
    <2>2. PICK m \in Int : m = Nearest(n) /\ (Abs(n) <= Exact => m = n)
      BY NearestIs
    <2>3. n \in Int
      BY IntRange
    <2>4. AsF64(e) = 10 * (100 * m) /\ 100 * m \in Int
      BY <2>1, <2>2
    <2>5. Abs(1000 * n) < 1000 * Exact => Abs(n) <= Exact
      BY <2>3, StepsAssumption DEF Abs
    <2>6. Abs(Worth(e)) < 1000 * Exact => AsF64(e) = Worth(e)
      BY <2>1, <2>2, <2>5
    <2> QED
      BY <1>1, <2>4, <2>6, NumberFields
  <1>3. CASE e.t = "float"
    BY <1>1, <1>3, NumberFields
  <1> QED
    BY <1>1, <1>2, <1>3, NumberFields

(* An i64 that is compared like a number below Exact is that number. *)
LEMMA BelowExact ==
    ASSUME NEW v, IsNumber(v), NEW a \in Int, NEW b \in Int, Abs(a) < 1000 * Exact, Abs(b) < 1000 * Exact,
           a <= AsF64(v), AsF64(v) <= b
    PROVE  Worth(v) = AsF64(v)
  <1>1. CASE v.t = "int"
    <2>1. PICK n \in MinInt..MaxInt : n = v.n /\ Worth(v) = 1000 * n /\ AsF64(v) = 1000 * Nearest(n)
      BY <1>1, NumberFields
    <2>2. PICK m \in Int : /\ m = Nearest(n) /\ (Abs(n) <= Exact => m = n)
                           /\ n > Exact => m >= Exact
                           /\ n < -Exact => m <= -Exact
      BY NearestIs
    <2>3. n \in Int /\ Exact \in Nat
      BY IntRange, StepsAssumption
    <2>4. a <= 1000 * m /\ 1000 * m <= b
      BY <2>1, <2>2
    <2>5. m < Exact /\ m > -Exact
      BY <2>3, <2>4 DEF Abs
    <2>6. Abs(n) <= Exact
      BY <2>2, <2>3, <2>5 DEF Abs
    <2> QED
      BY <2>1, <2>2, <2>6
  <1>2. CASE v.t = "float"
    BY <1>2, NumberFields
  <1> QED
    BY <1>1, <1>2, NumberFields

(* Two decimals never round an accepted number out of its range, for every *)
(* number and every such range (rw.rs checks the number, not the text):    *)
(* what is sent still passes the check, and below Exact it is in the range.*)
THEOREM NumberInRange ==
    ASSUME NEW v, IsNumber(v), NEW d, d.k = "range" => Hundredths(d),
           JsonAccepts(v, d), NEW out \in AsStr(v)
    PROVE  /\ InferFrom(out).t = v.t
           /\ d.k = "range" =>
                 /\ AsF64(InferFrom(out)) \in AsF64(d.lo)..AsF64(d.hi)
                 /\ Abs(Worth(d.lo)) < 1000 * Exact /\ Abs(Worth(d.hi)) < 1000 * Exact =>
                       Worth(InferFrom(out)) \in Worth(d.lo)..Worth(d.hi)
  <1>1. PICK w : /\ InferFrom(out) = w /\ IsNumber(w)
                 /\ w.t = v.t /\ v.n \in Int /\ w.n \in Int
                 /\ v.t = "int" => w = v
                 /\ v.t = "float" => /\ w.n - v.n <= 5 /\ v.n - w.n <= 5
                                     /\ \E h \in Int : w.n = 10 * h
    BY NumberSent, Zenon
  <1>2. ASSUME d.k = "range"
        PROVE  /\ AsF64(w) \in AsF64(d.lo)..AsF64(d.hi)
               /\ Abs(Worth(d.lo)) < 1000 * Exact /\ Abs(Worth(d.hi)) < 1000 * Exact =>
                     Worth(w) \in Worth(d.lo)..Worth(d.hi)
    <2>0. Within(v, d)
      BY <1>2 DEF JsonAccepts
    <2>7. IsNumeric(d.lo) /\ TwoDecimals(d.lo) /\ IsNumeric(d.hi) /\ TwoDecimals(d.hi)
      BY <1>2, <2>0, Zenon DEF Hundredths, Within
    <2>1. PICK a \in Int, b \in Int : AsF64(d.lo) = 10 * a /\ AsF64(d.hi) = 10 * b
      BY <2>7, EndIs
    <2>2. PICK x \in Int : x = AsF64(v)
      BY NumberFields
    <2>3. 10 * a <= x /\ x <= 10 * b
      BY <2>0, <2>1, <2>2, Zenon DEF Within
    <2>4. PICK y \in Int : y = AsF64(w)
      BY <1>1, NumberFields
    <2>5. 10 * a <= y /\ y <= 10 * b
      <3>1. CASE v.t = "int"
        BY <1>1, <2>2, <2>3, <2>4, <3>1, Zenon
      <3>2. CASE v.t = "float"
        <4>1. x = v.n /\ y = w.n
          BY <1>1, <2>2, <2>4, <3>2, NumberFields
        <4>2. PICK h \in Int : y = 10 * h
          BY <1>1, <3>2, <4>1, Zenon
        <4>3. y - x <= 5 /\ x - y <= 5
          BY <1>1, <3>2, <4>1, Zenon
        <4> QED
          BY <2>3, <4>2, <4>3
      <3> QED
        BY <3>1, <3>2, NumberFields
    <2>6. y \in (10 * a)..(10 * b)
      BY <2>5
    <2>8. ASSUME Abs(Worth(d.lo)) < 1000 * Exact, Abs(Worth(d.hi)) < 1000 * Exact
          PROVE  Worth(w) \in Worth(d.lo)..Worth(d.hi)
      <3>1. AsF64(d.lo) = Worth(d.lo) /\ AsF64(d.hi) = Worth(d.hi)
        BY <2>7, <2>8, EndIs
      <3>2. PICK lo \in Int, hi \in Int : lo = Worth(d.lo) /\ hi = Worth(d.hi)
        BY <2>7, EndIs
      <3>3. Abs(lo) < 1000 * Exact /\ Abs(hi) < 1000 * Exact
        BY <2>8, <3>2
      <3>4. lo <= AsF64(w) /\ AsF64(w) <= hi
        BY <2>1, <2>4, <2>5, <3>1, <3>2
      <3>5. Worth(w) = y
        BY <1>1, <2>4, <3>3, <3>4, BelowExact
      <3>6. y \in lo..hi
        BY <2>4, <3>4
      <3> QED
        BY <3>2, <3>5, <3>6
    <2> QED
      BY <2>1, <2>4, <2>6, <2>8
  <1> QED
    BY <1>1, <1>2

(* What the patch route of the JSON API accepts for a NUMBER or a RANGE,   *)
(* validate_request of the form accepts from the text as_str writes, and   *)
(* reads as the same number: every i64, and every float that two decimals  *)
(* are enough for.  (The options of an ENUM the form compares as texts.)   *)
THEOREM NumberTyped ==
    ASSUME NEW v, IsNumber(v), NEW d, d.k = "number" \/ d.k = "range", JsonAccepts(v, d),
           v.t = "int" \/ v.n % 10 = 0, NEW out \in AsStr(v)
    PROVE  v \in FormValue(out, d)
  <1>1. PICK w : InferNumberFrom(out) = {w} /\ (v.t = "int" => w = v) /\ (v.t = "float" => (v.n % 10 = 0 => w = v))
    BY NumberSent, Zenon
  <1>2. v.t = "int" \/ v.t = "float"
    BY NumberFields
  <1>3. InferNumberFrom(out) = {v}
    <2>1. w = v
      BY <1>1, <1>2, Zenon
    <2> QED
      BY <1>1, <2>1, Zenon
  <1>4. CASE d.k = "number"
    BY <1>3, <1>4 DEF FormValue
  <1>5. CASE d.k = "range"
    <2>1. Within(v, d)
      BY <1>5 DEF JsonAccepts
    <2>2. FormValue(out, d) = {x \in InferNumberFrom(out) : Within(x, d)}
      BY <1>5 DEF FormValue
    <2> QED
      BY <1>3, <2>1, <2>2, Zenon
  <1> QED
    BY <1>4, <1>5

(* The least and the greatest of some positions *)
LEMMA LeastOf ==
    ASSUME NEW n \in Nat, NEW T, T \subseteq 1..n, T # {}
    PROVE  \E x \in T : \A j \in T : x <= j
  <1>1. T \in SUBSET Nat
    OBVIOUS
  <1>2. PICK x \in T : \A j \in T : x <= j
    BY <1>1, LeastNumber
  <1> QED
    BY <1>2

LEMMA GreatestOf ==
    ASSUME NEW n \in Nat, NEW T, T \subseteq 1..n, T # {}
    PROVE  \E x \in T : \A j \in T : j <= x
  <1>1. PICK S : S = {n - i : i \in T}
    OBVIOUS
  <1>2. S \in SUBSET Nat /\ S # {}
    <2>1. \A i \in T : n - i \in Nat
      OBVIOUS
    <2>2. S \subseteq Nat
      BY <1>1, <2>1, Zenon
    <2>3. S # {}
      BY <1>1
    <2> QED
      BY <2>2, <2>3
  <1>3. PICK y \in S : \A j \in S : y <= j
    BY <1>2, LeastNumber
  <1>4. PICK x \in T : y = n - x
    BY <1>1
  <1>5. ASSUME NEW j \in T PROVE j <= x
    <2>1. n - j \in S
      BY <1>1
    <2>2. j \in Nat /\ x \in Nat
      OBVIOUS
    <2> QED
      BY <1>3, <1>4, <2>1, <2>2
  <1> QED
    BY <1>5

(* Trimming a text never makes it longer. *)
LEMMA TrimShorter ==
    ASSUME NEW A, NEW s \in Seq(A), NEW n \in Nat, n = Len(s)
    PROVE  Len(Trim(s)) \in Nat /\ Len(Trim(s)) <= n
  <1>1. PICK inked : inked = {i \in 1..n : s[i] # " "}
    OBVIOUS
  <1>2. CASE inked = {}
    <2>1. Trim(s) = <<>>
      BY <1>1, <1>2, Zenon DEF Trim
    <2> QED
      BY <2>1
  <1>3. CASE inked # {}
    <2>1. PICK i : i = CHOOSE x \in inked : \A j \in inked : x <= j
      OBVIOUS
    <2>2. PICK k : k = CHOOSE x \in inked : \A j \in inked : j <= x
      OBVIOUS
    <2>3. Trim(s) = SubSeq(s, i, k)
      BY <1>1, <1>3, <2>1, <2>2, Zenon DEF Trim
    <2>4. i \in 1..n
      <3>1. PICK x \in inked : \A j \in inked : x <= j
        BY <1>1, <1>3, LeastOf
      <3>2. i \in inked
        BY <2>1, <3>1, Zenon
      <3> QED
        BY <1>1, <3>2, Zenon
    <2>5. k \in 1..n
      <3>1. PICK x \in inked : \A j \in inked : j <= x
        BY <1>1, <1>3, GreatestOf
      <3>2. k \in inked
        BY <2>2, <3>1, Zenon
      <3> QED
        BY <1>1, <3>2, Zenon
    <2>6. CASE i <= k
      BY <2>3, <2>4, <2>5, <2>6
    <2>7. CASE i > k
      BY <2>3, <2>4, <2>5, <2>7
    <2> QED
      BY <2>4, <2>5, <2>6, <2>7
  <1> QED
    BY <1>2, <1>3

LEMMA FormNumber == ASSUME NEW t, NEW v \in InferNumberFrom(t) PROVE IsNumeric(v)
  <1>1. v \in ParseI64(t) \/ v \in ParseF64(t)
    BY Zenon DEF InferNumberFrom
  <1>2. (\E n : v = Int64(n)) \/ (\E m : v = Float(m))
    <2>1. ASSUME v \in ParseI64(t) PROVE \E n : v = Int64(n)
      BY <2>1, Zenon DEF ParseI64
    <2>2. ASSUME v \in ParseF64(t) PROVE \E m : v = Float(m)
      <3>1. v \in F64Of(Unsigned(t), Sign(t))
        BY <2>2, ParseF64Is, Zenon
      <3> QED
        BY <3>1, Zenon DEF F64Of
    <2> QED
      BY <1>1, <2>1, <2>2, Zenon
  <1> QED
    BY <1>2, IntFields, FloatFields DEF IsNumeric

(* What the web form lets through, the JSON API accepts, for any text and  *)
(* any kind of variable.                                                   *)
THEOREM FormStricter ==
    ASSUME NEW A, NEW t \in Seq(A), NEW d, d.k \in {"string", "number", "enum", "range"}, d.max \in Nat,
           NEW v \in FormValue(t, d)
    PROVE  JsonAccepts(v, d)
  <1>1. CASE d.k = "number"
    <2>1. v \in InferNumberFrom(t)
      BY <1>1 DEF FormValue
    <2> QED
      BY <1>1, <2>1, FormNumber DEF JsonAccepts
  <1>2. CASE d.k = "range"
    <2>1. FormValue(t, d) = {x \in InferNumberFrom(t) : Within(x, d)}
      BY <1>2 DEF FormValue
    <2>2. v \in InferNumberFrom(t) /\ Within(v, d)
      BY <2>1, Zenon
    <2> QED
      BY <1>2, <2>2, FormNumber DEF JsonAccepts
  <1>3. CASE d.k = "enum"
    BY <1>3 DEF FormValue, JsonAccepts
  <1>4. CASE d.k = "string"
    <2>1. FormValue(t, d) = IF Trim(t) # <<>> /\ Len(t) <= d.max THEN {Str(t)} ELSE {}
      BY <1>4 DEF FormValue
    <2>2. v = Str(t) /\ Trim(t) # <<>> /\ Len(t) <= d.max
      BY <2>1, Zenon
    <2>3. v.s = t /\ v.t = "string"
      BY <2>2, StrFields, Zenon
    <2>4. PICK n \in Nat : n = Len(t)
      OBVIOUS
    <2>5. PICK m \in Nat : m = d.max
      OBVIOUS
    <2>6. PICK l \in Nat : l = Len(Trim(t)) /\ l <= n
      <3>1. Len(Trim(t)) \in Nat /\ Len(Trim(t)) <= n
        BY <2>4, TrimShorter, Zenon
      <3> QED
        BY <3>1, Zenon
    <2>7. l <= m
      BY <2>2, <2>4, <2>5, <2>6
    <2>8. Trim(v.s) # <<>> /\ Len(Trim(v.s)) <= d.max
      BY <2>2, <2>3, <2>5, <2>6, <2>7, Zenon
    <2> QED
      BY <1>4, <2>3, <2>8 DEF JsonAccepts, IsText
  <1> QED
    BY <1>1, <1>2, <1>3, <1>4

-----------------------------------------------------------------------------
(* The cases about values *)
ValueChars == {"0", "1", "5", ".", "-", "a", " "}
DetailKinds == {"string", "number", "enum", "range"}

AnyDetail(d) == d.k \in DetailKinds /\ d.max \in Nat /\ (d.k = "range" => Hundredths(d))

ValueCase ==
    /\ case.kind = "reported" => case.text \in Seq(ValueChars)
    /\ case.kind = "number" => IsNumber(case.value) /\ AnyDetail(case.detail)
    /\ case.kind = "form" => case.text \in Seq(ValueChars) /\ AnyDetail(case.detail)

(* A JSON integer is an i64 once it is cast. *)
LEMMA NumbersAre == ASSUME NEW v \in Numbers PROVE IsNumber(v)
  <1>1. CASE v \in {FromJson(n) : n \in MinInt..MaxUnsigned}
    <2>1. PICK n \in MinInt..MaxUnsigned : v = FromJson(n)
      BY <1>1
    <2>2. PICK k : k = IF n > MaxInt THEN n - (MaxUnsigned + 1) ELSE n
      OBVIOUS
    <2>3. k \in MinInt..MaxInt
      BY <2>2, HalfAssumption DEF MinInt, MaxInt, MaxUnsigned
    <2>4. v = Int64(k)
      BY <2>1, <2>2, Zenon DEF FromJson
    <2> QED
      BY <2>3, <2>4, Zenon DEF IsNumber
  <1>2. CASE v \in {Float(m) : m \in -1300..1300}
    <2>1. PICK m \in -1300..1300 : v = Float(m)
      BY <1>2
    <2> QED
      BY <2>1 DEF IsNumber
  <1> QED
    BY <1>1, <1>2 DEF Numbers

LEMMA RangeFields ==
    ASSUME NEW lo, NEW hi
    PROVE  /\ RangeOf(lo, hi).k = "range" /\ RangeOf(lo, hi).max = 0
           /\ RangeOf(lo, hi).lo = lo /\ RangeOf(lo, hi).hi = hi
  BY DEF RangeOf

LEMMA IntEnd == \A n \in MinInt..MaxInt : TwoDecimals(Int64(n))
  <1> SUFFICES ASSUME NEW n \in MinInt..MaxInt PROVE TwoDecimals(Int64(n))
    OBVIOUS
  <1>1. PICK e : e = Int64(n)
    OBVIOUS
  <1>2. IsNumber(e)
    BY <1>1, Zenon DEF IsNumber
  <1>3. PICK a \in Int : Worth(e) = 10 * a
    <2>1. n \in Int /\ Worth(e) = 1000 * n
      BY <1>1, IntFields, IntRange
    <2>2. Worth(e) = 10 * (100 * n) /\ 100 * n \in Int
      BY <2>1
    <2> QED
      BY <2>2
  <1> QED
    BY <1>1, <1>2, <1>3, Zenon DEF TwoDecimals

LEMMA FloatEnd == ASSUME NEW m \in Int, NEW a \in Int, m = 10 * a PROVE TwoDecimals(Float(m))
  BY FloatFields, Zenon DEF TwoDecimals, IsNumber

LEMMA StrEnd == ASSUME NEW s PROVE TwoDecimals(Str(s))
  BY StrFields DEF TwoDecimals, IsNumeric

LEMMA RangeIs ==
    ASSUME NEW d, NEW lo, NEW hi, TwoDecimals(lo), TwoDecimals(hi), d = RangeOf(lo, hi)
    PROVE  d.k = "range" /\ Hundredths(d) /\ d.max = 0
  <1>1. d.k = "range" /\ d.max = 0 /\ d.lo = lo /\ d.hi = hi
    BY RangeFields
  <1>2. Hundredths(d)
    BY <1>1, Zenon DEF Hundredths
  <1> QED
    BY <1>1, <1>2

(* The ends of the ranges of the run *)
LEMMA RangeEnds ==
    /\ \A n \in {-1, 0, 1, 1 - Exact, Exact - 1, -Exact, Exact, MinInt, MaxInt} : TwoDecimals(Int64(n))
    /\ TwoDecimals(Float(-1010)) /\ TwoDecimals(Float(1010)) /\ TwoDecimals(Float(500))
    /\ TwoDecimals(Str(<<"a">>))
  <1>1. {-1, 0, 1, 1 - Exact, Exact - 1, -Exact, Exact, MinInt, MaxInt} \subseteq MinInt..MaxInt
    BY HalfAssumption, StepsAssumption DEF MinInt, MaxInt
  <1>2. TwoDecimals(Float(-1010)) /\ TwoDecimals(Float(1010)) /\ TwoDecimals(Float(500))
    <2>2. PICK x \in Int, y \in Int, z \in Int : x = -1010 /\ y = 1010 /\ z = 500
      OBVIOUS
    <2>3. x = 10 * (-101) /\ y = 10 * 101 /\ z = 10 * 50
      BY <2>2
    <2>4. TwoDecimals(Float(x))
      <3>1. PICK a \in Int : x = 10 * a
        BY <2>3
      <3> QED
        BY <3>1, FloatEnd, Zenon
    <2>5. TwoDecimals(Float(y))
      <3>1. PICK a \in Int : y = 10 * a
        BY <2>3
      <3> QED
        BY <3>1, FloatEnd, Zenon
    <2>6. TwoDecimals(Float(z))
      <3>1. PICK a \in Int : z = 10 * a
        BY <2>3
      <3> QED
        BY <3>1, FloatEnd, Zenon
    <2> QED
      BY <2>2, <2>4, <2>5, <2>6
  <1> QED
    BY <1>1, <1>2, IntEnd, StrEnd

LEMMA RangesAre == ASSUME NEW d \in Ranges PROVE d.k = "range" /\ Hundredths(d) /\ d.max = 0
  <1>1. PICK lo, hi : d = RangeOf(lo, hi) /\ TwoDecimals(lo) /\ TwoDecimals(hi)
    BY RangeEnds DEF Ranges
  <1> QED
    BY <1>1, RangeIs

LEMMA DetailsAre == ASSUME NEW d \in Details PROVE AnyDetail(d)
  <1>1. CASE d \in Ranges
    BY <1>1, RangesAre DEF AnyDetail, DetailKinds
  <1>2. CASE d = Number
    BY <1>2 DEF Number, AnyDetail, DetailKinds
  <1>3. CASE d = StringOf(1) \/ d = StringOf(2)
    BY <1>3 DEF StringOf, AnyDetail, DetailKinds
  <1>4. CASE \E opts : d = EnumOf(opts)
    BY <1>4 DEF EnumOf, AnyDetail, DetailKinds
  <1> QED
    BY <1>1, <1>2, <1>3, <1>4, Zenon DEF Details

LEMMA ValueInit == CaseInit => ValueCase
  BY DEF CaseInit, NoCase, ValueCase

LEMMA ValueStep == ValueCase /\ [CaseNext]_CaseVars => ValueCase'
  <1> SUFFICES ASSUME ValueCase, [CaseNext]_CaseVars PROVE ValueCase'
    OBVIOUS
  <1>1. CASE UNCHANGED case
    BY <1>1 DEF ValueCase
  <1>2. CASE PickStatus \/ PickRequest
    BY <1>2 DEF PickStatus, PickRequest, ValueCase
  <1>3. CASE PickReported
    <2>1. PICK t \in ReportedTexts : case' = [kind |-> "reported", text |-> t]
      BY <1>3, Zenon DEF PickReported
    <2>2. t \in Seq(ValueChars)
      <3>1. {"0", "1", "5", ".", "-", "a"} \subseteq ValueChars
        BY DEF ValueChars
      <3>2. t \in Texts({"0", "1", "5", ".", "-", "a"}, 5) /\ 5 \in Nat
        BY <2>1 DEF ReportedTexts
      <3> QED
        BY <3>1, <3>2, TextsAreTexts
    <2> QED
      BY <2>1, <2>2 DEF ValueCase
  <1>4. CASE PickNumber
    <2>1. PICK v \in Numbers, d \in Details : case' = [kind |-> "number", value |-> v, detail |-> d]
      BY <1>4, Zenon DEF PickNumber
    <2>2. IsNumber(v)
      BY NumbersAre
    <2>3. AnyDetail(d)
      BY DetailsAre
    <2> QED
      BY <2>1, <2>2, <2>3 DEF ValueCase
  <1>5. CASE PickForm
    <2>1. PICK t \in FormTexts, d \in Details : case' = [kind |-> "form", text |-> t, detail |-> d]
      BY <1>5, Zenon DEF PickForm
    <2>2. t \in Seq(ValueChars)
      <3>1. t \in Texts(ValueChars, 3) /\ 3 \in Nat
        BY <2>1, Zenon DEF FormTexts, ValueChars
      <3> QED
        BY <3>1, TextsAreTexts
    <2>3. AnyDetail(d)
      BY DetailsAre
    <2> QED
      BY <2>1, <2>2, <2>3 DEF ValueCase
  <1>6. CASE PickScalar
    <2>1. PICK c : case' = c /\ \E f \in Fields : c \in Scalars(f)
      BY <1>6 DEF PickScalar
    <2>2. PICK f, a, cl, r, p, ok, t : c = ScalarOf(f, a, cl, r, p, ok, t)
      BY <2>1 DEF Scalars
    <2>3. PICK env, toml :
            c = [kind |-> "scalar", field |-> f, allowEnv |-> a, cli |-> cl, env |-> env, toml |-> toml]
      BY <2>2, Zenon DEF ScalarOf
    <2> QED
      BY <2>1, <2>3 DEF ValueCase
  <1>7. CASE PickUpsd
    <2>1. PICK c : case' = c /\ c \in Upsds
      BY <1>7 DEF PickUpsd
    <2>2. PICK n, a, p, u, s : c = UpsdOf(n, a, p, u, s)
      BY <2>1 DEF Upsds
    <2>3. PICK cli, env, toml : c = [kind |-> "upsd", cli |-> cli, env |-> env, toml |-> toml]
      BY <2>2, Zenon DEF UpsdOf
    <2> QED
      BY <2>1, <2>3 DEF ValueCase
  <1>8. CASE Start
    BY <1>8 DEF Start, ValueCase
  <1> QED
    BY <1>1, <1>2, <1>3, <1>4, <1>5, <1>6, <1>7, <1>8
    DEF CaseNext, Pick, StepClients, StepTable, StepService, CaseVars

LEMMA ValueAlways == CaseSpec => []ValueCase
  BY ValueInit, ValueStep, PTL DEF CaseSpec

(* infer_from and as_str on the cases of the run: what is reported is read *)
(* back.                                                                   *)
THEOREM ReadBackCorrect == CaseSpec => []ReadBack
  <1>1. ValueCase => ReadBack
    <2> SUFFICES ASSUME case.kind = "reported", case.text \in Seq(ValueChars) PROVE ReadBack
      BY DEF ValueCase, ReadBack
    <2>1. ASSUME NEW out \in AsStr(InferFrom(case.text))
          PROVE  /\ InferFrom(out).t = InferFrom(case.text).t /\ InferFrom(out).s = InferFrom(case.text).s
                 /\ Abs(Worth(InferFrom(out)) - Worth(InferFrom(case.text))) <= 5
                 /\ \A again \in AsStr(InferFrom(out)) : InferFrom(again) = InferFrom(out)
                 /\ InferFrom(case.text).t # "float" /\ ~IsPrefix(<<"-", "0">>, case.text) => out = case.text
      <3>1. PICK t, v, w : t = case.text /\ v = InferFrom(t) /\ w = InferFrom(out)
        OBVIOUS
      <3>2. t \in Seq(ValueChars) /\ out \in AsStr(v)
        BY <2>1, <3>1, Zenon
      <3>3. /\ w.t = v.t /\ w.s = v.s
            /\ Abs(Worth(w) - Worth(v)) <= 5
            /\ \A again \in AsStr(w) : InferFrom(again) = w
            /\ v.t # "float" /\ ~IsPrefix(<<"-", "0">>, t) => out = t
        BY <3>1, <3>2, TextReadBack
      <3> QED
        BY <3>1, <3>3, Zenon
    <2> QED
      BY <2>1, Zenon DEF ReadBack
  <1> QED
    BY <1>1, ValueAlways, PTL

(* The patch route of rw.rs on the cases of the run: what it lets through  *)
(* still passes the check when upsd reads it, and is in the range itself   *)
(* if the ends are below Exact.                                            *)
THEOREM SentInRangeCorrect == CaseSpec => []SentInRange
  <1>1. ValueCase => SentInRange
    <2> SUFFICES ASSUME case.kind = "number", IsNumber(case.value), AnyDetail(case.detail),
                        JsonAccepts(case.value, case.detail)
                 PROVE  SentInRange
      BY DEF ValueCase, SentInRange
    <2>1. ASSUME NEW out \in AsStr(case.value)
          PROVE  /\ InferFrom(out).t = case.value.t
                 /\ case.detail.k = "range" =>
                       /\ AsF64(InferFrom(out)) \in AsF64(case.detail.lo)..AsF64(case.detail.hi)
                       /\ Abs(Worth(case.detail.lo)) < 1000 * Exact /\ Abs(Worth(case.detail.hi)) < 1000 * Exact =>
                             Worth(InferFrom(out)) \in Worth(case.detail.lo)..Worth(case.detail.hi)
      <3>1. PICK v, d : v = case.value /\ d = case.detail
        OBVIOUS
      <3>4. PICK limit : limit = 1000 * Exact
        OBVIOUS
      <3>2. /\ IsNumber(v) /\ (d.k = "range" => Hundredths(d))
            /\ JsonAccepts(v, d) /\ out \in AsStr(v)
        BY <2>1, <3>1, Zenon DEF AnyDetail
      <3>3. /\ InferFrom(out).t = v.t
            /\ d.k = "range" =>
                  /\ AsF64(InferFrom(out)) \in AsF64(d.lo)..AsF64(d.hi)
                  /\ Abs(Worth(d.lo)) < limit /\ Abs(Worth(d.hi)) < limit =>
                        Worth(InferFrom(out)) \in Worth(d.lo)..Worth(d.hi)
        BY <3>2, <3>4, NumberInRange
      <3> QED
        BY <3>1, <3>3, <3>4
    <2> QED
      BY <2>1, Zenon DEF SentInRange
  <1> QED
    BY <1>1, ValueAlways, PTL

(* The two routes that set a variable, on the cases of the run: the form   *)
(* lets nothing through that the API rejects, and it takes the numbers the *)
(* API takes, but for options and where two decimals are not enough.       *)
THEOREM RoutesAgreeCorrect == CaseSpec => []RoutesAgree
  <1>1. ASSUME ValueCase, case.kind = "form", NEW v \in FormValue(case.text, case.detail)
        PROVE  JsonAccepts(v, case.detail)
    <2>1. PICK t, d : t = case.text /\ d = case.detail
      OBVIOUS
    <2>2. t \in Seq(ValueChars) /\ AnyDetail(d) /\ v \in FormValue(t, d)
      BY <1>1, <2>1, Zenon DEF ValueCase
    <2>3. d.k \in {"string", "number", "enum", "range"} /\ d.max \in Nat
      BY <2>2 DEF AnyDetail, DetailKinds
    <2>4. JsonAccepts(v, d)
      BY <2>2, <2>3, FormStricter
    <2> QED
      BY <2>1, <2>4, Zenon
  <1>2. ASSUME ValueCase, case.kind = "number", JsonAccepts(case.value, case.detail),
               case.detail.k # "enum",
               case.value.t = "int" \/ case.value.n % 10 = 0, NEW out \in AsStr(case.value)
        PROVE  case.value \in FormValue(out, case.detail)
    <2>1. PICK v, d : v = case.value /\ d = case.detail
      OBVIOUS
    <2>2. /\ IsNumber(v) /\ AnyDetail(d) /\ d.k # "enum" /\ JsonAccepts(v, d)
          /\ v.t = "int" \/ v.n % 10 = 0
          /\ out \in AsStr(v)
      BY <1>2, <2>1, Zenon DEF ValueCase
    <2>3. d.k = "number" \/ d.k = "range"
      <3>1. v.t = "int" \/ v.t = "float"
        BY <2>2, NumberFields
      <3>2. ~IsText(v)
        BY <3>1 DEF IsText
      <3>3. d.k # "string"
        BY <2>2, <3>2 DEF JsonAccepts
      <3> QED
        BY <2>2, <3>3 DEF AnyDetail, DetailKinds
    <2>4. v \in FormValue(out, d)
      BY <2>2, <2>3, NumberTyped
    <2> QED
      BY <2>1, <2>4, Zenon
  <1>3. ValueCase => RoutesAgree
    BY <1>1, <1>2, Zenon DEF RoutesAgree
  <1> QED
    BY <1>3, ValueAlways, PTL
=============================================================================
