-------------------------- MODULE DescriptionSync --------------------------
(***************************************************************************)
(* DescriptionSyncService (sync/sync_desc.rs).  It waits for events that   *)
(* announce new devices, collects the names of their variables and         *)
(* commands that have no description yet, asks upsd for them and stores    *)
(* what it gets in a map shared by all devices (ServerState.shared_desc).  *)
(* What it did not get is asked for again only when another device with    *)
(* that name is announced.                                                 *)
(*                                                                         *)
(* The tasks of DaemonSync write the table meanwhile: they insert devices  *)
(* and announce them under the same lock, remove them, and refresh the     *)
(* names of one without a word.  Only announcements are counted in the     *)
(* event channel; other events may push them out (Overrun).                *)
(***************************************************************************)
EXTENDS Integers, Sequences

CONSTANTS
    Ups,        \* devices
    DescNames,  \* names of variables and commands
    Capacity    \* announcements the event channel can hold

ASSUME CapacityAssumption == Capacity \in Nat \ {0}

VARIABLES
    names,      \* the names of each device of the table
    channel,    \* DeviceAddition events the service has not seen
    describing, \* the service waits for upsd
    pending,    \* its requests without an answer, <<device, name>>
    got,        \* names that were answered
    refused,    \* names that were not
    shared,     \* ServerState.shared_desc
    excused     \* history: <<device, name>> that was missed, and it is known why

descvars == <<names, channel, describing, pending, got, refused, shared, excused>>

DescInit ==
    /\ names = <<>> /\ channel = <<>> /\ describing = FALSE
    /\ pending = {} /\ got = {} /\ refused = {} /\ shared = {} /\ excused = {}

-----------------------------------------------------------------------------
(* The table *)

(* An event that is pushed out of the channel: RecvError::Lagged, which    *)
(* the service only logs.                                                  *)
Lagged(D) == D \X DescNames

(* Devices are inserted, or read again after NOCOMM; one that could not be *)
(* read has no names.                                                      *)
Announce(D, f) ==
    /\ names' = [d \in DOMAIN names \cup D |-> IF d \in D THEN f[d] ELSE names[d]]
    /\ channel' = Append(IF Len(channel) = Capacity THEN Tail(channel) ELSE channel, D)
    /\ excused' = (excused \cup (IF Len(channel) = Capacity THEN Lagged(Head(channel)) ELSE {}))
                     \ (D \X DescNames)
    /\ UNCHANGED <<describing, pending, got, refused, shared>>

RemoveUps(d) ==
    /\ d \in DOMAIN names
    /\ names' = [e \in DOMAIN names \ {d} |-> names[e]]
    /\ excused' = excused \ ({d} \X DescNames)
    /\ UNCHANGED <<channel, describing, pending, got, refused, shared>>

(* A full poll replaces the names of an entry; no event tells of new ones. *)
Refresh(d, ns) ==
    /\ d \in DOMAIN names
    /\ names' = [names EXCEPT ![d] = ns]
    /\ excused' = excused \cup ({d} \X (ns \ names[d]))
    /\ UNCHANGED <<channel, describing, pending, got, refused, shared>>

Overrun ==
    /\ channel # <<>>
    /\ channel' = Tail(channel)
    /\ excused' = excused \cup Lagged(Head(channel))
    /\ UNCHANGED <<names, describing, pending, got, refused, shared>>

TableStep ==
    \/ \E D \in (SUBSET Ups) \ {{}} : \E f \in [D -> SUBSET DescNames] : Announce(D, f)
    \/ \E d \in Ups : RemoveUps(d) \/ \E ns \in SUBSET DescNames : Refresh(d, ns)
    \/ Overrun

-----------------------------------------------------------------------------
(* The service *)

(* Under both read locks: the names of the announced devices that are      *)
(* still there, without a description.                                     *)
Wanted(D) == (UNION {names[d] : d \in D}) \ shared

(* The requests: a name that several devices have is asked of one of them, *)
(* the first of the event.                                                 *)
AskAbout(D) ==
    /\ \E whom \in [Wanted(D) -> D] :
        /\ \A n \in Wanted(D) : n \in names[whom[n]]
        /\ pending' = {<<whom[n], n>> : n \in Wanted(D)}
    /\ describing' = (Wanted(D) # {})

(* Faulty variant: an announcement is dropped if one of its devices went.  *)
ReceiveAllOrNone ==
    /\ ~describing /\ channel # <<>>
    /\ channel' = Tail(channel)
    /\ AskAbout(IF Head(channel) \subseteq DOMAIN names THEN Head(channel) ELSE {})
    /\ UNCHANGED <<names, got, refused, shared, excused>>

(* DescriptionTask::next; devices that went since are passed over. *)
Receive ==
    /\ ~describing /\ channel # <<>>
    /\ channel' = Tail(channel)
    /\ AskAbout(Head(channel) \cap DOMAIN names)
    /\ UNCHANGED <<names, got, refused, shared, excused>>

(* load_descs: each request is answered or fails. *)
DescOk(d, n) ==
    /\ <<d, n>> \in pending
    /\ pending' = pending \ {<<d, n>>}
    /\ got' = got \cup {n}
    /\ UNCHANGED <<names, channel, describing, refused, shared, excused>>

DescFail(d, n) ==
    /\ <<d, n>> \in pending
    /\ pending' = pending \ {<<d, n>>}
    /\ refused' = refused \cup {n}
    /\ UNCHANGED <<names, channel, describing, got, shared, excused>>

(* Faulty variant: one failure is in the way of all the others. *)
StoreAll ==
    /\ describing /\ pending = {} /\ refused = {}
    /\ shared' = shared \cup got
    /\ excused' = excused
    /\ got' = {} /\ refused' = {} /\ describing' = FALSE
    /\ UNCHANGED <<names, channel, pending>>

(* All requests ended: the descriptions are stored under the write lock,   *)
(* also for devices that are gone by now, and failures are forgotten.      *)
Store ==
    /\ describing /\ pending = {}
    /\ shared' = shared \cup got
    /\ excused' = excused \cup ((DOMAIN names) \X refused)
    /\ got' = {} /\ refused' = {} /\ describing' = FALSE
    /\ UNCHANGED <<names, channel, pending>>

DescEnds(d, n) == DescOk(d, n) \/ DescFail(d, n)

ServiceStep == Receive \/ Store \/ \E d \in Ups, n \in DescNames : DescEnds(d, n)

DescNext == TableStep \/ ServiceStep

DescSpec == DescInit /\ [][DescNext]_descvars /\ WF_descvars(ServiceStep)

-----------------------------------------------------------------------------
InFlight == {p[2] : p \in pending} \cup got \cup refused

(* Every name on display has a description, or is being asked for, or its  *)
(* device is still to be announced, unless the announcement was pushed     *)
(* out, a request failed, or the name came with a refresh: whatever        *)
(* happened to the table between the event and the answers, and whichever  *)
(* of several devices was asked.                                           *)
AccountedFor ==
    \A d \in DOMAIN names : \A n \in names[d] \ shared :
        \/ <<d, n>> \in excused \/ n \in InFlight
        \/ \E i \in 1..Len(channel) : d \in channel[i]

(* No name is asked of two devices, and none that was answered, refused or *)
(* described already: a description is never overwritten by that of        *)
(* another device.                                                         *)
AskedOnce ==
    /\ \A p, q \in pending : p[2] = q[2] => p = q
    /\ \A p \in pending : p[2] \notin got \cup refused \cup shared

Owed(d, n) == d \in DOMAIN names /\ n \in names[d] \ shared /\ <<d, n>> \notin excused

(* Once the table is left alone, every name on display gets its            *)
(* description or has failed to for one of those reasons: the service      *)
(* works its queue off, whatever is in it, and never stops for good.       *)
EventuallyDescribed ==
    <>[][ServiceStep]_descvars => <>[](\A d \in Ups, n \in DescNames : ~Owed(d, n))
=============================================================================
