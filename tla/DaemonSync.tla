----------------------------- MODULE DaemonSync -----------------------------
(***************************************************************************)
(* The in-memory table of one upsd namespace (state.rs, DaemonState) and   *)
(* the two background tasks that keep it: DeviceSyncTask                   *)
(* (sync/sync_device.rs) adds, renames and removes devices; StatusSyncTask *)
(* (sync/sync_status.rs) refreshes the devices that are there.  Both read  *)
(* the table, release the lock, talk to upsd for as long as it takes, and  *)
(* apply what they learned under the write lock.  Each request that the    *)
(* code awaits is a step, so answers arrive in any order and may be old    *)
(* when they are applied.                                                  *)
(*                                                                         *)
(* upsd is free here: it may list any devices and answer, or fail to       *)
(* answer, anything.  UpsdMirror adds an upsd with a state of its own.     *)
(*                                                                         *)
(* A device entry keeps its status, its description and whether the        *)
(* details of its RW variables are loaded; values, commands and attached   *)
(* clients are data the control does not depend on (the client list is     *)
(* the subject of ClientDiff).  A device that answers is taken to report   *)
(* ups.status, and never to report NOCOMM itself.                          *)
(***************************************************************************)
EXTENDS Integers, FiniteSets

CONSTANTS
    Devices,    \* UPS names
    Status,     \* values of ups.status
    Descs,      \* descriptions in LIST UPS
    NoDesc      \* the empty description

NoComm == "NOCOMM"

ASSUME SyncAssumption ==
    /\ IsFiniteSet(Devices)
    /\ Status \cap {NoComm, "none", "pending", "fail"} = {}

VARIABLES
    keys,      \* names in DaemonState.devices
    entry,     \* their DeviceEntry
    dstatus,   \* DaemonState.status
    ver,       \* DaemonState.ver and prot_ver are known
    dphase,    \* where DeviceSyncTask::next is
    listed,    \* names of the LIST UPS answer it works on
    ldesc,     \* and their descriptions
    patch,     \* what its diff against the table found
    outcome,   \* how its load_device_entry calls ended
    sphase,    \* where StatusSyncTask is
    kind,      \* full (state_sync) or partial (status_sync)
    reply,     \* what its requests returned
    unsent,    \* status changes it applied and has not published
    view,      \* what the events so far tell a subscriber of each device
    vstatus,   \* and of the daemon
    overtaken  \* devices whose unsent change was overtaken by an addition

table == <<keys, entry, dstatus, ver>>
dtask == <<dphase, listed, ldesc, patch, outcome>>
stask == <<sphase, kind, reply, unsent>>
subscriber == <<view, vstatus, overtaken>>
vars == <<table, dtask, stask, subscriber>>

Entry == [status : Status \cup {NoComm}, desc : Descs \cup {NoDesc}, rw : BOOLEAN]

(* What is kept of a device that is not in the table. *)
Blank == [status |-> NoComm, desc |-> NoDesc, rw |-> FALSE]

Restated(e, s) == [e EXCEPT !.status = s]

(* Faulty variant: the new description is announced but not stored. *)
RenamedNot(e, t) == e

Renamed(e, t) == [e EXCEPT !.desc = t]

(* mark_as_dead_with(NOCOMM): the status is set, the details are cleared. *)
MarkedDead(e) == [e EXCEPT !.status = NoComm, !.rw = FALSE]

NoPatch == [fresh |-> {}, renamed |-> {}, gone |-> {}]

Nothing == [d \in Devices |-> "none"]

Init ==
    /\ keys = {} /\ entry = [d \in Devices |-> Blank]
    /\ dstatus = "NotReady" /\ ver = FALSE
    /\ dphase = "idle" /\ listed = {} /\ ldesc = [d \in Devices |-> NoDesc]
    /\ patch = NoPatch /\ outcome = Nothing
    /\ sphase = "idle" /\ kind = "full" /\ reply = Nothing /\ unsent = {}
    /\ view = Nothing /\ vstatus = "NotReady" /\ overtaken = {}

-----------------------------------------------------------------------------
(* DeviceSyncTask *)

(* list_ups, get_protver and get_ver all answered. *)
ListOk(L, f) ==
    /\ dphase = "idle"
    /\ dphase' = "classify"
    /\ listed' = L
    /\ ldesc' = [d \in Devices |-> IF d \in L THEN f[d] ELSE NoDesc]
    /\ UNCHANGED <<patch, outcome, table, stask, subscriber>>

(* One of the three failed: diff_upsd returns the error. *)
ListFail ==
    /\ dphase = "idle"
    /\ dphase' = "abort"
    /\ UNCHANGED <<listed, ldesc, patch, outcome, table, stask, subscriber>>

(* Faulty variant: a device that once was NOCOMM is left alone. *)
ClassifyNoRecheck ==
    /\ dphase = "classify"
    /\ dphase' = "load"
    /\ patch' = [fresh |-> listed \ keys,
                 renamed |-> {d \in listed \cap keys : entry[d].desc # ldesc[d]},
                 gone |-> keys \ listed]
    /\ outcome' = [d \in Devices |-> IF d \in listed \ keys THEN "pending" ELSE "none"]
    /\ UNCHANGED <<listed, ldesc, table, stask, subscriber>>

(* Under the read lock: which devices went, which are new, which are       *)
(* NOCOMM and get another chance, which have a new description.            *)
Classify ==
    LET fresh == listed \ keys
        recheck == {d \in listed \cap keys : entry[d].status = NoComm}
        kept == (listed \cap keys) \ recheck
    IN
    /\ dphase = "classify"
    /\ dphase' = "load"
    /\ patch' = [fresh |-> fresh,
                 renamed |-> {d \in kept : entry[d].desc # ldesc[d]},
                 gone |-> keys \ listed]
    /\ outcome' = [d \in Devices |->
                      IF d \in fresh \cup recheck THEN "pending" ELSE "none"]
    /\ UNCHANGED <<listed, ldesc, table, stask, subscriber>>

(* load_device_entry(d) read everything, status s among it. *)
LoadOk(d, s) ==
    /\ dphase = "load"
    /\ outcome[d] = "pending"
    /\ outcome' = [outcome EXCEPT ![d] = s]
    /\ UNCHANGED <<dphase, listed, ldesc, patch, table, stask, subscriber>>

LoadFail(d) ==
    /\ dphase = "load"
    /\ outcome[d] = "pending"
    /\ outcome' = [outcome EXCEPT ![d] = "fail"]
    /\ UNCHANGED <<dphase, listed, ldesc, patch, table, stask, subscriber>>

Loaded == dphase = "load" /\ \A d \in Devices : outcome[d] # "pending"

Failed == {d \in Devices : outcome[d] = "fail"}

(* Faulty variant: off by one. *)
UsableAlways == Cardinality(Failed) <= Cardinality(listed)

(* diff_upsd gives up when as many loads failed as devices are listed. *)
Usable == Cardinality(Failed) < Cardinality(listed)

DeviceSyncEnds ==
    /\ dphase' = "idle"
    /\ listed' = {}
    /\ ldesc' = [d \in Devices |-> NoDesc]
    /\ patch' = NoPatch
    /\ outcome' = Nothing

Found == {d \in Devices : outcome[d] \in Status}

(* Devices to insert: the loaded ones, and new ones whose load failed. *)
Added == Found \cup (Failed \cap patch.fresh)

(* The patch is applied and its events are published under one write lock. *)
Patch ==
    /\ Loaded /\ Usable
    /\ keys' = (keys \cup Added) \ patch.gone
    /\ entry' = [d \in Devices |->
          IF d \in patch.gone THEN Blank
          ELSE IF d \in Found
               THEN [status |-> outcome[d], desc |-> ldesc[d], rw |-> TRUE]
          ELSE IF d \in Added THEN Blank
          ELSE IF d \in patch.renamed THEN Renamed(entry[d], ldesc[d])
          ELSE entry[d]]
    /\ dstatus' = "Online"
    /\ ver' = TRUE
    /\ view' = [d \in Devices |->
          IF d \in patch.gone THEN "none"
          ELSE IF d \in Added THEN entry'[d].status
          ELSE view[d]]
    /\ vstatus' = IF dstatus # "Online" THEN "Online" ELSE vstatus
    /\ overtaken' = (overtaken \ (Added \cup patch.gone))
                       \cup {d \in Added : \E u \in unsent : u.name = d}
    /\ DeviceSyncEnds
    /\ UNCHANGED stask

(* Faulty variant: the table is emptied before its keys are reported. *)
AbortUnreported ==
    /\ dphase = "abort" \/ (Loaded /\ ~Usable)
    /\ keys' = {}
    /\ entry' = [d \in Devices |-> Blank]
    /\ dstatus' = "Dead"
    /\ ver' = IF dstatus # "Dead" THEN FALSE ELSE ver
    /\ vstatus' = IF dstatus # "Dead" THEN "Dead" ELSE vstatus
    /\ DeviceSyncEnds
    /\ UNCHANGED <<view, overtaken, stask>>

(* diff_upsd failed: every device is reported removed and the table is     *)
(* emptied, again under one write lock.                                    *)
Abort ==
    /\ dphase = "abort" \/ (Loaded /\ ~Usable)
    /\ keys' = {}
    /\ entry' = [d \in Devices |-> Blank]
    /\ dstatus' = "Dead"
    /\ ver' = IF dstatus # "Dead" THEN FALSE ELSE ver
    /\ view' = [d \in Devices |-> IF d \in keys THEN "none" ELSE view[d]]
    /\ vstatus' = IF dstatus # "Dead" THEN "Dead" ELSE vstatus
    /\ overtaken' = overtaken \ keys
    /\ DeviceSyncEnds
    /\ UNCHANGED stask

-----------------------------------------------------------------------------
(* StatusSyncTask *)

(* snapshot_active_device_names: with no active device the poll is over. *)
Poll(m) ==
    LET active == {d \in keys : entry[d].status # NoComm} IN
    /\ sphase = "idle"
    /\ active # {}
    /\ sphase' = "ask"
    /\ kind' = m
    /\ reply' = [d \in Devices |-> IF d \in active THEN "pending" ELSE "none"]
    /\ UNCHANGED <<unsent, table, dtask, subscriber>>

(* GET VAR ups.status, or the three LIST requests of state_sync. *)
ReplyOk(d, s) ==
    /\ sphase = "ask"
    /\ reply[d] = "pending"
    /\ reply' = [reply EXCEPT ![d] = s]
    /\ UNCHANGED <<sphase, kind, unsent, table, dtask, subscriber>>

ReplyFail(d) ==
    /\ sphase = "ask"
    /\ reply[d] = "pending"
    /\ reply' = [reply EXCEPT ![d] = "fail"]
    /\ UNCHANGED <<sphase, kind, unsent, table, dtask, subscriber>>

(* Devices still in the table whose request was answered. *)
Got == {d \in keys : reply[d] \in Status}

(* Those that state_sync could not read. *)
Lost == {d \in keys : reply[d] = "fail" /\ kind = "full"}

(* Faulty variant: a lost device is marked dead before its change is noted. *)
ChangesMarkedFirst ==
    {[name |-> d, old |-> entry[d].status, new |-> reply[d]] :
        d \in {e \in Got : entry[e].status # reply[e]}}
      \cup {[name |-> d, old |-> NoComm, new |-> NoComm] : d \in Lost}

(* A failure is reported as a change to NOCOMM whatever the old status. *)
Changes ==
    {[name |-> d, old |-> entry[d].status, new |-> reply[d]] :
        d \in {e \in Got : entry[e].status # reply[e]}}
      \cup {[name |-> d, old |-> entry[d].status, new |-> NoComm] : d \in Lost}

(* Under the write lock, the answers are applied to the devices that still *)
(* have an entry.  A partial sync ignores failures; state_sync marks the   *)
(* entry dead.                                                             *)
Apply ==
    /\ sphase = "ask" /\ \A d \in Devices : reply[d] # "pending"
    /\ entry' = [d \in Devices |->
          IF d \in Got THEN Restated(entry[d], reply[d])
          ELSE IF d \in Lost THEN MarkedDead(entry[d])
          ELSE entry[d]]
    /\ unsent' = Changes
    /\ reply' = Nothing
    /\ kind' = "full"
    /\ sphase' = IF Changes = {} THEN "idle" ELSE "send"
    /\ UNCHANGED <<keys, dstatus, ver, dtask, subscriber>>

(* The changes are published after the lock was released; a subscriber     *)
(* has no use for a change of a device that was removed.                   *)
Send ==
    /\ sphase = "send"
    /\ sphase' = "idle"
    /\ view' = [d \in Devices |->
          IF view[d] # "none" /\ \E u \in unsent : u.name = d
          THEN (CHOOSE u \in unsent : u.name = d).new
          ELSE view[d]]
    /\ overtaken' = overtaken \ {d \in keys : view'[d] = entry[d].status}
    /\ unsent' = {}
    /\ UNCHANGED <<kind, reply, table, dtask, vstatus>>

-----------------------------------------------------------------------------
Next ==
    \/ \E L \in SUBSET Devices, f \in [Devices -> Descs] : ListOk(L, f)
    \/ ListFail \/ Classify
    \/ \E d \in Devices, s \in Status : LoadOk(d, s)
    \/ \E d \in Devices : LoadFail(d)
    \/ Patch \/ Abort
    \/ \E m \in {"full", "partial"} : Poll(m)
    \/ \E d \in Devices, s \in Status : ReplyOk(d, s)
    \/ \E d \in Devices : ReplyFail(d)
    \/ Apply \/ Send

Spec == Init /\ [][Next]_vars

-----------------------------------------------------------------------------
Change == [name : Devices, old : Status \cup {NoComm}, new : Status \cup {NoComm}]

(* Every variable has its type. *)
TypeOK ==
    /\ keys \in SUBSET Devices
    /\ entry \in [Devices -> Entry]
    /\ dstatus \in {"NotReady", "Online", "Dead"}
    /\ ver \in BOOLEAN
    /\ dphase \in {"idle", "classify", "load", "abort"}
    /\ listed \in SUBSET Devices
    /\ ldesc \in [Devices -> Descs \cup {NoDesc}]
    /\ patch \in [fresh : SUBSET Devices, renamed : SUBSET Devices, gone : SUBSET Devices]
    /\ outcome \in [Devices -> Status \cup {"none", "pending", "fail"}]
    /\ sphase \in {"idle", "ask", "send"}
    /\ kind \in {"full", "partial"}
    /\ reply \in [Devices -> Status \cup {"none", "pending", "fail"}]
    /\ unsent \in SUBSET Change
    /\ view \in [Devices -> Status \cup {NoComm, "none"}]
    /\ vstatus \in {"NotReady", "Online", "Dead"}
    /\ overtaken \in SUBSET Devices

(* The namespace is Online exactly when it has devices, and exactly when   *)
(* its versions are known: a failed sync leaves nothing of the old daemon  *)
(* behind, a successful one never leaves an Online daemon without devices. *)
OnlineIffDevices ==
    /\ dstatus = "Online" <=> keys # {}
    /\ dstatus = "Online" <=> ver

(* A subscriber that saw every event knows exactly which devices are in    *)
(* the table and what the daemon's status is: additions, removals and the  *)
(* daemon's status are published under the lock that makes them.           *)
PresenceReplay ==
    /\ \A d \in Devices : view[d] # "none" <=> d \in keys
    /\ vstatus = dstatus

(* A subscriber knows each device's status, except for a change that       *)
(* StatusSyncTask has not published yet, or published after the device     *)
(* was inserted anew; and the old status of a change not yet published is  *)
(* the one the subscriber knows.                                           *)
StatusReplay ==
    \A d \in keys \ overtaken :
        /\ (\A u \in unsent : u.name # d) => view[d] = entry[d].status
        /\ \A u \in unsent : u.name = d => u.old = view[d] /\ u.new = entry[d].status

(* Why StatusReplay holds: a change is published before the next poll      *)
(* begins, at most one of each device.                                     *)
UnsentShape ==
    /\ unsent # {} => sphase = "send"
    /\ \A u, w \in unsent : u.name = w.name => u = w

(* Why the patch still fits when it is applied: only DeviceSyncTask adds   *)
(* and removes devices, so nothing it classified has come or gone.         *)
PatchFits ==
    dphase = "load" =>
        /\ patch.fresh = listed \ keys
        /\ patch.gone = keys \ listed
        /\ patch.renamed \subseteq listed \cap keys
        /\ \A d \in patch.fresh : outcome[d] # "none"
        /\ \A d \in Devices : outcome[d] # "none" => d \in listed

(* An entry whose details are not loaded is reported as NOCOMM, so that    *)
(* the next device sync tries again.                                       *)
UnloadedIsNoComm == \A d \in keys : ~entry[d].rw => entry[d].status = NoComm
=============================================================================
