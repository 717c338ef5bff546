-------------------------- MODULE DaemonSyncProofs --------------------------
(* Proofs about DaemonSync, for any finite set of devices. *)
EXTENDS UpsdMirror, FiniteSetTheorems, TLAPS

(* The markers of the protocol are no values of ups.status.                *)
LEMMA SpecialStatus ==
    /\ NoComm \notin Status /\ "none" \notin Status
    /\ "pending" \notin Status /\ "fail" \notin Status
    /\ NoComm # "none"
  BY SyncAssumption DEF SyncAssumption, NoComm

(* A dead entry is an entry, and it is NOCOMM.                             *)
LEMMA EntryFacts ==
    ASSUME NEW e \in Entry
    PROVE  /\ MarkedDead(e) \in Entry /\ MarkedDead(e).status = NoComm
           /\ e.status \in Status \cup {NoComm}
  BY DEF Entry, MarkedDead

(* So is the entry inserted for a device that could not be loaded.         *)
LEMMA BlankFacts == Blank \in Entry /\ Blank.status = NoComm
  BY DEF Entry, Blank

(* A polled status is stored as it came.                                   *)
LEMMA EntryRestated ==
    ASSUME NEW e \in Entry, NEW s \in Status
    PROVE  Restated(e, s) \in Entry /\ Restated(e, s).status = s
  BY DEF Entry, Restated

(* A new description leaves the status alone.                              *)
LEMMA EntryRenamed ==
    ASSUME NEW e \in Entry, NEW t \in Descs \cup {NoDesc}
    PROVE  Renamed(e, t) \in Entry /\ Renamed(e, t).status = e.status
  BY DEF Entry, Renamed

(* The types hold at the start.                                            *)
LEMMA TypeInit == Init => TypeOK
  <1> SUFFICES ASSUME Init PROVE TypeOK
    OBVIOUS
  <1> USE DEF Init
  <1>1. entry \in [Devices -> Entry]
    BY DEF Entry, Blank
  <1>2. patch \in [fresh : SUBSET Devices, renamed : SUBSET Devices, gone : SUBSET Devices]
    BY DEF NoPatch
  <1>3. ver \in BOOLEAN
    OBVIOUS
  <1> QED BY <1>1, <1>2, <1>3 DEF TypeOK, Nothing

(* The steps of DeviceSyncTask up to the patch keep the types.             *)
LEMMA TypeDevice ==
    ASSUME TypeOK,
           \/ \E L \in SUBSET Devices, f \in [Devices -> Descs] : ListOk(L, f)
           \/ ListFail \/ Classify
           \/ \E d \in Devices, s \in Status : LoadOk(d, s)
           \/ \E d \in Devices : LoadFail(d)
    PROVE  TypeOK'
  <1> USE DEF TypeOK, table, stask, subscriber
  <1>1. CASE \E L \in SUBSET Devices, f \in [Devices -> Descs] : ListOk(L, f)
    BY <1>1 DEF ListOk
  <1>2. CASE ListFail
    BY <1>2 DEF ListFail
  <1>3. CASE Classify
    BY <1>3 DEF Classify
  <1>4. CASE \E d \in Devices, s \in Status : LoadOk(d, s)
    BY <1>4 DEF LoadOk
  <1>5. CASE \E d \in Devices : LoadFail(d)
    BY <1>5 DEF LoadFail
  <1> QED BY <1>1, <1>2, <1>3, <1>4, <1>5

(* Applying the patch keeps the types.                                     *)
LEMMA TypePatch == TypeOK /\ Patch => TypeOK'
  <1> SUFFICES ASSUME TypeOK, Patch PROVE TypeOK'
    OBVIOUS
  <1> USE DEF TypeOK
  <1>1. ASSUME NEW d \in Devices PROVE entry'[d] \in Entry
    <2>1. entry[d] \in Entry /\ ldesc[d] \in Descs \cup {NoDesc}
      OBVIOUS
    <2>2. CASE d \notin patch.gone /\ d \in Found
      <3>1. entry'[d] = [status |-> outcome[d], desc |-> ldesc[d], rw |-> TRUE]
        BY <2>2 DEF Patch
      <3> QED BY <2>1, <2>2, <3>1 DEF Entry, Found
    <2>3. CASE d \in patch.gone \/ d \notin Found
      BY <2>1, <2>3, EntryRenamed, BlankFacts DEF Patch
    <2> QED BY <2>2, <2>3
  <1>11. entry' \in [Devices -> Entry]
    BY <1>1 DEF Patch
  <1>2. view' \in [Devices -> Status \cup {NoComm, "none"}]
    BY <1>11, EntryFacts DEF Patch
  <1>3. Added \subseteq Devices
    BY DEF Added, Found, Failed
  <1> QED BY <1>11, <1>2, <1>3 DEF Patch, DeviceSyncEnds, stask, NoPatch, Nothing

(* Emptying the table keeps the types.                                     *)
LEMMA TypeAbort == TypeOK /\ Abort => TypeOK'
  <1> SUFFICES ASSUME TypeOK, Abort PROVE TypeOK'
    OBVIOUS
  <1> USE DEF TypeOK
  <1>1. entry' \in [Devices -> Entry]
    BY DEF Abort, Entry, Blank
  <1>2. ver' \in BOOLEAN
    BY DEF Abort
  <1> QED BY <1>1, <1>2 DEF Abort, DeviceSyncEnds, stask, NoPatch, Nothing

(* The requests of StatusSyncTask keep the types.                          *)
LEMMA TypeStatus ==
    ASSUME TypeOK,
           \/ \E m \in {"full", "partial"} : Poll(m)
           \/ \E d \in Devices, s \in Status : ReplyOk(d, s)
           \/ \E d \in Devices : ReplyFail(d)
    PROVE  TypeOK'
  <1> USE DEF TypeOK, table, dtask, subscriber
  <1>1. CASE \E m \in {"full", "partial"} : Poll(m)
    BY <1>1 DEF Poll
  <1>2. CASE \E d \in Devices, s \in Status : ReplyOk(d, s)
    BY <1>2 DEF ReplyOk
  <1>3. CASE \E d \in Devices : ReplyFail(d)
    BY <1>3 DEF ReplyFail
  <1> QED BY <1>1, <1>2, <1>3

(* Changes are well formed.                                                *)
LEMMA ChangesType == TypeOK => Changes \subseteq Change
  <1> SUFFICES ASSUME TypeOK, NEW u \in Changes PROVE u \in Change
    OBVIOUS
  <1>1. \A d \in keys : entry[d].status \in Status \cup {NoComm}
    BY DEF TypeOK, Entry
  <1>2. CASE \E d \in Got : u = [name |-> d, old |-> entry[d].status, new |-> reply[d]]
    BY <1>1, <1>2 DEF TypeOK, Change, Got
  <1>3. CASE \E d \in Lost : u = [name |-> d, old |-> entry[d].status, new |-> NoComm]
    BY <1>1, <1>3 DEF TypeOK, Change, Lost
  <1> QED BY <1>2, <1>3 DEF Changes

(* Applying the answers keeps the types.                                   *)
LEMMA TypeApply == TypeOK /\ Apply => TypeOK'
  <1> SUFFICES ASSUME TypeOK, Apply PROVE TypeOK'
    OBVIOUS
  <1> USE DEF TypeOK
  <1>1. ASSUME NEW d \in Devices PROVE entry'[d] \in Entry
    <2>1. entry[d] \in Entry
      OBVIOUS
    <2>2. CASE d \in Got
      <3>1. reply[d] \in Status
        BY <2>2 DEF Got
      <3>2. entry'[d] = Restated(entry[d], reply[d])
        BY <2>2 DEF Apply
      <3> QED BY <2>1, <3>1, <3>2, EntryRestated
    <2>3. CASE d \notin Got /\ d \in Lost
      <3>1. entry'[d] = MarkedDead(entry[d])
        BY <2>3 DEF Apply
      <3> QED BY <2>1, <3>1, EntryFacts
    <2>4. CASE d \notin Got /\ d \notin Lost
      BY <2>1, <2>4 DEF Apply
    <2> QED BY <2>2, <2>3, <2>4
  <1>2. entry' \in [Devices -> Entry]
    BY <1>1 DEF Apply
  <1>3. unsent' \in SUBSET Change
    BY ChangesType DEF Apply
  <1> QED BY <1>2, <1>3 DEF Apply, dtask, subscriber, Nothing

(* Publishing the changes keeps the types.                                 *)
LEMMA TypeSend == TypeOK /\ Send => TypeOK'
  <1> SUFFICES ASSUME TypeOK, Send PROVE TypeOK'
    OBVIOUS
  <1> USE DEF TypeOK
  <1>1. \A d \in Devices : (\E u \in unsent : u.name = d) =>
            (CHOOSE u \in unsent : u.name = d) \in unsent
    OBVIOUS
  <1>2. view' \in [Devices -> Status \cup {NoComm, "none"}]
    BY <1>1 DEF Send, Change
  <1> QED BY <1>2 DEF Send, table, dtask

(* Every variable of the table, of the two sync tasks and of a subscriber  *)
(* keeps its type, whatever upsd answers (DeviceSyncTask::next,            *)
(* StatusSyncTask::next).                                                  *)
THEOREM TypeCorrect == Spec => []TypeOK
  <1>1. TypeOK /\ [Next]_vars => TypeOK'
    <2> SUFFICES ASSUME TypeOK, [Next]_vars PROVE TypeOK'
      OBVIOUS
    <2>1. CASE UNCHANGED vars
      BY <2>1 DEF TypeOK, vars, table, dtask, stask, subscriber
    <2>2. CASE Next
      BY <2>2, TypeDevice, TypePatch, TypeAbort, TypeStatus, TypeApply, TypeSend DEF Next
    <2> QED BY <2>1, <2>2
  <1> QED BY TypeInit, <1>1, PTL DEF Spec
-----------------------------------------------------------------------------
(* The inductive invariant for the table and for what subscribers know of  *)
(* its keys.                                                               *)
TableInv == TypeOK /\ PatchFits /\ OnlineIffDevices /\ PresenceReplay

(* The invariant of the table holds at the start.                          *)
LEMMA TableInit == Init => TableInv
  BY TypeInit DEF Init, TableInv, PatchFits, OnlineIffDevices, PresenceReplay, Nothing

(* Applying a patch leaves exactly the listed devices, and there are some. *)
LEMMA PatchYieldsListed == TableInv /\ Patch => keys' = listed /\ listed # {}
  <1> SUFFICES ASSUME TableInv, Patch PROVE keys' = listed /\ listed # {}
    OBVIOUS
  <1>1. PatchFits /\ TypeOK /\ dphase = "load"
    BY DEF TableInv, Patch, Loaded
  <1>2. Added \subseteq listed
    BY <1>1, SpecialStatus DEF PatchFits, Added, Found, Failed, TypeOK
  <1>3. listed \ keys \subseteq Added
    BY <1>1 DEF PatchFits, Added, Found, Failed, Patch, Loaded, TypeOK
  <1>4. keys' = listed
    BY <1>1, <1>2, <1>3 DEF PatchFits, Patch
  <1>5. IsFiniteSet(Failed) /\ Cardinality(Failed) \in Nat
    BY SyncAssumption, FS_Subset, FS_CardinalityType DEF SyncAssumption, Failed
  <1>6. listed # {}
    <2>1. Cardinality(Failed) < Cardinality(listed)
      BY DEF Patch, Usable
    <2>2. Cardinality({}) = 0
      BY FS_EmptySet
    <2> QED BY <1>5, <2>1, <2>2
  <1> QED BY <1>4, <1>6

(* Applying the patch keeps the invariant of the table.                    *)
LEMMA TablePatch == TableInv /\ Patch => TableInv'
  <1> SUFFICES ASSUME TableInv, Patch PROVE TableInv'
    OBVIOUS
  <1>1. TypeOK /\ TypeOK'
    BY TypePatch DEF TableInv
  <1>2. PatchFits'
    BY DEF Patch, DeviceSyncEnds, PatchFits
  <1>3. OnlineIffDevices'
    <2>1. dstatus' = "Online" /\ ver' = TRUE
      BY DEF Patch
    <2>2. keys' # {}
      BY PatchYieldsListed
    <2> QED BY <2>1, <2>2 DEF OnlineIffDevices
  <1>4. \A d \in Devices : entry'[d].status # "none"
    BY <1>1, EntryFacts, SpecialStatus DEF TypeOK
  <1>5. ASSUME NEW d \in Devices PROVE view'[d] # "none" <=> d \in keys'
    BY <1>1, <1>4 DEF TableInv, PresenceReplay, Patch, TypeOK
  <1>6. vstatus' = dstatus'
    BY DEF TableInv, PresenceReplay, Patch
  <1> QED BY <1>1, <1>2, <1>3, <1>5, <1>6 DEF TableInv, PresenceReplay

(* Emptying the table keeps it.                                            *)
LEMMA TableAbort == TableInv /\ Abort => TableInv'
  <1> SUFFICES ASSUME TableInv, Abort PROVE TableInv'
    OBVIOUS
  <1>1. TypeOK /\ TypeOK'
    BY TypeAbort DEF TableInv
  <1>2. PatchFits'
    BY DEF Abort, DeviceSyncEnds, PatchFits
  <1>3. OnlineIffDevices'
    BY DEF Abort, TableInv, OnlineIffDevices
  <1>4. ASSUME NEW d \in Devices PROVE view'[d] # "none" <=> d \in keys'
    BY <1>1 DEF TableInv, PresenceReplay, Abort, TypeOK
  <1>5. vstatus' = dstatus'
    BY DEF TableInv, PresenceReplay, Abort
  <1> QED BY <1>1, <1>2, <1>3, <1>4, <1>5 DEF TableInv, PresenceReplay

(* The steps that lead to the patch keep it: nobody else changes the keys. *)
LEMMA TableDevice ==
    ASSUME TableInv,
           \/ \E L \in SUBSET Devices, f \in [Devices -> Descs] : ListOk(L, f)
           \/ ListFail \/ Classify
           \/ \E d \in Devices, s \in Status : LoadOk(d, s)
           \/ \E d \in Devices : LoadFail(d)
    PROVE  TableInv'
  <1>1. TypeOK /\ TypeOK'
    BY TypeDevice DEF TableInv
  <1>2. UNCHANGED <<keys, dstatus, ver, view, vstatus>>
    BY DEF ListOk, ListFail, Classify, LoadOk, LoadFail, table, subscriber
  <1>3. OnlineIffDevices' /\ PresenceReplay'
    BY <1>2 DEF TableInv, OnlineIffDevices, PresenceReplay
  <1>4. PatchFits'
    <2>1. CASE (\E L \in SUBSET Devices, f \in [Devices -> Descs] : ListOk(L, f)) \/ ListFail
      BY <2>1 DEF ListOk, ListFail, PatchFits
    <2>2. CASE Classify
      BY <2>2, <1>1 DEF Classify, PatchFits, table, TypeOK
    <2>3. CASE \E d \in Devices, s \in Status : LoadOk(d, s)
      BY <2>3, <1>1, SpecialStatus DEF LoadOk, PatchFits, TableInv, table, TypeOK
    <2>4. CASE \E d \in Devices : LoadFail(d)
      BY <2>4, <1>1 DEF LoadFail, PatchFits, TableInv, table, TypeOK
    <2> QED BY <2>1, <2>2, <2>3, <2>4
  <1> QED BY <1>1, <1>3, <1>4 DEF TableInv

(* StatusSyncTask changes entries and never keys.                          *)
LEMMA TableStatus ==
    ASSUME TableInv,
           \/ \E m \in {"full", "partial"} : Poll(m)
           \/ \E d \in Devices, s \in Status : ReplyOk(d, s)
           \/ \E d \in Devices : ReplyFail(d)
           \/ Apply
    PROVE  TableInv'
  <1>1. TypeOK'
    BY TypeStatus, TypeApply DEF TableInv
  <1>2. UNCHANGED <<keys, dstatus, ver, view, vstatus, dtask>>
    BY DEF Poll, ReplyOk, ReplyFail, Apply, table, subscriber
  <1> QED BY <1>1, <1>2 DEF TableInv, OnlineIffDevices, PresenceReplay, PatchFits, dtask

(* Publishing a change neither adds nor removes a device in the view.      *)
LEMMA TableSend == TableInv /\ Send => TableInv'
  <1> SUFFICES ASSUME TableInv, Send PROVE TableInv'
    OBVIOUS
  <1>1. TypeOK /\ TypeOK'
    BY TypeSend DEF TableInv
  <1>2. ASSUME NEW d \in Devices PROVE view'[d] # "none" <=> view[d] # "none"
    <2>1. CASE view[d] # "none" /\ \E u \in unsent : u.name = d
      <3>1. (CHOOSE u \in unsent : u.name = d) \in unsent
        BY <2>1
      <3>2. view'[d] = (CHOOSE u \in unsent : u.name = d).new
        BY <2>1 DEF Send
      <3> QED BY <1>1, <2>1, <3>1, <3>2, SpecialStatus DEF TypeOK, Change
    <2>2. CASE ~(view[d] # "none" /\ \E u \in unsent : u.name = d)
      BY <2>2 DEF Send
    <2> QED BY <2>1, <2>2
  <1>3. UNCHANGED <<keys, dstatus, ver, vstatus, dtask>>
    BY DEF Send, table
  <1>4. OnlineIffDevices' /\ PatchFits'
    BY <1>3 DEF TableInv, OnlineIffDevices, PatchFits, dtask
  <1> QED BY <1>1, <1>2, <1>3, <1>4 DEF TableInv, PresenceReplay

(* Every step keeps the invariant of the table.                            *)
LEMMA TableNext == TableInv /\ [Next]_vars => TableInv'
  <1> SUFFICES ASSUME TableInv, [Next]_vars PROVE TableInv'
    OBVIOUS
  <1>1. CASE UNCHANGED vars
    BY <1>1 DEF TableInv, TypeOK, PatchFits, OnlineIffDevices, PresenceReplay,
                vars, table, dtask, stask, subscriber
  <1>2. CASE Next
    BY <1>2, TableDevice, TablePatch, TableAbort, TableStatus, TableSend DEF Next
  <1> QED BY <1>1, <1>2

(* A namespace is Online exactly when it has devices and its versions are  *)
(* known, for any devices and any answers of upsd: the failure count of    *)
(* diff_upsd never lets an empty table through as Online, and the error    *)
(* path of DeviceSyncTask::next leaves nothing behind.                     *)
THEOREM OnlineCorrect == Spec => []OnlineIffDevices
  <1>1. TableInv => OnlineIffDevices
    BY DEF TableInv
  <1> QED BY TableInit, TableNext, <1>1, PTL DEF Spec

(* A subscriber that saw every event knows which devices are in the table  *)
(* and the daemon's status: DeviceSyncTask::next publishes both under the  *)
(* write lock under which it changes them.                                 *)
THEOREM PresenceCorrect == Spec => []PresenceReplay
  <1>1. TableInv => PresenceReplay
    BY DEF TableInv
  <1> QED BY TableInit, TableNext, <1>1, PTL DEF Spec
-----------------------------------------------------------------------------
(* The inductive invariant for what subscribers know of the status. *)
ReplayInv == TableInv /\ UnsentShape /\ StatusReplay

(* The invariant of the view holds at the start.                           *)
LEMMA ReplayInit == Init => ReplayInv
  BY TableInit DEF Init, ReplayInv, UnsentShape, StatusReplay

(* Steps that touch neither the table nor the changes nor the view. *)
LEMMA ReplayQuiet ==
    ASSUME ReplayInv, TableInv',
           UNCHANGED <<keys, entry, unsent, view, overtaken>>,
           sphase # "send" \/ UNCHANGED sphase
    PROVE  ReplayInv'
  BY DEF ReplayInv, UnsentShape, StatusReplay

(* Applying the patch keeps the invariant of the view: what it inserts     *)
(* while a change is unsent is recorded as overtaken.                      *)
LEMMA ReplayPatch == ReplayInv /\ Patch => ReplayInv'
  <1> SUFFICES ASSUME ReplayInv, Patch PROVE ReplayInv'
    OBVIOUS
  <1>1. TableInv /\ TableInv' /\ TypeOK /\ UnsentShape /\ StatusReplay
    BY TablePatch DEF ReplayInv, TableInv
  <1>2. UNCHANGED <<sphase, unsent>>
    BY DEF Patch, stask
  <1>3. UnsentShape'
    BY <1>1, <1>2 DEF UnsentShape
  <1>4. ASSUME NEW d \in keys' \ overtaken'
        PROVE  /\ (\A u \in unsent' : u.name # d) => view'[d] = entry'[d].status
               /\ \A u \in unsent' : u.name = d => u.old = view'[d] /\ u.new = entry'[d].status
    <2>1. d \in Devices /\ d \notin patch.gone
      BY <1>1 DEF Patch, TableInv, TypeOK
    <2>2. CASE d \in Added
      <3>1. view'[d] = entry'[d].status
        BY <2>1, <2>2 DEF Patch
      <3>2. \A u \in unsent : u.name # d
        BY <2>2 DEF Patch
      <3> QED BY <1>2, <3>1, <3>2
    <2>3. CASE d \notin Added
      <3>1. d \in keys \ overtaken
        BY <2>1, <2>3 DEF Patch
      <3>2. d \notin Found
        BY <2>3 DEF Added
      <3>3. view'[d] = view[d]
        BY <2>1, <2>3 DEF Patch
      <3>4. entry[d] \in Entry /\ ldesc[d] \in Descs \cup {NoDesc}
        BY <1>1, <2>1 DEF TypeOK
      <3>5. entry'[d] = IF d \in patch.renamed THEN Renamed(entry[d], ldesc[d]) ELSE entry[d]
        BY <2>1, <2>3, <3>2 DEF Patch
      <3>6. entry'[d].status = entry[d].status
        BY <3>4, <3>5, EntryRenamed
      <3> QED BY <1>1, <1>2, <3>1, <3>3, <3>6 DEF StatusReplay
    <2> QED BY <2>2, <2>3
  <1> QED BY <1>1, <1>3, <1>4 DEF ReplayInv, StatusReplay

(* With the table empty there is nothing to know.                          *)
LEMMA ReplayAbort == ReplayInv /\ Abort => ReplayInv'
  <1> SUFFICES ASSUME ReplayInv, Abort PROVE ReplayInv'
    OBVIOUS
  <1>1. TableInv'
    BY TableAbort DEF ReplayInv
  <1>2. UnsentShape'
    BY DEF ReplayInv, UnsentShape, Abort, stask
  <1>3. StatusReplay'
    BY DEF StatusReplay, Abort
  <1> QED BY <1>1, <1>2, <1>3 DEF ReplayInv

(* What Changes says of one device. *)
LEMMA ChangesOf ==
    ASSUME TypeOK, NEW u \in Changes
    PROVE  /\ u.name \in keys /\ u.old = entry[u.name].status
           /\ \/ u.name \in Got /\ u.new = reply[u.name]
              \/ u.name \notin Got /\ u.name \in Lost /\ u.new = NoComm
           /\ u \in Change
  <1>1. CASE \E d \in Got : u = [name |-> d, old |-> entry[d].status, new |-> reply[d]]
    BY <1>1, ChangesType DEF Got
  <1>2. CASE \E d \in Lost : u = [name |-> d, old |-> entry[d].status, new |-> NoComm]
    BY <1>2, ChangesType, SpecialStatus DEF Got, Lost
  <1> QED BY <1>1, <1>2 DEF Changes

(* A device without a change keeps its status. *)
LEMMA Unchanged ==
    ASSUME TypeOK, Apply, NEW d \in keys, \A u \in Changes : u.name # d
    PROVE  entry'[d].status = entry[d].status
  <1>1. d \in Devices /\ entry[d] \in Entry
    BY DEF TypeOK
  <1>2. d \notin Lost
    <2>1. ASSUME d \in Lost PROVE FALSE
      <3>1. [name |-> d, old |-> entry[d].status, new |-> NoComm] \in Changes
        BY <2>1 DEF Changes
      <3> QED BY <3>1
    <2> QED BY <2>1
  <1>3. CASE d \in Got
    <2>1. reply[d] = entry[d].status
      <3>1. ASSUME reply[d] # entry[d].status PROVE FALSE
        <4>1. [name |-> d, old |-> entry[d].status, new |-> reply[d]] \in Changes
          BY <1>3, <3>1 DEF Changes
        <4> QED BY <4>1
      <3> QED BY <3>1
    <2>2. entry'[d] = Restated(entry[d], reply[d]) /\ reply[d] \in Status
      BY <1>1, <1>3 DEF Apply, Got
    <2> QED BY <1>1, <2>1, <2>2, EntryRestated
  <1>4. CASE d \notin Got
    BY <1>1, <1>2, <1>4 DEF Apply
  <1> QED BY <1>3, <1>4

(* Applying the answers turns each difference into an unsent change.       *)
LEMMA ReplayApply == ReplayInv /\ Apply => ReplayInv'
  <1> SUFFICES ASSUME ReplayInv, Apply PROVE ReplayInv'
    OBVIOUS
  <1>1. TableInv' /\ TypeOK /\ StatusReplay
    BY TableStatus DEF ReplayInv, TableInv
  <1>2. unsent = {} /\ unsent' = Changes /\ UNCHANGED <<keys, view, overtaken>>
    BY DEF ReplayInv, UnsentShape, Apply, subscriber
  <1>3. UnsentShape'
    <2>1. unsent' # {} => sphase' = "send"
      BY DEF Apply
    <2>2. ASSUME NEW u \in Changes, NEW w \in Changes, u.name = w.name PROVE u = w
      <3>1. u.old = w.old /\ u.new = w.new
        BY <1>1, <2>2, ChangesOf
      <3>2. u \in Change /\ w \in Change
        BY <1>1, ChangesOf
      <3> QED BY <2>2, <3>1, <3>2 DEF Change
    <2> QED BY <1>2, <2>1, <2>2 DEF UnsentShape
  <1>4. ASSUME NEW d \in keys \ overtaken
        PROVE  /\ (\A u \in Changes : u.name # d) => view[d] = entry'[d].status
               /\ \A u \in Changes : u.name = d => u.old = view[d] /\ u.new = entry'[d].status
    <2>1. view[d] = entry[d].status
      BY <1>1, <1>2 DEF StatusReplay
    <2>2. (\A u \in Changes : u.name # d) => view[d] = entry'[d].status
      BY <1>1, <2>1, Unchanged
    <2>3. ASSUME NEW u \in Changes, u.name = d PROVE u.old = view[d] /\ u.new = entry'[d].status
      <3>1. d \in Devices /\ entry[d] \in Entry
        BY <1>1 DEF TypeOK
      <3>2. CASE d \in Got /\ u.new = reply[d]
        <4>1. entry'[d] = Restated(entry[d], reply[d]) /\ reply[d] \in Status
          BY <3>1, <3>2 DEF Apply, Got
        <4> QED BY <1>1, <2>1, <2>3, <3>1, <3>2, <4>1, EntryRestated, ChangesOf
      <3>3. CASE d \notin Got /\ d \in Lost /\ u.new = NoComm
        <4>1. entry'[d] = MarkedDead(entry[d])
          BY <3>1, <3>3 DEF Apply
        <4> QED BY <1>1, <2>1, <2>3, <3>1, <3>3, <4>1, EntryFacts, ChangesOf
      <3> QED BY <1>1, <2>3, <3>2, <3>3, ChangesOf
    <2> QED BY <2>2, <2>3
  <1>5. StatusReplay'
    BY <1>2, <1>4 DEF StatusReplay
  <1> QED BY <1>1, <1>3, <1>5 DEF ReplayInv

(* Publishing the changes brings the view up to date.                      *)
LEMMA ReplaySend == ReplayInv /\ Send => ReplayInv'
  <1> SUFFICES ASSUME ReplayInv, Send PROVE ReplayInv'
    OBVIOUS
  <1>1. TableInv' /\ TypeOK /\ StatusReplay /\ PresenceReplay
    BY TableSend DEF ReplayInv, TableInv
  <1>2. unsent' = {} /\ UNCHANGED <<keys, entry>>
    BY DEF Send, table
  <1>3. UnsentShape'
    BY <1>2 DEF UnsentShape
  <1>4. ASSUME NEW d \in keys \ overtaken' PROVE view'[d] = entry[d].status
    <2>1. d \in Devices /\ view[d] # "none"
      BY <1>1 DEF TypeOK, PresenceReplay
    <2>2. CASE d \in overtaken
      BY <2>2 DEF Send
    <2>3. CASE d \notin overtaken /\ \E u \in unsent : u.name = d
      <3>1. (CHOOSE u \in unsent : u.name = d) \in unsent
            /\ (CHOOSE u \in unsent : u.name = d).name = d
        BY <2>3
      <3>2. view'[d] = (CHOOSE u \in unsent : u.name = d).new
        BY <2>1, <2>3 DEF Send
      <3> QED BY <1>1, <2>3, <3>1, <3>2 DEF StatusReplay
    <2>4. CASE d \notin overtaken /\ ~\E u \in unsent : u.name = d
      BY <1>1, <2>1, <2>4 DEF Send, StatusReplay
    <2> QED BY <2>2, <2>3, <2>4
  <1>5. StatusReplay'
    BY <1>2, <1>4 DEF StatusReplay
  <1> QED BY <1>1, <1>3, <1>5 DEF ReplayInv

(* Every step keeps the invariant of the view.                             *)
LEMMA ReplayNext == ReplayInv /\ [Next]_vars => ReplayInv'
  <1> SUFFICES ASSUME ReplayInv, [Next]_vars PROVE ReplayInv'
    OBVIOUS
  <1>1. TableInv'
    BY TableNext DEF ReplayInv
  <1>2. CASE UNCHANGED vars
    BY <1>1, <1>2, ReplayQuiet DEF vars, table, stask, subscriber
  <1>3. CASE \/ \E L \in SUBSET Devices, f \in [Devices -> Descs] : ListOk(L, f)
             \/ ListFail \/ Classify
             \/ \E d \in Devices, s \in Status : LoadOk(d, s)
             \/ \E d \in Devices : LoadFail(d)
    BY <1>1, <1>3, ReplayQuiet
       DEF ListOk, ListFail, Classify, LoadOk, LoadFail, table, stask, subscriber
  <1>4. CASE \/ \E m \in {"full", "partial"} : Poll(m)
             \/ \E d \in Devices, s \in Status : ReplyOk(d, s)
             \/ \E d \in Devices : ReplyFail(d)
    BY <1>1, <1>4, ReplayQuiet DEF Poll, ReplyOk, ReplyFail, table, subscriber
  <1> QED BY <1>2, <1>3, <1>4, ReplayPatch, ReplayAbort, ReplayApply, ReplaySend DEF Next

(* A subscriber knows the status of every device, up to the changes that   *)
(* StatusSyncTask has applied and not yet published, and each of those     *)
(* starts from the status the subscriber knows                             *)
(* (StatusSyncTask::status_sync and state_sync, which publish after the    *)
(* unlock).                                                                *)
THEOREM StatusCorrect == Spec => []StatusReplay
  <1>1. ReplayInv => StatusReplay
    BY DEF ReplayInv
  <1> QED BY ReplayInit, ReplayNext, <1>1, PTL DEF Spec
-----------------------------------------------------------------------------
(* UpsdMirror: the answers of an upsd with a state are among the answers   *)
(* DaemonSync allows for, so everything proved above holds there as well.  *)

(* What upsd has: devices of the set, each with a description and a        *)
(* status or a driver that does not answer.                                *)
UpsdType ==
    /\ rlisted \in SUBSET Devices
    /\ rdesc \in [Devices -> Descs]
    /\ rstatus \in [Devices -> Status \cup {NoComm}]

(* No step of the two tasks touches upsd.                                  *)
LEMMA UpsdNext == UpsdType /\ [MirrorNext]_allvars => UpsdType'
  <1> SUFFICES ASSUME UpsdType, [MirrorNext]_allvars PROVE UpsdType'
    OBVIOUS
  <1> USE DEF UpsdType
  <1>1. CASE UpsdChanges
    <2>1. CASE \E L \in SUBSET Devices : rlisted' = L /\ UNCHANGED <<up, rdesc, rstatus>>
      BY <2>1
    <2>2. CASE \E d \in Devices, t \in Descs :
                  rdesc' = [rdesc EXCEPT ![d] = t] /\ UNCHANGED <<up, rlisted, rstatus>>
      BY <2>2
    <2>3. CASE \E d \in Devices, s \in Status \cup {NoComm} :
                  rstatus' = [rstatus EXCEPT ![d] = s] /\ UNCHANGED <<up, rlisted, rdesc>>
      BY <2>3
    <2>4. CASE UNCHANGED <<rlisted, rdesc, rstatus>>
      BY <2>4
    <2> QED
      BY <1>1, <2>1, <2>2, <2>3, <2>4 DEF UpsdChanges
  <1>2. CASE UNCHANGED upsd
    BY <1>2 DEF upsd
  <1> QED
    BY <1>1, <1>2 DEF MirrorNext, DeviceSyncStep, StatusSyncStep, LoadStep, ReplyStep, PollStep, allvars

(* A step of the mirror is a step of DaemonSync, or leaves it alone.       *)
LEMMA MirrorStep == UpsdType /\ [MirrorNext]_allvars => [Next]_vars
  <1> SUFFICES ASSUME UpsdType, [MirrorNext]_allvars PROVE [Next]_vars
    OBVIOUS
  <1>1. CASE UpsdChanges \/ UNCHANGED allvars
    BY <1>1 DEF UpsdChanges, allvars
  <1>2. CASE DeviceSyncStep
    <2>1. ListOk(rlisted, rdesc) => Next
      BY DEF UpsdType, Next
    <2> QED
      BY <1>2, <2>1 DEF DeviceSyncStep, Next
  <1>3. ASSUME NEW d \in Devices, LoadStep(d) PROVE Next
    <2>1. Answers(d) => rstatus[d] \in Status
      BY DEF Answers
    <2> QED
      BY <1>3, <2>1 DEF LoadStep, Next
  <1>4. ASSUME NEW d \in Devices, ReplyStep(d) PROVE Next
    <2>1. Answers(d) => rstatus[d] \in Status
      BY DEF Answers
    <2> QED
      BY <1>4, <2>1 DEF ReplyStep, Next
  <1>5. CASE StatusSyncStep
    BY <1>5 DEF StatusSyncStep, Next
  <1>6. ASSUME NEW m \in {"full", "partial"}, PollStep(m) PROVE Next
    BY <1>6 DEF PollStep, Next
  <1> QED
    BY <1>1, <1>2, <1>3, <1>4, <1>5, <1>6 DEF MirrorNext

(* The mirror implements DaemonSync: whatever upsd does between any two    *)
(* requests of the tasks, they only meet answers that DaemonSync has.      *)
THEOREM MirrorImplements == MirrorSpec => Spec
  <1>1. MirrorInit => Init /\ UpsdType
    BY DEF MirrorInit, UpsdType
  <1> QED
    BY <1>1, UpsdNext, MirrorStep, PTL DEF MirrorSpec, Spec

(* The invariants of the mirror: the daemon is online exactly when there   *)
(* are devices to show, and a subscriber that applies the events knows the *)
(* devices and their status, while a live upsd changes under both tasks.   *)
THEOREM MirrorCorrect == MirrorSpec => [](OnlineIffDevices /\ PresenceReplay /\ StatusReplay)
  BY MirrorImplements, OnlineCorrect, PresenceCorrect, StatusCorrect, PTL
=============================================================================
