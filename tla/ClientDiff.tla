----------------------------- MODULE ClientDiff -----------------------------
(***************************************************************************)
(* The attached clients of one device (DeviceEntry.attached, state.rs) and *)
(* their diff against LIST CLIENT in StatusSyncTask::state_sync            *)
(* (sync/sync_status.rs).  Both are vectors in which an address may occur  *)
(* more than once: upsd reports one line per connection, and a host may    *)
(* have several.  The status sync task applies the diff under the lock of  *)
(* the daemon state and publishes it after the lock is released; the       *)
(* device sync task may come between and insert the device anew.           *)
(***************************************************************************)
EXTENDS Integers, Sequences, SequencesExt

CONSTANTS
    Addrs,      \* client addresses
    MaxList     \* bound on the length of a LIST CLIENT answer

VARIABLES
    attached,   \* DeviceEntry.attached
    answer,     \* the last LIST CLIENT answer that was applied
    known,      \* the clients a subscriber knows from the events
    unsent,     \* the EventBatch of a diff that is applied and not published
    overtaken   \* the device was inserted after the diff whose events came last

vars == <<attached, answer, known, unsent, overtaken>>

Has(s, a) == \E i \in 1..Len(s) : s[i] = a

(* Elements of s, in order and with repetitions, that t lacks. *)
Missing(s, t) ==
    LET Kept[i \in 1..(Len(s) + 1)] ==
            IF i = 1 THEN <<>>
            ELSE IF Has(t, s[i - 1]) THEN Kept[i - 1] ELSE Append(Kept[i - 1], s[i - 1])
    IN Kept[Len(s) + 1]

(* Faulty variant: an address is reported once, as a set would. *)
DisconnectedOnce(source, target) == SetToSeq(ToSet(Missing(source, target)))

Disconnected(source, target) == Missing(source, target)

Connected(source, target) == Missing(target, source)

(* Vec::swap_remove: the last element takes the place of the removed one. *)
SwapRemove(s, i) == SubSeq([s EXCEPT ![i] = s[Len(s)]], 1, Len(s) - 1)

(* Iterator::position: the first entry that has the address. *)
Position(s, a) == CHOOSE i \in 1..Len(s) : s[i] = a /\ \A j \in 1..(i - 1) : s[j] # a

DetachOne(s, a) == IF Has(s, a) THEN SwapRemove(s, Position(s, a)) ELSE s

(* The first entry of each address that is gone, one after the other. *)
Detach(s, gone) ==
    LET Left[i \in 1..(Len(gone) + 1)] ==
            IF i = 1 THEN s ELSE DetachOne(Left[i - 1], gone[i - 1])
    IN Left[Len(gone) + 1]

Answers == UNION {[1..n -> Addrs] : n \in 0..MaxList}

(* What a subscriber with the clients k knows after the events of a diff, *)
(* disconnections first.                                                   *)
Heard(k, events) == IF events = <<>> THEN k ELSE (k \ events[1].gone) \cup events[1].new

Init ==
    /\ attached = <<>> /\ answer = <<>> /\ known = {}
    /\ unsent = <<>> /\ overtaken = FALSE

(* load_device_entry takes the whole list.  DeviceSyncTask::next inserts   *)
(* the entry and announces it under one lock; subscribers fetch the entry. *)
Load(t) ==
    /\ attached' = t
    /\ answer' = t
    /\ known' = ToSet(t)
    /\ overtaken' = (unsent # <<>>)
    /\ UNCHANGED unsent

(* Faulty variant: the events of reconnecting clients are left out. *)
SyncSilent(t) ==
    /\ unsent = <<>>
    /\ attached' = Detach(attached, Disconnected(attached, t)) \o Connected(attached, t)
    /\ answer' = t
    /\ unsent' = <<[gone |-> ToSet(Disconnected(attached, t)), new |-> {}]>>
    /\ UNCHANGED <<known, overtaken>>

(* state_sync under the lock: disconnected clients go, new ones are        *)
(* appended, and the events are kept.                                      *)
Sync(t) ==
    LET gone == Disconnected(attached, t)
        new == Connected(attached, t)
    IN
    /\ unsent = <<>>
    /\ attached' = Detach(attached, gone) \o new
    /\ answer' = t
    /\ unsent' = <<[gone |-> ToSet(gone), new |-> ToSet(new)]>>
    /\ UNCHANGED <<known, overtaken>>

(* state_sync after the lock: send_batch tells the subscribers. *)
Publish ==
    /\ unsent # <<>>
    /\ known' = Heard(known, unsent)
    /\ unsent' = <<>>
    /\ UNCHANGED <<attached, answer, overtaken>>

Next == Publish \/ \E t \in Answers : Load(t) \/ Sync(t)

Spec == Init /\ [][Next]_vars

(* After every sync the device has the clients upsd reported and no other, *)
(* also when addresses are repeated on either side.  (How often it has one *)
(* is not kept: a second connection of a client that is there goes unseen.) *)
ClientsMirrored == ToSet(attached) = ToSet(answer)

(* A subscriber that applies the events knows the clients of the device as *)
(* soon as they are published, through any number of syncs and insertions. *)
(* (Events that an insertion overtook are about the entry it replaced:     *)
(* until the next insertion the subscriber may have other clients.)        *)
ClientsReplay == unsent = <<>> /\ ~overtaken => known = ToSet(attached)
=============================================================================
