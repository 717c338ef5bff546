--------------------------- MODULE ConnectionPool ---------------------------
(***************************************************************************)
(* The upsd connection pool: ItemPool (internal/item_pool.rs), the         *)
(* connection allocator and the pooled call with its single retry          *)
(* (client/client_pool.rs), over NutClient::send_raw and is_open           *)
(* (client/client_base.rs).                                                *)
(*                                                                         *)
(* A caller is a task inside one AsyncNutClient call.  Every await of the  *)
(* code is a separate step, and at every await the call may be cancelled   *)
(* (its future dropped by try_join!, select! or the HTTP timeout layer).   *)
(***************************************************************************)
EXTENDS Integers, Sequences, FiniteSets

CONSTANTS
    Callers,    \* tasks that use the pool
    Conns,      \* identities for connections; that of a closed one is reused
    Limit,      \* max_connection of the namespace
    NoConn      \* a caller that owns no connection

ASSUME PoolAssumption ==
    /\ IsFiniteSet(Callers)
    /\ Limit \in Nat \ {0}
    /\ NoConn \notin Conns

VARIABLES
    pc,       \* where each caller is, see PC
    mode,     \* which acquisition it is in, see Mode
    conn,     \* the connection a caller owns
    permits,  \* callers that hold a semaphore permit
    waiters,  \* FIFO queue of the semaphore
    idle,     \* InnerPool.items
    due,      \* per connection, the requests written and not yet answered
    broken,   \* connections whose peer is gone
    shut,     \* progress of ItemPool::close
    failed,   \* callers whose last call returned a connection error
    fault     \* callers whose call met a fault no retry can mask (history)

vars == <<pc, mode, conn, permits, waiters, idle, due, broken, shut, failed, fault>>

(* idle     not in a call                                                  *)
(* wait     in permits.acquire_owned().await                               *)
(* pop      holds a permit, at items.lock().await                          *)
(* init     in allocator.init().await                                      *)
(* probe    in prealloc_check: GET PROTVER written, answer awaited         *)
(* destroy  in allocator.dealloc of a connection that failed the probe     *)
(* sent     holds a guard, request written, answer awaited                 *)
(* release  answer read, about to look at is_closed                        *)
(* push     is_closed was false, at items.lock().await                     *)
(* discard  is_closed was true, in allocator.dealloc                       *)
(* drop     guard being dropped: permit already released, socket still open *)
(* redo     as drop, and the call retries afterwards                       *)
(* private  owns a connection taken out of the pool by get_client          *)
PC == {"idle", "wait", "pop", "init", "probe", "destroy", "sent", "release",
       "push", "discard", "drop", "redo", "private"}

(* first: pool.get() of a pooled call; retry: its pool.get_checked();      *)
(* client: the get_checked() of get_client                                 *)
Mode == {"first", "retry", "client"}

Request == Callers \X {"probe", "call"}

Init ==
    /\ pc = [c \in Callers |-> "idle"]
    /\ mode = [c \in Callers |-> "first"]
    /\ conn = [c \in Callers |-> NoConn]
    /\ permits = {}
    /\ waiters = <<>>
    /\ idle = <<>>
    /\ due = [k \in Conns |-> <<>>]
    /\ broken = {}
    /\ shut = "open"
    /\ failed = {}
    /\ fault = {}

Idle == {idle[i] : i \in 1..Len(idle)}

Open == Idle \cup {conn[c] : c \in {d \in Callers : conn[d] # NoConn}}

-----------------------------------------------------------------------------
(* The call is over: with a connection error (e) or in any other way. *)
Return(c, e) ==
    /\ pc' = [pc EXCEPT ![c] = "idle"]
    /\ mode' = [mode EXCEPT ![c] = "first"]
    /\ failed' = IF e THEN failed \cup {c} ELSE failed

(* The sockets of K are closed and whatever was in flight on them is gone. *)
Close(K) ==
    /\ due' = [k \in Conns |-> IF k \in K THEN <<>> ELSE due[k]]
    /\ broken' = broken \ K

Disown(c) == conn' = [conn EXCEPT ![c] = NoConn]

(* The PoolGuard of connection k, on which q is in flight, is complete: a  *)
(* pooled call writes its request on it; get_client takes the item out     *)
(* with into_inner, which gives the permit back.                           *)
Guarded(c, k, q) ==
    /\ conn' = [conn EXCEPT ![c] = k]
    /\ \/ /\ mode[c] = "client"
          /\ pc' = [pc EXCEPT ![c] = "private"]
          /\ permits' = permits \ {c}
          /\ due' = [due EXCEPT ![k] = q]
       \/ /\ mode[c] # "client"
          /\ pc' = [pc EXCEPT ![c] = "sent"]
          /\ due' = [due EXCEPT ![k] = Append(q, <<c, "call">>)]
          /\ UNCHANGED permits

(* A pooled call (first) or get_client starts waiting for a permit. *)
Start(c, m) ==
    /\ pc[c] = "idle"
    /\ pc' = [pc EXCEPT ![c] = "wait"]
    /\ mode' = [mode EXCEPT ![c] = m]
    /\ waiters' = Append(waiters, c)
    /\ failed' = failed \ {c}
    /\ fault' = fault \ {c}
    /\ UNCHANGED <<conn, permits, idle, due, broken, shut>>

(* tokio's semaphore hands permits out in the order of arrival. *)
Grant(c) ==
    /\ pc[c] = "wait"
    /\ waiters # <<>> /\ c = Head(waiters)
    /\ shut = "open"
    /\ Cardinality(permits) < Limit
    /\ waiters' = Tail(waiters)
    /\ permits' = permits \cup {c}
    /\ pc' = [pc EXCEPT ![c] = "pop"]
    /\ UNCHANGED <<mode, conn, idle, due, broken, shut, failed, fault>>

Unqueue(c) ==
    \E i \in 1..Len(waiters) :
        /\ waiters[i] = c
        /\ waiters' = SubSeq(waiters, 1, i - 1) \o SubSeq(waiters, i + 1, Len(waiters))

(* acquire_owned fails for the waiters of a closed semaphore: PoolClosed. *)
Refused(c) ==
    /\ pc[c] = "wait"
    /\ shut # "open"
    /\ Unqueue(c)
    /\ Return(c, FALSE)
    /\ UNCHANGED <<conn, permits, idle, due, broken, shut, fault>>

(* What get_checked does with a popped item: prealloc_check writes the     *)
(* probe on it.                                                            *)
Probe(c, k) ==
    /\ conn' = [conn EXCEPT ![c] = k]
    /\ pc' = [pc EXCEPT ![c] = "probe"]
    /\ due' = [due EXCEPT ![k] = Append(@, <<c, "probe">>)]
    /\ UNCHANGED permits

(* Faulty variant: the front item is used but stays queued. *)
PopPeek(c) ==
    /\ pc[c] = "pop"
    /\ idle # <<>>
    /\ \/ mode[c] = "first" /\ Guarded(c, Head(idle), due[Head(idle)])
       \/ mode[c] # "first" /\ Probe(c, Head(idle))
    /\ UNCHANGED <<mode, waiters, idle, broken, shut, failed, fault>>

(* Faulty variant: the retry takes its item with get(), unprobed. *)
PopUnprobed(c) ==
    /\ pc[c] = "pop"
    /\ idle # <<>>
    /\ idle' = Tail(idle)
    /\ \/ mode[c] # "client" /\ Guarded(c, Head(idle), due[Head(idle)])
       \/ mode[c] = "client" /\ Probe(c, Head(idle))
    /\ UNCHANGED <<mode, waiters, broken, shut, failed, fault>>

(* items.pop_front(): get() uses what it finds, get_checked() probes it. *)
Pop(c) ==
    /\ pc[c] = "pop"
    /\ idle # <<>>
    /\ idle' = Tail(idle)
    /\ \/ mode[c] = "first" /\ Guarded(c, Head(idle), due[Head(idle)])
       \/ mode[c] # "first" /\ Probe(c, Head(idle))
    /\ UNCHANGED <<mode, waiters, broken, shut, failed, fault>>

PopNone(c) ==
    /\ pc[c] = "pop"
    /\ idle = <<>>
    /\ pc' = [pc EXCEPT ![c] = "init"]
    /\ UNCHANGED <<mode, conn, permits, waiters, idle, due, broken, shut, failed, fault>>

(* is_open read an answer to its GET PROTVER: the item is Ready. *)
ProbeOk(c) ==
    /\ pc[c] = "probe"
    /\ conn[c] \notin broken
    /\ due[conn[c]] # <<>>
    /\ Guarded(c, conn[c], Tail(due[conn[c]]))
    /\ UNCHANGED <<mode, waiters, idle, broken, shut, failed, fault>>

(* is_open failed (IO error, empty answer, ERR line or timeout): Destroy. *)
ProbeFail(c) ==
    /\ pc[c] = "probe"
    /\ pc' = [pc EXCEPT ![c] = "destroy"]
    /\ UNCHANGED <<mode, conn, permits, waiters, idle, due, broken, shut, failed, fault>>

(* dealloc is over and the loop of get_checked goes round. *)
Destroyed(c) ==
    /\ pc[c] = "destroy"
    /\ Close({conn[c]})
    /\ Disown(c)
    /\ pc' = [pc EXCEPT ![c] = "pop"]
    /\ UNCHANGED <<mode, permits, waiters, idle, shut, failed, fault>>

(* ClientAllocator::init opened a fresh connection. *)
InitOk(c) ==
    /\ pc[c] = "init"
    /\ \E k \in Conns \ Open : Guarded(c, k, <<>>)
    /\ UNCHANGED <<mode, waiters, idle, broken, shut, failed, fault>>

(* init failed: its error is returned, from get() and get_checked() alike. *)
InitFail(c) ==
    /\ pc[c] = "init"
    /\ permits' = permits \ {c}
    /\ fault' = fault \cup {c}
    /\ Return(c, TRUE)
    /\ UNCHANGED <<conn, waiters, idle, due, broken, shut>>

-----------------------------------------------------------------------------
(* A complete answer was read, be it a value, an ERR line or something     *)
(* that does not parse: in each case the item goes to PoolGuard::release.  *)
Answer(c) ==
    /\ pc[c] = "sent"
    /\ conn[c] \notin broken
    /\ due[conn[c]] # <<>>
    /\ due' = [due EXCEPT ![conn[c]] = Tail(@)]
    /\ pc' = [pc EXCEPT ![c] = "release"]
    /\ UNCHANGED <<mode, conn, permits, waiters, idle, broken, shut, failed, fault>>

(* Faulty variant: after a timeout the item goes back to the queue. *)
FailReleased(c) ==
    /\ pc[c] = "sent"
    /\ pc' = [pc EXCEPT ![c] = "release"]
    /\ UNCHANGED <<mode, conn, permits, waiters, idle, due, broken, shut, failed, fault>>

(* Faulty variant: the first guard lives until the retry is over. *)
FailKeepsPermit(c) ==
    /\ pc[c] = "sent"
    /\ permits' = IF mode[c] = "first" THEN permits ELSE permits \ {c}
    /\ pc' = [pc EXCEPT ![c] = IF mode[c] = "first" THEN "redo" ELSE "drop"]
    /\ failed' = IF mode[c] = "first" THEN failed ELSE failed \cup {c}
    /\ fault' = IF mode[c] = "first" \/ conn[c] \in broken THEN fault ELSE fault \cup {c}
    /\ UNCHANGED <<mode, conn, waiters, idle, due, broken, shut>>

(* IOError, EmptyResponse or RequestTimeout: the guard is dropped, and its *)
(* fields go in declaration order, the permit before the item.  A timeout  *)
(* can hit a healthy connection; in the second attempt nothing masks it.   *)
Fail(c) ==
    /\ pc[c] = "sent"
    /\ permits' = permits \ {c}
    /\ pc' = [pc EXCEPT ![c] = IF mode[c] = "first" THEN "redo" ELSE "drop"]
    /\ failed' = IF mode[c] = "first" THEN failed ELSE failed \cup {c}
    /\ fault' = IF mode[c] = "first" \/ conn[c] \in broken THEN fault ELSE fault \cup {c}
    /\ UNCHANGED <<mode, conn, waiters, idle, due, broken, shut>>

(* The socket of a dropped guard is closed and the call returns. *)
Dropped(c) ==
    /\ pc[c] = "drop"
    /\ Close({conn[c]})
    /\ Disown(c)
    /\ Return(c, FALSE)
    /\ UNCHANGED <<permits, waiters, idle, shut, fault>>

(* As Dropped, but the call queues again, at pool.get_checked(). *)
Retry(c) ==
    /\ pc[c] = "redo"
    /\ Close({conn[c]})
    /\ Disown(c)
    /\ pc' = [pc EXCEPT ![c] = "wait"]
    /\ mode' = [mode EXCEPT ![c] = "retry"]
    /\ waiters' = Append(waiters, c)
    /\ UNCHANGED <<permits, idle, shut, failed, fault>>

(* Faulty variant: the permit goes before the item is queued again. *)
ReleaseCheckEarly(c) ==
    /\ pc[c] = "release"
    /\ pc' = [pc EXCEPT ![c] = IF shut = "open" THEN "push" ELSE "discard"]
    /\ permits' = permits \ {c}
    /\ UNCHANGED <<mode, conn, waiters, idle, due, broken, shut, failed, fault>>

(* InnerPool::release looks at is_closed before it takes the items lock. *)
ReleaseCheck(c) ==
    /\ pc[c] = "release"
    /\ pc' = [pc EXCEPT ![c] = IF shut = "open" THEN "push" ELSE "discard"]
    /\ UNCHANGED <<mode, conn, permits, waiters, idle, due, broken, shut, failed, fault>>

(* items.push_back(item), after which the guard's permit is dropped. *)
Push(c) ==
    /\ pc[c] = "push"
    /\ idle' = Append(idle, conn[c])
    /\ permits' = permits \ {c}
    /\ Disown(c)
    /\ Return(c, FALSE)
    /\ UNCHANGED <<waiters, due, broken, shut, fault>>

Discarded(c) ==
    /\ pc[c] = "discard"
    /\ Close({conn[c]})
    /\ permits' = permits \ {c}
    /\ Disown(c)
    /\ Return(c, FALSE)
    /\ UNCHANGED <<waiters, idle, shut, fault>>

(* The user of get_client is done with its connection. *)
EndPrivate(c) ==
    /\ pc[c] = "private"
    /\ Close({conn[c]})
    /\ Disown(c)
    /\ Return(c, FALSE)
    /\ UNCHANGED <<permits, waiters, idle, shut, fault>>

-----------------------------------------------------------------------------
(* The call's future is dropped at one of its awaits. *)
CancelWait(c) ==
    /\ pc[c] = "wait"
    /\ Unqueue(c)
    /\ Return(c, FALSE)
    /\ UNCHANGED <<conn, permits, idle, due, broken, shut, fault>>

(* Inside the pool the item is a local of the inner future, which goes     *)
(* before the permit.                                                      *)
CancelInside(c) ==
    /\ pc[c] \in {"pop", "init", "probe", "destroy", "push", "discard"}
    /\ Close({conn[c]})
    /\ permits' = permits \ {c}
    /\ Disown(c)
    /\ Return(c, FALSE)
    /\ UNCHANGED <<waiters, idle, shut, fault>>

(* With the answer outstanding a whole guard is dropped. *)
CancelSent(c) ==
    /\ pc[c] = "sent"
    /\ permits' = permits \ {c}
    /\ pc' = [pc EXCEPT ![c] = "drop"]
    /\ UNCHANGED <<mode, conn, waiters, idle, due, broken, shut, failed, fault>>

(* The peer of an open connection goes away. *)
Break(k) ==
    /\ k \in Open \ broken
    /\ broken' = broken \cup {k}
    /\ fault' = fault \cup {c \in Callers : conn[c] = k /\ pc[c] = "sent" /\ mode[c] # "first"}
    /\ UNCHANGED <<pc, mode, conn, permits, waiters, idle, due, shut, failed>>

(* ItemPool::clear empties the queue under the items lock. *)
Clear ==
    /\ Close(Idle)
    /\ idle' = <<>>
    /\ UNCHANGED <<pc, mode, conn, permits, waiters, failed, fault>>

ClearOpen == shut = "open" /\ idle # <<>> /\ Clear /\ UNCHANGED shut

(* ItemPool::close: the semaphore is closed first, then clear() runs. *)
CloseSemaphore ==
    /\ shut = "open"
    /\ shut' = "closing"
    /\ UNCHANGED <<pc, mode, conn, permits, waiters, idle, due, broken, failed, fault>>

Drain == shut = "closing" /\ shut' = "closed" /\ Clear

-----------------------------------------------------------------------------
(* What a started call does by itself. *)
Progress(c) ==
    \/ Grant(c) \/ Refused(c) \/ Pop(c) \/ PopNone(c)
    \/ ProbeOk(c) \/ ProbeFail(c) \/ Destroyed(c) \/ InitOk(c) \/ InitFail(c)
    \/ Answer(c) \/ Fail(c) \/ Dropped(c) \/ Retry(c)
    \/ ReleaseCheck(c) \/ Push(c) \/ Discarded(c) \/ EndPrivate(c)

Cancel(c) == CancelWait(c) \/ CancelInside(c) \/ CancelSent(c)

Next ==
    \/ \E c \in Callers :
          \/ \E m \in {"first", "client"} : Start(c, m)
          \/ Progress(c)
          \/ Cancel(c)
    \/ \E k \in Conns : Break(k)
    \/ ClearOpen \/ CloseSemaphore \/ Drain

Spec == Init /\ [][Next]_vars

(* The runtime polls every woken task, every socket operation ends (each   *)
(* is bounded by the request timeout) and close() runs to its end.         *)
FairSpec == Spec /\ (\A c \in Callers : WF_vars(Progress(c))) /\ WF_vars(Drain)
-----------------------------------------------------------------------------
(* Callers that use up a slot of the pool: they hold a permit and have a   *)
(* connection or are opening one.                                          *)
Using == {c \in permits : conn[c] # NoConn \/ pc[c] = "init"}

(* Every variable has its type, and the semaphore never hands out more     *)
(* than Limit permits (ItemPool::new).                                     *)
TypeOK ==
    /\ pc \in [Callers -> PC]
    /\ mode \in [Callers -> Mode]
    /\ conn \in [Callers -> Conns \cup {NoConn}]
    /\ permits \in SUBSET Callers
    /\ Cardinality(permits) <= Limit
    /\ waiters \in Seq(Callers)
    /\ idle \in Seq(Conns)
    /\ due \in [Conns -> Seq(Request)]
    /\ broken \in SUBSET Conns
    /\ shut \in {"open", "closing", "closed"}
    /\ failed \in SUBSET Callers
    /\ fault \in SUBSET Callers

(* The connections that lie in the queue and the ones in use or being      *)
(* opened under a permit are never more than Limit: get() opens one only   *)
(* if the queue was empty, and release() puts its item back before the     *)
(* permit goes.                                                            *)
PoolBound == Len(idle) + Cardinality(Using) <= Limit

(* No connection is in two hands: not owned by two callers, not owned and  *)
(* queued, not queued twice.                                               *)
Exclusive ==
    /\ \A c, d \in Callers : conn[c] = conn[d] /\ conn[c] # NoConn => c = d
    /\ \A c \in Callers : conn[c] \notin Idle
    /\ \A i, j \in 1..Len(idle) : idle[i] = idle[j] => i = j

(* A caller that awaits an answer can only read the answer to its own      *)
(* request, and a queued connection has none outstanding: a timed out or   *)
(* cancelled request never leaves its late answer to the next user.        *)
NoCrossTalk ==
    /\ \A k \in Idle : due[k] = <<>>
    /\ \A c \in Callers :
          /\ pc[c] = "sent" => due[conn[c]] = <<<<c, "call">>>>
          /\ pc[c] = "probe" => due[conn[c]] = <<<<c, "probe">>>>

(* Why the bounds hold: which callers hold a permit and which own a        *)
(* connection follows from where they are.                                 *)
Holding ==
    /\ \A c \in Callers : c \in permits <=>
          pc[c] \in {"pop", "init", "probe", "destroy", "sent", "release", "push", "discard"}
    /\ \A c \in Callers : conn[c] # NoConn <=>
          pc[c] \in {"probe", "destroy", "sent", "release", "push", "discard",
                    "drop", "redo", "private"}

(* Why NoCrossTalk holds: what is about to be queued has been read to the  *)
(* end.                                                                    *)
ReadToTheEnd == \A c \in Callers : pc[c] \in {"release", "push"} => due[conn[c]] = <<>>

(* Why RetryMasksStale holds: a retry that finds its connection broken saw *)
(* it break, and a fresh connection is not broken.                         *)
BreakSeen ==
    /\ broken \subseteq Open
    /\ \A c \in Callers :
          pc[c] = "sent" /\ mode[c] # "first" /\ conn[c] \in broken => c \in fault

(* A pooled call reports a connection error only if the server could not   *)
(* be reached, or if a connection failed under its second attempt: stale   *)
(* connections of the queue are never reported.                            *)
RetryMasksStale == failed \subseteq fault

(* A connection that fails although it was fine when it was looked at. *)
NewFault ==
    \/ \E k \in Conns : Break(k)
    \/ \E c \in Callers : ProbeFail(c) /\ conn[c] \notin broken

(* Unless connections keep failing, every call on the pool ends: the       *)
(* retry queues for its second permit without holding the first one, and   *)
(* the loop of get_checked runs out of stale items.                        *)
CallTerminates ==
    <>[][~NewFault]_vars =>
        \A c \in Callers : pc[c] # "idle" ~> pc[c] = "idle"

(* The number of open sockets stays within max_connection. *)
SocketBound == Cardinality(Open) <= Limit
=============================================================================
