------------------------ MODULE ConnectionPoolProofs ------------------------
(* Proofs about ConnectionPool, for any number of callers and any limit. *)
EXTENDS ConnectionPool, FiniteSetTheorems, SequenceTheorems, TLAPS

(* The permits are finitely many, and one more or less counts as one. *)
LEMMA PermitCount ==
    ASSUME TypeOK, NEW c \in Callers
    PROVE  /\ IsFiniteSet(permits) /\ Cardinality(permits) \in Nat
           /\ Cardinality(permits \ {c}) <= Limit
           /\ Cardinality(permits) < Limit => Cardinality(permits \cup {c}) <= Limit
  <1>1. IsFiniteSet(permits) /\ Cardinality(permits) \in Nat
    BY PoolAssumption, FS_Subset, FS_CardinalityType DEF PoolAssumption, TypeOK
  <1>2. Limit \in Nat /\ Cardinality(permits) <= Limit
    BY PoolAssumption DEF PoolAssumption, TypeOK
  <1>3. Cardinality(permits \ {c}) <= Limit
    BY <1>1, <1>2, FS_RemoveElement
  <1>4. Cardinality(permits) < Limit => Cardinality(permits \cup {c}) <= Limit
    <2>1. Cardinality(permits \cup {c}) =
             IF c \in permits THEN Cardinality(permits) ELSE Cardinality(permits) + 1
      BY <1>1, FS_AddElement
    <2> QED BY <1>1, <1>2, <2>1
  <1> QED BY <1>1, <1>3, <1>4

(* Closing sockets keeps the types. *)
LEMMA CloseType ==
    ASSUME TypeOK, NEW K, Close(K)
    PROVE  due' \in [Conns -> Seq(Request)] /\ broken' \in SUBSET Conns
  BY EmptySeq DEF TypeOK, Close

(* The types hold at the start.                                            *)
LEMMA TypeInit == Init => TypeOK
  BY PoolAssumption, FS_EmptySet DEF PoolAssumption, Init, TypeOK, PC, Mode

(* Taking a waiter out of the queue leaves a queue of callers. *)
LEMMA UnqueueType ==
    ASSUME TypeOK, NEW c \in Callers, Unqueue(c)
    PROVE  waiters' \in Seq(Callers)
  <1>1. PICK i \in 1..Len(waiters) :
            waiters' = SubSeq(waiters, 1, i - 1) \o SubSeq(waiters, i + 1, Len(waiters))
    BY DEF Unqueue
  <1>2. waiters \in Seq(Callers) /\ Len(waiters) \in Nat
    BY DEF TypeOK
  <1>3. SubSeq(waiters, 1, i - 1) \in Seq(Callers)
    BY <1>2
  <1>4. SubSeq(waiters, i + 1, Len(waiters)) \in Seq(Callers)
    BY <1>2
  <1> QED BY <1>1, <1>3, <1>4, ConcatProperties

(* Queueing for a permit and getting one keep the types.                   *)
LEMMA TypeAcquire ==
    ASSUME TypeOK, NEW c \in Callers,
           \/ \E m \in {"first", "client"} : Start(c, m)
           \/ Grant(c) \/ Refused(c) \/ CancelWait(c)
    PROVE  TypeOK'
  <1> USE DEF TypeOK, PC, Mode
  <1>1. CASE \E m \in {"first", "client"} : Start(c, m)
    BY <1>1 DEF Start
  <1>2. CASE Grant(c)
    <2>1. Cardinality(permits') <= Limit
      BY <1>2, PermitCount DEF Grant
    <2>2. waiters' \in Seq(Callers)
      BY <1>2, HeadTailProperties DEF Grant
    <2> QED BY <1>2, <2>1, <2>2 DEF Grant
  <1>3. CASE Refused(c)
    BY <1>3, UnqueueType DEF Refused, Return
  <1>4. CASE CancelWait(c)
    BY <1>4, UnqueueType DEF CancelWait, Return
  <1> QED BY <1>1, <1>2, <1>3, <1>4

(* A guard of a connection keeps the types. *)
LEMMA GuardedType ==
    ASSUME TypeOK, NEW c \in Callers, NEW k \in Conns, NEW q \in Seq(Request),
           Guarded(c, k, q)
    PROVE  /\ conn' \in [Callers -> Conns \cup {NoConn}]
           /\ pc' \in [Callers -> PC]
           /\ permits' \in SUBSET Callers /\ Cardinality(permits') <= Limit
           /\ due' \in [Conns -> Seq(Request)]
  <1>1. Append(q, <<c, "call">>) \in Seq(Request)
    BY DEF Request
  <1> QED BY <1>1, PermitCount, ZenonT(40) DEF Guarded, TypeOK, PC

(* Taking the front item of the queue keeps the types.                     *)
LEMMA TypePop == ASSUME TypeOK, NEW c \in Callers, Pop(c) PROVE TypeOK'
  <1>1. Head(idle) \in Conns /\ Tail(idle) \in Seq(Conns)
    BY DEF TypeOK, Pop
  <1>2. due[Head(idle)] \in Seq(Request)
    BY <1>1 DEF TypeOK
  <1>3. CASE Guarded(c, Head(idle), due[Head(idle)])
    BY <1>1, <1>2, <1>3, GuardedType DEF TypeOK, Pop
  <1>4. CASE Probe(c, Head(idle))
    <2>1. Append(due[Head(idle)], <<c, "probe">>) \in Seq(Request)
      BY <1>2 DEF Request
    <2> QED BY <1>1, <1>4, <2>1 DEF TypeOK, Pop, Probe, PC
  <1> QED BY <1>3, <1>4 DEF Pop

(* Owners of a connection have one. *)
LEMMA OwnedType ==
    ASSUME TypeOK, Holding, NEW c \in Callers, conn[c] # NoConn
    PROVE  conn[c] \in Conns /\ due[conn[c]] \in Seq(Request)
  BY DEF TypeOK

(* An answered probe keeps the types.                                      *)
LEMMA TypeProbeOk == ASSUME TypeOK, Holding, NEW c \in Callers, ProbeOk(c) PROVE TypeOK'
  <1>1. conn[c] # NoConn
    BY DEF Holding, ProbeOk
  <1>2. conn[c] \in Conns /\ Tail(due[conn[c]]) \in Seq(Request)
    BY <1>1, OwnedType DEF ProbeOk
  <1> QED BY <1>2, GuardedType DEF TypeOK, ProbeOk

(* A fresh connection keeps the types.                                     *)
LEMMA TypeInitOk == ASSUME TypeOK, NEW c \in Callers, InitOk(c) PROVE TypeOK'
  <1>1. PICK k \in Conns : Guarded(c, k, <<>>)
    BY DEF InitOk
  <1>2. <<>> \in Seq(Request)
    BY EmptySeq
  <1>3. /\ conn' \in [Callers -> Conns \cup {NoConn}]
        /\ pc' \in [Callers -> PC]
        /\ permits' \in SUBSET Callers /\ Cardinality(permits') <= Limit
        /\ due' \in [Conns -> Seq(Request)]
    BY <1>1, <1>2, GuardedType
  <1> QED BY <1>3 DEF TypeOK, InitOk

(* The steps that give up a permit or a connection keep the types.         *)
LEMMA TypeInside ==
    ASSUME TypeOK, NEW c \in Callers,
           \/ PopNone(c) \/ ProbeFail(c) \/ Destroyed(c) \/ InitFail(c)
           \/ Fail(c) \/ Dropped(c) \/ ReleaseCheck(c) \/ Discarded(c)
           \/ EndPrivate(c) \/ CancelInside(c) \/ CancelSent(c)
    PROVE  TypeOK'
  <1> USE DEF TypeOK, PC, Mode, Disown, Return
  <1>0. permits \ {c} \in SUBSET Callers /\ Cardinality(permits \ {c}) <= Limit
    BY PermitCount
  <1>1. CASE PopNone(c) \/ ProbeFail(c) \/ ReleaseCheck(c)
    BY <1>1 DEF PopNone, ProbeFail, ReleaseCheck
  <1>2. CASE Destroyed(c)
    BY <1>2, CloseType DEF Destroyed
  <1>3. CASE InitFail(c)
    BY <1>0, <1>3 DEF InitFail
  <1>4. CASE Fail(c)
    BY <1>0, <1>4 DEF Fail
  <1>5. CASE Dropped(c)
    BY <1>5, CloseType DEF Dropped
  <1>6. CASE Discarded(c)
    BY <1>0, <1>6, CloseType DEF Discarded
  <1>7. CASE EndPrivate(c)
    BY <1>7, CloseType DEF EndPrivate
  <1>8. CASE CancelInside(c)
    BY <1>0, <1>8, CloseType DEF CancelInside
  <1>9. CASE CancelSent(c)
    BY <1>0, <1>9 DEF CancelSent
  <1> QED BY <1>1, <1>2, <1>3, <1>4, <1>5, <1>6, <1>7, <1>8, <1>9

(* Using a connection, queueing it and retrying keep the types.            *)
LEMMA TypeUse ==
    ASSUME TypeOK, Holding, NEW c \in Callers, Answer(c) \/ Retry(c) \/ Push(c)
    PROVE  TypeOK'
  <1>1. conn[c] # NoConn
    BY DEF Holding, Answer, Retry, Push
  <1>2. conn[c] \in Conns /\ due[conn[c]] \in Seq(Request)
    BY <1>1, OwnedType
  <1>3. CASE Answer(c)
    BY <1>2, <1>3 DEF TypeOK, Answer, PC
  <1>4. CASE Retry(c)
    BY <1>4, CloseType DEF TypeOK, Retry, PC, Mode, Disown
  <1>5. CASE Push(c)
    <2>1. permits' \in SUBSET Callers /\ Cardinality(permits') <= Limit
      BY <1>5, PermitCount DEF TypeOK, Push
    <2>2. idle' \in Seq(Conns)
      BY <1>2, <1>5 DEF TypeOK, Push
    <2> QED BY <1>5, <2>1, <2>2 DEF TypeOK, Push, PC, Mode, Disown, Return
  <1> QED BY <1>3, <1>4, <1>5

(* The steps of the pool itself keep the types.                            *)
LEMMA TypePool ==
    ASSUME TypeOK,
           (\E k \in Conns : Break(k)) \/ ClearOpen \/ CloseSemaphore \/ Drain
    PROVE  TypeOK'
  <1>1. CASE \E k \in Conns : Break(k)
    BY <1>1 DEF TypeOK, Break
  <1>2. CASE ClearOpen
    BY <1>2, CloseType, EmptySeq DEF TypeOK, ClearOpen, Clear
  <1>3. CASE CloseSemaphore
    BY <1>3 DEF TypeOK, CloseSemaphore
  <1>4. CASE Drain
    BY <1>4, CloseType, EmptySeq DEF TypeOK, Drain, Clear
  <1> QED BY <1>1, <1>2, <1>3, <1>4

(* Every step keeps the types.                                             *)
LEMMA TypeNext == TypeOK /\ Holding /\ [Next]_vars => TypeOK'
  <1> SUFFICES ASSUME TypeOK, Holding, [Next]_vars PROVE TypeOK'
    OBVIOUS
  <1>1. CASE UNCHANGED vars
    BY <1>1 DEF vars, TypeOK
  <1>2. CASE Next
    BY <1>2, TypeAcquire, TypePop, TypeProbeOk, TypeInitOk, TypeInside, TypeUse, TypePool
       DEF Next, Progress, Cancel
  <1> QED BY <1>1, <1>2
-----------------------------------------------------------------------------
(* Each action keeps Holding. *)
LEMMA HoldingInit == Init => Holding
  BY DEF Init, Holding

(* A complete guard goes with a permit, unless get_client gave it back.    *)
LEMMA GuardedHolding ==
    ASSUME TypeOK, Holding, NEW c \in Callers, NEW k \in Conns, NEW q,
           Guarded(c, k, q), c \in permits
    PROVE  Holding'
  BY PoolAssumption DEF PoolAssumption, TypeOK, Holding, Guarded

(* Every step keeps Holding.                                               *)
LEMMA HoldingStep == TypeOK /\ Holding /\ [Next]_vars => Holding'
  <1> SUFFICES ASSUME TypeOK, Holding, [Next]_vars PROVE Holding'
    OBVIOUS
  <1>1. CASE \/ UNCHANGED vars
             \/ (\E k \in Conns : Break(k)) \/ ClearOpen \/ CloseSemaphore \/ Drain
    BY <1>1 DEF vars, Break, ClearOpen, CloseSemaphore, Drain, Clear, Holding
  <1>2. ASSUME NEW c \in Callers,
               \/ \E m \in {"first", "client"} : Start(c, m)
               \/ Grant(c) \/ Refused(c) \/ CancelWait(c)
        PROVE  Holding'
    BY <1>2 DEF TypeOK, Holding, Start, Grant, Refused, CancelWait, Return
  <1>3. ASSUME NEW c \in Callers, Pop(c) PROVE Holding'
    <2>1. Head(idle) \in Conns /\ c \in permits
      BY <1>3 DEF TypeOK, Holding, Pop
    <2>2. CASE Guarded(c, Head(idle), due[Head(idle)])
      BY <2>1, <2>2, GuardedHolding
    <2>3. CASE Probe(c, Head(idle))
      BY <1>3, <2>1, <2>3, PoolAssumption DEF PoolAssumption, TypeOK, Holding, Pop, Probe
    <2> QED BY <1>3, <2>2, <2>3 DEF Pop
  <1>4. ASSUME NEW c \in Callers, ProbeOk(c) \/ InitOk(c) PROVE Holding'
    <2>1. c \in permits
      BY <1>4 DEF Holding, ProbeOk, InitOk
    <2>2. CASE ProbeOk(c)
      <3>1. conn[c] \in Conns
        BY <2>2 DEF TypeOK, Holding, ProbeOk
      <3> QED BY <2>1, <2>2, <3>1, GuardedHolding DEF ProbeOk
    <2>3. CASE InitOk(c)
      BY <2>1, <2>3, GuardedHolding DEF InitOk
    <2> QED BY <1>4, <2>2, <2>3
  <1>5. ASSUME NEW c \in Callers,
               \/ PopNone(c) \/ ProbeFail(c) \/ Destroyed(c) \/ InitFail(c)
               \/ Answer(c) \/ Fail(c) \/ Dropped(c) \/ Retry(c)
               \/ ReleaseCheck(c) \/ Push(c) \/ Discarded(c) \/ EndPrivate(c)
               \/ CancelInside(c) \/ CancelSent(c)
        PROVE  Holding'
    <2> USE DEF TypeOK, Holding, Disown, Return
    <2>1. CASE PopNone(c)
      BY <2>1 DEF PopNone
    <2>2. CASE ProbeFail(c)
      BY <2>2 DEF ProbeFail
    <2>3. CASE Destroyed(c)
      BY <2>3 DEF Destroyed
    <2>4. CASE InitFail(c)
      BY <2>4 DEF InitFail
    <2>5. CASE Answer(c)
      BY <2>5 DEF Answer
    <2>6. CASE Fail(c)
      BY <2>6 DEF Fail
    <2>7. CASE Dropped(c)
      BY <2>7 DEF Dropped
    <2>8. CASE Retry(c)
      BY <2>8 DEF Retry
    <2>9. CASE ReleaseCheck(c)
      BY <2>9 DEF ReleaseCheck
    <2>10. CASE Push(c)
      BY <2>10 DEF Push
    <2>11. CASE Discarded(c)
      BY <2>11 DEF Discarded
    <2>12. CASE EndPrivate(c)
      BY <2>12 DEF EndPrivate
    <2>13. CASE CancelInside(c)
      BY <2>13 DEF CancelInside
    <2>14. CASE CancelSent(c)
      BY <2>14 DEF CancelSent
    <2> QED BY <1>5, <2>1, <2>2, <2>3, <2>4, <2>5, <2>6, <2>7,
                <2>8, <2>9, <2>10, <2>11, <2>12, <2>13, <2>14
  <1> QED BY <1>1, <1>2, <1>3, <1>4, <1>5 DEF Next, Progress, Cancel

(* Every variable of the pool keeps its type and no more than Limit        *)
(* permits are ever handed out.                                            *)
THEOREM TypeCorrect == Spec => []TypeOK
  <1>1. TypeOK /\ Holding /\ [Next]_vars => (TypeOK /\ Holding)'
    BY TypeNext, HoldingStep
  <1> QED BY TypeInit, HoldingInit, <1>1, PTL DEF Spec
-----------------------------------------------------------------------------
(* Connections in one hand. *)

(* Queued items are connections.                                           *)
LEMMA IdleFacts ==
    ASSUME TypeOK
    PROVE  Idle \subseteq Conns /\ NoConn \notin Idle
  BY PoolAssumption DEF PoolAssumption, TypeOK, Idle

(* A caller gives its connection up, or the queue is emptied. *)
LEMMA ExclusiveLess ==
    ASSUME TypeOK, Exclusive, NEW c \in Callers,
           \/ UNCHANGED conn \/ Disown(c),
           \/ UNCHANGED idle \/ idle' = <<>>
    PROVE  Exclusive'
  <1>1. Idle' \subseteq Idle
    BY DEF Idle
  <1>2. NoConn \notin Idle
    BY IdleFacts
  <1>3. \A d \in Callers : conn'[d] = conn[d] \/ conn'[d] = NoConn
    BY DEF Disown, TypeOK
  <1>4. \A i, j \in 1..Len(idle') : idle'[i] = idle'[j] => i = j
    BY DEF Exclusive
  <1> QED BY <1>1, <1>2, <1>3, <1>4 DEF Exclusive

(* The front of the queue changes hands. *)
LEMMA ExclusivePop ==
    ASSUME TypeOK, Exclusive, NEW c \in Callers, idle # <<>>,
           idle' = Tail(idle), conn' = [conn EXCEPT ![c] = Head(idle)]
    PROVE  Exclusive'
  <1>1. /\ Head(idle) = idle[1] /\ Len(idle) \in Nat \ {0}
        /\ Len(idle') = Len(idle) - 1
        /\ \A i \in 1..Len(idle') : idle'[i] = idle[i + 1]
    BY HeadTailProperties DEF TypeOK
  <1>2. Idle' \subseteq Idle /\ Head(idle) \in Idle /\ Head(idle) \notin Idle'
    BY <1>1 DEF Idle, Exclusive
  <1>3. \A i, j \in 1..Len(idle') : idle'[i] = idle'[j] => i = j
    BY <1>1 DEF Exclusive
  <1>4. \A d \in Callers : conn'[d] = IF d = c THEN Head(idle) ELSE conn[d]
    BY DEF TypeOK
  <1> QED BY <1>2, <1>3, <1>4 DEF Exclusive

(* A connection that was not open is taken. *)
LEMMA ExclusiveInit ==
    ASSUME TypeOK, Exclusive, NEW c \in Callers, NEW k \in Conns \ Open,
           UNCHANGED idle, conn' = [conn EXCEPT ![c] = k]
    PROVE  Exclusive'
  <1>1. \A d \in Callers : conn'[d] = IF d = c THEN k ELSE conn[d]
    BY DEF TypeOK
  <1>2. k \notin Idle /\ \A d \in Callers : conn[d] # k
    BY PoolAssumption DEF Open, PoolAssumption
  <1>3. UNCHANGED Idle
    BY DEF Idle
  <1> QED BY <1>1, <1>2, <1>3 DEF Exclusive

(* A connection goes back to the end of the queue. *)
LEMMA ExclusivePush ==
    ASSUME TypeOK, Exclusive, NEW c \in Callers, conn[c] # NoConn,
           idle' = Append(idle, conn[c]), Disown(c)
    PROVE  Exclusive'
  <1>1. /\ Len(idle) \in Nat /\ Len(idle') = Len(idle) + 1
        /\ idle'[Len(idle) + 1] = conn[c]
        /\ \A i \in 1..Len(idle) : idle'[i] = idle[i]
    BY DEF TypeOK
  <1>2. Idle' = Idle \cup {conn[c]}
    BY <1>1 DEF Idle
  <1>3. \A i \in 1..Len(idle) : idle[i] # conn[c]
    BY DEF Exclusive, Idle
  <1>4. \A i, j \in 1..Len(idle') : idle'[i] = idle'[j] => i = j
    BY <1>1, <1>3 DEF Exclusive
  <1>5. \A d \in Callers : conn'[d] = IF d = c THEN NoConn ELSE conn[d]
    BY DEF Disown, TypeOK
  <1>6. NoConn \notin Idle
    BY IdleFacts
  <1> QED BY <1>2, <1>4, <1>5, <1>6 DEF Exclusive

(* Every step keeps connections in one hand.                               *)
LEMMA ExclusiveStep == TypeOK /\ Holding /\ Exclusive /\ [Next]_vars => Exclusive'
  <1> SUFFICES ASSUME TypeOK, Holding, Exclusive, [Next]_vars PROVE Exclusive'
    OBVIOUS
  <1>1. CASE \/ UNCHANGED vars
             \/ (\E k \in Conns : Break(k)) \/ CloseSemaphore
    BY <1>1 DEF vars, Break, CloseSemaphore, Exclusive, Idle
  <1>2. CASE ClearOpen \/ Drain
    BY <1>2 DEF ClearOpen, Drain, Clear, Exclusive, Idle
  <1>3. ASSUME NEW c \in Callers, Pop(c) PROVE Exclusive'
    BY <1>3, ExclusivePop DEF Pop, Guarded, Probe
  <1>4. ASSUME NEW c \in Callers, InitOk(c) PROVE Exclusive'
    BY <1>4, ExclusiveInit DEF InitOk, Guarded
  <1>5. ASSUME NEW c \in Callers, ProbeOk(c) PROVE Exclusive'
    <2>1. conn' = conn /\ idle' = idle
      BY <1>5 DEF ProbeOk, Guarded, TypeOK
    <2> QED BY <2>1, ExclusiveLess
  <1>6. ASSUME NEW c \in Callers, Push(c) PROVE Exclusive'
    BY <1>6, ExclusivePush DEF Push, Holding
  <1>7. ASSUME NEW c \in Callers,
               \/ \E m \in {"first", "client"} : Start(c, m)
               \/ Grant(c) \/ Refused(c) \/ CancelWait(c)
               \/ PopNone(c) \/ ProbeFail(c) \/ Destroyed(c) \/ InitFail(c)
               \/ Answer(c) \/ Fail(c) \/ Dropped(c) \/ Retry(c)
               \/ ReleaseCheck(c) \/ Discarded(c) \/ EndPrivate(c)
               \/ CancelInside(c) \/ CancelSent(c)
        PROVE  Exclusive'
    <2>1. UNCHANGED idle /\ (UNCHANGED conn \/ Disown(c))
      BY <1>7 DEF Start, Grant, Refused, CancelWait, PopNone, ProbeFail, Destroyed, InitFail,
                  Answer, Fail, Dropped, Retry, ReleaseCheck, Discarded, EndPrivate,
                  CancelInside, CancelSent
    <2> QED BY <2>1, ExclusiveLess
  <1> QED BY <1>1, <1>2, <1>3, <1>4, <1>5, <1>6, <1>7 DEF Next, Progress, Cancel

(* At the start there are no connections.                                  *)
LEMMA ExclusiveInitial == Init => Exclusive
  BY DEF Init, Exclusive, Idle

(* No connection of the pool is ever in two hands. *)
THEOREM ExclusiveCorrect == Spec => []Exclusive
  <1>1. TypeOK /\ Holding /\ Exclusive /\ [Next]_vars => (TypeOK /\ Holding /\ Exclusive)'
    BY TypeNext, HoldingStep, ExclusiveStep
  <1> QED BY TypeInit, HoldingInit, ExclusiveInitial, <1>1, PTL DEF Spec

-----------------------------------------------------------------------------
(* What the pool promises its callers, on top of the type and ownership    *)
(* invariants.                                                             *)

(* The ownership invariant everything below rests on. *)
OwnInv == TypeOK /\ Holding /\ Exclusive

(* Every step keeps the ownership invariant.                               *)
LEMMA OwnStep == OwnInv /\ [Next]_vars => OwnInv'
  BY TypeNext, HoldingStep, ExclusiveStep DEF OwnInv

(* It holds at the start.                                                  *)
LEMMA OwnInit == Init => OwnInv
  BY TypeInit, HoldingInit, ExclusiveInitial DEF OwnInv
-----------------------------------------------------------------------------
(* What is in flight on the connection of a caller. *)
Talk(c) ==
    /\ pc[c] = "sent" => due[conn[c]] = <<<<c, "call">>>>
    /\ pc[c] = "probe" => due[conn[c]] = <<<<c, "probe">>>>
    /\ pc[c] \in {"release", "push"} => due[conn[c]] = <<>>

(* Nothing is in flight on a queued connection. *)
Quiet == \A k \in Idle : due[k] = <<>>

Talking == Quiet /\ \A c \in Callers : Talk(c)

(* Talking is NoCrossTalk with its strengthening.                          *)
LEMMA TalkingMeans == Talking => NoCrossTalk /\ ReadToTheEnd
  BY DEF Talking, Quiet, Talk, NoCrossTalk, ReadToTheEnd

(* There is nothing in flight at the start.                                *)
LEMMA TalkingInit == Init => Talking
  BY DEF Init, Talking, Quiet, Talk, Idle

(* A step of one caller that leaves the connections of the others alone.   *)
LEMMA TalkFrame ==
    ASSUME OwnInv, Talking, NEW c \in Callers,
           \A d \in Callers \ {c} :
               /\ pc'[d] = pc[d] /\ conn'[d] = conn[d]
               /\ conn[d] # NoConn => due'[conn[d]] = due[conn[d]],
           Talk(c)', Quiet'
    PROVE  Talking'
  <1> SUFFICES ASSUME NEW d \in Callers, d # c PROVE Talk(d)'
    BY DEF Talking
  <1>1. pc'[d] = pc[d] /\ conn'[d] = conn[d] /\ Talk(d)
    BY DEF Talking
  <1>2. pc[d] \in {"sent", "probe", "release", "push"} => due'[conn[d]] = due[conn[d]]
    BY DEF OwnInv, Holding
  <1> QED BY <1>1, <1>2 DEF Talk

(* Closing the connection of a caller is no concern of the others.         *)
LEMMA CloseOthers ==
    ASSUME OwnInv, NEW c \in Callers, Close({conn[c]})
    PROVE  /\ \A d \in Callers \ {c} : conn[d] # NoConn => due'[conn[d]] = due[conn[d]]
           /\ \A k \in Idle : due'[k] = due[k]
  <1>1. \A d \in Callers \ {c} : conn[d] # NoConn => conn[d] \in Conns /\ conn[d] # conn[c]
    BY DEF OwnInv, TypeOK, Exclusive
  <1>2. \A k \in Idle : k \in Conns /\ k # conn[c]
    BY IdleFacts DEF OwnInv, Exclusive
  <1> QED BY <1>1, <1>2 DEF Close

(* A connection with nothing in flight gets a guard.                       *)
LEMMA TalkGuarded ==
    ASSUME OwnInv, OwnInv', Talking, NEW c \in Callers, NEW k \in Conns,
           Guarded(c, k, <<>>), \A d \in Callers \ {c} : conn[d] # k,
           Idle' \subseteq Idle
    PROVE  Talking'
  <1>1. \A d \in Callers : conn'[d] = IF d = c THEN k ELSE conn[d]
    BY DEF OwnInv, TypeOK, Guarded
  <1>2. \A d \in Callers \ {c} : pc'[d] = pc[d]
    BY DEF OwnInv, TypeOK, Guarded
  <1>3. \A j \in Conns \ {k} : due'[j] = due[j]
    BY DEF OwnInv, TypeOK, Guarded
  <1>4. \A d \in Callers \ {c} : conn[d] # NoConn => due'[conn[d]] = due[conn[d]]
    BY <1>3 DEF OwnInv, TypeOK
  <1>5. k \notin Idle' /\ Idle' \subseteq Conns
    BY <1>1, IdleFacts DEF OwnInv, Exclusive
  <1>6. Quiet'
    BY <1>3, <1>5 DEF Talking, Quiet
  <1>7. Talk(c)'
    <2>1. CASE mode[c] = "client"
      BY <2>1 DEF OwnInv, TypeOK, Guarded, Talk
    <2>2. CASE mode[c] # "client"
      <3>1. pc'[c] = "sent" /\ due'[k] = Append(<<>>, <<c, "call">>)
        BY <2>2 DEF OwnInv, TypeOK, Guarded
      <3> QED BY <1>1, <3>1 DEF Talk
    <2> QED BY <2>1, <2>2
  <1> QED BY <1>1, <1>2, <1>4, <1>6, <1>7, TalkFrame

(* A caller leaves the exchange: nothing is sent, at most its own          *)
(* connection is closed.                                                   *)
LEMMA TalkLeave ==
    ASSUME OwnInv, Talking, NEW c \in Callers, NEW p \in PC,
           pc' = [pc EXCEPT ![c] = p], p \notin {"sent", "probe", "release", "push"},
           UNCHANGED idle,
           \/ UNCHANGED <<conn, due>>
           \/ Disown(c) /\ Close({conn[c]})
    PROVE  Talking'
  <1>1. pc'[c] = p /\ \A d \in Callers \ {c} : pc'[d] = pc[d]
    BY DEF OwnInv, TypeOK
  <1>2. \A d \in Callers \ {c} : conn'[d] = conn[d]
    BY DEF OwnInv, TypeOK, Disown
  <1>3. /\ \A d \in Callers \ {c} : conn[d] # NoConn => due'[conn[d]] = due[conn[d]]
        /\ \A k \in Idle : due'[k] = due[k]
    BY CloseOthers
  <1>4. Quiet'
    BY <1>3 DEF Talking, Quiet, Idle
  <1>5. Talk(c)'
    BY <1>1 DEF Talk
  <1> QED BY <1>1, <1>2, <1>3, <1>4, <1>5, TalkFrame

(* The front of the queue is quiet, and whoever takes it talks alone.      *)
LEMMA TalkPop ==
    ASSUME OwnInv, OwnInv', Talking, NEW c \in Callers, Pop(c)
    PROVE  Talking'
  <1>1. Head(idle) \in Idle /\ Head(idle) \in Conns /\ Idle' \subseteq Idle
    <2>1. /\ Head(idle) = idle[1] /\ Len(idle) \in Nat \ {0}
          /\ Len(idle') = Len(idle) - 1
          /\ \A i \in 1..Len(idle') : idle'[i] = idle[i + 1]
      BY HeadTailProperties DEF OwnInv, TypeOK, Pop
    <2> QED BY <2>1, IdleFacts DEF Idle, OwnInv
  <1>2. due[Head(idle)] = <<>>
    BY <1>1 DEF Talking, Quiet
  <1>3. \A d \in Callers : conn[d] # Head(idle)
    BY <1>1 DEF OwnInv, Exclusive
  <1>4. CASE Guarded(c, Head(idle), due[Head(idle)])
    BY <1>1, <1>2, <1>3, <1>4, TalkGuarded
  <1>5. CASE Probe(c, Head(idle))
    <2>1. /\ \A d \in Callers \ {c} : pc'[d] = pc[d] /\ conn'[d] = conn[d]
          /\ pc'[c] = "probe" /\ conn'[c] = Head(idle)
      BY <1>5 DEF OwnInv, TypeOK, Probe
    <2>2. /\ \A j \in Conns \ {Head(idle)} : due'[j] = due[j]
          /\ due'[Head(idle)] = Append(<<>>, <<c, "probe">>)
      BY <1>1, <1>2, <1>5 DEF OwnInv, TypeOK, Probe
    <2>3. \A d \in Callers \ {c} : conn[d] # NoConn => due'[conn[d]] = due[conn[d]]
      BY <1>3, <2>2 DEF OwnInv, TypeOK
    <2>4. Head(idle) \notin Idle' /\ Idle' \subseteq Conns
      <3>1. conn'[c] \notin Idle'
        BY DEF OwnInv, Exclusive
      <3>2. Idle \subseteq Conns
        BY IdleFacts DEF OwnInv
      <3> QED BY <1>1, <2>1, <3>1, <3>2
    <2>5. Quiet'
      BY <1>1, <2>2, <2>4 DEF Talking, Quiet
    <2>6. Talk(c)'
      BY <2>1, <2>2 DEF Talk
    <2> QED BY <2>1, <2>3, <2>5, <2>6, TalkFrame
  <1> QED BY <1>4, <1>5 DEF Pop

(* An answer is the only thing in flight, so reading it leaves nothing.    *)
LEMMA TalkAnswer ==
    ASSUME OwnInv, OwnInv', Talking, NEW c \in Callers, ProbeOk(c) \/ Answer(c)
    PROVE  Talking'
  <1>1. conn[c] \in Conns /\ conn[c] # NoConn
    BY DEF OwnInv, TypeOK, Holding, ProbeOk, Answer
  <1>2. \A d \in Callers \ {c} : conn[d] # conn[c]
    BY <1>1 DEF OwnInv, Exclusive
  <1>3. Tail(due[conn[c]]) = <<>>
    <2>1. PICK x : due[conn[c]] = <<x>>
      BY DEF Talking, Talk, ProbeOk, Answer
    <2> QED BY <2>1
  <1>4. Idle' = Idle
    BY DEF Idle, ProbeOk, Answer
  <1>5. CASE ProbeOk(c)
    BY <1>1, <1>2, <1>3, <1>4, <1>5, TalkGuarded DEF ProbeOk
  <1>6. CASE Answer(c)
    <2>1. /\ conn' = conn /\ pc'[c] = "release"
          /\ \A d \in Callers \ {c} : pc'[d] = pc[d]
      BY <1>6 DEF OwnInv, TypeOK, Answer
    <2>2. due'[conn[c]] = <<>> /\ \A j \in Conns \ {conn[c]} : due'[j] = due[j]
      BY <1>1, <1>3, <1>6 DEF OwnInv, TypeOK, Answer
    <2>3. \A d \in Callers \ {c} : conn[d] # NoConn => due'[conn[d]] = due[conn[d]]
      BY <1>2, <2>2 DEF OwnInv, TypeOK
    <2>4. Quiet'
      BY <1>4, <2>2, IdleFacts DEF OwnInv, Talking, Quiet
    <2>5. Talk(c)'
      BY <2>1, <2>2 DEF Talk
    <2> QED BY <2>1, <2>3, <2>4, <2>5, TalkFrame
  <1> QED BY <1>5, <1>6

(* What is read to the end may be queued.                                  *)
LEMMA TalkRelease ==
    ASSUME OwnInv, Talking, NEW c \in Callers, ReleaseCheck(c) \/ Push(c)
    PROVE  Talking'
  <1>1. due[conn[c]] = <<>> /\ due' = due
    BY DEF Talking, Talk, ReleaseCheck, Push
  <1>2. CASE ReleaseCheck(c)
    <2>1. /\ conn' = conn /\ pc'[c] \in {"push", "discard"} /\ idle' = idle
          /\ \A d \in Callers \ {c} : pc'[d] = pc[d]
      BY <1>2 DEF OwnInv, TypeOK, ReleaseCheck
    <2>2. Talk(c)' /\ Quiet'
      BY <1>1, <2>1 DEF Talk, Talking, Quiet, Idle
    <2> QED BY <1>1, <2>1, <2>2, TalkFrame
  <1>3. CASE Push(c)
    <2>1. /\ pc'[c] = "idle"
          /\ \A d \in Callers \ {c} : pc'[d] = pc[d] /\ conn'[d] = conn[d]
      BY <1>3 DEF OwnInv, TypeOK, Push, Return, Disown
    <2>2. /\ Len(idle) \in Nat /\ Len(idle') = Len(idle) + 1
          /\ idle'[Len(idle) + 1] = conn[c]
          /\ \A i \in 1..Len(idle) : idle'[i] = idle[i]
      <3>1. conn[c] \in Conns /\ idle \in Seq(Conns) /\ idle' = Append(idle, conn[c])
        BY <1>3 DEF OwnInv, TypeOK, Holding, Push
      <3> QED BY <3>1
    <2>3. Idle' \subseteq Idle \cup {conn[c]}
      BY <2>2 DEF Idle
    <2>4. Quiet'
      BY <1>1, <2>3 DEF Talking, Quiet
    <2>5. Talk(c)'
      BY <2>1 DEF Talk
    <2> QED BY <1>1, <2>1, <2>4, <2>5, TalkFrame
  <1> QED BY <1>2, <1>3

(* Every step keeps the exchanges apart.                                   *)
LEMMA TalkStep ==
    ASSUME OwnInv, OwnInv', Talking, [Next]_vars
    PROVE  Talking'
  <1>1. CASE \/ UNCHANGED vars
             \/ (\E k \in Conns : Break(k)) \/ CloseSemaphore
    BY <1>1 DEF vars, Break, CloseSemaphore, Talking, Quiet, Talk, Idle
  <1>2. CASE ClearOpen \/ Drain
    <2>1. Close(Idle) /\ idle' = <<>> /\ UNCHANGED <<pc, conn>>
      BY <1>2 DEF ClearOpen, Drain, Clear
    <2>2. Quiet'
      BY <2>1 DEF Quiet, Idle
    <2>3. ASSUME NEW c \in Callers PROVE Talk(c)'
      <3>1. conn[c] # NoConn => due'[conn[c]] = due[conn[c]]
        BY <2>1 DEF OwnInv, TypeOK, Exclusive, Close
      <3> QED BY <2>1, <3>1 DEF Talking, Talk, OwnInv, Holding
    <2> QED BY <2>2, <2>3 DEF Talking
  <1>3. ASSUME NEW c \in Callers, InitOk(c) PROVE Talking'
    <2>1. PICK k \in Conns \ Open : Guarded(c, k, <<>>)
      BY <1>3 DEF InitOk
    <2>2. \A d \in Callers : conn[d] # k
      BY PoolAssumption DEF Open, PoolAssumption
    <2>3. Idle' = Idle
      BY <1>3 DEF InitOk, Idle
    <2> QED BY <2>1, <2>2, <2>3, TalkGuarded
  <1>4. ASSUME NEW c \in Callers,
               \/ \E m \in {"first", "client"} : Start(c, m)
               \/ Grant(c) \/ Refused(c) \/ CancelWait(c)
               \/ PopNone(c) \/ ProbeFail(c) \/ InitFail(c) \/ Fail(c) \/ CancelSent(c)
        PROVE  Talking'
    <2>1. UNCHANGED <<conn, due, idle>>
      BY <1>4 DEF Start, Grant, Refused, CancelWait, PopNone, ProbeFail, InitFail, Fail,
                  CancelSent
    <2>2. \E p \in PC \ {"sent", "probe", "release", "push"} : pc' = [pc EXCEPT ![c] = p]
      BY <1>4 DEF Start, Grant, Refused, CancelWait, PopNone, ProbeFail, InitFail, Fail,
                  CancelSent, Return, PC
    <2> QED BY <2>1, <2>2, TalkLeave
  <1>5. ASSUME NEW c \in Callers,
               \/ Destroyed(c) \/ Dropped(c) \/ Retry(c) \/ Discarded(c)
               \/ EndPrivate(c) \/ CancelInside(c)
        PROVE  Talking'
    <2>1. Close({conn[c]}) /\ Disown(c) /\ UNCHANGED idle
      BY <1>5 DEF Destroyed, Dropped, Retry, Discarded, EndPrivate, CancelInside
    <2>2. \E p \in PC \ {"sent", "probe", "release", "push"} : pc' = [pc EXCEPT ![c] = p]
      BY <1>5 DEF Destroyed, Dropped, Retry, Discarded, EndPrivate, CancelInside, Return, PC
    <2> QED BY <2>1, <2>2, TalkLeave
  <1> QED BY <1>1, <1>2, <1>3, <1>4, <1>5, TalkPop, TalkAnswer, TalkRelease
          DEF Next, Progress, Cancel

(* A caller never reads the answer to somebody else's request, however     *)
(* calls time out, are cancelled or retried: NoCrossTalk holds for any     *)
(* number of callers and any limit.                                        *)
THEOREM NoCrossTalkCorrect == Spec => []NoCrossTalk
  <1>1. OwnInv /\ Talking /\ [Next]_vars => (OwnInv /\ Talking)'
    BY OwnStep, TalkStep
  <1>2. Init => OwnInv /\ Talking
    BY OwnInit, TalkingInit
  <1>3. OwnInv /\ Talking => NoCrossTalk
    BY TalkingMeans
  <1> QED BY <1>1, <1>2, <1>3, PTL DEF Spec
-----------------------------------------------------------------------------
(* Where a caller that uses a slot of the pool can be. *)
Busy == {"init", "probe", "destroy", "sent", "release", "push", "discard"}

(* The slots in use follow from where the callers are.                     *)
LEMMA UsingMeans ==
    ASSUME OwnInv
    PROVE  /\ Using = {c \in Callers : pc[c] \in Busy}
           /\ Using \subseteq permits
  <1>1. permits \subseteq Callers
    BY DEF OwnInv, TypeOK
  <1> QED BY <1>1 DEF OwnInv, Holding, Using, Busy

(* As much holds after a step.                                             *)
LEMMA UsingPrimed ==
    ASSUME OwnInv'
    PROVE  Using' = {c \in Callers : pc'[c] \in Busy}
  <1>1. permits' \subseteq Callers
    BY DEF OwnInv, TypeOK
  <1> QED BY <1>1 DEF OwnInv, Holding, Using, Busy

(* Counting the slots in use.                                              *)
LEMMA UsingCount ==
    ASSUME OwnInv
    PROVE  /\ IsFiniteSet(Using) /\ Cardinality(Using) \in Nat
           /\ Cardinality(Using) <= Limit /\ Limit \in Nat /\ Len(idle) \in Nat
           /\ \A S \in SUBSET Using : IsFiniteSet(S) /\ Cardinality(S) \in Nat
                                      /\ Cardinality(S) <= Cardinality(Using)
  <1>1. Limit \in Nat /\ Len(idle) \in Nat /\ Cardinality(permits) <= Limit
    BY PoolAssumption DEF PoolAssumption, OwnInv, TypeOK
  <1>2. IsFiniteSet(permits)
    BY PoolAssumption, FS_Subset DEF PoolAssumption, OwnInv, TypeOK
  <1>3. /\ IsFiniteSet(Using) /\ Cardinality(Using) <= Cardinality(permits)
        /\ Cardinality(permits) \in Nat
    BY <1>2, UsingMeans, FS_Subset, FS_CardinalityType
  <1>4. Cardinality(Using) \in Nat
    BY <1>3, FS_CardinalityType
  <1>5. \A S \in SUBSET Using : IsFiniteSet(S) /\ Cardinality(S) \in Nat
                                /\ Cardinality(S) <= Cardinality(Using)
    BY <1>3, FS_Subset, FS_CardinalityType
  <1> QED BY <1>1, <1>3, <1>4, <1>5

(* Neither the queue nor the slots in use grow.                            *)
LEMMA BoundKeep ==
    ASSUME OwnInv, OwnInv', PoolBound, Len(idle') <= Len(idle), Using' \subseteq Using
    PROVE  PoolBound'
  <1>1. Cardinality(Using') <= Cardinality(Using) /\ Cardinality(Using') \in Nat
    BY UsingCount
  <1>2. Len(idle') \in Nat
    BY DEF OwnInv, TypeOK
  <1> QED BY <1>1, <1>2, UsingCount DEF PoolBound

(* One caller moves on without taking a slot.                              *)
LEMMA BoundMove ==
    ASSUME OwnInv, OwnInv', PoolBound, NEW c \in Callers, NEW p,
           pc' = [pc EXCEPT ![c] = p], p \notin Busy \/ pc[c] \in Busy, UNCHANGED idle
    PROVE  PoolBound'
  <1>1. \A d \in Callers : pc'[d] = IF d = c THEN p ELSE pc[d]
    BY DEF OwnInv, TypeOK
  <1>2. Using = {d \in Callers : pc[d] \in Busy} /\ Using' = {d \in Callers : pc'[d] \in Busy}
    BY UsingMeans, UsingPrimed
  <1>3. Using' \subseteq Using
    BY <1>1, <1>2
  <1>4. Len(idle') <= Len(idle)
    BY DEF OwnInv, TypeOK
  <1> QED BY <1>3, <1>4, BoundKeep

(* A connection is opened only when none is queued, and then every slot in *)
(* use has its permit.                                                     *)
LEMMA BoundPopNone ==
    ASSUME OwnInv, OwnInv', NEW c \in Callers, PopNone(c)
    PROVE  PoolBound'
  <1>1. Len(idle') = 0
    BY DEF PopNone
  <1>2. Cardinality(Using') <= Limit /\ Cardinality(Using') \in Nat /\ Limit \in Nat
    <2>1. permits' \subseteq Callers /\ Cardinality(permits') <= Limit /\ IsFiniteSet(permits')
      BY PoolAssumption, FS_Subset DEF PoolAssumption, OwnInv, TypeOK
    <2>2. Using' \subseteq permits'
      BY DEF Using
    <2>3. Cardinality(Using') <= Cardinality(permits') /\ Cardinality(Using') \in Nat
          /\ Cardinality(permits') \in Nat /\ Limit \in Nat
      BY <2>1, <2>2, FS_Subset, FS_CardinalityType, PoolAssumption DEF PoolAssumption
    <2> QED BY <2>1, <2>3
  <1> QED BY <1>1, <1>2 DEF PoolBound

(* A queued connection that is taken changes sides.                        *)
LEMMA BoundPop ==
    ASSUME OwnInv, OwnInv', PoolBound, NEW c \in Callers, Pop(c)
    PROVE  PoolBound'
  <1>1. Len(idle) \in Nat \ {0} /\ Len(idle') = Len(idle) - 1
    BY HeadTailProperties DEF OwnInv, TypeOK, Pop
  <1>2. \A d \in Callers \ {c} : pc'[d] = pc[d]
    BY DEF OwnInv, TypeOK, Pop, Guarded, Probe
  <1>3. Using = {d \in Callers : pc[d] \in Busy} /\ Using' = {d \in Callers : pc'[d] \in Busy}
    BY UsingMeans, UsingPrimed
  <1>4. Using' \subseteq Using \cup {c}
    BY <1>2, <1>3
  <1>5. /\ IsFiniteSet(Using \cup {c})
        /\ Cardinality(Using \cup {c}) <= Cardinality(Using) + 1
        /\ Cardinality(Using \cup {c}) \in Nat
    BY UsingCount, FS_AddElement, FS_CardinalityType
  <1>6. Cardinality(Using') <= Cardinality(Using \cup {c}) /\ Cardinality(Using') \in Nat
    BY <1>4, <1>5, FS_Subset, FS_CardinalityType
  <1> QED BY <1>1, <1>5, <1>6, UsingCount DEF PoolBound

(* So does one that is queued again: its slot goes in the same step.       *)
LEMMA BoundPush ==
    ASSUME OwnInv, OwnInv', PoolBound, NEW c \in Callers, Push(c)
    PROVE  PoolBound'
  <1>1. Len(idle) \in Nat /\ Len(idle') = Len(idle) + 1
    BY DEF OwnInv, TypeOK, Push
  <1>2. pc'[c] = "idle" /\ pc[c] = "push" /\ \A d \in Callers \ {c} : pc'[d] = pc[d]
    BY DEF OwnInv, TypeOK, Push, Return
  <1>3. Using = {d \in Callers : pc[d] \in Busy} /\ Using' = {d \in Callers : pc'[d] \in Busy}
    BY UsingMeans, UsingPrimed
  <1>4. Using' \subseteq Using \ {c} /\ c \in Using
    BY <1>2, <1>3 DEF Busy
  <1>5. IsFiniteSet(Using \ {c}) /\ Cardinality(Using \ {c}) = Cardinality(Using) - 1
    BY <1>4, UsingCount, FS_RemoveElement
  <1>6. Cardinality(Using') <= Cardinality(Using \ {c}) /\ Cardinality(Using') \in Nat
    BY <1>4, <1>5, FS_Subset, FS_CardinalityType
  <1> QED BY <1>1, <1>5, <1>6, UsingCount DEF PoolBound

(* Every step keeps the bound.                                             *)
LEMMA BoundStep ==
    ASSUME OwnInv, OwnInv', PoolBound, [Next]_vars
    PROVE  PoolBound'
  <1>1. CASE \/ UNCHANGED vars
             \/ (\E k \in Conns : Break(k)) \/ CloseSemaphore \/ ClearOpen \/ Drain
    <2>1. UNCHANGED <<pc, conn, permits>> /\ (idle' = idle \/ idle' = <<>>)
      BY <1>1 DEF vars, Break, CloseSemaphore, ClearOpen, Drain, Clear
    <2>2. Using' = Using
      BY <2>1 DEF Using
    <2>3. Len(idle') <= Len(idle)
      BY <2>1 DEF OwnInv, TypeOK
    <2> QED BY <2>2, <2>3, BoundKeep
  <1>2. ASSUME NEW c \in Callers,
               \/ \E m \in {"first", "client"} : Start(c, m)
               \/ Grant(c) \/ Refused(c) \/ CancelWait(c)
               \/ InitFail(c) \/ Fail(c) \/ CancelSent(c)
               \/ Destroyed(c) \/ Dropped(c) \/ Retry(c) \/ Discarded(c)
               \/ EndPrivate(c) \/ CancelInside(c)
        PROVE  PoolBound'
    <2>1. UNCHANGED idle
      BY <1>2 DEF Start, Grant, Refused, CancelWait, InitFail, Fail, CancelSent,
                  Destroyed, Dropped, Retry, Discarded, EndPrivate, CancelInside
    <2>2. \E p \in {"idle", "wait", "pop", "redo", "drop"} : pc' = [pc EXCEPT ![c] = p]
      BY <1>2 DEF Start, Grant, Refused, CancelWait, InitFail, Fail, CancelSent, Return,
                  Destroyed, Dropped, Retry, Discarded, EndPrivate, CancelInside
    <2> QED BY <2>1, <2>2, BoundMove DEF Busy
  <1>3. ASSUME NEW c \in Callers,
               ProbeFail(c) \/ ProbeOk(c) \/ InitOk(c) \/ Answer(c) \/ ReleaseCheck(c)
        PROVE  PoolBound'
    <2>1. UNCHANGED idle /\ pc[c] \in Busy
      BY <1>3 DEF ProbeFail, ProbeOk, InitOk, Answer, ReleaseCheck, Busy
    <2>2. \E p \in PC : pc' = [pc EXCEPT ![c] = p]
      BY <1>3 DEF ProbeFail, ProbeOk, InitOk, Answer, ReleaseCheck, Guarded, PC
    <2> QED BY <2>1, <2>2, BoundMove
  <1> QED BY <1>1, <1>2, <1>3, BoundPop, BoundPopNone, BoundPush DEF Next, Progress, Cancel

(* The queue and the slots in use stay within max_connection, for any      *)
(* number of callers and any limit.                                        *)
THEOREM PoolBoundCorrect == Spec => []PoolBound
  <1>1. OwnInv /\ PoolBound /\ [Next]_vars => (OwnInv /\ PoolBound)'
    BY OwnStep, BoundStep
  <1>2. Init => PoolBound
    <2> SUFFICES ASSUME Init PROVE PoolBound
      OBVIOUS
    <2>1. Using = {} /\ Len(idle) = 0
      BY DEF Init, Using
    <2> QED BY <2>1, FS_EmptySet, PoolAssumption DEF PoolBound, PoolAssumption
  <1> QED BY <1>1, <1>2, OwnInit, PTL DEF Spec
-----------------------------------------------------------------------------
(* A retry or get_client that finds its connection broken saw it break. *)
Saw(c) == pc[c] = "sent" /\ mode[c] # "first" /\ conn[c] \in broken => c \in fault

(* What RetryMasksStale needs. *)
Masked ==
    /\ broken \subseteq Open
    /\ \A c \in Callers : Saw(c)
    /\ failed \subseteq fault

(* Only the connection that a caller closes is open no longer.             *)
LEMMA OpenClosed ==
    ASSUME OwnInv, NEW c \in Callers, Disown(c), UNCHANGED idle
    PROVE  Open \ {conn[c]} \subseteq Open'
  <1>1. \A d \in Callers : conn'[d] = IF d = c THEN NoConn ELSE conn[d]
    BY DEF OwnInv, TypeOK, Disown
  <1>2. Idle' = Idle
    BY DEF Idle
  <1> QED BY <1>1, <1>2 DEF Open

(* A caller without a connection takes one: none is closed.                *)
LEMMA OpenTaken ==
    ASSUME OwnInv, NEW c \in Callers, NEW k \in Conns, conn' = [conn EXCEPT ![c] = k],
           conn[c] \in {NoConn, k}, Idle \subseteq Idle' \cup {k}
    PROVE  Open \subseteq Open'
  <1>1. \A d \in Callers : conn'[d] = IF d = c THEN k ELSE conn[d]
    BY DEF OwnInv, TypeOK
  <1>2. k # NoConn
    BY PoolAssumption DEF PoolAssumption
  <1> QED BY <1>1, <1>2 DEF Open

(* A caller that does not come to wait for an answer.                      *)
LEMMA MaskedLeave ==
    ASSUME OwnInv, Masked, NEW c \in Callers, NEW p, NEW m,
           pc' = [pc EXCEPT ![c] = p], p # "sent", mode' = [mode EXCEPT ![c] = m],
           UNCHANGED idle,
           \/ UNCHANGED <<conn, broken>>
           \/ Disown(c) /\ Close({conn[c]}),
           \A d \in Callers \ {c} : d \in fault => d \in fault',
           failed' \subseteq fault'
    PROVE  Masked'
  <1>1. broken' \subseteq Open'
    <2>1. CASE UNCHANGED <<conn, broken>>
      BY <2>1 DEF Masked, Open, Idle
    <2>2. CASE Disown(c) /\ Close({conn[c]})
      BY <2>2, OpenClosed DEF Masked, Close
    <2> QED BY <2>1, <2>2
  <1>2. ASSUME NEW d \in Callers PROVE Saw(d)'
    <2>1. CASE d = c
      BY <2>1 DEF OwnInv, TypeOK, Saw
    <2>2. CASE d # c
      <3>1. pc'[d] = pc[d] /\ mode'[d] = mode[d] /\ conn'[d] = conn[d]
        BY <2>2 DEF OwnInv, TypeOK, Disown
      <3>2. broken' \subseteq broken
        BY DEF Close
      <3> QED BY <2>2, <3>1, <3>2 DEF Masked, Saw
    <2> QED BY <2>1, <2>2
  <1> QED BY <1>1, <1>2 DEF Masked

(* Only a first attempt comes to wait on a connection that is broken: the  *)
(* second one has probed or opened it.                                     *)
LEMMA MaskedTake ==
    ASSUME OwnInv, Masked, NEW c \in Callers, NEW k \in Conns, NEW p,
           conn' = [conn EXCEPT ![c] = k], pc' = [pc EXCEPT ![c] = p],
           conn[c] \in {NoConn, k}, Idle \subseteq Idle' \cup {k},
           p # "sent" \/ mode[c] = "first" \/ k \notin broken,
           UNCHANGED <<mode, broken, failed, fault>>
    PROVE  Masked'
  <1>1. broken' \subseteq Open'
    BY OpenTaken DEF Masked
  <1>2. ASSUME NEW d \in Callers PROVE Saw(d)'
    <2>1. CASE d = c
      BY <2>1 DEF OwnInv, TypeOK, Saw
    <2>2. CASE d # c
      BY <2>2 DEF OwnInv, TypeOK, Masked, Saw
    <2> QED BY <2>1, <2>2
  <1> QED BY <1>1, <1>2 DEF Masked

(* The steps that give a caller a connection.                              *)
LEMMA MaskedAcquire ==
    ASSUME OwnInv, Masked, NEW c \in Callers, Pop(c) \/ ProbeOk(c) \/ InitOk(c)
    PROVE  Masked'
  <1>1. UNCHANGED <<mode, broken, failed, fault>>
    BY DEF Pop, ProbeOk, InitOk
  <1>2. CASE Pop(c)
    <2>1. /\ Head(idle) = idle[1] /\ Len(idle) \in Nat \ {0}
          /\ Len(idle') = Len(idle) - 1
          /\ \A i \in 1..Len(idle') : idle'[i] = idle[i + 1]
      BY <1>2, HeadTailProperties DEF OwnInv, TypeOK, Pop
    <2>2. Head(idle) \in Conns /\ Idle \subseteq Idle' \cup {Head(idle)}
      <3>1. ASSUME NEW i \in 1..Len(idle) PROVE idle[i] \in Idle' \cup {Head(idle)}
        <4>1. CASE i = 1
          BY <2>1, <4>1
        <4>2. CASE i # 1
          <5>1. i - 1 \in 1..Len(idle') /\ idle'[i - 1] = idle[i]
            BY <2>1, <4>2
          <5> QED BY <5>1 DEF Idle
        <4> QED BY <4>1, <4>2
      <3>2. Idle \subseteq Idle' \cup {Head(idle)}
        BY <3>1 DEF Idle
      <3>3. Head(idle) \in Conns
        BY <2>1 DEF OwnInv, TypeOK
      <3> QED BY <3>2, <3>3
    <2>3. conn[c] = NoConn
      BY <1>2 DEF OwnInv, Holding, Pop
    <2>4. conn' = [conn EXCEPT ![c] = Head(idle)]
      BY <1>2 DEF Pop, Guarded, Probe
    <2>5. CASE mode[c] = "first"
      <3>1. pc' = [pc EXCEPT ![c] = "sent"]
        BY <1>2, <2>5 DEF Pop, Guarded
      <3> QED BY <1>1, <2>2, <2>3, <2>4, <2>5, <3>1, MaskedTake
    <2>6. CASE mode[c] # "first"
      <3>1. pc' = [pc EXCEPT ![c] = "probe"]
        BY <1>2, <2>6 DEF Pop, Probe
      <3> QED BY <1>1, <2>2, <2>3, <2>4, <3>1, MaskedTake
    <2> QED BY <2>5, <2>6
  <1>3. CASE ProbeOk(c)
    <2>1. conn[c] \in Conns /\ conn[c] \notin broken
      BY <1>3 DEF OwnInv, TypeOK, Holding, ProbeOk
    <2>2. /\ conn' = [conn EXCEPT ![c] = conn[c]] /\ Idle' = Idle
          /\ \E p \in PC : pc' = [pc EXCEPT ![c] = p]
      BY <1>3 DEF ProbeOk, Guarded, Idle, PC
    <2> QED BY <1>1, <2>1, <2>2, MaskedTake
  <1>4. CASE InitOk(c)
    <2>1. PICK k \in Conns \ Open : Guarded(c, k, <<>>)
      BY <1>4 DEF InitOk
    <2>2. k \notin broken /\ conn[c] = NoConn
      BY <1>4, <2>1 DEF Masked, OwnInv, Holding, InitOk
    <2>3. Idle' = Idle
      BY <1>4 DEF InitOk, Idle
    <2>4. conn' = [conn EXCEPT ![c] = k] /\ \E p \in PC : pc' = [pc EXCEPT ![c] = p]
      BY <2>1 DEF Guarded, PC
    <2> QED BY <1>1, <2>1, <2>2, <2>3, <2>4, MaskedTake
  <1> QED BY <1>2, <1>3, <1>4

(* The steps of one caller that end or give up an exchange.                *)
LEMMA MaskedRelease ==
    ASSUME OwnInv, Masked, NEW c \in Callers,
           \/ \E m \in {"first", "client"} : Start(c, m)
           \/ Grant(c) \/ Refused(c) \/ CancelWait(c) \/ PopNone(c) \/ ProbeFail(c)
           \/ InitFail(c) \/ Fail(c) \/ CancelSent(c) \/ Answer(c) \/ ReleaseCheck(c)
           \/ Destroyed(c) \/ Dropped(c) \/ Retry(c) \/ Discarded(c)
           \/ EndPrivate(c) \/ CancelInside(c)
    PROVE  Masked'
  <1>1. /\ UNCHANGED idle
        /\ UNCHANGED <<conn, broken>> \/ (Disown(c) /\ Close({conn[c]}))
    <2>1. UNCHANGED idle
      BY DEF Start, Grant, Refused, CancelWait, PopNone, ProbeFail, InitFail, Fail,
             CancelSent, Answer, ReleaseCheck, Destroyed, Dropped, Retry, Discarded,
             EndPrivate, CancelInside
    <2>2. CASE \/ Destroyed(c) \/ Dropped(c) \/ Retry(c) \/ Discarded(c)
               \/ EndPrivate(c) \/ CancelInside(c)
      <3>1. Disown(c) /\ Close({conn[c]})
        BY <2>2 DEF Destroyed, Dropped, Retry, Discarded, EndPrivate, CancelInside
      <3> QED BY <2>1, <3>1
    <2>3. CASE \/ \E m \in {"first", "client"} : Start(c, m)
               \/ Grant(c) \/ Refused(c) \/ CancelWait(c) \/ PopNone(c) \/ ProbeFail(c)
               \/ InitFail(c) \/ Fail(c) \/ CancelSent(c) \/ Answer(c) \/ ReleaseCheck(c)
      <3>1. UNCHANGED <<conn, broken>>
        BY <2>3 DEF Start, Grant, Refused, CancelWait, PopNone, ProbeFail, InitFail,
                    Fail, CancelSent, Answer, ReleaseCheck
      <3> QED BY <2>1, <3>1
    <2> QED BY <2>2, <2>3
  <1> USE DEF Start, Grant, Refused, CancelWait, PopNone, ProbeFail, InitFail, Fail,
              CancelSent, Answer, ReleaseCheck, Destroyed, Dropped, Retry, Discarded,
              EndPrivate, CancelInside, Return
  <1>2. \E p \in PC \ {"sent"} : pc' = [pc EXCEPT ![c] = p]
    BY DEF PC
  <1>3. \E m \in Mode : mode' = [mode EXCEPT ![c] = m]
    <2>1. mode = [mode EXCEPT ![c] = mode[c]] /\ mode[c] \in Mode
      BY DEF OwnInv, TypeOK
    <2> QED BY <2>1 DEF Mode
  <1>4. \A d \in Callers \ {c} : d \in fault => d \in fault'
    OBVIOUS
  <1>5. failed' \subseteq fault'
    <2>1. failed \subseteq fault
      BY DEF Masked
    <2>2. CASE Fail(c)
      <3>1. mode[c] # "first" /\ conn[c] \in broken => c \in fault
        BY <2>2 DEF Masked, Saw
      <3> QED BY <2>1, <2>2, <3>1
    <2>3. CASE ~Fail(c)
      BY <2>1, <2>3
    <2> QED BY <2>2, <2>3
  <1> QED BY <1>1, <1>2, <1>3, <1>4, <1>5, MaskedLeave

(* Every step keeps stale connections from being reported.                 *)
LEMMA MaskedStep ==
    ASSUME OwnInv, Masked, [Next]_vars
    PROVE  Masked'
  <1>1. CASE UNCHANGED vars \/ CloseSemaphore
    BY <1>1 DEF vars, CloseSemaphore, Masked, Saw, Open, Idle
  <1>2. ASSUME NEW k \in Conns, Break(k) PROVE Masked'
    <2>1. Open' = Open /\ broken' \subseteq Open'
      BY <1>2 DEF Break, Open, Idle, Masked
    <2>2. \A c \in Callers : Saw(c)'
      BY <1>2 DEF Break, Masked, Saw
    <2>3. failed' \subseteq fault'
      BY <1>2 DEF Break, Masked
    <2> QED BY <2>1, <2>2, <2>3 DEF Masked
  <1>3. CASE ClearOpen \/ Drain
    <2>1. Close(Idle) /\ UNCHANGED <<pc, mode, conn, failed, fault>>
      BY <1>3 DEF ClearOpen, Drain, Clear
    <2>2. broken' \subseteq Open'
      BY <2>1 DEF Masked, Close, Open
    <2>3. \A c \in Callers : Saw(c)'
      BY <2>1 DEF Masked, Saw, Close
    <2> QED BY <2>1, <2>2, <2>3 DEF Masked
  <1>4. ASSUME NEW c \in Callers, Push(c) PROVE Masked'
    <2>1. conn[c] \in Conns /\ conn[c] # NoConn
      BY <1>4 DEF OwnInv, TypeOK, Holding, Push
    <2>2. Idle' = Idle \cup {conn[c]}
      <3>1. idle \in Seq(Conns) /\ idle' = Append(idle, conn[c])
        BY <1>4 DEF OwnInv, TypeOK, Push
      <3>2. /\ Len(idle) \in Nat /\ Len(idle') = Len(idle) + 1
            /\ idle'[Len(idle) + 1] = conn[c]
            /\ \A i \in 1..Len(idle) : idle'[i] = idle[i]
        BY <2>1, <3>1
      <3> QED BY <3>2 DEF Idle
    <2>3. \A d \in Callers : conn'[d] = IF d = c THEN NoConn ELSE conn[d]
      BY <1>4 DEF OwnInv, TypeOK, Push, Disown
    <2>4. broken' \subseteq Open'
      BY <1>4, <2>2, <2>3 DEF Masked, Open, Push
    <2>5. ASSUME NEW d \in Callers PROVE Saw(d)'
      BY <1>4, <2>3 DEF OwnInv, TypeOK, Masked, Saw, Push, Return
    <2> QED BY <1>4, <2>4, <2>5 DEF Masked, Push, Return
  <1> QED BY <1>1, <1>2, <1>3, <1>4, MaskedAcquire, MaskedRelease DEF Next, Progress, Cancel

(* A stale connection of the queue is never reported to a caller, for any  *)
(* number of callers and any limit.                                        *)
THEOREM RetryCorrect == Spec => []RetryMasksStale
  <1>1. OwnInv /\ Masked /\ [Next]_vars => (OwnInv /\ Masked)'
    BY OwnStep, MaskedStep
  <1>2. Init => Masked
    BY DEF Init, Masked, Saw
  <1>3. Masked => BreakSeen /\ RetryMasksStale
    BY DEF Masked, Saw, BreakSeen, RetryMasksStale
  <1> QED BY <1>1, <1>2, <1>3, OwnInit, PTL DEF Spec
=============================================================================
