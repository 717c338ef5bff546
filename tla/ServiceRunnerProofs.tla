------------------------- MODULE ServiceRunnerProofs -------------------------
(***************************************************************************)
(* The end of the server for any number of namespaces: whatever hangs, is  *)
(* aborted or is left running, no pool is closed under a task that was not *)
(* told to stop, and none is left open when all services stop in time.     *)
(***************************************************************************)
EXTENDS ServiceRunner, TLAPS

(* The values of the variables. *)
TypeOK ==
    /\ task \in [Services -> TaskState]
    /\ children \subseteq Services \X Namespaces
    /\ orphans \subseteq Services \X Namespaces
    /\ cancelled \in BOOLEAN /\ expired \in BOOLEAN
    /\ stop \in {"none", "joining", "ok", "err"}
    /\ socket \in BOOLEAN
    /\ state \in {"shared", "taken", "lost"}
    /\ pool \in [Namespaces -> {"open", "closed", "left"}]

(* Only living services have children that nobody aborted, and only of the *)
(* namespaces they work for: the JoinSet goes with the service.            *)
Parented ==
    \A s \in Services, n \in Namespaces :
        <<s, n>> \in children => ~Ended(s) /\ Spawns(s, n)

(* start_server has the state to itself only after the description sync,   *)
(* the one service that holds it, has ended; no pool is touched before;    *)
(* and stop() only succeeds when all services have ended.                  *)
LastHolder ==
    /\ state = "taken" => Ended(DescriptionSync) /\ stop \in {"ok", "err"}
    /\ state # "taken" => \A n \in Namespaces : pool[n] = "open"
    /\ stop = "ok" => \A s \in Services : Ended(s)

RunnerInv == TypeOK /\ Parented /\ LastHolder /\ ClosedAfterUsers

-----------------------------------------------------------------------------
(* The services of a namespace, and the description sync, are services.    *)
LEMMA OfServices == \A n \in Namespaces : Of(n) \cup {DescriptionSync} \subseteq Services
  BY RunnerAssumption DEF Of, DescriptionSync, Services, Namespaces

LEMMA InitRunner == Init => RunnerInv
  BY OfServices DEF Init, RunnerInv, TypeOK, Parented, LastHolder, ClosedAfterUsers, TaskState

LEMMA TypeStep == TypeOK /\ [Next]_vars => TypeOK'
  <1> SUFFICES ASSUME TypeOK, [Next]_vars PROVE TypeOK'
    OBVIOUS
  <1> USE DEF TypeOK, TaskState
  <1>1. ASSUME NEW s \in Services, Work(s) \/ Yield(s) \/ Dropped(s) \/ Leave(s) PROVE TypeOK'
    <2>1. PICK v \in TaskState : task' = [task EXCEPT ![s] = v]
      BY <1>1 DEF Work, Yield, Dropped, Leave
    <2>2. /\ children' \subseteq children
          /\ orphans' \subseteq orphans \cup children
      BY <1>1 DEF Work, Yield, Dropped, Leave, DropChildren, ChildrenOf
    <2> QED
      BY <1>1, <2>1, <2>2 DEF Work, Yield, Dropped, Leave
  <1>2. ASSUME NEW s \in Services, NEW n \in Namespaces,
               Spawn(s, n) \/ ChildrenEnd(s, n) \/ OrphansEnd(s, n)
        PROVE  TypeOK'
    BY <1>2 DEF Spawn, ChildrenEnd, OrphansEnd
  <1>3. CASE Stop \/ ServeFailed \/ Expire \/ Joined
    BY <1>3 DEF Stop, ServeFailed, Expire, Joined
  <1>4. CASE TimedOut
    <2>1. PICK s \in Services, v \in TaskState : task' = [task EXCEPT ![s] = v]
      BY <1>4 DEF TimedOut
    <2> QED
      BY <1>4, <2>1 DEF TimedOut
  <1>5. CASE OpenSocket \/ CloseSocket \/ TakeState
    BY <1>5 DEF OpenSocket, CloseSocket, TakeState
  <1>6. ASSUME NEW n \in Namespaces, ClosePool(n) PROVE TypeOK'
    BY <1>6 DEF ClosePool
  <1>7. CASE UNCHANGED vars
    BY <1>7 DEF vars
  <1> QED
    BY <1>1, <1>2, <1>3, <1>4, <1>5, <1>6, <1>7 DEF Next, Exited

(* A task that has ended stays so: nothing starts a service again.         *)
LEMMA EndedForGood ==
    ASSUME TypeOK, [Next]_vars, NEW s \in Services, Ended(s)
    PROVE  Ended(s)'
  <1> USE DEF TypeOK, Ended
  <1>1. ASSUME NEW t \in Services, Work(t) \/ Yield(t) \/ Dropped(t) \/ Leave(t) PROVE Ended(s)'
    BY <1>1 DEF Work, Yield, Dropped, Leave
  <1>2. CASE TimedOut
    BY <1>2 DEF TimedOut
  <1>3. CASE UNCHANGED task
    BY <1>3
  <1> QED
    BY <1>1, <1>2, <1>3
    DEF Next, Spawn, ChildrenEnd, OrphansEnd, Stop, ServeFailed, Expire, Joined, OpenSocket,
        CloseSocket, TakeState, ClosePool, Exited, vars

(* A service that ends takes its children with it.                         *)
LEMMA ParentedStep == TypeOK /\ Parented /\ [Next]_vars => Parented'
  <1> SUFFICES ASSUME TypeOK, Parented, [Next]_vars,
                      NEW s \in Services, NEW n \in Namespaces, <<s, n>> \in children'
               PROVE  ~Ended(s)' /\ Spawns(s, n)
    BY DEF Parented
  <1>1. CASE \E t \in Services : Dropped(t) \/ Leave(t)
    <2>1. PICK t \in Services : Dropped(t) \/ Leave(t)
      BY <1>1
    <2>2. children' = children \ ChildrenOf(t)
      BY <2>1 DEF Dropped, Leave, DropChildren
    <2>3. <<s, n>> \in children /\ s # t
      BY <2>2 DEF ChildrenOf
    <2>4. task'[s] = task[s]
      BY <2>1, <2>3 DEF Dropped, Leave, TypeOK
    <2> QED
      BY <2>3, <2>4 DEF Parented, Ended
  <1>2. CASE \E t \in Services : Work(t) \/ Yield(t)
    BY <1>2 DEF Work, Yield, Parented, Ended, TypeOK
  <1>3. CASE \E t \in Services, m \in Namespaces : Spawn(t, m)
    BY <1>3 DEF Spawn, Parented, Ended, TypeOK
  <1>4. CASE \E t \in Services, m \in Namespaces : ChildrenEnd(t, m) \/ OrphansEnd(t, m)
    BY <1>4 DEF ChildrenEnd, OrphansEnd, Parented, Ended
  <1>5. CASE TimedOut
    BY <1>5 DEF TimedOut, Parented, Ended, TypeOK
  <1>6. CASE UNCHANGED <<task, children>>
    BY <1>6 DEF Parented, Ended
  <1> QED
    BY <1>1, <1>2, <1>3, <1>4, <1>5, <1>6
    DEF Next, Stop, ServeFailed, Expire, Joined, OpenSocket, CloseSocket, TakeState, ClosePool, Exited, vars

(* The services that may have children for a namespace. *)
LEMMA SpawnersOf ==
    ASSUME NEW n \in Namespaces, NEW s, Spawns(s, n)
    PROVE  s \in Of(n) \cup {DescriptionSync}
  BY DEF Spawns, Of

(* With its services ended, nothing is left that uses a pool. *)
LEMMA NoUser ==
    ASSUME TypeOK, Parented, NEW n \in Namespaces,
           \A s \in Of(n) \cup {DescriptionSync} : Ended(s)
    PROVE  \A s \in Services : <<s, n>> \notin children
  BY SpawnersOf DEF Parented

(* A step that leaves the state and the pools alone. *)
LEMMA RunnerFrame ==
    ASSUME RunnerInv, [Next]_vars, UNCHANGED <<state, pool>>
    PROVE  (LastHolder /\ ClosedAfterUsers)'
  <1>1. TypeOK /\ Parented /\ TypeOK' /\ Parented'
    BY TypeStep, ParentedStep DEF RunnerInv
  <1>2. \A s \in Services : Ended(s) => Ended(s)'
    BY <1>1, EndedForGood
  <1>3. DescriptionSync \in Services
    BY RunnerAssumption DEF DescriptionSync, Services
  <1>4. /\ stop' = stop \/ stop \in {"none", "joining"}
        /\ stop' = "ok" => \A s \in Services : Ended(s)
    BY DEF RunnerInv, LastHolder, Next, Work, Yield, Dropped, Leave, Spawn, ChildrenEnd, OrphansEnd,
           Stop, ServeFailed, Expire, Joined, TimedOut, OpenSocket, CloseSocket, TakeState,
           ClosePool, Exited, vars
  <1>5. LastHolder'
    BY <1>2, <1>3, <1>4 DEF RunnerInv, LastHolder
  <1>6. ASSUME NEW n \in Namespaces, pool'[n] = "closed"
        PROVE  \A s \in Of(n) \cup {DescriptionSync} : Ended(s)'
    BY <1>2, <1>6, OfServices DEF RunnerInv, ClosedAfterUsers
  <1>7. ASSUME NEW n \in Namespaces, pool'[n] = "closed"
        PROVE  \A s \in Services : <<s, n>> \notin children'
    BY <1>1, <1>6, <1>7, SpawnersOf DEF Parented
  <1>8. \A n \in Namespaces : pool'[n] = "left" => stop' = "err"
    BY <1>4 DEF RunnerInv, ClosedAfterUsers
  <1> QED
    BY <1>5, <1>6, <1>7, <1>8 DEF ClosedAfterUsers

LEMMA RunnerStep == RunnerInv /\ [Next]_vars => RunnerInv'
  <1> SUFFICES ASSUME RunnerInv, [Next]_vars PROVE (LastHolder /\ ClosedAfterUsers)'
    BY TypeStep, ParentedStep DEF RunnerInv
  <1>1. CASE ServeFailed
    BY <1>1 DEF ServeFailed, RunnerInv, LastHolder, ClosedAfterUsers, Ended
  <1>2. CASE TakeState
    BY <1>2 DEF TakeState, RunnerInv, LastHolder, ClosedAfterUsers, Ended
  <1>3. ASSUME NEW n \in Namespaces, ClosePool(n) PROVE (LastHolder /\ ClosedAfterUsers)'
    <2>1. /\ state = "taken" /\ task' = task /\ children' = children /\ stop' = stop
          /\ state' = state /\ Ended(DescriptionSync)
          /\ pool' = [pool EXCEPT ![n] = IF \A s \in Of(n) : Ended(s) THEN "closed" ELSE "left"]
      BY <1>3 DEF ClosePool, RunnerInv, LastHolder
    <2>2. LastHolder'
      BY <2>1 DEF RunnerInv, LastHolder, Ended
    <2>3. ASSUME NEW m \in Namespaces, pool'[m] = "closed"
          PROVE  \A s \in Of(m) \cup {DescriptionSync} : Ended(s)
      <3>1. CASE m = n
        BY <2>1, <2>3, <3>1 DEF RunnerInv, TypeOK
      <3>2. CASE m # n
        BY <2>1, <2>3, <3>2 DEF RunnerInv, TypeOK, ClosedAfterUsers
      <3> QED
        BY <3>1, <3>2
    <2>4. ASSUME NEW m \in Namespaces, pool'[m] = "closed"
          PROVE  \A s \in Services : <<s, m>> \notin children
      BY <2>3, <2>4, NoUser DEF RunnerInv
    <2>5. ASSUME NEW m \in Namespaces, pool'[m] = "left"
          PROVE  stop = "err"
      <3>1. CASE m = n
        <4>1. ~\A s \in Of(n) : Ended(s)
          BY <2>1, <2>5, <3>1 DEF RunnerInv, TypeOK
        <4>2. stop # "ok"
          BY <4>1, OfServices DEF RunnerInv, LastHolder
        <4> QED
          BY <2>1, <4>2 DEF RunnerInv, LastHolder
      <3>2. CASE m # n
        BY <2>1, <2>5, <3>2 DEF RunnerInv, TypeOK, ClosedAfterUsers
      <3> QED
        BY <3>1, <3>2
    <2> QED
      BY <2>1, <2>2, <2>3, <2>4, <2>5 DEF ClosedAfterUsers, Ended
  <1>4. CASE UNCHANGED <<state, pool>>
    BY <1>4, RunnerFrame
  <1> QED
    BY <1>1, <1>2, <1>3, <1>4
    DEF Next, Work, Yield, Dropped, Leave, Spawn, ChildrenEnd, OrphansEnd, Stop, Expire, Joined,
        TimedOut, OpenSocket, CloseSocket, Exited, vars

LEMMA RunnerAlways == Spec => []RunnerInv
  BY InitRunner, RunnerStep, PTL DEF Spec

-----------------------------------------------------------------------------
(* Whatever number of namespaces there is and whichever services hang,     *)
(* start_server closes a pool only after its services have ended and their *)
(* children were joined or aborted, and leaves a pool open only when       *)
(* stop() timed out.                                                       *)
THEOREM ClosedCorrect == Spec => []ClosedAfterUsers
  <1>1. RunnerInv => ClosedAfterUsers
    BY DEF RunnerInv
  <1> QED
    BY <1>1, RunnerAlways, PTL
=============================================================================
