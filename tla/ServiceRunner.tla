---------------------------- MODULE ServiceRunner ----------------------------
(***************************************************************************)
(* The end of the server: BackgroundServiceRunner and RunnerHandle::stop   *)
(* (background_service.rs), the services' reaction to the cancellation     *)
(* token (sync/*.rs, http/event_api/message_broadcast.rs), and the last    *)
(* part of start_server (main.rs), which closes the connection pools that  *)
(* nobody else holds.                                                      *)
(***************************************************************************)
EXTENDS Integers

CONSTANT N      \* number of upsd namespaces

ASSUME RunnerAssumption == N \in Nat

Namespaces == 1..N

(* In the order of add_service: the description sync, which holds the      *)
(* ServerState; the message broadcast, which holds neither state; and two  *)
(* services per namespace, which hold its UpsdState.                       *)
Services == 1..(2 + 2 * N)

DescriptionSync == 1

Of(n) == {2 * n + 1, 2 * n + 2}

(* Services that spawn tasks of their own, in a JoinSet, each with a clone *)
(* of the pool of namespace n: the device sync of n (load_device_entry)    *)
(* and the description sync (load_descs).                                  *)
Spawns(s, n) == s \in {DescriptionSync, 2 * n + 1}

(* waiting   in a select! that also awaits the token                       *)
(* busy      in code that does not look at the token: the body of a        *)
(*           select! arm (DescriptionTask::next), or a blocking name       *)
(*           lookup (lookup_ip)                                            *)
(* marked    abort() was called on its handle; it takes effect at the next *)
(*           await, in the thread that runs the task                       *)
(* done      run() returned                                                *)
(* dropped   aborted at an await                                           *)
TaskState == {"waiting", "busy", "marked", "done", "dropped"}

VARIABLES
    task,       \* the spawned task of each service
    children,   \* <<s, n>>: s has tasks in its JoinSet that use the pool of n
    orphans,    \* the same, aborted and not yet at an await
    cancelled,  \* the CancellationToken
    expired,    \* wait_timeout has passed since stop() was polled
    stop,       \* RunnerHandle::stop: not called, awaiting, or how it ended
    socket,     \* an authenticated websocket session is open: it holds the state
    state,      \* the ServerState: shared, taken by start_server, or given up
    pool        \* the pool of each namespace: open, closed, or left to the exit

vars == <<task, children, orphans, cancelled, expired, stop, socket, state, pool>>

Init ==
    /\ task = [s \in Services |-> "waiting"]
    /\ children = {} /\ orphans = {}
    /\ cancelled = FALSE
    /\ expired = FALSE
    /\ stop = "none"
    /\ socket = FALSE
    /\ state = "shared"
    /\ pool = [n \in Namespaces |-> "open"]

(* A tick, an event or the end of a child: select! picks any arm that is   *)
(* ready, so this can happen even with the token cancelled.                *)
Work(s) ==
    /\ task[s] = "waiting"
    /\ task' = [task EXCEPT ![s] = "busy"]
    /\ UNCHANGED <<children, orphans, cancelled, expired, stop, socket, state, pool>>

ChildrenOf(s) == {c \in children : c[1] = s}

(* JoinSet::spawn, or from_iter.  The next set is filled after all tasks of *)
(* the last one are joined.  A task marked in the middle of its work may    *)
(* still come here (one marked at an await does not, which is not told     *)
(* apart).                                                                 *)
Spawn(s, n) ==
    /\ task[s] \in {"busy", "marked"}
    /\ Spawns(s, n) /\ ChildrenOf(s) = {}
    /\ children' = children \cup {<<s, n>>}
    /\ UNCHANGED <<task, orphans, cancelled, expired, stop, socket, state, pool>>

(* The children have ended and are joined. *)
ChildrenEnd(s, n) ==
    /\ <<s, n>> \in children
    /\ children' = children \ {<<s, n>>}
    /\ UNCHANGED <<task, orphans, cancelled, expired, stop, socket, state, pool>>

(* An aborted task is dropped at its next await, and its pool with it. *)
OrphansEnd(s, n) ==
    /\ <<s, n>> \in orphans
    /\ orphans' = orphans \ {<<s, n>>}
    /\ UNCHANGED <<task, children, cancelled, expired, stop, socket, state, pool>>

(* Faulty variant: the tasks are spawned without a JoinSet. *)
DropChildrenDetached(s) == UNCHANGED <<children, orphans>>

(* The end of a service drops its JoinSet, which aborts the tasks in it.   *)
DropChildren(s) ==
    /\ children' = children \ ChildrenOf(s)
    /\ orphans' = orphans \cup ChildrenOf(s)

(* Back at a select!.  The description sync joins its children in the body *)
(* of an arm, the device sync under a select! with the token.              *)
Yield(s) ==
    /\ task[s] = "busy"
    /\ s = DescriptionSync => ChildrenOf(s) = {}
    /\ task' = [task EXCEPT ![s] = "waiting"]
    /\ UNCHANGED <<children, orphans, cancelled, expired, stop, socket, state, pool>>

(* The await where an abort takes effect. *)
Dropped(s) ==
    /\ task[s] = "marked"
    /\ task' = [task EXCEPT ![s] = "dropped"]
    /\ DropChildren(s)
    /\ UNCHANGED <<cancelled, expired, stop, socket, state, pool>>

(* token.cancelled() is ready: the main loop is left. *)
Leave(s) ==
    /\ task[s] = "waiting"
    /\ cancelled
    /\ task' = [task EXCEPT ![s] = "done"]
    /\ DropChildren(s)
    /\ UNCHANGED <<cancelled, expired, stop, socket, state, pool>>

(* The HTTP server returned; stop() cancels the token and polls the joins. *)
Stop ==
    /\ stop = "none" /\ state = "shared"
    /\ stop' = "joining"
    /\ cancelled' = TRUE
    /\ UNCHANGED <<task, children, orphans, expired, socket, state, pool>>

Expire ==
    /\ stop = "joining"
    /\ ~expired
    /\ expired' = TRUE
    /\ UNCHANGED <<task, children, orphans, cancelled, stop, socket, state, pool>>

Ended(s) == task[s] \in {"done", "dropped"}

Joined ==
    /\ stop = "joining"
    /\ \A s \in Services : Ended(s)
    /\ stop' = "ok"
    /\ UNCHANGED <<task, children, orphans, cancelled, expired, socket, state, pool>>

(* Faulty variant: the joins have no timeout. *)
TimedOutNever == FALSE

(* try_join_all polls the joins in order and returns at the first that     *)
(* timed out, whose task it aborts; the other joins are dropped unpolled.  *)
TimedOut ==
    /\ stop = "joining"
    /\ expired
    /\ \E s \in Services :
          /\ ~Ended(s)
          /\ \A t \in 1..(s - 1) : Ended(t)
          /\ task' = [task EXCEPT ![s] = "marked"]
    /\ stop' = "err"
    /\ UNCHANGED <<children, orphans, cancelled, expired, socket, state, pool>>

(* The HTTP server failed: start_server returns at once. *)
ServeFailed ==
    /\ stop = "none" /\ state = "shared"
    /\ state' = "lost"
    /\ UNCHANGED <<task, children, orphans, cancelled, expired, stop, socket, pool>>

(* The graceful shutdown of the HTTP server does not wait for websockets:  *)
(* an upgraded connection is a task of its own.                            *)
OpenSocket ==
    /\ stop = "none" /\ state = "shared" /\ ~socket
    /\ socket' = TRUE
    /\ UNCHANGED <<task, children, orphans, cancelled, expired, stop, state, pool>>

CloseSocket ==
    /\ socket
    /\ socket' = FALSE
    /\ UNCHANGED <<task, children, orphans, cancelled, expired, stop, state, pool>>

(* Arc::into_inner(server_state) yields the state only to its last holder. *)
TakeState ==
    /\ stop \in {"ok", "err"} /\ state = "shared"
    /\ state' = IF Ended(DescriptionSync) /\ ~socket THEN "taken" ELSE "lost"
    /\ UNCHANGED <<task, children, orphans, cancelled, expired, stop, socket, pool>>

(* The same for the UpsdState of a namespace, in the order of a hash map.  *)
ClosePool(n) ==
    /\ state = "taken" /\ pool[n] = "open"
    /\ pool' = [pool EXCEPT ![n] = IF \A s \in Of(n) : Ended(s) THEN "closed" ELSE "left"]
    /\ UNCHANGED <<task, children, orphans, cancelled, expired, stop, socket, state>>

Finished == state = "lost" \/ (state = "taken" /\ \A n \in Namespaces : pool[n] # "open")

(* main returns and the runtime is shut down. *)
Exited == Finished /\ UNCHANGED vars

Next ==
    \/ \E s \in Services : Work(s) \/ Yield(s) \/ Dropped(s) \/ Leave(s)
    \/ \E s \in Services, n \in Namespaces :
          Spawn(s, n) \/ ChildrenEnd(s, n) \/ OrphansEnd(s, n)
    \/ Stop \/ ServeFailed \/ Expire \/ Joined \/ TimedOut
    \/ OpenSocket \/ CloseSocket
    \/ TakeState \/ (\E n \in Namespaces : ClosePool(n)) \/ Exited

(* Time passes and the main task is polled.  Nothing is assumed of the     *)
(* services and of the websocket: they may stay busy for ever.             *)
Spec ==
    /\ Init /\ [][Next]_vars
    /\ WF_vars(Expire) /\ WF_vars(Joined \/ TimedOut)
    /\ WF_vars(TakeState \/ \E n \in Namespaces : ClosePool(n))

-----------------------------------------------------------------------------
(* A pool is closed after its users: the services of its namespace and the *)
(* description sync have ended, and what they spawned is gone or aborted,  *)
(* although the children hold clones of the pool that Arc::into_inner does *)
(* not count.  And a pool is only left open by a stop() that timed out.    *)
ClosedAfterUsers ==
    \A n \in Namespaces :
        /\ pool[n] = "closed" =>
              /\ \A s \in Of(n) \cup {DescriptionSync} : Ended(s)
              /\ \A s \in Services : <<s, n>> \notin children
        /\ pool[n] = "left" => stop = "err"

(* Shutdown ends even if services hang: once stop() is called, start_server *)
(* comes to its end.                                                       *)
ShutdownEnds == stop = "joining" ~> Finished

(* When stop() is over, every service was aborted or had finished. *)
NoneLeftRunning ==
    stop \in {"ok", "err"} => \A s \in Services : task[s] \in {"marked", "done", "dropped"}
=============================================================================
