# nut_webgui: a TLA+ model

nut_webgui is a web interface for Network UPS Tools.  It keeps, per configured
`upsd` server (a *namespace*), a pool of connections, an in-memory table of the
UPS devices that server has, and background tasks that keep the table up to
date; HTTP handlers read the table and send commands, and websocket clients are
told of every change.  This directory models the server, from the characters of
the protocol to the tasks that keep the table, and checks it with TLC and TLAPS.

## 1. Inventory

| Component | State | Operations | Talks to | What is hard about it |
|---|---|---|---|---|
| Connection pool (`upsmc/internal/item_pool.rs`, `client/client_pool.rs`) | semaphore, queue of idle connections | `get`, `get_checked`, `release`, `into_inner`, `clear`, `close`; pooled call with one retry; `get_client` | every task that asks upsd something | cancellation at any await, stale connections, late answers, retry while the pool is full, close racing release |
| Protocol client (`client/client_base.rs`) | one socket, read buffer | `send_raw`, `send`, `is_open`, `close` | upsd | timeouts in the middle of an answer |
| Device sync (`sync/sync_device.rs`) | - | `next`: list, diff, load, patch or abort | pool, table, events | acts on a diff made earlier; some of several loads fail |
| Status sync (`sync/sync_status.rs`) | time of the last full poll | `status_sync`, `state_sync` | pool, table, events | applies answers to a table that changed meanwhile; publishes after unlock |
| Daemon table (`state.rs`) | devices, daemon status, versions | written by the two syncs | handlers, pages, probes | must be consistent after every critical section |
| Event channel and batch (`event/`) | bounded broadcast queue | `send`, `send_batch`, `subscribe` | description sync, message broadcast | lagging receivers lose events |
| Description sync (`sync/sync_desc.rs`) | shared description cache | `next` on each addition | events, pool, table | reads the table, awaits, writes the cache |
| Message broadcast (`http/event_api/message_broadcast.rs`) | second broadcast queue | `next` | events, websockets | skips work if nobody listens |
| Websocket API (`http/event_api.rs`, `handshake.rs`) | session expiry, cancellation token | handshake, send and receive tasks | message broadcast | two tasks that end each other; events before the subscription |
| Service runner and shutdown (`background_service.rs`, `main.rs`) | join handles, token | `start`, `stop`, close the pools | all services | services that hang, who holds the state last |
| Authenticated client and device commands (`client_auth.rs`, `json_api/route/*`, `hypermedia/route/ups/*`) | - | instcmd, fsd, set variable | pool (`get_client`), table | check-then-act, timeout after the command was sent |
| Users, tokens, sessions, permissions (`auth/`, auth middleware) | user store (fixed), tokens | login, renew, authorise, API keys | HTTP handlers | expiry, renewal, permission subsets |
| UPS status and events (`ups_status.rs`, `ups_event.rs`) | - | status parsing, difference to events | message broadcast | bit arithmetic |
| Probes, daemon state middleware | - | health, readiness | table | agree with the table |
| Configuration layers (`config*`) | - | `layer` | start-up | precedence |
| Lexer, parsers, names, values | - | parsing, escaping | protocol client | text only |
| Pages, routes, browser client, packaging | - | rendering, wiring | - | no state |

What makes the core correct:

- pool: connections within the limit, each in one hand, never carrying somebody
  else's answer; a stale connection is not the caller's problem; every call ends;
- table: online exactly when there is something to show; follows upsd;
- events: a subscriber that applies them knows the table;
- shutdown: ends, and closes nothing that is still used;
- websocket sessions: events in order, a gap only where a receiver was told that
  it lagged, the documented order of frames, both tasks of a session end;
- protocol client: a call returns what upsd answered to it, all of it, or an error;
- device commands: carried out at most once, only if offered and after a login,
  and the response says what happened;
- descriptions: none is forgotten without a reason one can name;
- values: what is read is what is written back, and form and API agree;
- configuration: the documented precedence, and always an upsd to talk to;
- sessions and API keys: a permission that is taken away is gone after a bounded
  time, and a user who keeps coming is not logged out.

## 2. Modules

| Module | Models | Role |
|---|---|---|
| `ConnectionPool` | `item_pool.rs`, `client_pool.rs`, the request part of `client_base.rs` | component |
| `UpsdCall` | what a caller of the protocol client relies on | abstract specification |
| `UpsdSession` | `client_base.rs`, `client_auth.rs`, `client_tls.rs` on one connection | component, implements `UpsdCall` |
| `NutGrammar` | `command.rs`, `parser_utils.rs`, `response/*.rs` on tokens | functions, used by `UpsdSession` |
| `NutText` | `lexer.rs`, `escape.rs`, the name types, on characters | functions |
| `NutValue` | `value.rs`, the two validations of a SET VAR request | functions |
| `DeviceCommand` | the six command routes, `client_auth.rs`, the gate and the time limit | component |
| `DaemonSync` | `sync_device.rs`, `sync_status.rs`, `state.rs`, what `event/` publishes | component, upsd unconstrained |
| `UpsdMirror` | `DaemonSync` and an upsd with a state (external) | composition, liveness |
| `DescriptionSync` | `sync_desc.rs` and the table it reads | component |
| `ClientDiff` | `ClientDiff::diff` and its use in `state_sync` | algorithm on one device |
| `UpsEvents` | `ups_status.rs`, `ups_event.rs` | functions |
| `ConfigLayers` | `config.rs`, `config/*.rs`, `load_configs` | functions |
| `ServiceRunner` | `background_service.rs`, end of `start_server` | component |
| `EventPipeline` | `event/channel.rs`, `message_broadcast.rs`, `event_api.rs`, `handshake.rs` | component |
| `SessionAuth` | `auth/`, the session and API key layers, login, logout and key routes | component |
| `Algorithms` | the functions above, `ClientDiff` and `DescriptionSync`, case by case | instance for TLC |
| `MCDeviceCommand` | the requests of the `commands` run | instance for TLC |
| `*Proofs` | theorems | TLAPS |

Definitions named "Faulty variant" (`GrantTooMany`, `PopPeek`, ...) are plausible
bugs, kept next to the definition they distort.  No specification uses them:
they are there to see each property fail when the code is changed that way.

### ConnectionPool

A caller is a task inside one `AsyncNutClient` call or `get_client`; `pc` says at
which await it is.  `permits` and `waiters` are tokio's semaphore, `idle` is
`InnerPool.items`, `conn` the item a caller owns, `due` the requests written on a
connection and not yet answered, in order.  One action per segment between two
awaits: `Start`, `Grant`/`Refused`, `Pop`/`PopNone`, `ProbeOk`/`ProbeFail`,
`Destroyed`, `InitOk`/`InitFail`, `Answer`/`Fail`, `Dropped`/`Retry`,
`ReleaseCheck`, `Push`, `Discarded`, `EndPrivate`; `CancelWait`, `CancelInside`
and `CancelSent` drop the future at any of them; `Break` is upsd going away;
`ClearOpen`, `CloseSemaphore` and `Drain` are `clear` and `close`.  The fields of
a `PoolGuard` are dropped in declaration order, the permit before the socket, so
`Fail` and `Dropped` are two steps.  `fault` is a history variable: the callers
whose call met a fault that no retry can mask.

Abstracted: what a request says, the framing of its answer, the TCP and TLS
set-up (one step that succeeds or fails).  Identities of closed connections are
used again, which keeps the model finite and loses nothing: a closed connection
has no state.

### UpsdSession, UpsdCall, NutGrammar

`UpsdCall` is what the rest of the program assumes of a call: it hands one
request to upsd and returns what upsd answered to this request, or fails.
`UpsdSession` is one connection used by one call after the other: `Send` writes a
request, `ReadLine` and `ReadItem` are `inner_send_raw` with its framing (ERR,
BEGIN LIST, anything else is one line), `ReadEnd`, `ReadFails` and `Timeout` its
ends, `LinkAfter` what the owner does with the connection then.  A request is
written by `Serialize` and an answer read by `Deserialize`, with a rule per token
as `parse_line!` has; upsd (external) writes its answer from the words it got,
independently of the parsers, and `Cut` may end the connection anywhere, also
inside a line, so that a prefix of a line is read as if it were one.
`OwnWholeAnswer` is the refinement.  `Endless` names the operations for which a
cut is not seen: VER and NETVER are not parsed at all, and the types of GET TYPE
go on to the end of the line.  For these a shorter text may be returned.  A name
that was cut is one that no parser takes.  A prefix of a name may be a name, but
only GET TYPE could be whole with one (a list lacks its END line then), and that
is in `Endless`.
`Understood` is about every answer that came whole, also where the owner gives
the connection up after an error, as that of a private connection does.

### NutText, NutValue, UpsEvents, ConfigLayers

Pure functions.  The lexer and the escaping work on characters, because that is
what their property is about; characters are ASCII, where they are the bytes
that the code works on (`extract_from_token` makes a character of a byte).
Device names in `RequestTokens` have no quotes, backslashes or blanks:
`is_ups_name` admits quotes and backslashes, and `as_escaped_str` then escapes
them in a word that has no quotes around it.  A number is an integer from `-Half` to
`Half - 1` (`Half` stands for 2^63) or a float in thousandths, so that rounding to
two decimals shows and an integer can be out of range.  `AsF64` is `i64 as f64` with
its loss: up to `Exact` (2^53) every integer is an f64, above it only the multiples of
one of the `Steps` are, and the nearest is taken, the even one of two.  Exponents, "inf" and "nan" are not considered.  A status is a
set of flags.  A configuration maps every field to the layer its value is from;
that is all a property of precedence can tell apart.

### DeviceCommand

`pc` walks a handler: `Gate` is `DaemonStateLayer` (JSON API only), `Lookup` the
checks under the read lock, `Acquire` and `AcquireFails` are `get_client`,
`LoggedIn`/`LoginFails`, `CommandEnds` and `LogoutEnds` the lines of
`NutAuthClient`.  `Timeout` is the time limit around all routes and `Disconnect` a
client that hangs up: both drop the handler wherever it waits.  `pending` are the
lines written and not yet read by upsd; they stay when the handler is gone, so
that a command may be carried out after its request has failed.  The table and
the daemon status change in any way at any time (`Synchronise`).  The page's
INSTCMD and both FSD routes look only for the device; upsd is left to refuse an
unknown command.  `seen` is history: whether the table showed the device, and the
thing with it, at some moment of the request, whatever the handler looked at.

### DescriptionSync

`channel` holds the announcements (`DeviceAddition`) the service has not seen;
`Receive` is `DescriptionTask::next` up to its first await, `DescOk` and
`DescFail` the requests of `load_descs`, which run concurrently, `Store` the end
under the write lock.  The table is written meanwhile by whatever the sync tasks
may do: `Announce`, `RemoveUps`, `Refresh` (a full poll that brings other names
and publishes nothing), and `Overrun` stands for other events that push
announcements out.  `excused` is history: the names that were missed and why.

### DaemonSync, UpsdMirror

`dphase` walks `DeviceSyncTask::next` (list, classify under the read lock, load
concurrently, patch or abort under the write lock) and `sphase` walks
`StatusSyncTask` (snapshot, ask concurrently, apply under the write lock,
publish after it).  An entry keeps status, description, and whether its RW
details are loaded.  A task that is cancelled at shutdown is not modelled here
(`ServiceRunner` is about that).  `view` and `vstatus` are what a subscriber
knows that applies every event; for an addition it fetches the entry.
`overtaken` marks the devices that were inserted anew while an older change of
them was not yet published.  A device that answers is taken to report
`ups.status` and never to report NOCOMM in it.

`UpsdMirror` restricts the answers to those of an upsd that can be up or down,
lists devices, and whose devices answer or not; it may change between any two
requests.

### ClientDiff

`attached` and the answer of LIST CLIENT are sequences with repetitions;
`swap_remove` and the fold over the disconnected addresses are taken over as
they are.  `Sync` is the part of `state_sync` under the write lock and `Publish`
the batch that is sent after it; `Load`, the device sync that inserts the entry,
may come between, which `overtaken` notes.  How often an address is in the list
is not kept by the code: a diff looks whether an address occurs at all.

### ServiceRunner

Services in the order of `add_service`, each waiting at a `select!` or busy in
code that does not look at the token; `stop` polls the joins in order
(`try_join_all` does so for up to 30 futures).  The description sync and an
authenticated websocket session hold the `ServerState`, the two services of a
namespace its `UpsdState`; `Arc::into_inner` succeeds only for the last holder.
`children` are the tasks that a service spawned into a `JoinSet`, each with a
clone of the pool that no `Arc` of a state counts: `load_device_entry` of the
device sync and `load_descs` of the description sync.  A service that ends drops
its `JoinSet`, which aborts them; an aborted one is an orphan until its next
await.

### EventPipeline

An event is its number in the order of publication, and its payload one frame:
the `process_*` functions make one frame per device, but a payload is written and
flushed as a whole and its frames are not told apart by any property.  A receiver
of a tokio broadcast channel is a position (`svcPos`, `pos`); one that is further
behind than the capacity jumps to the oldest value left and is told how many it
lost (`svcLost`, `lost`).  `Publish` is `EventChannel::send`; `ServiceRecv`,
`ServiceLag`, `ServiceSend` and `ServiceStop` are the service, where the count of
the receivers and the send are two steps.  `DropState` is the end of the last
`ServerState`, which closes the message channel; only authenticated sessions
hold one.  Per session, `Connect`, `Upgraded` and `Abandoned` are the upgrade,
`LoginOk`, `LoginFails`, `Refused` and `Subscribe` the handshake and what
`handler_with_auth` does after it, `SessionLag`, `SendStart`, `SendDone`,
`SendFails`, `SendClosed`, `SendCancelled` and `Notify` are `socket_send`,
`RecvEnds` and `RecvCancelled` are `socket_recv`, `Join` is the end of `handler`.
`auth` says which of the two handlers is routed; it is chosen at the start.
`Expire` is the moment at which `SessionInfo::is_expired` turns true.  `out` holds
the frames handed to a peer that was still there.  That the process exits, and
with it the tasks of open sessions, is in `ServiceRunner`.

### SessionAuth

A token is a record with the user, the permissions and the two times; the server
keeps none.  A request is one step, because it lasts seconds and a unit of the
clock here is a day; the clock does not go back.  `Accepted` is
`extract_user_session`, `Renewed` is `RenewSessionLayer`, `Operate` a route that
also has `AuthorizeUserLayer`, `Page` one that has not; `/logout` and `/api-keys`
lie outside the renewal and inside `UserAuthLayer`, and `/login` outside both, so
that the session it looks for is never there and every login is carried out.
`Restart` starts the server with another users file and, perhaps, another server
key (without a configured one every start draws its own).  A token that does not
verify is left out: signing and encoding are not modelled.  `held`, `visit`,
`last` and the user of a key are history: when a user last had a permission, when
a browser last came through the renewal layer, and how old the permission of the
last admitted operation was.

### Algorithms

A behaviour picks one case (a text, a number and a range, two statuses, a
configuration, ...) and stays there; or it picks `ClientDiff` or
`DescriptionSync` and takes their steps.  The cases do not interact: one run
covers them because they ask one question, whether a function does what it is
for on every small input.

## 3. Runs

| Run | Bounds | Distinct states | Shows |
|---|---|---|---|
| `pool` | 2 callers, limit 1, 5 connections | 53 thousand | `PoolBound`, `Exclusive`, `NoCrossTalk`, `RetryMasksStale`, `CallTerminates` |
| `session` | all 22 commands, 2 devices, lists of up to 2 items, TLS | 6857 | `Clean`, `Understood`, `AnsweredEnds`, `OwnWholeAnswer` (refinement) |
| `mirror` | 2 devices, 1 status, 1 description | 479 thousand | `OnlineIffDevices`, `PresenceReplay`, `StatusReplay`, `TableConverges`: devices come, go and fail |
| `mirror_one` | 1 device, 2 statuses, 2 descriptions | 35 thousand | `TableConverges`: statuses and descriptions change |
| `runner` | 2 namespaces, 6 services | 66 thousand | `ClosedAfterUsers`, `ShutdownEnds` |
| `events` | 1 session name used again and again, with and without login, capacities 2, 3 events | 82 thousand | `InOrder`, `NoSilentLoss`, `OneLate`, `Protocol`, `Delivered`, `TasksJoin` |
| `auth` | 1 user, 1 permission, 1 browser, 1 program, session 4, renewal 1, key 2, clock up to 7 | 690 thousand | `RevokedInTime`, `KeyInTime`, `StaysLoggedIn` |
| `commands` | 2 requests to any of the six routes, 1 device, 1 thing | 2.3 million, up to symmetry | `AtMostOnce`, `AnswerTells`, `CommandAfterLogin`, `OnlyListed` |
| `algorithms` | see below | 255 thousand | `ReadBack`, `SentInRange`, `RoutesAgree`, `RequestTokens`, `EventsReplay`, `Precedence`, `EnvReachesUpsd`, `ClientsMirrored`, `ClientsReplay`, `AccountedFor`, `EventuallyDescribed` |
| `pool_sockets`, `sync_unloaded`, `runner_abort` | as small as the counterexample allows | | divergences, section 5 |

Why the bounds are enough.  Two callers on one permit are the worst case for
termination, since both retry, and give a holder, a retrying caller and a
waiter; five connections are more than they can have open.  More callers and
larger limits are covered by the theorems.  Two devices give a new one and an
old one, one that loads and one that fails, a removal and an insertion in the
same patch; statuses and descriptions only matter by being equal or different,
and two of each, with NOCOMM, suffice.  Two devices with two statuses each do not
fit a liveness check, hence the two mirror runs, and the theorems for the
invariants.  Two namespaces show that a hung service of one does not keep the
other's pool open.

A session has one call at a time, so its states are the ways one call can go and
what it leaves for the next.  Two items in a list put a line between the first
and the last, and one of the items begins with END.  Two requests for a device
meet only in the table; theorems cover the rest.

`algorithms`: texts of up to 5 characters from six for reported values, of up to
3 for form fields, of up to 4 for escaped values (quote, backslash, blank and a
letter), `Half` 256 so that three digits overflow and a JSON
integer may be a u64 that is no i64, `Exact` 64 so that integers above it are
rounded to multiples of 2 and 4, ranges with whole, fractional and large ends and
with ends that are no numbers; statuses of up to two flags on both sides, because each flag is
treated by itself; one scalar field at a time from each layer with the path of the
file, and one upsd section with another; client
lists of up to three, which hold a repeated address and another one; two devices,
two names and a channel of two for the descriptions, so that a name is shared, a
device goes, and an announcement is pushed out.

Three events on channels of capacity two make both the service and a session lag
and go on.  Sessions meet only in the message channel and in the count of its
receivers; one name that disconnects and connects again brings the count to zero
and back and subscribes to a channel that has been used, which is what a second
session would do to the first.  A clock up to 7 covers the longest life of a
permission in tokens (a session of 4, a key of 2 issued at its end); users,
permissions, browsers and programs do not interact, and the theorems hold for
any number of them.

Runs that say `CHECK_DEADLOCK FALSE` are those whose system may really stop: a
shut-down pipeline with no session left, a clock at its bound, a case that was
looked at.

`commands` uses the symmetry of its requests, which is sound because they are told
apart by nothing but what they ask for, and no property of the run is about
liveness; no other run uses symmetry.  Types are not among the invariants of the runs; each
inductive invariant of section 4 has them as a part.

Fairness.  `pool`: weak fairness of what a started call does by itself,
because the runtime polls every woken task, tokio's semaphore is first-in
first-out, and a request ends by its answer or by the timeout in `send_raw`.
It also assumes that opening a connection ends, for which the code has no
timeout of its own.  `CallTerminates` excludes connections that fail for ever:
the loop of `get_checked` may then go on as long as others queue stale items.
Mirror runs: both tasks run until shutdown and every request ends; a full poll
comes again and again, which `UpsPollInterval::tick` gives by its clock
(strong fairness, because a poll is skipped while no device is active).
`runner`: time passes and the main task is polled; the services may hang.
`events`: woken tasks are polled, a handshake ends by its 30 second timeout, a
write ends because the peer reads or is lost (the code has no timeout for it).
The cancelled branch of `select!` needs strong fairness: it is ready again and
again between payloads and the branch is picked at random.  Nothing makes events
come, peers log in or leave, or tokens expire.
`session`: tasks are polled and upsd answers while it lives; nothing is assumed of
the timeout, so `AnsweredEnds` says that the framing by itself finds the end of
every answer.  `commands` needs none: that a request ends rests on the server's
time limit alone, since a handler may wait for ever for a permit or for a server
that accepts and stays silent.  `algorithms`: the description service runs until shutdown and each of its
requests ends, by an answer or by its timeout.

## 4. Proofs

TLAPS proves, for every value of the constants that the assumptions allow:

- `DaemonSyncProofs`: `TypeCorrect`, `OnlineCorrect`, `PresenceCorrect`,
  `StatusCorrect`: the types and the three invariants of `mirror`.
  `OnlineIffDevices` is not inductive: that a patch leaves the table non-empty
  needs `PatchFits`, which says that what was classified under the read lock is
  still true under the write lock, because only `DeviceSyncTask` adds and
  removes keys.  With it a patch leaves exactly the listed devices
  (`PatchYieldsListed`), and fewer failures than listed devices means that
  there are some.  `TableInv` is the conjunction.  `StatusReplay` needs
  `UnsentShape` on top (at most one unsent change per device, and none while a
  poll runs): `ReplayInv`.
  `MirrorImplements`: every step of `UpsdMirror` is a step of `DaemonSync` or
  none, so that the composition with an upsd that has a state inherits the
  invariants (`MirrorCorrect`); TLC has to check only its liveness.
- `ConnectionPoolProofs`: `TypeCorrect` (no more than `Limit` permits) and
  `ExclusiveCorrect`.  Both need `Holding`: where a caller is determines whether
  it has a permit and a connection.
  The other three invariants of `pool` are proved over
  `OwnInv` (types, `Holding`, `Exclusive`).  `NoCrossTalkCorrect` needs
  `ReadToTheEnd`: what is about to be queued has no answer outstanding, since
  an answer was the only thing in flight when it was read (`Talking`).
  `PoolBoundCorrect` counts: the slots in use follow from where the callers are
  (`UsingMeans`), `Pop` and `Push` move one connection between the two sides of
  the sum, and a connection is opened only when the queue is empty.
  `RetryCorrect` needs `BreakSeen`: a fresh or probed connection is not broken,
  so a second attempt that finds it broken saw it break (`Masked`).
- `SessionAuthProofs`: the types and the three invariants of `auth`, for any users, permissions,
  browsers and programs and any durations with `RenewLen < SessionLen`.
  `RevokedInTime` and `KeyInTime` need `Granted` (what a token grants its user had
  when it was issued or, for a key, less than a session's life before),
  `StaysLoggedIn` needs `VisitFresh` (after the renewal layer a session has more
  than `RenewLen` to go); `AuthInv` is the conjunction.
- `DeviceCommandProofs`: the types and the four invariants of `commands`, for any
  requests, devices and things.  None but the types is inductive: what keeps a command from
  being carried out twice is where the handler is.  `Sound` says so request by
  request: before the login nothing was written (`Unsent`), a line is in flight
  only while the handler waits for it or has gone on to a later one (`AtUser`,
  `AtPass`, `AtCommand`, `OnTheWay`), an OK to the command means it was carried
  out, and what the response says follows from that (`Told`); `Noted` (what the
  table shows while a request is being checked is in `seen`) and `Checked` (what goes on
  to a connection was in it) are what `OnlyListed` needs.  `IInv` is the conjunction.
- `AlgorithmsProofs`, descriptions: `AccountedFor` and `AskedOnce` (at every moment each
  name has at most one pending request, and none has one that was answered, refused or
  described), for any devices, names and capacity.  `AccountedFor` is not preserved by
  `Receive` alone: that nothing in flight is forgotten there needs `Idle` (between
  two announcements the service has nothing in its hands).  `AskedOnce` needs
  `Single` (one request for each name), `Ended` (what was answered or refused is not
  waited for) and `Fresh` (what is in flight has no description).  `DescInv` is the
  conjunction.
- `AlgorithmsProofs`, configuration: `PrecedenceCorrect` and `EnvReachesUpsdCorrect`
  state the two properties of the run.  What they rest on says more: `FieldLayers`
  gives the layer of every field, and `UpsdLayers` the sections, for every command
  line, environment and file, not only the ones the run picks.  `EnvReachesUpsd` says
  that the variables reach their namespace if they give an address or the file has the
  section, and never another one; without either they are lost (section 5).  `ConfigCase` keeps
  what those two lemmas need to know of the case that was picked.
- `ServiceRunnerProofs`: `ClosedCorrect`, for any number of namespaces.
  `ClosedAfterUsers` needs `LastHolder` (`start_server` has the state to itself only
  after the description sync has ended, and no pool is touched before that) and
  `Parented`: a spawned task that was not aborted has a service that has not ended, and
  only the device sync of its namespace or the description sync.  A task that has ended
  stays so (`EndedForGood`), although one that was left running by a failed `stop` may
  go on for ever.  `RunnerInv` is the conjunction.
- `EventPipelineProofs`: the four invariants of `events`, for any sessions,
  capacities and number of events.  `PipeInv` has a part for the message channel,
  `LogInv` (events in order, none that the service has still to send), and for each
  session `ShapeInv` (which tasks exist in which phase), `OrderInv` (the payload
  being written is newer than all that were sent), `LateInv` (no write begins after
  the late one), `FrameInv` (AuthOk before the session goes live, nothing after
  SessionEnded), `KeptInv` (what a receiver took from the channel was sent or
  reported) and `ReachInv` (what the service took since a receiver subscribed is in
  the channel, reported, or about to be sent).  `NoSilentLoss` needs the last two:
  the service looks for receivers before it sends, and one that subscribes in
  between has to be told apart from one that was there.  TLC checks `PipeInv` on the
  instance of `events` and with two sessions, two events and capacities of one.
- `UpsdSessionProofs`: `CleanCorrect`, for any devices, operations and length of lists.
  `Clean` needs `SessionInv`: at most one request is on its way and nothing was on
  the wire before it; what is on the wire in the middle of a call is the rest of one
  answer (`OneAnswer`), in which nothing but the last line is an END LIST (`Framed`),
  so that the framing of `inner_send_raw` reads to its end or the connection is given
  up.  What upsd may answer, whole or cut off, comes in by `AnswerShape` and
  `CutShape`; what the parsers make of the lines does not matter.
- `UpsdSessionProofs`, answers: `OwnWholeAnswerCorrect` is the refinement of `UpsdCall`
  and `UnderstoodCorrect` the action property, for any devices, operations and length
  of lists.  Both rest on `CallInv`: while a call is under way, what it has read and
  what is still on the wire are together an answer to its request (`Heard`), or a part
  of one that ends inside a line (`PartOf`), and a part only once upsd's end is closed.
  TLC checks `CallInv` on the instance of `session`.  What is left is about the
  grammars, command by command.  A line that is read whole yields what upsd put
  into it (`Whole`, `WholeParses`), and one that was cut off is refused, because its
  last token shows the end (`CutParses`).  A list of which the END line was read is
  whole, or one of its lines was cut and is refused (`CutList`).  The three operations
  of `Endless` are the ones of which neither can be said.
- `AlgorithmsProofs`, clients: `ClientsMirroredCorrect` and `ClientsReplayCorrect`, for any
  addresses and lists of any length.  `swap_remove` changes the order, so that the
  argument counts: every round of the fold takes one occurrence of one address away
  (`DetachOne`), and the lists of the disconnected and the connected hold as many of
  an address as one of the two lists has and the other has not.  The result is about
  sets of addresses.  `ClientsReplay` needs `Replays`: what is not published yet would
  complete what the subscriber knows, unless an insertion overtook it.
- `AlgorithmsProofs`, status: `EventsTold` says of any two statuses which words the events
  hold, and `EventsReplayCorrect` that a subscriber gets from one status to the other.
- `AlgorithmsProofs`, requests: `RequestRead` says of a device, a variable and a value of any
  length that the lexer reads six tokens from their SET VAR line and that the last one
  is the value, if the device's name has no quotes, backslashes and blanks; `RequestTokensCorrect` is the property of the run.  The argument follows
  positions: `Encodes` says where each character of the value lies in the escaped text,
  from which the closing quote is the first that is not escaped, and every backslash
  that is taken away is one that was put in.
- `AlgorithmsProofs`, values: `ReadBackCorrect`, `SentInRangeCorrect` and
  `RoutesAgreeCorrect` are the three properties of the run.  They are cases of what is
  proved for any width of i64 and any input: `TextReadBack` (every text upsd may report),
  `NumberInRange` and `NumberTyped` (every i64 and every float, every range whose ends
  have at most two decimals; the first says that the f64 that was compared is still in
  the range, and the number itself if the ends are below `Exact`; the second is about
  numbers and ranges, not options), `FormStricter` (every text typed into the form, every kind
  of variable).  The argument inverts decimal notation: a number has exactly one text
  without superfluous zeros (`CanonicalExists`, `CanonicalUnique`), `DecimalText` writes
  it (`DecimalTextIs`) and `Decimal` reads it.  `IntRead` and `IntKept` say this of
  integers in both directions; for a float `Laid` says where the whole part, the point
  and the decimals lie.  `RoundedIs` bounds what rounding does, from which a number
  between two hundredths stays between them.  `NearestIs` is what is needed of
  `i64 as f64`: it is exact up to `Exact`, and what is beyond stays beyond.

Facts about all rounds of a loop need induction, and the induction theorems of the library
cannot be applied with these provers, because they take an operator.  What can be applied is
`WFMin`: a set of numbers that is not empty has a least element.  The loops are
written as functions of the number of rounds (`IsLoop`, `EachRound` forwards,
`FromTheEnd`, `DownTo` backwards), and a fact is shown of all of them by taking the set of rounds
for which it fails.

Assumptions: `AuthAssumption` (the renewal window is shorter than a session, as 7
and 30 days are; `KeyLen` and the clock's bound are any numbers), `PoolAssumption` (finitely many callers, a positive limit, as
`NonZeroUsize` guarantees) `SyncAssumption` (finitely many devices; NOCOMM
and the markers of the protocol are no values of `ups.status`), `AsksAssumption`
(requests ask for something of their type), `CapacityAssumption` (the channel can
hold an event), `PipelineAssumption`
(both channels can hold something), `SessionAssumption` (the operations are commands of the
protocol, lists have a length), `RunnerAssumption` (a number of namespaces),
`HalfAssumption` (there are integers below zero) and `StepsAssumption` (an f64 is exact
for some of the integers, its distances divide the bound and reach to the end of i64).

Only model-checked: every liveness property (`CallTerminates`, `TableConverges`,
`ShutdownEnds`, `Delivered`, `TasksJoin`, `AnsweredEnds`, `EventuallyDescribed`), since
fairness and ENABLED are out of the prover's reach.  Every invariant that a passing run
checks has a theorem.

tlapm 1.4.5 gives its SMT solver a fact about lengths that is too strong
(`DOMAIN s = 1..n` from `Len(s) = n`, also for what is no sequence).  Every leaf that
the solver proves was therefore checked again with the fact weakened to what is true,
and the proofs are laid out such that all of them still hold; sequences are said to be
sequences where it matters (`IsSeq`).

## 5. Where the code and its documents differ

Each is a run that TLC refutes.

- `pool_sockets`: `max_connection` is documented as the maximum of connections;
  `get_client` and the order in which a guard is dropped allow more sockets.
- `sync_unloaded`: a device whose details could not be loaded is to be NOCOMM; a
  status answer from before the device was removed and listed again overwrites
  that, and neither recheck nor reload follows.
- `runner_abort`: services beyond the first that times out are not aborted.

More show in the model without a run of their own.  `DeviceRemoved` is
documented as "NUT server no longer lists the UPS" (`11_events_api.md`), and
`Abort` reports every device as removed when upsd cannot be reached.
`DeviceStatus` is documented as a change, and `Lost` reports NOCOMM to NOCOMM for
an entry that became NOCOMM while a full poll was under way.  README.md:22 promises
SET VAR from the pages, and the form of a variable offers its options
(`form_rw.html:35`), but one that is a number is refused when it is sent: options are
inferred (`parser_utils.rs:73`), and the form compares them with a text
(`ups/rw.rs:61`).  `RoutesAgree` excepts options for this reason.  CHANGELOG:62 and
README.md:102 say that `NUTWG__UPSD__*` configure the namespace `default`; without the
address, and without a section in the file, they are dropped (`cfg_env.rs:151`) and
the fallback comes without them.  `EnvReachesUpsd` says when they arrive, and demands
nothing in that case.  The JSON route checks the length of a trimmed string and
sends it untrimmed.  A JSON number of 2^63 or more is cast to a negative one
(`value.rs`, From).  A number is compared with
the ends of a range as an f64, so that at 2^53 and above a neighbour of an end
passes.  INSTCMD of the page is
not compared with the commands of the device, that of the API is.  A command whose
request failed or timed out may still be carried out, also after the user tried
again.  Names that come with a full poll, whose request failed or whose
announcement was pushed out have no description until another device with them is
announced.  The limit of a request body is 65556 bytes where its comment says
64 MiB (`http.rs`).

`StatusReplay` excludes `overtaken` devices: a change that is published after
the device was inserted anew leaves a subscriber with a status that is not the
table's until the device changes again.  `ClientsReplay` excludes the same case for
the clients of a device.

## 6. Plan

Done: the pool, the protocol client and its refinement, the two syncs, the mirror
of upsd, the description service, device commands, the client diff, values, lexer,
status and configuration, shutdown, the event pipeline, sessions and keys.
Left, in this order:

1. An abstract pool (a set of at most `Limit` exclusive connections) that
   `ConnectionPool` implements, with a proof.
2. The composition of `DaemonSync` and `DescriptionSync` with a shared table, in
   place of the unconstrained writers of the latter.

## 7. Not modelled

Hypermedia pages, static assets and most routes render the table and hold no
state.  Probes only read the daemon status, whose meaning is `OnlineIffDevices`.
Reverse lookup is a foreign call; that it blocks is part of `ServiceRunner`.
Password hashing, the HMAC of tokens and the users file's syntax are left out, and
so are serde and comparison implementations and the positions in parse errors.
The browser client and the packaging are outside the server.  Opening a TCP
connection and the TLS handshake are one step that succeeds or fails, except that
STARTTLS itself is a call in `UpsdSession`.  A request of a browser is one step in
`SessionAuth`, so that a page answered after a logout, which brings the renewed
cookie back, is not seen there; nor are the normal form of the base path and how
long a name lookup under the write lock stalls its readers.  Time is modelled only by "expired"
steps, except in `SessionAuth`, which has a clock.
