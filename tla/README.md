# pypopur: verification project

pypopur talks to a Popur S7 litter box over the local network and over the cloud, and ships a
Home Assistant integration. This directory holds TLA+ models of it, what TLC checks about them
and what TLAPS proves. Paths below are relative to the repository root.

## The system

The package is `src/pypopur`; `custom_components/popur` is the Home Assistant integration on top.

| component | state | operations | hard part |
|---|---|---|---|
| `PopurClient` (`client.py`) | `_connected`, lifecycle lock, mutation lock | connect, close, refresh, settings setters | read-modify-write of packed datapoints, close against running operations |
| `FallbackTransport` (`transport.py`) | backoff instant, active channel | connect, close, read with gap filling, write | a failure of one task closes the primary of all |
| `LocalTuyaTransport` (`local.py`) | `_device`, negotiated version, `_last_dps`, pending read | connect (probing versions), close, read, write | asyncio lock, worker thread and reader-thread callbacks at once |
| LAN session (`sdk/lan_session.py`) | `connecting_gw`, `live_gw`, callbacks | add_dev, delete_dev, online/offline, send | maps changed by every thread, no lock |
| LAN sockets (`sdk/lan_socket.py`) | `_links`, per link flags and session key | open, negotiate, read loop, heartbeat, close | three kinds of threads per device, stale upcalls |
| LAN control (`sdk/lan_control.py`) | command caches | query, publish | error mapping over three channels |
| command pipeline (`pipeline.py`, `sdk/comm_pipeline.py`, `sdk/low_power.py`) | watchdogs, wake tasks, callbacks | send, release | late answers after a hand-over, dropped callbacks |
| MQTT (`sdk/mqtt_client.py`, `sdk/mqtt_session.py`) | connection, pending packet ids, subscriptions | connect, publish, subscribe, close, reconnect | reader of an old connection, packet-id wrap, a single reconnect |
| ingest (`sdk/mqtt_framing.py`, `sdk/dedup.py`, `sdk/device_cache.py`, `events.py`) | device beans, seen messages | decode, suppress duplicates, merge | duplicates, damage and reordering |
| discovery (`discovery.py`, `sdk/discovery.py`) | seen devices, addresses | announcements, port scan | address changes and conflicts |
| app layer (`app/*.py`) | device record, cleaning progress, cached state, listeners | update, command, listen | overlapping updates, stale caches, listeners that come and go |
| coordinator (`custom_components/popur/coordinator.py`) | snapshot, primary, cloud shadow | refresh, push, rediscovery | refresh against push, swap of the primary under way |
| codecs and framing (`codec.py`, `dps.py`, `sdk/*_framing.py`) | none | encode, decode, change one setting | bit masks, signed and clamped bytes, unknown values |
| account (`mobile.py`, `sdk/atop.py`, `cloud.py`) | session, host, clock offset | login, logout, requests with one retry | attributes shared by every task, read before an await and used after it |
| cryptography, validation | none | functions | out of reach of TLC |

Calls go down from the coordinator through client, fallback and local transport to the session
and its sockets. Answers come back as upcalls on socket threads, into maps and caches the asyncio
tasks read. `PROJECT.json` lists the components with their status, and the places where this can
go wrong (`hazards`), each with the properties that would notice.

## Modules

| module | models |
|---|---|
| `LanLink` | one device's LAN session: `connect`/`close` with version probing, the two gateway maps, link objects, reader, negotiator and heartbeat threads, faults of the device |
| `MCLanLink` | instance: the real probe list `3.4, 3.5, 3.5.1, 3.3` |
| `LanLinkProofs` | inductive invariant and theorems about `LanLink` |
| `ClientDps` | asyncio tasks of `PopurClient` over `FallbackTransport`, `LocalTuyaTransport` and the cloud, with the settings of the device |
| `MCClientDps` | instance of `ClientDps` |
| `ClientDpsProofs` | inductive invariant and theorems about `ClientDps` |
| `MqttLink` | the push channel: `PopurEvents` over `MqttWireClient` and the subscription table |
| `MCMqttLink` | instance of `MqttLink` |
| `LowPower` | the wake-up manager of sleeping devices, statement by statement |
| `Pipeline` | the command pipeline over LAN, MQTT and HTTP; extends `LowPower` |
| `Command` | what the pipeline promises the caller of `write_dps`: the abstract specification `Pipeline` implements |
| `PipelineProofs` | inductive invariants of `Pipeline` and of `LowPower`, and the proof that `Pipeline` implements `Command` |
| `DpCodec` | the packed settings payloads 102 to 105 as operators on bytes |
| `AppControl` | the app's control manager and its setters; extends `DpCodec` |
| `AppControlProofs` | inductive invariants and theorems about the cache, the listeners, the settings and the payloads of `AppControl`, and the laws of the codecs of `DpCodec` |
| `Repository` | the app's device record, the status report and the cleaning progress |
| `RepositoryProofs` | inductive invariants and theorems about `Repository` |
| `Coordinator` | the Home Assistant coordinator: polls, pushes, cloud tier, rescan, pet records |
| `PushProofs` | inductive invariants and theorems about the two ends of the pushes, `MqttLink` and `Coordinator` |
| `Inbound` | what comes in: duplicate filter, decoders and ingest over MQTT; parsers and reassembly over the LAN |
| `InboundProofs` | inductive invariants and theorems about `Inbound` |
| `Account` | `ThingMobileApi`, `PopurAccount` and the `Business` of the command path |
| `AccountProofs` | inductive invariant and theorems about `Account` |
| `MCLowPower`, `MCPipeline`, `MCAppControl`, `MCRepository`, `MCCoordinator`, `MCInbound`, `MCAccount` | instances for TLC |

### LanLink

A `_Link` object is a slot with the flags the code has (`online`, `closed`), whether it has a
session key, the negotiation response in its queue, and what its device does (`ok`, `silent`,
`gone`). `rd` and `ng` are the positions of its two threads. `cur` is the entry of `_links`,
`connecting` and `live` the entries of the two maps (the version of the bean), `victim` a link
the caller has taken out of `_links` and not yet closed. `pc` is the caller's position: the
transport's lock allows one `connect`, `close` or operation at a time.

Where the code checks something and acts on it later, the model has two actions: the identity
check of a link and its upcall (`NegFinish`/`NegPop`, `ReaderEnds`/`ReaderEvict`,
`HbClose`/`HbEvict`), the two statements of `_on_gw_online_changed(True)`
(`NegPop`/`NegSetLive`), the two lookups of the wait loop (`PollLive`/`PollConnecting`), and the
swap and close of a link (`OpenLink`/`StartReader`, `Unlink`/`Shut`), and the two lookups of
`delete_dev` (`FindLive`/`DeleteDev`), which raises `KeyError` when the bean is evicted in between.

Time is left open: the deadline may pass on every turn of the wait loop, the connecting window
may or may not have passed, and a wait for a response may time out at once. A send on a
connection whose peer is gone may succeed or fail.

### ClientDps

A packed settings datapoint (102, 104, 105) is written whole. Each mutation changes one field of
its own, so a value is the *set of updates it shows*, with `Base` for the fields nobody touches;
`Absent` stands for no value. An asyncio lock is a FIFO queue with its holder first, which is
what `asyncio.Lock` does: a task that finds waiters queues behind them. A task moves between the
points where it awaits; everything between two awaits is one action. `Event.wait` in `read_dps`
and `write_dps` blocks the loop: `loop` names the task, and no other task moves meanwhile, while
the reader thread (`Deliver`) does. `cache` is the settings datapoint in `_last_dps`, `wire` the
frames under way, `session` the combination of `_device` and `live_gw`. A handshake works or
fails here; what it goes through is `LanLink`.

A failure does not tell whether the request had its effect: a LAN write may be reported as failed
after the device took it (`WriteFails`), and a cloud request after the cloud carried it out
(`CloudFails`); the first is then repeated over the cloud. `Replace` stands for the setters that
write a whole payload without the mutation lock; what they write, like a change made in the phone
app, is in `Foreign`.

`fresh` and `failed` are history variables: whether a mutation's read equalled what the device
had, and which tasks have given up on the session that still stands.

The cloud's copy of the settings is taken to be current, and each request either works or fails.
`transport.active` and `last_error` are not modelled: nothing in these components reads them.

### MqttLink

Three kinds of threads run `connect()`: the application's, a reader that lost its link
(`_link_lost`), and whoever asks `is_real_connect()` more than two minutes after the last attempt
(`Probers`). They share `_sock`, `_connected`, `_closing` and `_pending` without a lock, so a
statement that reads or writes one of them is an action, with three exceptions that share one: the
entry of `connect()` (187, 190), the two flags of `close()` (258-259) and the start of reader and
pinger (231-234). A connection carries what the broker
knows of it: whether it is there, has seen CONNECT, which topics it delivers, and the
acknowledgements nobody has read. A reader looks `_sock` up for each read, so it may change from
one connection to the next; `held` is the socket its present read waits on. A read may fail at
any time: sockets keep the timeout they were created with (15 s), which is shorter than the ping
interval (54 s), so even a healthy link may be given up.

`state` is `subscribe_state` (`live` for `True`, `pending` for `False`), `desired` is
`_subscriptions`. `PopurEvents.connect` is called once; `close` is followed by no second
`connect` of the application, so that every later connection is somebody else's.

Left out: publishing and unsubscribing, the contents of messages, the pinger (a failed ping only
ends its own thread), and the wrap of packet ids. The broker grants every topic and ends a
connection on which CONNECT comes twice or a SUBSCRIBE comes first, as MQTT requires.

### LowPower and Pipeline

`LowPower` is the manager without a lock: three dictionaries (`task`, `deadline`, `cbs`) that
callers of `awake`, the timers of wake tasks, MQTT connect events and the transport's close change.
A registration looks the list of callbacks up (`Awake`) and puts its callback on it, or on a new one,
later (`Join`); a list is an object named after its creator. A fan-out copies the callbacks, calls one
(`FanCall`) and removes it (`FanRemove`); when the callback raises or another thread has removed it
already, the rest of the copy is not called (`FanAborts`). A prod may raise on the caller's thread
(`RunRaises`) and on the timer's (`ProdRaises`). `raced` is a history variable: one of the four events
that `OnlyTheRacesLoseWakeups` names has happened. Only `dispatch_result` is one action; the module's
head says why.

`Pipeline` adds the command's own threads: the publishing thread (`pub`), the LAN watchdog, wake-up
results (`woken`) and cloud sends on other threads (`jobs`, counted by what they do next). `env` is
what the gates look at, and may change between a gate and its use; without a cloud backend
(`env.cloud`) the seams of the transport do nothing and never answer (`Nowhere`). `looped` are the
commands of `CloudSend`, whose caller waits for an `asyncio.Event` that other threads set without
waking the loop. `Publish` builds the handler
chain from the mode list, `PublishMode` and `CloudSend` are the other entries. `carried` records
which channels took the command, `got` which results its callback was given before `write_dps`
ended. `Command` has only `state` and `taken` per write; `Abstract` in `Pipeline` is the refinement
mapping. Commands that several channels take are allowed by both: the code does not prevent them.

### DpCodec and AppControl

`DpCodec` has both code paths that change a setting: decode, change a field and encode (`dps.py`),
and the mutators of one byte or bit. Payloads are sequences of bytes with the real offsets and
masks. `AppControl` runs the helper's setters on them: a setter reads the cached or queried payload
and publishes in one step, because nothing in it suspends, and the repository hears of it later.
`want` is what the device should have. `Mutable` and `SettingValues` say which settings a datapoint
has and which values each can take. A change names one of these; neither code path refuses another
one (a clock time of 25:00, say), but it is not read back. `Asked` is the clamp of `set_sleep_time`.

The manager's state is a dict that is replaced by a changed copy, on the SDK's thread by a report
(`Report` reads it, `Merged` puts the copy in place) and on the event loop by a query (`Ask`,
`AskEnds`), so that one of two merges may be undone. `missed` are the datapoints of which the cache
has lost a report in this way, or because no proxy listened. `form` is how the SDK spells packed
payloads: the helper does not decode base64 and starts from an empty payload then. `blind` says that
some setter started from a cache that was known to be behind (`Excused`): it did not have the
datapoint, a report of it was under way or lost, or its spelling is not read.

### Repository

`update_device_dps` is split at its waits: `Begin`, `MergeStep`, `Persist`, `Store`, `Finish`. A
datapoint map is a function over the keys it has; DP101 is packed bytes, a machine status in words,
bytes that are too few, or neither. Updates of two tasks overlap at the waits, restarts reload what
was stored, and time is counted in ticks. A call of the datastore may raise, which the code logs and
forgets (`SaveProgress`): `unsaved` says that the last one did. `alone` and `repaired` say whether
an update ran without another one beside it. `Over(f, g)` is `f` laid over `g`, as `dict.update`
does; `ReplacedKeys` are the keys that a status report stands for and that `apply_to_map` removes.

### Coordinator

A datapoint's value is the number of its changes, so that older and newer can be compared. The
answer to a LAN query has `live`, the cloud has `live` and `setting`. `lan` is `_last_dps` of the
primary: what its queries, its other frames (`LanFrame`) and its writes brought, settings included,
and a LAN read returns all of it, completed by its own answer or by any frame (`channel` tells
which). `FallbackTransport` appears with its backoff and with `active`, which concurrent operations
overwrite and the rescan looks at (its other details are in `ClientDps`). An entry set up without a
local address has no primary and uses the cloud for ever. `host` is where the device is; it may
move, and another device of this make (`stranger`) may take the old address, which the port scan of
`find_lan_hosts` then lists too. `since` marks a push merged after the refresh read the device.
Timers of the pet record fetch of which the handle was overwritten are `orphans`. `CoordinatorSpec`,
`CoordinatorNext` and the like carry the prefix so that `PushProofs` can extend this module beside
`MqttLink`.

### Inbound

A message has a topic, a form, the two numbers of its duplicate key as sequences of digits, so that
keys written without a separator can be equal, a value and a time. `kind` is the device in the
cache, with whether the listener has its local key and what the schema says of the datapoint: a value
that the schema does not call RAW, or that cannot be converted, stays base64 (`DecodeRaw`). Ciphers,
checksums and signatures are whether a copy is whole. On the LAN side one frame is one action, with
what each protocol version does about a frame it cannot decode. The logs of two gateways share one
reassembly buffer, which each link's reader thread reads, extends, takes and empties in steps
(`FragmentArrives`, `FragmentAppended`, `LogTaken`, `LogDelivered`); `crossed` says that two of them
met there and nobody has emptied it alone since.

### Account

A request is sent (`Call` or what follows an earlier answer), carried out, refused or lost by the
server, and handled. It carries the session, the host and the time stamp it was built with, while
other tasks change these attributes. Requests of the `Business` run on worker threads: setting its
clock after a refusal (`SyncBusiness`, `SetClock`) and stamping a request (`StampBusiness`) are steps
of their own, and a worker that meets another one there (`met`) may stamp with half-set numbers or
find the clock running backwards. `Plans` fix which operations each task may call in one
behaviour. `stray`, `unsteady` and `crossed` are history: the host was moved or the session replaced
under a request, the clocks drifted during it, a logout was under way at an adoption.

## Runs

| run | question | result |
|---|---|---|
| `lan_link` | do the threads of two link generations, a device fault and any sequence of calls keep one session, lose no socket, return every call and find out dead sessions? | holds, 388,230 states |
| `client_dps` | are settings safe, mutations serialized, failed sessions closed, a closed client closed, and does every operation end? | holds, 461,785 states |
| `client_lost_update` | is the read of a mutation fresh? | no: `_last_dps` from before an outage is written back |
| `mqtt_link` | is every loss noticed, and does a session that stays up have all subscriptions? | holds, 250,172 states |
| `mqtt_probed` | with a second thread reconnecting, is there always a reader that will notice the end? | holds, 4,490,582 states |
| `wake` | which interleavings forget a callback that waits for a device to wake up? | the four named events only, 330,448 states |
| `pipeline` | does `write_dps` do what `Command` says, does a LAN answer in time end the command, and does every command end? | holds, 518,502 states |
| `control` | does changing one setting keep the others, does the cache follow the device, do listeners stay attached? | holds, 848,332 states |
| `repository` | what do overlapping updates, restarts and pauses do to the stored record and the cleaning progress? | repaired by the next lone update; progress stored unless the save raised, and counted once; 5,153,422 states |
| `coordinator` | does what is shown converge, is the LAN used again after failures and moves, when does the display go back? | holds, 1,758,500 states |
| `inbound` | do the duplicate filter and the shared reassembly lose, repeat or keep damaging messages? | not beyond the named cases, 1,457,861 states |
| `account` | what do lost answers, drifting clocks and crossing logins and logouts do to requests and sessions? | holds, 408,786 states |

Properties, in the terms of the code:

* `NoOrphanLink`, `SingleSession`, `FailureLeavesNoLink`: an open socket is always in somebody's
  hands; `create_connection` is not called while an earlier socket is held open (the device
  accepts one session); a failed `connect` and a `close` leave none. `Held` excludes sockets whose
  own reader is already past its loop and about to close them.
* `CallReturns`, `DeadSessionEvicted`, `SilentLinkClosed`: liveness of the wait loop, of a session
  that was entered in `live_gw` after its link died, and of the heartbeat.
* `UntouchedFieldsSurvive`: no mutation ever writes settings that were not read.
* `CurrentReadLosesNothing`: what the mutation lock guarantees. A mutation whose read was current
  includes every other mutation of the client when it writes. `NoLostUpdate`, which drops the
  premise, is violated (`client_lost_update`): the lock is right, the read may be stale.
* `FailedSessionGone`, `ClosedStaysClosed`, `OperationsEnd`: a failing task closes its session
  before it uses the fallback; when everything has ended a disconnected client has no LAN session,
  although operations that were waiting used the transport after its close; and the three locks
  and the blocking wait never deadlock.
* `LossNoticed`, `SubscriptionsRestored`: liveness of the push channel without probers. The second
  is about `_resubscribe` meeting subscriptions the application makes while the link goes down or
  comes up again: between the lookup of `_connected`, the packet id and the send, the connection
  may be another one. With probers both depend on luck: two overlapping `connect()` calls can leave
  `_sock` on a dead connection while a reader waits on another one that is alive.
* `ConnectedIsWatched`: what remains true with probers. `_link_lost` clears `_connected` even for
  a session that is not its own, which is harsh but leaves no client that believes itself
  connected for ever.

* `OnlyTheRacesLoseWakeups`: a callback that waits is registered and somebody will dispatch, or a
  fan-out is about to reach it, unless two registrations overlapped (`low_power.py:301-306`), the
  deadline was dropped between the statements that set it and run the task (`340`, `353`), a fan-out
  was cut short (`327-329`), or a prod raised on a timer's thread (`347`).
* `ImplementsCommand`: `write_dps` ends once, and well only after some channel took the command.
  `LanInTimeIsAlone`: a LAN answer before the watchdog means no other channel has it, then or
  later. `LanCommandEnds`, `WakeCommandEnds`: the caller gets a result although the LAN path may
  swallow an exception, and although the device sleeps (but for the events above). Both name the case
  in which the code waits for ever: there is no cloud backend, and the LAN has not taken the command.
* `CodecKeepsTheRest`: a change of one setting is read back and changes no other, for both code paths
  on unusual, short and ordinary payloads; a number out of its range becomes the nearest one on one
  path and some number of the range on the other. `SettingsKept`: the same in sequences of setters and
  foreign changes, unless a setter started from a cache known to be behind (`Excused`).
* `CacheCurrent`: when that cannot happen; the cached payload is the device's unless a report is
  under way, came while nothing listened, or was undone by a merge or query that put an older copy in
  place. `ListenersAttached`: the shared SDK listener.
* `LoneUpdateRepairs`: memory, persisted map and record may disagree after overlapping updates, and
  agree again after the next update that ran alone. `ProgressPersisted`, `NoTimeCountedTwice`: the
  cleaning progress across pauses, restarts and saves that raise.
* `Converges`: what is shown becomes what the device and the cloud have, with one exception: a
  setting that was seen over the LAN and then changed behind its back is shown as `_last_dps` has it,
  poll after poll (`Masked`), since LAN reads return all they ever saw and come before the shadow.
  `LanRegained` has two exceptions: an entry without a local address, and (`Hidden`) a device whose old
  address went to another one of its make, earlier in the scan, which ends at the primary's address.
  `OnlyOverlapsGoBack`: a poll that the device itself answered shows an older live value only when a
  push was merged while it was under way; polls completed by another frame return remembered values.
* `NothingLost`, `NoEcho`, `LogsHeal`: their premises name what the code does not promise: damaged
  copies occupy the filter, numbers written without a separator may coincide, a third copy is
  accepted again, logs that overlap damage each other until the next delivery, and readers that meet
  at the buffer until one of them empties it alone.
* `AtMostOnce`, `SteadyClockSuffices`: the one retry for a refused time stamp repeats no effect and
  is enough while the clocks keep their distance, whatever offset other tasks set in between, except
  for a request of the `Business` that met another worker setting its unlocked clock.
  `LiveSessionRefused`, `OnlyCrossingsForget`: the only ways a live session is refused (a login
  attempt moved the host, or the session was replaced under the request) or forgotten (a logout was
  under way). `CallsEnd`: every operation ends.

### Bounds

* `Links = {l1, l2}`: two links with live threads at the same time, so that upcalls of the
  previous link meet the current one; slots are reused, so the number of connections is unbounded.
* `MaxFaults = 1` fault of the device per run; combined with refused connections, timeouts, bad
  responses and failing sends, which are not bounded.
* `lan_link` configures version 3.4, so that liveness is checked in full; the proofs cover every
  probe list, automatic probing included.
* `Tasks`: two, as each race here is between two; three mutations where a lost update needs one
  task to mutate twice. `Updates` are made once each; `refresh` and `close` are unlimited.
* `MqttLink`: two connections and readers, the lost one and its successor (`MaxDials`; with one
  topic, three were checked too), which is where stale readers meet a new session; two topics, so
  that one is subscribed while the other is being restored; `MaxPid` is large enough for every
  SUBSCRIBE. With a prober one topic, as the topics play no part in `ConnectedIsWatched`. The
  system may stop (closed, or not reconnected), so deadlock is not checked.
* `Foreign`: one change made in the phone app or by a whole-payload setter. `MaxWire`: two unread
  frames.
* `wake`: two callers, since each race is between two; one connect event, three results per
  callback. `pipeline`: one command (commands share only the wake-up manager, which `wake` has for
  two), two changes of the environment, lists for every kind of handler.
* `control`: two listeners, three changes of which two are made, one of them clamped, payloads whose
  bytes no decoder knows, both spellings; `CodecKeepsTheRest` is evaluated for every setting, with
  numbers in and out of range. `repository`: three updates by two tasks, three ticks.
* `Budgets` (`coordinator`, `inbound`): a behaviour draws on one budget of events; the set has one
  for each combination that matters (two moves, two changes and a move, overlapping visits, three
  logs' worth of fragments, ...), and polls, retries and timers are unlimited. `Plans` (`account`):
  likewise, pairs of operations, two publishing workers among them.
* Deadlock is not checked where the system may stop: closed transports (`wake`, `pipeline`), used up
  bounds (`control`, `inbound`).

### Fairness

`LanLink`: threads keep running (WF of the caller's, the readers', the negotiators' and the
heartbeat's steps). The deadline is read off the clock on every turn of the wait loop, so it is
strongly fair: a loop that turns for ever passes it. The use of a session (`SendFails`) is weakly
fair because the coordinator polls the device.

`ClientDps`: the reader thread keeps running, and every await ends, by result or by timeout.
Steps of a task are strongly fair: a task that is ready is disabled only while another one blocks
the loop in `Event.wait`, and the event loop runs ready callbacks in order. New calls and faults
have no fairness.

`MqttLink`: threads keep running, and calls end, by an error if need be, as the sockets have
timeouts. A read ends once its connection is gone; that an idle read times out is allowed and not
required, because there may be traffic. Subscribing, closing, asking and faults have no fairness.

`Pipeline`: each command's threads and the manager's fan-outs keep running. MQTT and HTTP give some
answer when there is a cloud backend, because its requests have timeouts and a lost link fails what it
carried; the LAN need not, and the seams of a transport without a cloud never do. Nothing is assumed of
the return of a `CloudSend` (`looped`).
`Coordinator`: the poll and the timers fire, awaits end, the device's reports reach the cloud, and
records land. `Account`: the server answers or the request times out, and answers are handled.
Changes, moves, failures, calls and drifting clocks have none.

## Proofs

Assumptions are those of the modules: the probe list is a nonempty list of distinct known
versions; update names, `Base` and `None` are distinct; the bounds are naturals, those of answers,
copies, fragments and the clock not zero; messages, frames and devices have the fields of `Inbound`
(`InboundShapes`); a change names a setting and a value it can have (`ChangesAssumption`); the spread
count that comes with DP102 is a number (`IncomingAssumption`); the slots for concurrent fetches of
pet records are finitely many. Nothing is assumed about how many links, tasks, callers, messages or
updates there are. TLC evaluates every assumption on the instance it checks.

`LanLinkProofs`: `TypeCorrect`, `NoLinkLost`, `OneSession`, `FailureIsClean`. The three socket
properties are not inductive. The invariant adds where they come from: an offline link is closed or
its reader is about to close it (`OfflineIsClosing`), `victim` is set only between taking a link out
of `_links` and closing it (`VictimIsBrief`), between the swap in `_links` and the start of the
negotiation there is a current link, and at first its reader is new (`NewLinkIsCurrent`), after
`Unlink` no link is current, and outside a call only a connected transport has one (`TornDown`), and
a probe in progress has a version, another starting only while some are left (`Probing`). All thread
steps behind the caller's back are covered by one lemma, `BackgroundIsQuiet`: they open nothing and
leave the caller's variables alone.

`ClientDpsProofs`: `TypeCorrect`, `UnknownNeverWritten`, `SerializedMutations`, `FailuresClose`,
`ClosingIsFinal`.
`IntactType` strengthens the types: settings anywhere (device, cache, wire, a task's copy) are
`Absent` or contain `Base`. `Positions` says what a task's position tells about its operation,
`LocksHeld` which lock it holds there, `MutationQueue` that the mutation queue lists each mutating
task once and that only its head works. From the last one follows that a write of the client
always comes from the only task that holds a copy, which is what `CurrentReadLosesNothing` needs.
Every step of a task is first shown to have an `Effect` (other tasks and their locks are left
alone, the task itself ends in a state that fits), which keeps the invariant. `FailuresClose`
adds that a task that gave up on a session waits at its close. `ClosingIsFinal` rests on the order of
two queues (`ClosingInv`): a close takes the lifecycle lock before it queues for the transport's, and an
operation leaves the first for the second without an await, so a close stands behind every operation
that may still open a session without `connect()`; an operation behind the close only finds no session
and fails. Hence the stronger fact that is proved: an unconnected client never has a live session, not
just when all is quiet. TLC checked `ClosingInv` with three tasks before the proof.

`PushProofs`, the channel: `TypeCorrect`, `AlwaysWatched`. `ConnectedIsWatched` becomes inductive with
`ReadersInOrder`: readers are numbered as they start, so a new one takes no running thread's place.
Every step that leaves the set of watching threads clears the flag first or has just started a
reader. The assumptions are finitely many topics, a positive bound, and probers that are not
readers.

`PushProofs`, the coordinator: `OnlyPushesAreUndone`, `CoordinatorTypes`. `SnapshotInv` says that
whatever is shown, remembered by the LAN transport, kept in the shadow, under way or in the cloud is
no newer than the device, and that what a refresh got as the answer to its own query is no older
than what is shown unless a push came since (`ReadIsNewer`); it survives the shadow laid under it
twice. `FetchInv` counts the pet records' fetches: a visit starts at most one timer, an answer hands
its turn back to a timer after a first attempt only, so timers and fetches together are never more
than the visits (`FewFetches`), although a visit resets the count of attempts while earlier fetches
run and overwritten timers cannot be cancelled. TLC agrees with four visits and three fetches at a
time.

`PipelineProofs`: `Invariance`, `LanInTime`, `Refinement`, `WakeupsAreNotLost`. The invariant says
of every command that one that has tried nothing but the LAN, or that the LAN settled in time, is
unknown to the wake-up manager (`LanOnly`), so that no late result of it can send the command; that
before the watchdog fires such a command has no cloud send (`NoSendYet`) and that the watchdog is
started once (`NotBegun`); what a LAN answer in time leaves behind (`Settled`); and that a success,
and an acknowledgement still to come, have a channel behind them (`OkTaken`). `LowPowerStep` shows
that no step of the manager touches a command it has not heard of. Every other step is shown to move
one command (`Moves`): the others stay apart, the invariant holds for it, and to its caller the step
begins the call, may take the command or ends the call, which are the three actions of `Command`.
`ChainAssumption`, that a handler chain consists of known channels, stands for a fact about
`FlattenSeq` that needs induction; TLC evaluates it for the mode lists of the run. TLC agrees that
`IInv` is an invariant of that instance.

`WakeupsAreNotLost` is about the manager by itself (`LowPowerSpec`). `WakeInv` says that a
registered callback that was not called is on the list (`Listed`), that a fan-out removes only what
it has called (`Called`), that a caller fans out only after its check (`Free`), that the stored task
is that of a caller whose `awake()` is over (`TaskDone`), and, as long as none of the four events
has happened, that a task about to run has its deadline and one that ran its timer (`Timed`). A
waiting callback is then covered by its task, its timer or a fan-out in progress, and each step
hands this on. `LowPowerTypes` and `PipelineTypes` are the types of the two; the second needs that a
wake-up result the pipeline acts on was given by the manager, whose results are bounded.

`AccountProofs`: `AccountInvariant`, `AccountTypes`, `RetriesNeverRepeat`, `OneRetrySuffices`,
`RefusalsHaveAReason`, `ForgottenSessionsAreGone`. The invariant speaks of each request under way, which
was built from attributes that other tasks change in the meantime: only an answer of success, or its
loss, leaves a request that was carried out (`Once`); while the clocks keep their distance a refusal
tells it and the retry has it, at each step on the way there, unless the worker met another one
(`InTime`); a logout is about the adopted session unless one was adopted
meanwhile (`Leaving`); a request went to the host of its session unless it is marked (`Addressed`). The
session and the host of the API itself agree unless a login moved them (`Attached`). Two of the
theorems are action properties.

`RepositoryProofs`: `LoneUpdatesRepair`, `ProgressIsPersisted`, `TimeIsCountedOnce`. `LoneInv`
follows one update through its waits and says how far it has got when nothing else has run (`Far`);
nothing is assumed of the state it starts in, so it covers what overlapping updates leave behind.
`ProgressInv` says that stored and remembered progress agree unless the last save raised, that
metadata without a cleaning is the empty one, and that no cleaning is counted from before it was
seen. `RepositoryTypes` rests on laws about the merges. All of them (the resolver's two, the pending
patch, `apply_to_map`) keep spread counts numbers (`InputsSpread`), and what `update_device_dps`
makes of any input, and of it and the cache, has no key that a report replaces (`NormalizedFits`,
`MergeFits`); so do all maps in memory, under way and stored (`MapsFit`). `TimesInv` has no time
later than now and percentages within 0 to 100.

`InboundProofs`: `NoMessageIsLost`, `EchoesAreSwallowed`, `LogsAreHealed`. `FilterInv` says that
every key of the store comes from a message that has arrived (`Traced`), that a message of which a
readable copy arrived was delivered (`Heard`), and that the store remembers a delivery while its
window is open (`Remembered`), sweeps included. A key is the digits of two numbers one after the
other, so two messages may share one; `Unmistakable` messages are those whose key no other message
has. `LogInv` says what the buffer has while the readers do not meet (`Alone`): everything that
arrived, but for the fragment a reader still holds (`Held`). `InboundTypes`: a value that the schema
calls RAW is in the cache and in events only as hex, whatever damaged or unknown forms arrive, and
without such a schema it is kept as it came; a read that succeeded left datapoints.

`AppControlProofs`: `AcceptedListenersStay`, `CachedIsCurrent`, `OtherSettingsAreKept`,
`ControlTypes`, and about the codecs `EncodeThenDecode`, `MutateChangesOne`. `CacheInv` follows the
reports: the last one of a datapoint on its way has what the device has (`LastReport`), so has the
SDK's bean when none is on its way (`BeanCurrent`), and the copies that a merge (`MergeCurrent`) or
a query (`AskCurrent`) is about to put in place are current but for what has been lost.
`CachedIsCurrent` holds whatever the codecs make of the bytes, since nothing about their results is
used.

The codec theorems are about every payload, short and unusual ones included, not those a run samples.
They rest on what a bit mask does to a byte (`SetBitLaw`), on each setting having a byte or a bit of
its own (`Places`, `OwnByte`) and on one law for a written byte (`WriteLaw`). `EncodeThenDecode`:
exactly the valid settings that were encoded are decoded. `MutateChangesOne`: a mutator changes its
setting to the value asked for and no other one. What both do with numbers out of range is left to the
run (`CodecKeepsTheRest`).

`OtherSettingsAreKept` builds on them. `SettingsInv` says that, until some setter was blind, the
device's payload has its full length and decodes to what was asked for (the clamped value, for
`set_sleep_time`), which is valid. A setter that is not blind read, by `CacheInv`, bytes that
normalize to the device's (`MutateSame`), so its mutator does the same to them; a foreign update
goes through `EncodeThenDecode`, a whole payload through what decoding can yield (`ValidDecode`).
`PayloadInv` in `ControlTypes` is what remains after a blind writer: settings may be lost, but every
payload the device is given, and every one cached, reported or pending, still has its full length
and decodes to valid settings.

Only model-checked: the liveness properties (fairness is beyond the prover), `CodecKeepsTheRest` and
the violation.

## Plan

Done: all modules of the table, with proofs about every one. The safety invariants and action
properties of the passing runs but `CodecKeepsTheRest`, and the type invariant of every module, are
theorems.

Models to add: publish of `MqttWireClient` with results and packet-id wrap; `DevTransfer` for several
gateways with the address-conflict eviction; cancellation of tasks.

## Not modelled

Cryptography, hex and JSON helpers (byte-level functions; callers see them succeed or fail); request
signing and the mapping of HTTP answers to records; thing-model link messages and sub-devices of
gateways (no Popur device has them); UDP announcements (`discover_s7` collects a list during one
call); entity platforms (one attribute or one call each); the config flow; reference data.

Smaller things that the modules leave out:

* `Inbound`: the topic prefixes of binary messages (`mqtt_framing.py:390-402`), which match for the
  topics that are subscribed.
* `AppControl`: a bean without a string id, which merges into the state `unknown`
  (`manager.py:596-602`); the network status, which `register_listener` and reports keep in the same
  state; removals are one step, and the SDK's thread merges one report at a time.
* `Account`: the requests inside a batch, which are stamped before it is sent and not again for its
  retry (`mobile.py:1334`, `1766-1773`); the country selector of `_login_token`.
* `Pipeline`: a transport whose MQTT manager is absent leaves `publish_device` unset
  (`cloud.py:305`), which is taken as the absence of the channel; sends that raise behind a wake-up
  result.
* `Coordinator`: several devices of one entry, which share the loop and nothing else.
