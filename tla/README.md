# Verification of VISION VPN

TLA+ models of the VISION VPN repository, TLC runs on small instances, and
TLAPS proofs for all instances. The reference is the source under `src/`.

## 1. The system

A client (desktop, Android, iOS) opens a WebSocket through Caddy to a **node**.
The node's **gateway** authenticates it, gives it a tunnel address and moves IP
packets between the WebSocket and a TUN device. A managed node polls the
**panel** for the users it may admit, reports how many are online, and reports
what the **activity collector** aggregated. Administrators change clients,
nodes and settings at the panel.

| Component | State it keeps | Operations | Interacts with | What is hard |
|---|---|---|---|---|
| Gateway (`sever/server.py`) | users, peers, peer_writers, connections; per connection: queue, two tasks | handle, replace_users, tun_loop | WSWriter/WSReader, controller, collector, TUN | awaits between check and use, handover, late cleanup, full queues, timeouts |
| WebSocket transport (`sever/webtransport.py`) | pending frames, close task, read buffer | tunnel, write, drain, close, readexactly | gateway, clients | closing while others write; several frames in one message, readers with other limits |
| Controller (`sever/managed.py`) | last_success, the running sync, watchdog | sync_once, run, expire | panel, gateway, collector | lease against slow or failing requests, restarts |
| Activity collector (`sever/activity.py`) | pending rows, address cache, UDP flows, switches | observe, configure, drain, restore | gateway, controller | restored batches, eviction, switches, counters that grow over the panel's cap |
| Panel store and API (`control/`) | SQLite: clients, nodes, assignments, admins, sessions, settings, activity | admin handlers, agent endpoints, subscription | nodes, clients, browsers | check then act over awaits, last owner, address pool, batch transactions |
| Desktop client (`sever/client.py`, `heartbeat.py`) | endpoint list, session | open_session, run | gateway | failover, heartbeat against the 90 s timeout |
| Android service (`SeverVpnService`, `NetworkTracker`, ...) | current session, network, profile, VisionState | start, stop, revoke, reconnect, refresh | gateway, subscription, system callbacks | threads, late callbacks, stop during connect, a service destroyed under its threads |
| iOS tunnel (`PacketTunnelProvider`) | generation, attempt, completion | start, attempt, read, send, stop | gateway, system callbacks | callbacks of old attempts, exactly one completion |

What makes each of them correct, in the order of the plan:

- gateway: one open session per address; an open session rests on the record in
  force and a revocation finds it; an ended session frees its own address and
  only that; slots are not leaked; frames reach the user they were charged to;
  everything that is closed or stalls ends.
- controller: access outlives the panel's word by a bounded time only, and one
  missed sync cuts nobody off.
- collector and panel: observations neither vanish nor count twice.
- panel: unique addresses, at least one owner, sessions only for passwords in
  force, one verdict about a client at every place that asks, rotation that
  nothing under way undoes.
- clients: one transport at a time; nothing of a stopped session or an earlier
  attempt acts any more; a hung network is noticed and everything released.
- framing: batching and coalescing are invisible to the other end.

The hazards behind these statements are listed with their lines in
`PROJECT.json`.

## 2. Modules

| Module | Models | Used by |
|---|---|---|
| `Access` | abstract: the table in force and the sessions that rest on it | `Gateway` implements it, `ManagedNode` is built on it |
| `Gateway` | `Gateway` of server.py, `tunnel` and the closing of `WSWriter` of webtransport.py, the stream of pt_backend.py | `MCGateway`, `GatewayProofs` |
| `GatewayProofs` | inductive invariant, 9 theorems, and that `Gateway` implements `Access` | |
| `FrameStream` | abstract: frames come out whole, once and in order | `Framing` implements it |
| `Framing` | `write`, `drain` of `WSWriter`, `check_message`, `readexactly`, `read_frame`, the limits of the clients' readers | `MCFraming`, `MCEnds`, `TransportProofs` |
| `ManagedNode` | `Controller` of managed.py, `agent_config`, `active_users`; extends `Access` | `MCManagedNode`, `ManagedNodeProofs` |
| `ManagedNodeProofs` | inductive invariant and 6 theorems | |
| `ActivityObserve` | what the collector learns from DNS answers, its UDP flows, its pruning | `MCEnds`, `ActivityProofs` |
| `ActivityReport` | collector's rows, drain and restore, the report in sync_once, `save_activity` | `MCActivityReport`, `ActivityProofs` |
| `ActivityProofs` | two inductive invariants, 4 theorems about the report and the theorem that pruning is unseen | |
| `PanelStaff` | administrators, sessions, API keys, login and its places for password checks, `init` and `reset-admin` | `MCPanelStaff`, `PanelStaffProofs` |
| `LoginThrottle` | the limits on login attempts | `MCPanelStaff`, `PanelStaffProofs` |
| `PanelStaffProofs` | two inductive invariants, 4 theorems about staff and the theorem about the limits | |
| `PanelDevices` | clients, nodes, assignments, expiry, rotation; the subscription and a device that renews through it | `MCPanelDevices`, `PanelDevicesProofs` |
| `PanelDevicesProofs` | inductive invariant and 4 theorems | |
| `ClientSession` | the Linux client: `open_session`, the tasks of `main`, `Heartbeat`, and the node's 90 s | `MCEnds`, `TransportProofs` |
| `TransportProofs` | two inductive invariants; `Framing` implements `FrameStream`, and what a reader refuses; neither end of a session gives the other up | |
| `PacketTunnel` | `PacketTunnelProvider` and its `WebTransport` on iOS | `MCEnds`, `MobileProofs` |
| `AndroidSession` | sessions of `SeverVpnService` with `NetworkTracker` and `WebTransport` on Android | `MCEnds`, `MobileProofs` |
| `MobileProofs` | inductive invariants of both mobile clients and 6 theorems | |
| `ProofLemmas` | induction and parts of sequences, for the proofs | the proof modules of panel, collector and framing |

How they compose. The table of users is the link: `PanelDevices` shows that the
panel makes tables that map addresses one to one, which `Gateway` assumes of
every table; `ManagedNode` carries such tables to the node under a lease;
`Gateway` admits by them; `Access` is the common abstraction of the last two.
`Framing` is what lies between the queue of a `Gateway` connection and a client.
`LoginThrottle` decides which attempts reach `PanelStaff!LoginAdmitted`.
`ActivityObserve` decides to which key an observation of `ActivityReport` goes.

### Gateway

asyncio runs one coroutine at a time, so an action is the code between two
awaits. `phase[c]` names the await at which `handle()` of connection `c` stands:

| phase | await | line of server.py |
|---|---|---|
| `upgrading` | `ws.prepare` in `tunnel()` | webtransport.py:147 |
| `auth` | first frame | 76 |
| `yielding` | `sleep(0)` of the handover | 94 |
| `config` | drain of CONFIG | 103 |
| `serving` | `asyncio.wait` for `transmit` (`tx`) and `receive` (`rx`) | 134 |
| `stopping` | `gather` of the cancelled tasks | 141 |

Authentication, registration and the write of CONFIG are one action
(`Authenticate`) when no one holds the address, and `Handover` followed by
`Resume` when someone does. `Cleanup` is the rest of `finally`. The waiting for
`wait_closed` afterwards changes nothing but the writer, whose closing task is
`SocketShut`. A connection identifier is reused when its run is over; with more
simultaneous connections than identifiers nothing new is modelled, because
`CounterCorrect` is proved for any number.

Approximations, all towards more behaviour: a WebSocket's `handle()` reads the
AUTH frame it was given without suspending, the model lets others run there;
`sleep(0)` yields for one turn of the loop, the model lets any number of steps
happen in it. The counterexamples of the `gw_doc_*` runs need neither. Upstream
packets change no state of the gateway and are no actions. `drain` is one await
for the batch, although it sends several messages.

A *raced* connection was suspended in `sleep(0)` when another one registered for
its address (both are raced), or when a new table changed its record. The code
really breaks there (findings 1 and 2), so the invariants are stated for the
others; `raced` is a history variable and guards nothing.

### ManagedNode

Time is discrete. Timers count down, ages count up to `Horizon`; `Tick` is
blocked while a timer is at zero, which says that asyncio serves what is due.
`sync` is the await of the controller, `PanelReads` the moment the panel
computes the table, `Apply` the moment the node has read and validated it. The
watchdog is independent of the sync. `Stop` stands for a crash and for an
orderly end. The gateway appears as `Access`, whose `Replace` is
`replace_users`. The panel's own record of the node (last_seen, online) is not
modelled.

### ActivityReport

`pending` is the OrderedDict as a sequence of rows. A row's four counters are
one number with one cap, `MaxCount` (1 000 000 and 2^50 at the panel); its times
are ordinals of the key's observations. The collector adds up without a cap, in
`Observe` and in `restore()`; `Invalid` is what makes `save_activity()` raise, a
name it does not take (`Poison`) or a counter above the cap, in a row of a user it
does not skip, and one such row rejects the batch. `wire` holds
reports the panel has not handled, the ones the node has given up included.
`lost` names keys of which the code dropped a row on purpose (eviction, switch
off, restart, user no longer assigned, panel switched off). Clearing the history
and retention at the panel are not modelled.

### Framing

`Write` is a burst of `transmit()` (or one frame under the client's lock),
`Drain` an entry of `drain()` up to the wait in `send_bytes`, `SendDone` the
return from it; the writer coalesces as many frames as fit. A frame is a string
of units, the first of which is the header. `Receive` is one message through
the receiver's checks, `ReadHeader` and `ReadBody` are the two `readexactly` calls
of `read_frame`. `Cut` and `WriterClose` end the stream anywhere.

`reader` is the kind of receiver, fixed for the session. The node and Android take
messages up to 65536 bytes; the Linux client's WebSocket library ends the session
at more than 4615 (`WithinLimit`, client.py:37) before `check_message` is reached;
iOS has the same limit and decodes one frame per message (`OneFrame`,
Wire.swift:26). A refused message (`Refuse`) stays where it is, nothing is read any
more, and `refused` keeps it for the properties. Since `drain()` coalesces up to
65536 bytes for every receiver, the Linux and iOS clients do refuse messages of the
node.

### PanelStaff and LoginThrottle

`LoginAdmitted` is `login()` up to the wait for a place, `WrongPassword` and
`RightPassword` what follows the hash, which runs in a thread. `OwnerAsks` is
the middleware up to the `await` of the body, `Served` and the actions built on
it the rest of the handler. sqlite3 opens a transaction at the first write, so
between the SELECTs of `login()` or `delete_admin()` and their write another
*process* can commit: `between` is a handler standing there, and `CliReset` may
come. `raced` notes that; `SessionsCurrent` and `OwnerRemains` exclude exactly
this case, in which the code leaves a session of a replaced password behind or
removes the owner `reset-admin` has just made. The panel's own loop cannot do
it: there is no await between. API keys have no password and their table is
only written by owners.

`LoginThrottle` keeps ages instead of times; `Attempt` is the code from `now` to
the 429 or the append, without an await.

### PanelDevices

Each handler's work on the database is a step; `ClientSave` may take any value
for `enabled` and the nodes, which stands for an editor opened long ago. The
four secrets of a client (hash and ciphertext of key and link) are numbered by
the rotation that made them. `ActiveUsers`, `HasProfile`/`Endpoints` and
`ClientAuth` are the three queries that decide who is admitted, translated one by
one. `Ask`, `PanelAnswers` and `Receive` are a device's renewal, `Lose` a lost
request or answer.

### ClientSession

`stage` is the await of `open_session` or `main`. `Sent` is the return from
`drain()`, with `packet_sent()` or `ping_sent()` under the lock. The node's side
is reduced to what the timers need: it hears, answers a PING, and gives a
session up after 90 s of silence or for its own reasons. `Hang` is a network
that stops carrying anything without telling anybody. What an event loop and a
working network do promptly is forced before the clock goes on (`Pressing`).

### PacketTunnel

Everything runs on one serial queue; an action is a callback. A callback that
was asked for stays outstanding in `ready`, `receiving`, `settings`, `reads` or
`sending` and may come after its attempt is over, after the next began, or after
`stopTunnel`. `Fail`, `Attempt` and `Current` are the functions of the same
names. `OnError` may report twice for one attempt.

### AndroidSession

Three threads: the service's main thread (`Start`, `Stop`, `Destroy`), the callbacks
of the system (`Choose`, `Count`, `Call`, the three steps of a change, between which
the others run) and the thread of each session (`ThreadStep`), which makes
transport and device before `hold()` puts them into fields. `networkChanged()` reads
`transport` outside the lock and may miss it. An interrupt may be used up by the
HTTP request of the refresh.

`Stop` is `stopNow`, after which the same service may start the next session;
`Destroy` is `onDestroy`, which also closes the tracker and sets `networks` to null
for the threads that still run (`orphans`). Such a thread reads
`networks.generation()` outside its `try` at three places, `AsksTracker`: before
`connect()` (line 94, state `chosen`), after it (99, `failed`) and for the delay
(102, `delay`); the last two are skipped when `networkChanged` is set. There it
either still sees the tracker, since `networks` is a plain field, or dies of a
NullPointerException. No handler is installed, so the process ends (`Dies`): every
running session is `died` and the system closes what it had open; a new process
can start the sessions not yet started. Inside `connect()` the same exception is
caught like any other.

### ActivityObserve

`domains` and `flows` are `ip_domains` and `udp_flows`; an entry carries its time
left, a flow the time since it was seen. `told` and `spoken` are the same tables
without any pruning, history that guards nothing. Of the UDP flows the port is
left out of the key.

## 3. Runs

| Run | Instance | Checks |
|---|---|---|
| `gw_three` | 3 connections, 1 user, 1 address, limit 2, queue 1, revoked and restored; symmetric | OneSession, RegistryAgrees, CounterExact, QueueBounded, SuccessorKeepsAddress |
| `gw_move` | 2 connections, 2 users, 2 addresses; one user moves and the other gets her address, and back | LiveIsEntitled, ChargedToReceiver, ImplementsAccess |
| `gw_live` | 2 connections, queue 1, with fairness | ClosedEnds, HandshakeEnds, FullQueueDrains |
| `node_inv` | 1 user, 3 tables (none, a key, the rotated key), times 12/2/1/1 | RevokedEnds, RulesAge, OneMissTolerated, ChangesArrive |
| `act_report` | 3 keys (ordinary; without a domain and of an unassigned user; rejected), 2 rows, batch 2, 3 observations, counters up to 2, 1 failure, with fairness | OneRowPerKey, NothingVanishes, NoDoubleCount, DisabledHoldsNothing, Reported |
| `panel_staff` | 2 names, 2 browsers, 1 place, 4 passwords, 1 API key; and 3 addresses, limits 2 and 3, table of 2 | SessionsCurrent, OwnerRemains, ThrottleHolds, RemovedByOwner, LoginAnswered |
| `panel_devices` | 2 clients, 2 nodes, 1 device, pool of 2, 1 rotation, expiry before, at and after | AddressesUnique, OneVerdict, RotationFinal, RotationNoticed |
| `ends` | the parts below, each alone | FramesInOrder, FramesArrive (framing); HeardInTime, HangNoticed (Linux); OnePump, OneConnection, CompletedOnce (iOS); NothingLeaks, Released, NetworkFollowed (Android); PruningUnseen (collector) |

Type invariants are proved for every module and therefore not run again.

`ends` and `panel_staff` explore models that share no state in one run: `part`
chooses one in the initial state, only that one moves, and fairness is that of
the part (`Alone`). The state space is the sum, not the product, and each
property is judged on the behaviours of its part; the others stutter.

Bounds.

- Gateway: three connections are the least for a handover race with an old
  session (old, first and second successor); limit 2 makes the limit matter. A
  queue of one place is full at once, which 512 places are not. Two tables and two
  addresses give every kind of change: added, removed, moved, reassigned; a
  rotated key is in `node_inv`.
- ManagedNode: the times 12/2/1/1 are 60/10/5 s in units of 5 s, with the
  watchdog's second rounded up; they satisfy `ManagedAssumption` with the same
  margins (one miss is tolerated, two are not). Ages stop at 16, beyond every
  bound that is checked. `Lease`, `Timeout` and the others are arbitrary in the proofs.
- ActivityReport: `MaxObserved` bounds the observations and `MaxFailures` lost
  messages and restarts; two rows against three keys make eviction and restoring
  into a full collector happen; `MaxCount` below `MaxObserved` makes an ordinary row
  grow over the cap, in the collector or by a restore.
- PanelStaff: two names are two owners who delete each other; one place and two
  browsers make a login wait and hand over; four passwords are two accounts and
  a change of each, or a reset in between. LoginThrottle: window 2 ticks, limits
  below the attempts that fit into it, and one address more than the table keeps.
- PanelDevices: a pool as large as the number of clients, so that it is
  exhausted; the clock passes the only expiry; one rotation separates old from
  new, and a second would not make an older copy older.
- Framing: four frames of 1 to 3 units, messages of 5, bursts of 3: single
  frames, full messages, remainders and several messages per drain occur. Three
  readers: limit 5 (the node's own, Android), limit 3, which is the longest frame
  (Linux), and limit 3 with one frame per message (iOS).
- ClientSession: 2 endpoints; ticks of 5 s, Silence 18 (90 s), CONFIG 2 (10 s), idle
  7 and probe 13, the longest values the heartbeat draws (35 s, 65 s): shorter
  ones leave more room before the silence limit.
- PacketTunnel: 2 endpoints, 2 starts, 3 generations before no more reconnection
  is begun: a late callback of the attempt before the last is possible.
- AndroidSession: one session and two networks. Sessions share no resources, only
  the `service` field, the tracker, whose steps are the same with more of them, and
  the process; that the thread of an old session ends a new one with it is beyond
  this instance and covered by the proofs.
- ActivityObserve: limit 2 against 3 addresses; TTLs below the least and above
  the longest; flows are new after 1 and forgotten after 2 ticks, as 60 and 120 s.

The runs that find a violation show disagreements between code and documents:

| Run | What it shows |
|---|---|
| `gw_doc_one` | two handovers overlap in `sleep(0)`: two open sessions of one profile (PROTOCOL.md:66) |
| `gw_doc_revoked` | revoked during `sleep(0)`: the session is registered afterwards and stays (RELEASE_0.4.md:17) |
| `act_doc_domains` | one rejected row keeps the other rows of its batches from the panel (CONTROL_RELEASE_NOTES.md:8) |
| `ws_doc_message` | `drain()` puts two frames into a message longer than the 4615 bytes of PROTOCOL.md:37, which the Linux and iOS clients keep as their limit; iOS takes one frame only |

Further disagreements seen while modelling, not given a run of their own:

- `docs/ACCEPTANCE.md:21` says the second device of a profile is rejected and the
  first one kept; `handle()` closes the first (`Handover`).
- `docs/RELEASE_0.4.md:19` gives access a lease of 60 s; it starts when an answer is
  applied, which may be a request timeout after the panel computed it, and the
  watchdog looks once a second. `RulesAgeBound` is the exact statement.
- `CONTROL_RELEASE_NOTES.md:10` promises the time of the first access; `restore()`
  gives a row its last_seen as first_seen (`Restored`).
- `CONTROL_RELEASE_NOTES.md:37` promises not to store destinations without a domain;
  rows pending when the switch goes off are still reported, and
  `save_activity()` does not look at the switch (`Configure`, `Handle`).
- `SeverVpnService.java:116` comments that a revocation must never fall through to
  the cached credentials. A session that got 410 sleeps 15 s and asks again;
  if the panel does not answer then, it goes on with the cached profile
  (`Refresh` allows both; the node refuses the credentials).
- `SeverVpnService.java:62`: a service that is destroyed while the thread of its
  closed session runs may take the application down with a NullPointerException at
  lines 94, 99 or 102, where `docs/ACCEPTANCE.md:22` expects of STOP and of a revoked
  permission that sockets and descriptors are released and the status is that of the
  system (`Dies`; released they are).

## 4. Fairness

`gw_live`: weak fairness of every step asyncio takes by itself: a coroutine
that is ready is resumed, and an await with a timeout ends by its result or by
the timeout (10 s for AUTH, CONFIG, drains and a PONG's place; 2 s for the
close). No fairness of clients, of new connections, of PINGs or of packets.
`ReceiveEnds` (90 s of silence) is not needed and not assumed.

`act_report`: the controller's loop goes on (`run` catches what `sync_once`
raises), and the panel handles what reaches it. Losses are possible up to
`MaxFailures` and never required. The exception in `Reported` is needed:
`act_doc_domains` shows what a rejected row does, and a row that has grown over the
cap does the same.

`panel_staff`: a password check in its thread returns, and a handler past its
SELECT finishes, which has no await. Nothing of browsers, bodies or the shell.

`panel_devices`: a device asks again (its loop), weakly fair; that the panel
answers and an answer arrives is strongly fair, because requests may be lost
and only infinitely many of them cannot all be.

`ends`: framing, the event loops run and an open transport drains (`Carry`); the
Linux client, each attempt ends by its limit, each task of the loop gets its
turn and the clock goes on, but packets and the network are free; iOS, a timer
that is due and a scheduled attempt run on the queue, callbacks of the system
need never come; Android, threads run, waits of an attempt have limits, and the
system finishes a callback it began. A tunnel that breaks down is never assumed.
`Released` lets a closed session end in order or with the process: which of the two
is the choice of a data race, and fairness does not decide it. `FramesArrive` excepts
a session whose client refused a message beyond its own limit.

## 5. Proofs

All theorems hold for every value of the constants that satisfies the named
assumptions of the module.

`GatewayProofs`. The safety invariants are not inductive. What is missing is
what `handle()` knows while suspended: `PhaseOK` says which of its variables
are set at each await, `WindowOK` that while a connection is in the window of
the handover only raced sessions can be open at its address and that its record
is still in force unless it is raced. `IInv` is these two with `TypeOK`,
`RegistryAgrees` and `LiveIsEntitled`; `Invariance` is `Spec => []IInv`, from
`GatewayAssumption` (addresses are unique in a table, limits are positive, the
null values are none of the others). `OneSession` follows, since two open
sessions of one address would both be in `peer_writers`. `ChargedToReceiver`
needs one more step over `IInv` with facts about concatenation and
subsequences. `CounterExact` is an induction over the set of running
connections with the library's cardinality facts.

The refinement, in the same module. `IInv` makes every session of the mapping
rest on the record in force, so the mapped state depends only on the table and
on who holds an open, unraced session (`Mapped`). A step then is a replacement
of the table, an opening, a dropping of sessions or a stutter of `Access`;
several sessions ended at once are one step there. `QueueBounded` is inductive
with the types.

`ManagedNodeProofs`. `NodeInv` adds to the types three clocks: `SyncClock`
bounds the age of the last success plus the time left of the current await by
the requests made since; `LeaseClock` bounds age plus the watchdog's remaining
sleep; `SnapshotClock` bounds the age of the rules by that of the success plus
a timeout. `NodeFollows` relates the node's table to the panel's. The only
assumption on the constants that matters is `4 * Timeout + 2 * PollGap < Lease`
(50 < 60): without it one slow failed sync would cut everybody off.

`PanelStaffProofs`. `LineWaits`: who is in line waits, and stands there once.
`SlotsCounted`: free places and requests that hash are always
`Slots` together, so no place is lost and none is made; it needs the library's
cardinality facts. `Counted`: passwords in use are at most the last one set, so a
new one is none of them. `SeenHolds`: what a handler saw before its write still
holds while it stands there, unless a reset was committed. From these
`SessionsCurrent`, `OwnerRemains` and `RemovedByOwner`.

The same module proves `ThrottleHolds` from `ThrottleInv`. A limit on what was
let through is not inductive, because the code counts in its deques and not in
the history. `AllRecent`: the attempts let through in the window are the last
entries of `global_attempts`, with their ages. `Remembered`: those of one
address have each a place of their own in the deque of the address, an
injection, so that they are no more than the deque is long. `InWindow` keeps the
history in order, and with it the purge, which stops at the first entry that is
not expired, drops none of them. Nothing is said of the addresses once their
table was emptied: the code then forgets them, and only the global limit is
left.

`PanelDevicesProofs`. The address of a new client is the least free one, which
exists because the naturals are well founded. `SecretsTogether`: the four
secrets of a client are of one rotation; with it the three queries agree.
`CopiesOld`: a copy, and an answer under way to it, knows the rotation it was born
with and no later one; so rotation is final.

`MobileProofs`, iOS. `CallersMade`: what may still call back belongs to an
attempt that was made. `OneCourse`: a running tunnel is in an attempt, which has
the current generation, or waits for one retry. `HandlerOnce`: the handler is
kept or has been called, which gives `NotTwice`, the safety half of `CompletedOnce`.
`OnePump` needs two more invariants. `Bounded`
counts the generations each start uses, so that the model's finite
`Generations` never runs out. `Pumps`: an attempt that is not configured has no
loop, and settings that are still awaited are not in force.

`MobileProofs`, Android. `HeldWhileOpen`: what is open is in the session's
fields, from which `close()` and the `finally` block take it, or it is a device
`establish()` has returned and `hold()` has not seen yet. With it `NothingLeaks`
is inductive, also over the end of the process, which leaves nothing open.
`NoChangeMissed` is the safety half of `NetworkFollowed`: an open
transport over a network that is not the chosen one is known to be. `InForce`
says that the session the callback finds is the only running one not closed, and
`NoticedOf` how far the news is: not counted yet, counted, or told. That the
thread then gives the transport up is liveness and stays with TLC.

`TransportProofs`, Linux client. `Deadlines`: a packet moves the idle deadline
by the interval at most, and never the probe's own. `Prompt` bounds the age of
the lock's holder and of every frame under way. From these, `NodeClock` and
`ClientClock`: how long an end has heard nothing, plus the time until it hears
again, stays below `Silence`; `ConfigClock` does the same before `CONFIG`.
`PromptAssumption` says how prompt a working network has to be: 65 s for a probe
that is put off, two drains and the way there and back together take less than
90 s. A drain may take up to 10 s in the code, so two drains near that limit
leave the network 5 s: the theorem does not claim more than this.

`TransportProofs`, framing. `FramingInv` follows the bytes through four places:
what the reader holds, the messages under way, what is pending, the frames read.
A `Chain` is a sequence of units, each the successor of the one before, that
begins with a header and ends with a frame; `HeldWhole`, `MessagesWhole` and
`Pending` say that the places hold chains and that each begins with the frame
the one before it ends with. Chains can be joined and cut at headers, so no byte
offset is ever counted from the start of the stream. `FramingAssumption` says that
a frame fits into a message and into what any reader takes. The part `Refusal` of
the invariant says what was refused; it gives `RefusalsExplained`, for every
reader: only a message of several frames, within the writer's limit and beyond the
reader's own, is ever refused. `NeverRefused` is the case of a reader that takes what the
writer makes, the node's and Android's. `BatchingInvisible` is the refinement of
`FrameStream`, whichever reader there is. `RefusesOnlyBeyond` is proved only; the
runs check the liveness beside it (`FramesArrive`) and the disagreement
(`MessageIsOneFrame`).

`ActivityProofs`, report. `ReportInv` is a balance: for a key that was not given
up, what was observed is what the collector, the part of the batch the panel has
not got, and the panel hold together, and at most that when an answer was lost
after its report was saved. A balance needs to know that nothing is held twice:
`Tidy` and `BatchTidy` (one row per key, times in order), `OneReport` (one
batch; its request is the last on the wire until it is answered, and no other is
waited for) and `GivenUp` (rows of a request that timed out are back in the
collector or lost). The steps that matter are `observe` with eviction, and
`restore()`, a loop that merges each row of the batch and may evict others; what
the loop has done is shown for every number of rows it has taken. `NothingLost`,
`CountedOnce`, `Tidiness` and `EmptiedWhenDisabled` follow.

`ActivityProofs`, observation. `DomainsTold` and `FlowsSpoken`: the tables
differ from the same tables without pruning only by what has expired, was
displaced, or was silent for more than a minute. `AddressesLimited` counts them.

Loops and induction. A loop of the code (`restore`, `check_message`, the purge
of a deque) is a recursive function, a `CHOOSE` or a set of offsets in the
models. Its existence and what it computes are shown with `UpTo` of
`ProofLemmas`: a set that has 0 and, with each number below n, the next one, has
all numbers up to n. `UpTo` itself comes from the least element of a set of
naturals.

Only model-checked is liveness, which is beyond the prover, as is ENABLED:
LoginAnswered, RotationNoticed, HangNoticed, FramesArrive, the second half of
CompletedOnce, Released, NetworkFollowed, Reported, and ClosedEnds, HandshakeEnds
and FullQueueDrains of `gw_live`. Every invariant and every action property
of the runs that pass is proved.

## 6. Not modelled

- The bytes of IP packets and DNS messages (`wire.py`'s packet checks, `parse_dns`)
  and the order of names in them: parsing of bounded inputs, covered by tests.
- Of the panel: routing and DNS rules, engine policies, settings, telemetry,
  retention, backups, the making of `master.key`, and the page. They are single
  transactions on one table without a protocol, or pure I/O.
- Android: profiles on disk, external engines, `RoutePlanner` (arithmetic on
  32-bit networks, outside TLC's bounds), what the user is shown, and the
  administration shell. iOS: the application, the heartbeat and frame contents.
- Desktop: reading the profile, the TUN device, `wait_closed()` at the end of `main`.
- The SOCKS messages of the obfs4 adapter (one handshake here); the external
  obfs4 and WireGuard programs, TLS and Caddy; packaging, deployment, tools.

What would come next: the status shown by the Android service; routing
intervals against a reference definition on short addresses; the history of
the panel and its retention.
