# remoteServer in TLA+

remoteServer is a rendezvous and relay server for telnet sessions. Devices
(type 1) and remote clients (type 2) connect over TCP, each sends one login
package with its type and an id, and a device and a client with the same id are
*bound*: from then on the server copies what either sends to the other, until
one of them goes. The program is a single-threaded libevent 2.1.11 loop of
about 2200 lines of C++.

This directory holds TLA+ specifications of the server, TLC configurations that
model-check them, and TLAPS proofs of their main properties.

## 1. Inventory

### Components

| Component | Source | State | Operations |
|---|---|---|---|
| `Session` | `session.{h,cpp}` | `m_state` (Raw, Login, Bind, Die), `m_inactive`, `m_timeouts`, `m_meetee[0]` (own bufferevent and card), `m_meetee[1]` (the peer's) | constructor, destructor, `login`, `match`/`match_done`, `business`, `inactive` |
| `TcpContainer` | `container.{h,cpp}` | `m_bsMap` (bufferevent → session), `m_fsMap` (descriptor → session), the heap of sessions | `insert`, `find`, `getPeer`, `match`, `removeSession`, `loadConfigFile`, `loop` |
| `TcpServer` | `tcpserver.{h,cpp}`, `server.{h,cpp}` | the listener, the event base, the timers of the bufferevents | `listen`, callbacks `listener_cb`, `conn_readcb`, `conn_eventcb`; `processMessage` (throttle) |
| `TcpServerMsgHandler` | `tcpmsghandler.{h,cpp}` | none | `processMessage`: read, then login, match and reply, or relay, or drop |
| `Configure` | `configure.{h,cpp}` | the cached object `m_cfg`, its map and members, `m_confFilePath` | `readConfigFile(path)`, `readConfigFile()`, conversions |
| `main` | `test-http-libevent.cpp` | – | `readRunArg`, start-up, `while (1)` |
| `ConnectionManager` | `connectmanager.{h,cpp}` | `_request_per_second`, `_cur_time`, `_connections`, statistics | `requestInc` on every read; most others have no callers |
| `TimeoutServer` | `timeoutserver.{h,cpp}` | a 5 s timer | never added by `main`: dead code |
| `LocalLog`, `Threadable` | `locallog.*`, `threadable.*` | a log file; nothing | output; only `milliSleep` is called |
| libevent | `libevent/` | vendored headers and binaries | external |

### How they interact

libevent calls one callback at a time. `listener_cb` makes a bufferevent (a
socket, an output buffer, a read and a write timer), a `Session` in state Raw,
and an entry for both in the container's maps, and writes the configured host
name. `conn_readcb` hands the bufferevent through `TcpServer::processMessage` to
`TcpServerMsgHandler::processMessage`, which finds the session and acts on its
state: Raw data is a login attempt, followed at once by one attempt to match;
Bind data is written to the peer's bufferevent; Login data is dropped.
`conn_eventcb` reacts to the end of a connection and to timers that expire, and
removes a session *together with its peer* when a connection is over. Sessions
refer to each other only by the raw pointer to the peer's bufferevent, resolved
through `m_bsMap`.

### What is hard

- **Lifetime.** One callback frees two bufferevents and two sessions while the
  maps, the peer's pointer and the kernel's descriptors still name them;
  addresses and descriptors are reused at once.
- **Ordering.** Logins, data, hang-ups and timeouts of all connections
  interleave freely. `match` is tried once per login and never again.
- **Timeouts.** Idle time is counted in steps of 40 s on a counter that read and
  write timers share, a pair closes only if both ends are idle, and only data
  on a bound connection clears the counter.
- **Streams.** TCP cuts what is sent into reads as it likes; output waits in
  buffers while the connection it came from may already be closing; a login
  package must be recognised among arbitrary bytes.
- **Failure.** Remote ends vanish without closing; a failed allocation breaks
  the event loop, or makes a `bufferevent_write` fail, which is only logged; the
  clock is set; a missing configuration file leaves the process half started.

The hazards, each at its line and with the properties that would catch it, are
in `PROJECT.json`.

### What makes each component correct

- *Session*: a card exactly when logged in, a peer exactly when bound, the idle
  count never more than the idle time (but for one step).
- *TcpContainer*: the maps are exactly the live sessions; removal leaves nothing
  behind and touches nobody but the pair.
- *TcpServer and handler*: pairs are mutual and for life; nobody is missed;
  nobody is sent what a stranger said; what the peer says comes in order and
  none twice, and without a gap unless memory runs out; closed and abandoned
  connections go.
- *Login*: exactly the package at the first sync word of a read is accepted, and
  no byte is looked at that was not received.
- *ConnectionManager*: while the clock shows one second no more requests get
  through than the limit and the sleeps allow, and nobody is delayed without a
  cause.
- *Configure, main*: the server serves what the file says, or not at all.

## 2. Modules

| Module | Models | Abstracts |
|---|---|---|
| `Session` | the methods of `Session` as operators from the record before to the record after the call | the login package to "a valid card" or nothing |
| `TcpContainer` (extends `Session`) | the two maps, the heap, the live bufferevents with their descriptors, all that was written to each | pointers to addresses in `Bev`; a session is named by its `m_sid` |
| `TcpServer` (extends `TcpContainer`) | the callbacks, one action per callback and branch; the far ends of the connections | time: a timer may expire whenever the connection is open |
| `Rendezvous` | the abstract service: guests arrive, wait or are coupled, speak, leave | everything else |
| `IdleTimeout` (extends `Session`) | the same sessions against a clock and libevent's timers | maps, descriptors, data |
| `Relay` | the bytes of a device and a client with the same id: the wire, input and output buffers, reads of at most `MaxRead` into `data[BufSize]`, writes that fail, far ends that stall, close or reset, the loss of buffers when a pair is removed | a login package to one unit, sessions to their state, time |
| `Duplex` | the abstract conversation: what is said after the match is heard in order until it is cut; only a shortage of memory takes a piece of limited length away, or keeps an end from being told | everything else |
| `Admission` | the abstract admission: of the reads a raw session is asked with, the first that bears a card logs it in | how a card is found |
| `LoginPackage` | `strnstr` and `login` step by step on the bytes of a read, `calloc` failing or not | a field of the package to one unit |
| `ConnectionManager` | the request count, the two limits and the sleep of `processMessage`, on a clock that may be set | what the requests are |
| `Startup` | `main`, `loadConfigFile`, `listen`, `Configure` | texts to a small set with their `atoi` value; two keys stand for all |
| `MC…` | instances for TLC | |
| `Session_proofs`, `TcpServer_proofs`, `TcpServer_refinement`, `IdleTimeout_proofs`, `Relay_proofs`, `LoginPackage_proofs`, `ConnectionManager_proofs`, `Startup_proofs` | theorems | |

Correspondence of the main actions with the code:

| Action of `TcpServer` | Code |
|---|---|
| `listener_cb`, `listener_cb_fails` | `listener_cb`; the branch in which `bufferevent_socket_new` fails and breaks the loop |
| `Login` | a read event in SStateRaw with a valid package: `login`, `match`, both `match_done`, both writes of `TELPROXY_OK` |
| `Discard` | a read event in SStateRaw without one, or in SStateLogin |
| `Business` | a read event in SStateBind: `business` |
| `Hangup` | `conn_eventcb` with EOF or ERROR: `removeSession` |
| `Timeout` | `conn_eventcb` with TIMEOUT: `inactive(40)`, the peer's `inactive(0)`, `removeSession` or re-arm |
| `RemoteCloses`, `RemoteFallsSilent` | the environment |

| Action of `Relay` | Code |
|---|---|
| `ReadLogin` | a read event in SStateRaw with a login package in what `bufferevent_read` returns: `login`, `match`, `TELPROXY_OK` to both, either of which may fail; the rest of the read is dropped |
| `ReadAndDrop` | a read event in SStateRaw without one, or in SStateLogin |
| `ReadAndRelay` | a read event in SStateBind: `business`, whose write succeeds or fails (`Without`) |
| `Hangup`, `Timeout` | `conn_eventcb` and `removeSession` of the session and its peer, with their buffers |
| `Flush` | libevent's write callback |
| `Send`, `Receive`, `Fail` | the environment |

| Action of `LoginPackage` | Code |
|---|---|
| `Read` | `bufferevent_read` and the early returns of `login` and `strnstr` |
| `Strnstr` | one turn of the loop of `strnstr` |
| `Check`, `Store` | the rest of `login`: the tests on the package, `setUserData` |
| `Return` | `processMessage` returns after a refusal; nothing is kept |

| Action of `ConnectionManager` | Code |
|---|---|
| `Request` | `TcpServer::processMessage` with `requestInc` and `milliSleep(10)` |
| `Accept`, `Close` | `listener_cb`, `removeSession`: neither touches the counters |
| `Tick`, `SetClock` | 10 ms pass; the system clock is set |

| Action of `Startup` | Code |
|---|---|
| `ReadRunArg` | `readRunArg` |
| `OpenConfigFile`, `ReadLine`, `CloseConfigFile` | `loadConfigFile` and `readConfigFile(path)`: up to the loop, one turn of it, and after it |
| `Listen`, `Dispatch` | `startServers`, `TcpServer::listen`; `event_base_dispatch` |
| `Accept`, `Loopbreak` | `listener_cb`, which reads the cached configuration; its failure |
| `EditFile` | the environment |

How the modules fit together: `TcpServer` composes `Session` and `TcpContainer`
and has every order of callbacks, but no time and no bytes. `IdleTimeout` takes
the same `Session` operators and adds time, `Relay` looks at one pair and adds
bytes and buffers, `LoginPackage` opens up the one step that `TcpServer` and
`Relay` have as "a valid package". `Rendezvous` and `Duplex` say what the service
is worth to its users: `TcpServer` implements the one, `Relay` the other.
`Admission` says what that valid package is worth: `LoginPackage` implements it.

Notes on the abstraction:

- An action is a whole callback, because there is one thread; `m_mut` is never
  contended.
- `bsMap[b] = NULL` and `fsMap[f] = NULL` mean that the map has no such key. A
  peer pointer that has no entry makes `getPeer` return NULL, as in the code,
  and `removeSession` frees it then, as in the code; that neither happens is
  part of what is checked.
- libevent finalises a freed bufferevent later in the same loop iteration; the
  model frees it at once, which only makes more addresses available for reuse.
- Throttling (10 ms of sleep) delays callbacks and changes nothing that the other
  modules hold; `ConnectionManager` is therefore a module of its own.
- In `Relay` a far end that has closed receives no more; one that only shuts down
  its sending side looks the same to the server, which removes the pair.
- A removed bufferevent leaves to the kernel what the kernel had taken. If there
  was unread data on its socket the kernel answers with a reset, which may
  overtake what is in flight: `Remove` allows both.
- In `Relay` a `bufferevent_write` fails when there is no memory for a larger
  buffer: it then writes nothing, the code logs it and goes on. That may happen
  to each of the two first writes of the host name, to either `TELPROXY_OK` and
  to every chunk that `business` passes on. `greeting` is what the server did
  write to an end of its own, `kept` what an end has sent without the chunks that
  were lost so, `shortages` in how many callbacks it happened. The host name and
  `TELPROXY_OK` are two writes (`Host # Ok`), each one unit of the stream.
- `Relay` has no clock: `Timeout` may come at any moment. When it can come is the
  subject of `IdleTimeout`.
- `TcpServer` has no failing writes: `output` is what `bufferevent_write` was
  called with, and `StreamShape` says what the server tries to send to whom.
- `insert` has a branch for a bufferevent that is in the map already, after which
  `listener_cb` deletes the new session. It is not modelled: `HeapConsistent` says
  that the keys are the live bufferevents, and the address of a live one is not
  given to another.
- `remote`, `idle`, `since`, `loaded`, `granted`, `sent`, `received`, `dropped`,
  `greeting`, `kept`, `shortages`, `touched`, `starved`, `recent`, `shown`, `elapsed`
  and `behind` are history or environment, not state of the program.
- libevent's timers, as `IdleTimeout` has them: data re-arms the read timer, the
  write timer runs only while a write is pending, a timeout callback re-arms
  both (`events | BEV_EVENT_READING` is always true), and re-arming an event
  whose timeout is already queued takes it off the queue. A small libevent
  program with the vendored 2.1.11 library behaves this way.

## 3. Runs

| Run | Instance | Shows |
|---|---|---|
| `safety` | 4 accepts on 3 addresses and 3 descriptors, 2 ids, 3 writes per connection | type correctness, `HeapConsistent`, `FdIndex`, `PairsAreMutual`, `NoMissedMatch`, `StreamShape`, `CleanSlate`, `PairForLife`, `ServiceSpec` (refinement of `Rendezvous`) |
| `liveness` | 3 accepts on 2 addresses, 1 id, no symmetry | `ClosedIsRemoved`, `SilentIsReaped` |
| `idle_bounds` | 2 connections, interval 2, timeouts 3, 4 and 6 | `ReapedInTime`, `NoEarlyClose` |
| `login_30s` | 1 connection, units of 10 s, login timeout 5, interval 4 | **violated**: `AnonymousFor30s` |
| `relay_stream` | 3 units sent by one end and 2 by the other, reads of up to 2, a window of 1, writes that fail in one callback | `NothingStranded`, `InOrder`, `NothingLost`, `NothingDroppedOnceTold`, `ConversationSpec` (refinement of `Duplex`) |
| `relay_delivery` | 2 units sent by each end, writes that fail in one callback | `Delivered`: all that a bound end sends arrives, unless the write that passes it on fails, the pair is removed or the receiver stops |
| `relay_tail` | the same | **violated**: `RelayedArrives` |
| `login_search` | reads of up to 8 units, packages of 6, the sync word 2 2 1 | `ReadsInside`, `Decided`, `Answered`, `AdmissionSpec` (refinement of `Admission`) |
| `throttle_rate` | `max_qps` 3, 3 slots to a second, 5 seconds, the clock set twice, an `int` of -6 to 5 | `NoEarlyOverflow`, `RateBounded`, `DelayedForCause` |
| `throttle_sleep` | the defaults: `max_qps` 100, 100 slots to a second | **violated**: `SleepsThenBusy` |
| `startup` | files of up to 2 lines over 2 keys, 3 texts, malformed lines, files that cannot be opened or read | `ServesAsConfigured`, `OneConfiguration`, `StartsServing` |
| `missing_config` | files of up to 1 line | **violated**: `MissingFileExits` |

### Bounds, and why they are enough

- `MaxSid` (connections accepted in a behaviour) exceeds the number of addresses
  and descriptors, so that both are reused while old pointers could still be
  around; four sessions allow two pairs one after the other, or a pair and two
  who wait, with ids that differ or agree.
- `MaxOutput = 3` is the host name, `TELPROXY_OK` and one relayed chunk: a
  second chunk is like the first. The bound is a guard of `Business`.
- `MaxInactive` lets the idle count reach every timeout of the instance; beyond
  its timeout a count only matters for a bound end whose peer is alive.
- `MaxSince` bounds the time since `m_inactive` was last set to 0. It is the largest
  idle time that `ReapedInTime` allows, and `NoEarlyClose` only compares `since` with
  less. The timeouts 3 and 4 lie on either side of a multiple of the interval, so
  that rounding shows.
- `MaxLines = 2` is the least with a key set twice.
- `MaxSent` of 3 is a login package and two bytes behind it, the least in which a
  gap can show between two relayed bytes; the other end sends 2. A window of 1
  makes every write a partial one, and reads of 1 or 2 split or join what was
  sent in every way. `MaxShortages = 1` lets writes fail in one callback, any one:
  what a second failure does, the proofs have. `relay_stream` leaves out the far
  end that is "stalled", because nothing forces a far end to receive there: one
  that stops for good is one that has not received yet. `relay_delivery` and
  `relay_tail` have it, and one unit behind the login, and login packages for all
  units, to keep liveness affordable: once a pair is bound they are data like any
  other.
- `MaxLen = 8` leaves room for two bytes in front of a package of 6 or behind it;
  the sync word 2 2 1 starts with its own first byte, so that false starts
  happen, and its bytes are also types, so that sync words overlap fields.
- `MaxTime`, `MaxOpen`, `MaxRecent` and `MaxSets` bound the clock, the connections,
  the requests in what the clock shows as one second and how often the clock is
  set: within them the count passes the limit several times over, and the clock
  goes back, catches up, and goes back again, to another second or within one. 3 slots stand for the 100 of a
  second, and `Half = 6` for the 2^31 at which an unsigned count, compared as an
  `int`, turns negative: on a clock set back the count gets there in the run.
- Symmetry is used in `safety`, which checks no liveness, on addresses and ids,
  which are compared for equality alone. Descriptors are ordered (accept returns the
  lowest) and not symmetric.
- Deadlock is not checked in the runs of `TcpServer`, `Startup`, `Relay`,
  `LoginPackage` and `ConnectionManager`: a model that has used up its accepts,
  units or seconds stops, and so do a server whose loop was broken and a login
  that has succeeded.

### Fairness

`FairSpec` of `TcpServer` is weakly fair only to the event loop: a connection
whose far end has closed is reported (`Hangup`), and a timer of a connection on
which nothing arrives any more expires (`Timeout`). Both are what libevent's
dispatch guarantees while the loop runs; the liveness properties therefore end
with "or the loop was broken" (`~dispatching`). Nothing is assumed of remote
ends: they need not talk, close, log in or be matched. `FairSpec` of `Startup`
says that the one thread proceeds. `Relay` assumes weak fairness of the event
loop (it reads what there is, writes what it can, reports an end in order) and of
the network to a far end that receives; `Timeout`, `Send` and `Fail` are not fair.
`LoginPackage` assumes that the one thread runs a callback to its end.

### Findings

1. **Login timeout** (`login_30s`). `configure.h:12` announces 30 s for
   `SERVER_LOGIN_TIMEOUT`, whose value is 50, and the 40 s granularity of the
   idle count makes it 80.
2. **Missing configuration file** (`missing_config`). `container.cpp:21` says
   "load Config File failed, exit", but the branch cannot be reached:
   `readConfigFile(path)` returns the defaults. As the path is not stored,
   `listen` then fails, the dispatch loop returns for lack of events, and `main`
   spins in `while (1)`, at full load and without a listener.
3. **The tail of a conversation** (`relay_tail`). When a device answers and hangs
   up, `removeSession` deletes the client's session too, whose destructor frees
   the client's bufferevent with all output that the kernel has not taken. The
   log has said "send message to peer,ret=0" of these bytes (tcpmsghandler.cpp:74).
4. **The sleep of a busy server** (`throttle_sleep`). `configure.h:22` says "sleep
   200ms, then busy" of `SERVER_SLEEP_MILL`. The setting is read (`m_sleepMill`,
   configure.cpp:38) and never used: a request beyond `max_qps` sleeps for the 10 ms
   that `tcpserver.cpp:249` has in it, and is then served; nobody is ever told that
   the server is busy. The "100qps" of `configure.h:18` is therefore no limit either:
   99 requests go undelayed and one more follows every 10 ms.

Behaviour that the models contain and no run calls wrong, but a maintainer should
know of:

- `strnstr` returns NULL if the first byte is 0, although it is given a length: a
  package behind a NUL is refused. `Decided` names this exception (`data[1] = NUL`),
  and says that there is no other.
- A path that can be opened but not read, such as a directory, keeps
  `readConfigFile` in its loop for ever, because only `eof()` ends it (`ReadLine`
  with `Unreadable`). `StartsServing` therefore speaks of readable files.
- `max_connect` never takes effect: the counter it is compared with is not
  incremented by anybody. `DelayedForCause` says so for every limit above 0.
- `max_qps` refuses nothing. Beyond it a request costs 10 ms of sleep, for all
  connections; `RateBounded` is what that achieves: while the clock shows one
  second, `max_qps - 1` requests and one more for each 10 ms of that time. It says
  nothing for the 100 requests and the 200 ms of `configure.h` (finding 4).
- A `bufferevent_write` that fails is logged and otherwise ignored: `business`
  returns -1 to `processMessage`, which drops it (tcpmsghandler.cpp:73), and the pair
  goes on with a gap in the stream that neither end learns of. An end whose
  `TELPROXY_OK` fails is bound without being told; one whose host name fails starts
  with `TELPROXY_OK`.
- A clock set back keeps the throttle on until the clock has caught up (`behind`).

## 4. Proofs

All theorems hold for every value of the constants that satisfies the named
assumptions of the modules: `SessionAssumption` (NULL is neither an address nor
a card; timeouts are integers, of any sign), `ContainerAssumption` (descriptors
are positive: `removeSession` does not erase descriptor 0), `IdleAssumption`
(the interval is positive),
`RelayAssumption` (a read event brings no more than `data[]` holds, the windows and
buffers are not empty, the two writes of the server's own differ), `LoginAssumption` (the sync word is not empty and has no
NUL), `ThrottleAssumption` (the limits are ints of the program's width, a second
has at least one slot)
and `StartupAssumption` (`atoi` yields an integer for every text, 0 for the name of
a key).

**`TcpServer_proofs`.** The inductive invariant `IInv` is the conjunction of
`TypeOK`, `HeapConsistent`, `FdIndex`, `PairsAreMutual`, `NoMissedMatch`,
`StreamShape` and `CleanSlate`. None of the main invariants is inductive alone:
`removeSession` finds the peer by its address, so that keeping the maps
consistent needs mutual pairs (otherwise it would free a third connection), and
mutual pairs need the maps (an address leads to the session that owns it). That
a newcomer on a reused address is nobody's peer follows from both. `StreamShape`
of a newcomer needs that a freed bufferevent keeps nothing, and `NoMissedMatch`
that a raw session has no card; both are in `CleanSlate`. The proof has a lemma
for each kind of step (`RemovalKeeps`, `ArrivalKeeps`, `WaitKeeps`, `BindKeeps`,
`RelayKeeps`, `IdleKeeps`), each resting on a lemma about its effect. From `IInv`
follow `NoDanglingPointers`, `FdIndexCorrect`, `MutualPairs`, `NobodyMissed`,
`Isolation`, and the action property `BindingIsForLife`.

**`TcpServer_refinement`.** `Refinement` (`Spec => ServiceSpec`): under the
mapping of `TcpServer` (a guest is a session, his mate is `getPeer`, he has heard
the senders of what was written to him), initial states map to initial states
and every step to a step of `Rendezvous` or a stutter: `listener_cb` to `Arrive`,
`Login` to `Wait` or `Couple`, `Business` to `Speak`, `Hangup` and an expired
`Timeout` to `Leave`, the rest to nothing.

**`IdleTimeout_proofs`.** `IInv` adds to types and mutual pairs that every session
has the timeout of its state (`Scheduled`), and the accounting of idle time: idle
time not yet in `m_inactive` is on the read timer (`Accounted`); whoever has a full
count has a peer who has not (`NobodyOverdue`); and a count exceeds the time since
it was set to 0 by no more than what is left on either timer, plus, on a
connection that did not start its timers anew, one interval (`NotOvercounted`).
`EveryoneReapedInTime` follows from the first three, `NobodyCutOffEarly` from the
last: it says of a removal by a timer that a raw connection has had all of
login_timeout, one that waits all of match_timeout but one interval, and a pair, at
both ends, all of active_timeout but one interval. The interval that is missing is
the code's: a timer that was armed before the count started still adds 40 s.

**`Relay_proofs`.** What has been received, is in flight and is in the output
buffer of an end, followed by what is still on its peer's wire, is always its
`greeting` and then what the peer's `kept` has after `dropped` (`Matched`). This
conservation law, and its counterpart before the match (`Unmatched`), is what a
read, a write and a delivery preserve, each moving a piece from one buffer to the
next; a removal leaves a prefix. A write that fails takes one read off the front of
the wire and the same piece out of the middle of `kept` (`LossEffect`), behind all
that has been passed on (`CutTail`), so that the law holds of what is left. `Thinned`
says that this is all: `kept` is `sent` with at most one read left out for each
shortage. `LosesNothing` is the law for a pair that lives: the buffers between the
two ends hold what is on its way and nothing else, however long they grow. `Ordered`,
`NoneDroppedOnceTold` and `Conversing` (the refinement of `Duplex`: a failing write
of `TELPROXY_OK` is a `Miss` that leaves an end untold, one of `business` a `Lose`)
follow. `NeverStranded` needs the assumption that libevent reads no more at once than
`data[]` holds (`RelayAssumption`), which is 4096 on both sides.

**`LoginPackage_proofs`.** `Passed` is the loop invariant of `strnstr`: no sync word
stands before `p`. From it follow `InsideTheRead` (neither `memcmp` nor `memcpy`
goes beyond what was received, because the search stops early enough) and
`FirstPackageDecides` (stopping at `p < pend` misses only a sync word at the very
end, behind which there is no room for a package). Sync words of any length.
`Admitting` (`Spec => AdmissionSpec`) puts the reads one after the other: a read
that bears a card logs the session in with that card or fails for want of memory,
every other read is refused, and nothing of it is left for the next. It needs
`Decided` for the answer and `Kept`, that the card changes only at the end of a
login.

**`ConnectionManager_proofs`.** `Counted` relates the program's count to the requests
that really came in the second the clock shows: never less, and equal unless the
clock was set back. `Paced` bounds the count by what is free and the slots that
have gone by since it was reset, because each request beyond that sleeps through
one. From it follows `RateIsBounded`, in terms of how long the clock has shown its
second (`shown`), which a clock that is set may make longer or shorter; and `OverflowTakesLong`: the count does not
overflow the `int` it is compared as until nearly 2^31 slots of 10 ms, 248 days,
have gone by on a clock set back. `NoDelayWithoutCause` follows for every limit.

**`Startup_proofs`.** `ReadSoFar` says that after each line the table holds what a
reader of the file up to there expects (`TextAfter`, defined by the last line that
sets a key, not by the loop). `ServedAsConfigured` and `OneConfigurationForAll`
follow for files of any length.

**Model-checked only.** The liveness properties (`ClosedIsRemoved`,
`SilentIsReaped`, `Delivered`, `Answered`, `StartsServing`), because fairness and
ENABLED are out of the prover's reach, and the four violations. Every invariant
and action property of a passing run is also a theorem.

## 5. Not modelled, and why

- `LocalLog`, packaging and scripts: output or no state. `userLog` writes nothing
  that the program reads back.
- `TimeoutServer`, `Threadable` but for `milliSleep`, `removeSessionAll`, `logout`,
  `clearTimeout`, the descriptor overloads of `find` and `insert`, the statistics and
  the recycling of `ConnectionManager`, `HttpGenericCallback`: never called.
- libevent itself: only headers and binaries are in the repository, and the headers
  are by far the most of its lines (about 10,500 of 12,800; the program's own are
  about 2,200). They declare an interface and hold no behaviour to translate, so
  what the models cover is a large part of the program and a small part of the
  repository. What the code relies on is stated above, as external definitions.
- Failure of `calloc` in `match_done`: both sessions are bound by then, and the
  peer's card that it would leave out is never read. Failure of `new`: it throws
  and ends the process. A failing `calloc` in `login` is modelled (`Store`), and so is a failing
  `bufferevent_write`, in `Relay`.
- A bound on the growth of output buffers (session.cpp:332): nothing in the code
  sets one. What `NothingLost` says is that they hold what is still to be taken.
- A raw connection that keeps sending garbage is never reaped (tcpserver.cpp:111):
  idle time is time without data, and nothing in the code says otherwise.

## 6. Plan

Done: the core (`Session`, `TcpContainer`, `TcpServer`) with its invariants,
liveness, the abstract service and the proofs; `IdleTimeout`, `Relay`,
`LoginPackage`, `ConnectionManager` and `Startup`, each with proofs.

What could still be added:

1. Several pairs in `Relay`, so that streams and reused addresses meet in one
   module; today `StreamShape` of `TcpServer` has the isolation of pairs and
   `Relay` the order within one.
2. Time in `Relay`: with timers as in `IdleTimeout`, whether a slow but steady
   transfer can be cut off.
3. The sessions of `IdleTimeout` as an implementation of `Rendezvous`, as those of
   `TcpServer` are, so that both models are known to serve alike.
4. A far end that shuts down its sending side only, as a state of its own.
5. What `Configure` should make of ports beyond 16 bits and of malformed lines: the
   repository says nothing of it, and `ServesAsConfigured` takes the code's word.
