# A verification project for persianray-ios-core

`persianray-ios-core` is one iOS `c-archive` that puts five tunnelling engines
(AmneziaWG, Xray, Psiphon, USQUE, URnetwork) behind C functions in one Go
runtime. The engines are third-party; the repository's own logic is the code that
starts, supervises and stops them on behalf of application threads that may call
at any time. This directory models that logic in TLA+, checks it with TLC and
proves the safety of the modelled parts with TLAPS.

## 1. Inventory

### USQUE tunnel supervisor (`usque-ios/api/tunnel.go`, `masque.go`)

`MaintainTunnel` is one goroutine per session: dial CONNECT-IP, report
readiness, start two pumps (device to connection, connection to device), wait for
the first error in `errChan`, tear down, wait a grace period for the pumps, sleep,
dial again.
*State:* the loop's position, the connection and transport of the present cycle,
per cycle an `errChan` of capacity 2 and a cancellable `pumpCtx`, the pumps.
*Hard:* a pump blocked in a device read cannot be interrupted and outlives its
cycle; `Stop` cancels the context and closes the device at any point of the loop.
*Correct when:* readiness stands only on a live handshake; no second connection is
held; a left-over pump can forward nothing; no pump blocks on `errChan`; a lost
link is redialled; a stop releases everything.

### USQUE sessions and C interface (`usque-ios/mobile/mobile.go`, `usque_bridge.go`)

A registry from ID to session, under one mutex, and the calls `PRUsqueStart`,
`PRUsqueStop`, `PRUsqueStopAll` and `PRUsqueInvoke` (`start`, `probe`,
`startProbe`, `setHopRelay`, `stop`, `abortProbes`). A session owns a context, a
virtual network stack, a SOCKS server, a tunnel and at most one hop relay.
*Hard:* calls find sessions by ID in several separate lock sections; closing a
device twice panics; `setHopRelay` binds a socket without a lock and installs it
later; readiness is waited for with a timeout.
*Correct when:* no running session is unreachable, nothing is closed twice, no relay
is leaked, every call returns.

### USQUE UDP flow tables (`mobile.go`: `socksServer`, `udpRelay`)

A table from client (and destination) to a connection of the virtual stack, with
one reader goroutine per entry that deletes it in a `defer`, by key.
*Hard:* the dial happens with the table's mutex held, and `close` needs the mutex.
*Correct when:* every entry has a live reader, a delete hits the reader's own entry
only, nothing is entered after `close`, the limit of 256 holds, `close` returns.

### URnetwork bridge (`urnetwork_bridge.go`, `urnetwork-overlay/upstream_socks.go`)

One session under `urMu`; `urStart` holds the mutex through an open of up to 90 s,
`urStop` takes the session and closes it after unlocking. The upstream proxy is one
process-wide value that every dial reads.
*Hard:* the proxy is cleared outside the mutex; readiness comes by callback and must
not be lost between the callback's flag, the status read and the wait.
*Correct when:* no device or listener is orphaned, an idle bridge leaves no proxy
behind, no wakeup is lost, calls return.

### USQUE registration and configuration file (`mobile.go`: `register`, `saveConfig`, `loadAccountConfig`)

A register call enrols an account with the server and saves it: a temporary file is
written and renamed over `config_path`. An idempotent call is answered from a file that
loads.
*Hard:* the process may be killed between any two steps, every step may fail, what a
killed process left is what the next one finds, and no lock keeps two calls apart.
*Correct when:* the file is whole, an account that loads is not lost by a failure or a
crash, an answered ok stands.

### AmneziaWG engine, hop and ping (`awg-ios/cmd/persianray`)

`live`, one published tunnel under `liveMu`, and `AwgStart`, `AwgStop`,
`AwgSetHopInner`, `AwgPing`. A tunnel has an outer device, a SOCKS listener and, with a hop, an
inner device that sends through a `hopBind` on the outer stack. `startHop` tries inner
hosts until the exit address differs; a swap closes the inner device and makes another.
*Hard:* `replaceInner` closes before it can fail; the accept loop picks a stack per
connection; `awgTunnel.close` clears `innerNet` without `t.mu`; `startLive` keeps `liveMu`
through all waits; a device's close waits for its receive routine.
*Correct when:* nothing is leaked on any error path, a hop tunnel serves from its inner
stack unless the caller was told otherwise, calls and probes return.

### Xray instance and batch ping (`libxray/xray`, `xray_bridge.go`)

`coreServer` under `coreServerMu`: run, run from JSON, stop; temporary instances of `ping`,
`testXray` and `pingBatch`. `core.New` points one process-wide dialer at the newest
instance. `PingBatch` collects the outbounds each item needs by a depth-first search, starts
one instance for all, and measures with a pool of workers.
*Hard:* instances that fail between creation and publication; who owns the dialer;
cycles, self-references, shared and ambiguous tags; results of a pool.
*Correct when:* each instance has one owner, the running one keeps its dialer unless a
temporary one was made beside it, the search finds what is needed once, every item has
its result, a batch returns.

### Psiphon bridge and controller (`psiphon_bridge.go`, `psi.go`, `controller.go`, `tunnel.go`)

The bridge keeps ports and a connected flag from notices, and resets them around
`psi.Start` and `psi.Stop`. The controller's `runTunnels` keeps a pool of tunnels: workers
dial, `connectedTunnels` and `failedTunnels` bring tunnels in and failures back, a goroutine
operates each active tunnel.
*Hard:* the resets lie outside `controllerMutex`; establishing is stopped before the last
tunnel is activated, and that may fail; shutdown closes both channels; an operator that
cannot report its failure closes its own tunnel, and so waits for itself.
*Correct when:* every open tunnel has one place that will close it and shutdown leaves
none, a short pool is being filled, the status is true, calls return.

## 2. Modules

| Module | What |
| --- | --- |
| `SessionLink` | What a session is promised about its link: abstract specification of the supervisor |
| `EngineLife` | What every start and stop interface promises about the engines it opens: abstract specification of the registry (per ID), `UrBridge`, `AwgEngine` and `LibXray` |
| `UsqueTunnel` | `MaintainTunnel`, its pumps, and the steps of `session.close` that race with them |
| `UsqueSessions` | Registry, calls and session life cycle; each session's tunnel appears as a `SessionLink` |
| `UdpFlows` | The flow-table protocol of the SOCKS server and the hop relay |
| `UrBridge` | `urStart`, `urStop`, the upstream proxy, the readiness watch |
| `UsqueConfig` | A register call and the account file, with crashes |
| `AwgEngine` | `AwgStart`, `AwgStop`, `AwgSetHopInner`, `AwgPing`, the accept loop, the hop |
| `PingBatch` | The dependency search and the worker pool of `pingBatch` |
| `LibXray` | The Xray instances and the process-wide dialer; composes `PingBatch` with the other calls |
| `PsiphonController` | One run of the controller |
| `PsiphonBridge` | `PRPsiphonStart` and `PRPsiphonStop` with `psi.Start` and `psi.Stop`, on top of `PsiphonController` |
| `UsqueTunnelProofs`, `UsqueSessionsProofs`, `UdpFlowsProofs`, `UrBridgeProofs`, `UsqueConfigProofs`, `AwgEngineProofs`, `LibXrayProofs`, `PsiphonBridgeProofs` | Theorems and proofs |
| `MC...` | The modules TLC runs |

An operator whose comment begins with "Mutant" is not part of a specification: it is
a wrong version of the definition after it and shows that the property named in
`PROJECT.json` notices the mistake.

### How they correspond to the code

**EngineLife.** An engine is free, opening, running (the one others find) or closing. It is
published once and while no other is; a running one is withdrawn or closed in place, never
replaced; a withdrawn or failed one is not published again. `LifeOf` in each implementing
module maps its own state (registry and closed devices, `cur`, `live`, `coreServer`) to these
four. The map names the lines of `mobile.go`, the plainest instance. `PsiphonBridge` is not
an instance: its controllers follow one another in one variable and have no identity.

**UsqueTunnel.** `sup` is the position in the loop of `MaintainTunnel`: `top` (context
test), `idle` (the read that waits for traffic when `AlwaysReconnect` is off),
`connect`, `up` (connection made, `OnReady` not yet called), `wait` (`<-errChan`),
`teardown` (`cancelPumps`, `ipConn.Close`), `join` (pumps or grace timer), `sleep`,
`exit`. A *slot* is one execution of the loop body: its connection, `errChan`,
`pumpCtx` and pumps. It can be used again when both pumps have returned, so `Slots`
bounds the pairs that exist at once, not the number of reconnects. `dpump` has one
value per blocking point of the device pump: the context test, the read, the second
context test, the write. `stage` counts the steps of `session.close`. A dial is one
step that succeeds or fails; a probe's context may also expire by itself
(`ParentExpires`). `transport` is chosen at the start and kept. It matters in two places: an
HTTP/2 stream is aborted by `net/http` when the context ends, an HTTP/3 connection is
not; and only HTTP/3 has a transport and a UDP socket of its own to close. In HTTP/3 the read
pump leaves on a `connectip.CloseError` and retries after any other error: that a connection
which is gone answers every read with the former is an assumption about `connect-ip-go`.

**UsqueSessions.** `pc[c]` is the next lock section or blocking operation of caller
`c`. The session objects are the elements of `Sess`; `name` is the ID, `own` the
session a call created, `hold` the one it looked up or closes, `batch` those taken
out of the registry by `StopAll` or `abortProbes`. `session.close` is five steps:
flags, context and SOCKS server, take the relay, close it, close the device. Generated
IDs are the session itself; that a caller picks an ID like `probe-7` which a later
generated one equals is not modelled. `asked` is a history variable: the sessions an explicit
stop of the application took, or a failing start whose own session had been taken that way.
`Status`, `IsReady`, `LastError` and `Probe` change nothing and are left out.

**UdpFlows.** A worker is a forwarding goroutine (a place of `udpSem`, or the relay's
single loop, which is the instance with one worker and no effective limit). The mutex
is modelled where somebody can see it held, during a dial (`mu`). The stack's
`DialContext` tests the context and connects later; both are steps, so a connect may
succeed after the cancellation. A closed connection's slot in `Conns` is used again.

**UrBridge.** `mu` is held from `StartLock` to `Bind` or `Undo`. `dev` stands for a
session's device and manager, `ln` for its listener, `via` for the upstream it was
started with. `win` is the SDK's window status and `note` the announcement on its way
to `urStatusWatch`; `accept` and `ch` are what that listener was given. The country
lookup only chooses a location and is part of `OpenDevice`.

**UsqueConfig.** Files are inodes, so that `os.WriteFile` truncates whatever the temporary
name is linked to, a killed process's leftover and another call's file included. `data` is the
account an inode holds whole, "empty" or "torn". Calls for one path overlap freely; `clash` is a
history variable, the inodes that were opened while another call stood between its open and its
rename. The HTTP requests of an enrolment are one step that succeeds or
fails; an account in `Partial` is one the server answered without its peer's key, which
`register` saves and `loadAccountConfig` then refuses. The clean-up after a failed rename may
fail too, which the code ignores.

**AwgEngine.** Calls and probes run the same code of `openTunnel`, `startHop` and
`awgTunnel.close` and so share their actions; `ctx` says what an inner device is closed for (the
next host, a swap, the start's failure, the old tunnel, the end), which is where the
code goes on afterwards. Making a device and bringing it up are two steps, in `openTunnel` as in
`replaceInner`, so that the close of a device that does not come up is an effect of its own.
`PickTarget` reads `innerNet` once: `engine.go:39` and `40` name it twice, with neither a call nor
a store between, and the Go compiler merges the two loads. `left` counts the hosts still to try. `got` and `served` are the accept
loop's connection and the stack it was given. `reader` is the inner device's receive routine in
`hopBind`, for which the device's close waits. `told` remembers that the last swap
answered an error. Whether an exit differs is a free choice.

**LibXray and PingBatch.** The recursion of `visit` is a stack of frames, the loop over an
outbound's dependency tags its position. Whether a configuration is accepted, an instance
starts or a feature closes is a free choice; `lost` records an instance that may still run
out of everybody's reach (a `Close` that reported an error; the start of
`RunXrayFromJSON` that fails after creation). `overlap` records that a temporary instance
was made while one ran or started, which the README of libXray warns of.

**PsiphonController and PsiphonBridge.** `pc` is `runTunnels`: at its select, stopping the
establishing, activating, registering or discarding the tunnel `cur`, leaving. A tunnel's
name is used again once no goroutine, channel or connection stands for it. A section under
`tunnelMutex` is one step. The notices the bridge listens to are emitted synchronously and are
part of the step that emits them. An operator that finds `failedTunnels` full calls
`terminateTunnel`, which waits for that very operator: `op` is then "stuck" and `SelfWait` says that
nobody gets `tunnelMutex` any more. `ports` tells the SOCKS port, announced before the HTTP proxy may
fail to listen, from both. `orderly` is a history variable: calls made one at a time,
a start only after the last session was stopped.

## 3. Runs

Every passing run finishes within three minutes. Deadlock is checked except where the
system comes to rest: a tunnel that has exited, a table that has been closed, and a Psiphon
run in which an operator waits for itself (see Observations).

| Run | Checks | Bounds and why they suffice |
| --- | --- | --- |
| `tunnel` | one connection, harmless left-over pumps, `errChan`, refinement of `SessionLink`; a lost link is redialled, a stop in HTTP/2 brings everything down, an `OnReady` that comes after the stop is taken back unless the supervisor is stranded in HTTP/3 | both transports; 2 pump pairs: a left-over pump while the next cycle lives and dies; with the idle read, which contains the loop without it |
| `tunnel_h3_stop` | violated, see findings | as above, HTTP/3 |
| `tunnel_readmu` | violated, see findings | 2 pairs |
| `sessions_safety` | no orphan, one closer, relays owned, IDs lead to the own session unless the application stopped it | 2 callers in any two calls, 2 sessions (two IDs, or one ID used twice), 2 relays (one replacing another); symmetric |
| `sessions_live` | every call returns, a close it began with it | 1 session that every call wants |
| `flows` | table and readers agree, own deletes, nothing after the sweep, limit, `close` returns, all released | 2 keys for 1 place, so the table is full with another key waiting; 3 connections, so that a key is dialled again while two former readers are still ending; 2 forwarders |
| `ur` | no orphan, clean when idle, no lost readiness, nobody else's proxy, calls return, a stop closes | 2 callers; as many sessions as callers, since a start opens only while none is registered |
| `ur_overlap` | violated, see findings | 2 callers |
| `config` | the file is whole, an ok stands, an account is never lost | 2 overlapping calls and crashes; 4 inodes: the file, a leftover, one open in each call; 3 accounts, one incomplete, so that a file is replaced twice |
| `awg` | no leak, a hop exits by its inner stack, calls and probes return | 2 callers, 2 names for tunnels (the old accept loop still holds a connection), 3 hosts, 2 probes for one place. `AwgPing` shares no variable with the other calls, so a behaviour has callers or probes (`side`) |
| `xray` | the search is exact, the batch complete, instances owned, the dialer the running instance's, the batch returns | all graphs of 3 outbounds with 2 tags (self-reference, cycle, shared, ambiguous and missing tags), 2 items; 2 callers beside a batch. The search touches no instance, so a behaviour explores graphs or callers (`side`) |
| `psiphon` | no tunnel leaked, a short pool is filled, a pool of one never loses sight of its tunnel, a true status, calls return | 3 tunnels, 2 of them to one server, 1 worker; both channels fill (`connectedTunnels` has one place, `failedTunnels` two, the larger pool's size as in the code); 2 callers with a pool of one (the default), 1 caller with a pool of two, the pool's size fixed in a behaviour |

The proofs extend the safety properties to any number of callers, sessions, pump pairs,
tunnels, keys, connections and workers, to any sizes of pool and channels, and drop the
restrictions `side` and the fixed size of the pool.

### Fairness

Goroutines that can run do run (weak fairness of each), timers fire (the grace period,
`sleepCtx`, the waits with a timeout), and a close that began is finished by its
caller. Where a mutex is seen held (`UdpFlows`, `UrBridge`, `AwgEngine`, `PsiphonBridge`) a
step that needs it has strong fairness, which Go's starvation-free mutex gives; in
`UsqueSessions` lock sections are single steps and weak fairness is enough. The slots of
`AwgPing`'s semaphore are a channel, whose waiters are served in order. In `runTunnels`
the select takes the case of a finished context in the end (strong fairness: Go chooses
among ready cases at random); dials, handshakes and an operator's requests end by their
timeouts. A dial of the virtual stack returns. Nothing is
assumed of the network, the server, the SDK, the traffic or the application: no
handshake need succeed, no packet come, no call be made.

### Findings

* **A stop in HTTP/3 can leave the transport open** (`tunnel_h3_stop`). A device pump
  that meets the cancelled context returns without writing to `errChan`
  (`tunnel.go:334`, `346`). In HTTP/3 nothing ends the other pump, so the supervisor
  waits in `<-errChan` and never closes connection, transport and UDP socket. The README
  says that stop cancels the transport. If `OnReady` (`tunnel.go:314`) ran after `session.close`
  had cleared the flag, such a session also stays ready; `LateReadyIsTakenBack` in run `tunnel`
  shows that this is the only way. In HTTP/2 the aborted stream wakes the supervisor up
  (`StopReleasesStream`).
* **`readMu` serialises nothing between cycles** (`tunnel_readmu`). It is declared inside
  the loop (`tunnel.go:327`); the comment at line 154 says that it orders a left-over
  reader and the next cycle's. The left-over pump can take, and drop, one outbound packet.
* **A stop can remove the next start's upstream proxy** (`ur_overlap`). `urStop` clears
  the process-wide proxy after it released `urMu` (`urnetwork_bridge.go:152`, `163`); a
  start in between then dials directly, while `upstream_socks.go:20` says that every
  later socket follows the proxy. What remains true is proved: the idle bridge is clean,
  and a session never uses another start's proxy.

### Observations without a run

What the models show to be possible and no document rules out, or documents mention:

* `Invoke("stop")` tests for the session and stops it in two lock sections; of two
  concurrent stops one may answer "unknown session" (`mobile.go:359`).
* `waitReady`, `setHopRelay` and the `Stop` of a failing start look the session up by ID again
  (`mobile.go:326`, `560`). When the application has stopped a start's session and
  started another under "default" meanwhile, the first start waits for, and may stop, the
  other's session. `IdLeadsToOwn` says that it takes such a stop.
* Two register calls for one path share the temporary name without a lock
  (`mobile.go:297`, `543`): one may rename the file the other is writing, which a crash or a
  failed write leaves torn at `config_path`. Two idempotent calls that both find no file
  enrol and save twice. The properties of `UsqueConfig` hold of every file not in `clash`.
* An account the server answers without its peer's key is saved and answered as ok, and
  refused by the next start (`Partial` in `UsqueConfig`).
* After a failed `AwgSetHopInner` a hop tunnel goes on with its outer stack
  (`hop.go:102`), while `awg-ios/PERSIANRAY.md:32` says "SOCKS exits via the inner stack"; the
  caller is told of the failure, and `ExitsByInner` says that it takes one. `startHop`
  likewise gives up a working inner host when it goes on to one that fails. A connection that was
  accepted before `close` may also get the outer stack.
* `RunXrayFromJSON` loses an instance whose start fails after its creation
  (`lost` in `LibXray`), and a `Close` that reports an error is not repeated.
* A `PRPsiphonStart` that is refused because Psiphon runs hides its ports and its
  connection (`psiphon_bridge.go:83`), and the reset of a stop that a new start overtook hides the
  new session's (line 102); that is why `StatusTruthful` promises more to orderly calls only.
* With a pool of two or more, the late failure of a tunnel that was discarded as a
  duplicate restarts the establishing beside a full pool, and takes a place in `failedTunnels`. The
  comment at `controller.go:174` says that the channel is large enough for full pools and senders
  should not block; with such failures beside a whole pool's it fills. The next operator then
  calls `terminateTunnel` (line 1524), whose `Close` waits for that operator with `tunnelMutex`
  held: `runTunnels`, the workers and `psi.Stop` hang. If its tunnel was not registered yet, the
  call finds nothing to terminate and the tunnel joins the pool without an operator and
  without anybody being told. With the default pool of one none of this can
  happen, which `PoolOfOne` states.

## 4. Proofs

All proofs are checked by TLAPS (SMT, Zenon, LS4) with the named assumptions on constants
only: the null values lie outside the sets they are added to, limits are naturals.
Each module proves `Init => IInv`, `IInv /\ [Next]_vars => IInv'` action by action, and
draws the theorems from `IInv`.

* **UsqueTunnelProofs.** `TypeCorrect`, `PhasesKeepTheirPromise`, `HoldsOneConnection`, `StalePumpsAreHarmless`,
  `ReadyMeansConnected`, `PumpsNeverBlockOnErrChan`, `TunnelImplementsLink`. `IInv` joins the
  safety properties, because none is inductive alone: that a left-over pump cannot forward
  needs `CycleInv` (its slot was torn down before the supervisor gave it up), and that
  needs `OneConnection` and `ErrorsFit` when a slot is used again. The Boolean flags have an
  invariant of their own. The refinement maps `wait` to "up", `exit` to "done" and
  everything else to "down".
* **UsqueSessionsProofs.** `TypeCorrect`, `NoSessionIsOrphaned`, `SessionsHaveOneCloser`,
  `NoRelayIsLeaked`, `ClosedSessionsHoldNothing`, `IdsLeadToOwnSession`, `RegistryImplementsLife`,
  `SessionsImplementLink`. The strengthening says
  that a registered session bears its ID and is not stopped (`RegInv`), that an
  unregistered new session is known to its maker only (`InsertInv`), and how far each close
  has come (`CloseInv`); relays need what `setHopRelay` has in hand (`HopInv`).
  Under each ID the registry implements `EngineLife`. Each session's link implements
  `SessionLink`, the specification `UsqueTunnel` implements too, so the two models meet in it;
  `LinkInv` says that a session has no link before it is registered. `OwnIdInv`: each
  session has one maker, and a session that is taken without the application's asking is taken by
  it.
* **UdpFlowsProofs.** `FlowsAreServed`, `ReadersDeleteTheirOwn`, `NothingEntersAfterClose`,
  `TableIsBounded`, `TypeCorrect`.
  Deleting by key is safe because the mutex is held from the lookup to the entry
  (`DialInv`) and an entry stays until its own reader removes it (`ReaderInv`); nothing
  enters after the sweep because a dial that passed its context test holds the mutex the
  sweep waits for. The bound needs that whoever holds the mutex found room (`RoomInv`).
* **UrBridgeProofs.** `NothingIsOrphaned`, `IdleBridgeIsClean`, `ReadinessIsNotLost`,
  `NobodyElsesProxy`, `BridgeImplementsLife`, `TypeCorrect`. `ClearInv` is the heart: a proxy in force always has somebody who
  will clear it. `WatchInv` says that the flag is stored before the status is looked at.
* **UsqueConfigProofs.** `AccountFileIsWhole`, `OKIsSaved`, `AccountIsNeverLost`,
  `TypeCorrect`, for any number of overlapping calls. `WriterInv`: outside `clash` the file a call has
  open is the one the temporary name is linked to (`SaverInv`), empty until it is whole (`HeldInv`), and two
  calls that save at once have both their files in `clash` (`PairInv`).
* **AwgEngineProofs.** `NothingLeaks`, `HopExitsByInner` and `CloseWaitsForTheEnd` (action
  properties), `EngineImplementsLife`, `TypeCorrect`. `IInv`
  says who works on which tunnel (`LockInv`, `SemInv`, `CoverInv`), for what it closes an inner device
  (`PhaseInv`), what of its tunnel is open meanwhile (`WorkInv`, `SetInv`), and that a hop
  tunnel that listens has its inner stack, a failed swap, or a swap that holds `t.mu`
  (`ExitInv`). `CloseWaitsForTheEnd` is the safety core of `CallsReturn`: while a close waits for
  the receive routine, the routine's socket is closed and it can only end. For the refinement
  `Stage` puts the mapping in terms of the process that has the tunnel in hand.
* **LibXrayProofs.** `InstancesAreOwned`, `DialerIsOwn`, `BatchIsComplete`, `SearchIsExact`,
  `ResultsAreWrittenOnce`, `XrayImplementsLife`, `TypeCorrect`. While `coreServerMu` is held
  nothing is published (`MutexInv`), so the instance that starts keeps the dialer it got at
  its creation (`DialInv`). `BatchFrame` states what the batch's own steps leave alone.
  `PoolInv` follows an item from the preparation through the channel and a worker to its
  result. `SearchInv` is the invariant of a depth-first search, step by step: what is visited is
  needed and selected once (`ReachInv`), what is finished is closed under dependencies,
  unambiguous and acyclic (`VisitedInv`), the stack is a path (`PathInv`), and a frame's
  dependencies are seen or still to be looked at (`RestInv`). So what the search
  computes is proved for every finite graph without an induction over graphs. `OnceInv` adds that prepared items are in order, and that nobody
  has in hand what is done.
* **PsiphonBridgeProofs.** `TunnelsAreOwned`, `ShortPoolEstablishes`, `OneTunnelIsWatched`, `StatusIsTrue`,
  `TypeCorrect`.
  `IInv` says where a tunnel can be at a time: with one worker (`WorkerInv`), in `connectedTunnels`
  once (`ConnInv`), in the hands of `runTunnels` (`CurInv`) or in the pool, that its operator
  runs only in the last two or waits for itself (`OpInv`), and that nothing is left before and after
  `runTunnels` (`QuietInv`). `EstInv` and `OneInv` explain why a short pool is filled and why a pool of
  one has one failure at a time, so that its operator finds room in the channel (`OneHasRoom`), and
  `AliveInv` that with such a pool only its own failure or the shutdown ends an operator. Channels are sequences; the lemmas `SetOfTail` and
  `SetOfAppend` say what a receive and a send do to the set of what they hold.

Theorems without a run of their own: `TypeCorrect` in each module, `PhasesKeepTheirPromise`,
`ReadyMeansConnected` and `ClosedSessionsHoldNothing` state conjuncts of an inductive
invariant that are worth knowing by themselves; `ResultsAreWrittenOnce` and `CloseWaitsForTheEnd`
say what of a batch and of a waiting close no step may do; the refinements of `EngineLife` and
of `SessionLink` by the sessions are proved and need no run beside that.

Every invariant, action property and refinement that a run checks is also a theorem. Only
model-checked are the liveness properties (fairness and ENABLED are out of the prover's
reach): `LossLeadsToReconnect`, `StopReleasesStream`, `LateReadyIsTakenBack`, `CallsReturn`,
`CloseReturns`, `AllReleased`, `StopCloses`, `BatchReturns`; and the three
findings, which are counterexamples.

## 5. Not modelled

* The vendored engines (`awg-ios/device`, `xray-core`, `psiphon-ios`, the URnetwork SDK), which are
  nearly all of the repository's lines: protocols, cryptography and data tables, out of
  TLC's reach and not this project's logic. They are modelled where a bridge depends on
  their control: Psiphon's controller, `core.New` and `Instance.Close`, the bind of the AmneziaWG
  device. Of the controller, what only other embedders call, the order of candidates,
  tactics that change the pool's size during a run, in-proxy and the fetchers are left out.
* The SOCKS front ends: a connection is a sequential parser without shared state. That a
  silent client keeps its goroutine after a stop, and that the hop relay's table and
  left-over device pumps have no limit, is listed under hazards without a property: the
  code promises nothing else.
* `generate204WithRetries`, libXray's conversions of share links and geo files, the notice list of the
  Psiphon bridge (text only), USQUE's command line and L4 proxy, build scripts.

## 6. What could follow

The safety cores of the remaining liveness properties as action properties (a `close` of
`UdpFlows`, a stop of `PsiphonBridge`: what they wait for can only end); changes of Psiphon's pool
size in mid-run.
