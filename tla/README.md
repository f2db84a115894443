# SSHCustom: a TLA+ model of the tunnel daemon

SSHCustom is a Magisk/KernelSU module: a Go daemon (`src/cmd/sshcustomd`) keeps one
SSH session to a server and sends the phone's TCP, DNS and UDP traffic through it,
with shell scripts (`src/src/module`) that install the kernel rules, watch the daemon
and control the module. This directory models the part of the daemon where several
goroutines, the network and the user act on the same state. The modules say what the
code does, TLC checks them on small instances, and TLAPS proves the main results for
every value of the parameters.

## Inventory

| Component | State | Operations | Correct when | Modelled in |
|---|---|---|---|---|
| Connection manager, `engine.go` `tunnelLoop`, `tunClient`, `keepAlive` | the current client (`clientPtr`), each client's session, `dead` flag and context, `waitDone`, back-off delay, listeners, `iptablesUp` | route check, authenticate, publish, start listeners and rules once, wait, reconnect, teardown | one session; the pointer is never stale; a lost or stalled session is noticed and replaced; rules stay up until a stop; a cancelled loop returns and leaves nothing | `TunnelContract`, `TunnelEngine` |
| Stream handlers and DNS forwarder, `engine.go` | locals of each handler; `tunClient.active` | accept, take client, dial, retry, count, pipe, end; poll for a client | every connection is answered; counts are exact; a healthy client is never killed; queries end | `TunnelStreams` |
| Tunnel lifecycle, closures in `run` of `main.go` | `tunnelRunning`, `explicitStop`, `restartBackoff`, `tunnelDone`, `tunnelCancel`, `State` | start, stop, restart, automatic restart, shutdown | one loop at a time; a running loop can be stopped; a stop is final; no rules without a tunnel; what is shown is true | `TunnelLifecycle` |
| UDP gateway, `udpgw.go` and `serveTransparentUDP` | `conn`, `dead`, `failedOnce`, `lastDialTry`, `respCh`, `flows` | receive, dial, send, `readLoop`, reap a flow, wait for a reply, close | one reader per channel; a reconnect is not undone; tables do not grow; the loop does not hang; replies reach their flow | `UdpGateway` |
| Kernel rules, `ssh.iptables`, `net_clean.sh` | script rules, number of `SSHC_UDP` hooks | enable, disable, clean | clean removes what enable put in | three operators of `TunnelEngine` |
| Stream copying, `pipeBoth` | two pumps, activity and done channels, idle and grace timers | copy, half-close, time out | both ends closed in the end, no data cut off by anything but a time limit | `StreamPipe` |
| State broadcast, `/api/v1/events`, `module.prop`, metrics sampler | subscribers, coalescing channels, last write time | `set`, subscribe, notify, send, write | no writer is blocked, no channel leaks, the last state is shown in the end | `StateBroadcast` |
| Configuration and profiles API | `config.json`, `profiles.json`, their `.tmp`, in-memory copies, `profileMu` | patch, upsert, select, delete, save, load, boot | no acknowledged update lost, no half-written file, selection consistent | `SettingsStore` |
| Transport dialling, `openPreparedSSHConn` and below | the connection at each stage, bytes read | resolve, dial, CONNECT, TLS, payload, SSH; the probe command | every error path closes what was opened; no byte of the SSH server is lost; bounded time | `TransportDial` |
| DNS cache, `internal/dnsx` | host cache, carrier property cache | resolve, evict, expire | rate-limited answers are forgotten, stale ones do not keep the fallback away for ever | `TransportDial` |
| Module control and watchdog scripts | pid file, disable flags | start, stop, restart, resume | one daemon; a stopped one stays stopped | not modelled |
| VPN chain script | interfaces, rules, fwmark | start, stop | partial failure is undone | not modelled |
| Metrics arithmetic, TPROXY sockets, API types, web UI, packaging | - | single calls, display, build | - | not modelled: no protocol of their own |

How they interact: a control request calls `startTunnel` or `stopTunnel`; a start
spawns a goroutine that runs `tunnelLoop`; the loop publishes each client through an
atomic pointer that handlers, DNS queries and the UDP gateway read whenever they need
one; any of them may mark the client dead, which closes its session, which makes the
loop's waiter goroutine report it. `stopTunnel` cancels the loop's context, clears the
pointer, waits at most 5 s for the goroutine and runs `net_clean.sh`.

Hard to test: the order of those steps (everything above runs concurrently, and the
lifecycle variables are not synchronised), links that stall without closing, the time
limits that let one side go on while the other is still at work, panics, and loops
that must never hang. `PROJECT.json` lists these hazards at their lines.

## Modules

Each step of a model is the code between two accesses to state that somebody else can
change. Texts, counters shown to the user and logging are left out.

**TunnelContract** is the abstract specification of one tunnel loop as `main.go` uses
it: it may connect, disconnect, route and crash; it returns only when cancelled and with
its session closed; it opens a session only after the last is gone; only a crash or
`net_clean.sh` after a cancel removes rules.

**TunnelEngine** is the loop itself. `pc` is the place in `tunnelLoop` (`delay`: the
select on the timer; `route`: `routeInfo`; `auth`: `attemptSSHAuth`; `store`,
`listeners`, `rules`: what follows a success; `wait`, `waiting`: the `waitDone`
goroutine and the select; `drain`: line 329; `teardown`: the deferred function).
Clients are numbered; `conn[g]` is client g's session, `alive[g]` its keepAlive
goroutine, `waiter[g]` its `waitDone`. The carrier may stall, recover and close. The
stop actions are `stopTunnel`'s accesses to the same state. `ImplementsContract` maps
the state to TunnelContract's: `phase` from `pc` and `panicked`, `session` is "some
client's session is open", `routed` is "the script's rules are in".

`DrainAgain` selects what line 329, `waitErr := <-waitDone`, does. With `TRUE` it is
the code: a second receive, after the select has already taken the only value that
channel ever gets. With `FALSE` the loop may get past it, or stay there for ever: no
fairness is assumed of `Reconnect` (nor of the handshake). So every behaviour of the code
is one of the model with `FALSE`, which has the reconnects the code was written for as
well. The proofs hold for both.

**TunnelStreams** extends TunnelEngine with the handlers and queries. SOCKS5 and
transparent handlers do the same with the shared state and are one process. A handler
reads the pointer before the dial, before the retry and before the count.

**TunnelLifecycle** models `startTunnel`, `stopTunnel` and the tail of the tunnel
goroutine, one shared variable per step. `Callers` are the goroutines of requests and of
`main`; `Requests` says who may ask for what, and nothing keeps them apart. A tunnel
goroutine becomes a caller of `startTunnel` itself when it restarts. The loop inside has
the places these closures can tell apart: `loop` (route check and delay), `auth`, `up`,
and `drain`, where a loop that lost its connection stays for ever. The history variable
`races` remembers what has overlapped: `claim`, a start claimed `tunnelRunning` when it was
claimed already; `overlap`, a start past its check beside a stop past its own; `late`, a
stop gave up on its cancelled tunnel after 5 s.

**UdpGateway** models the receive loop (the only goroutine that dials and writes), a
`readLoop` per dialled channel, and a reaper and waiters per flow. `t.mu` is held
during the whole dial, so no `readLoop` step that needs it happens then. A frame is
reduced to the address it carries. Apps' and servers' addresses are one set: loopback
datagrams pass the hook, so an app's address can be another app's destination.

**TransportDial** is what `tunnelLoop` calls at `auth`, attempt after attempt: the stages
of `dialTCPResolved` and `openPreparedSSHConn` in the order the profile asks for, the
dnsx caches, and the SSH handshake; with `caller = "probe"` it is `attemptTransport`.
The server's bytes are a sequence `wire` of HTTP statuses and pieces of the SSH
identification line, cut anywhere by a read, also between the answer to CONNECT and the line; `taken` counts
the pieces of the line that were read and thrown away, and `got` is what `readProbe` has returned and
then the prefix of `prefixConn`. A network is which resolvers work and which addresses
answer; it changes at any time. `buildTransport` gives the profiles the API can save.

**StreamPipe** is one call of `pipeBoth`: a pump per direction, the caller's select and
grace wait. `out` and `del` count chunks sent and delivered, `held` is a chunk between
`Read` and `writeAll`. Peers send, half-close, reset or stop reading.
The two ends differ: closing the TCP connection of the app releases its blocked read or write,
closing the SSH channel only sends a message. A blocked `Read` or `Write` of the channel ends
when the server closes it or the session ends (third_party/golang.org/x/crypto/ssh/channel.go:385-397,
417-420).

**StateBroadcast** has the writers that call `State.set` (the change and the broadcast
are two steps under two locks), the event-stream handlers (each takes its snapshot before it
writes), the goroutine that keeps
`module.prop`, and the sampler. `recent` is the 3 s after a write, `ticked` the 20 s
between samples.

**SettingsStore** has the handlers of the requests that change `config.json` and
`profiles.json`, step by step through truncate, write, rename and publication, with write
errors, and the daemon killed and booted again. `acked` is what the requests answered with
success add up to. `fd` follows open descriptors through a rename, because both
requests of a race use the same `.tmp`.

How they fit: TransportDial refines the engine's `auth` step (TunnelEngine only sees
success or failure), StreamPipe the step from `piping` to `idle` of TunnelStreams,
SettingsStore's restarts are requests of TunnelLifecycle, and every change of state
elsewhere is a `Set` of StateBroadcast.

Each `MC` module instantiates one of these for TLC; each `Proofs` module extends one with
its theorems.

## What the runs show

| Run | Result |
|---|---|
| `engine` | whether line 329 blocks or not, panics and stop time-outs included: one session, pointer never stale, nothing outlives a returned loop, hooks removable, routing fails closed, contract kept; a cancelled loop returns, unless it stays for ever in the handshake or at line 329; a stalled link is noticed |
| `streams` | a handler or a query (`Present`) beside the engine, over two generations of clients: every count is undone, no healthy client killed, handlers and queries always finish |
| `lifecycle` | one goroutine starts and restarts, another stops, at any time, without faults or with panics and missing profiles, loops stuck in the handshake or at line 329, and a shutdown: unless two starts overlap, what a stop finds in the shared variables is the running tunnel's, and (unless a stop gives up) no rules are left alone; a stopped tunnel comes back only after an overlap; the daemon shows the truth until something overlapped; `stopTunnel` returns; a restart restarts |
| `udp` | one reader, cleanup closes only its own channel, every reply channel has its reaper; the receive loop comes back unless it waits for the server of one live session for ever; a lost channel is dropped |
| `dial` | five profiles, five networks, tunnel and probe, the identification line in two pieces that arrive with or after any answer: one connection, closed on every error path; exactly which pieces of the line are lost; preparation ends without the server's help; fallback addresses are reached in the end although dead cached ones come first |
| `store` | two handlers, any three requests (two patches at once too), write errors, kills: the profiles file always parses and nothing acknowledged is lost from it; the same of the configuration until two patches overlap; ids unique and selection consistent, every request is answered |
| `broadcast` | two writers, a dashboard that comes, stalls and goes: `set` returns, no subscriber without a handler, dashboard and `module.prop` show the status that lasts |
| `pipe` | whatever the peers do: data is lost only to the grace, the idle timer or a reset; `pipeBoth` returns, and a pump is left behind only while it waits for the server on the SSH channel |

TunnelEngine's type invariant is checked on its own (and proved); in the other modules it is a
part of one of the invariants, named at its definition.

Runs that end in a counterexample, each against a sentence in the repository (quoted
in `PROJECT.json` under findings):

| Run | What happens |
|---|---|
| `engine_reconnect` | the select takes the value of `waitDone`, line 329 waits for a second one for ever: a lost client stays published, and a later stop never sees the loop exit |
| `udp_reply` | reply channels are registered under the app's address and looked up under the server's |
| `lifecycle_two_starts` | two starts pass the test of `tunnelRunning` (main.go:1239) before either sets it (1261), with a script run and a file read in between: two loops |
| `store_patches` | two patches share one `.tmp` without a lock: one renames what the other has just truncated, and `config.json` does not parse |

What the passing properties except, and why. An exception is always named in the property,
and is what TLC finds when it is taken out.

- *Lifecycle.* After `claim` nothing is promised: two loops share everything. After
  `overlap`, a start may have reset `explicitStop` (1262) between a stop's flag and its
  cancel; the cancelled tunnel then takes its exit for an unexpected one and restarts
  (`StopIsFinal`). A stop beside a start may write IDLE over the new tunnel (`StatusIsTrue`).
  After `late`, the loop that was given up on may install its rules behind `net_clean.sh`,
  against the comment at main.go:1334-1336 (`NoOrphanRules`). A loop in `drain` never
  ends, so every stop of it is `late`. After a panic there is no restart and `tunnelRunning`
  stays true: the recover (1282) is above the restart code, whatever CHANGELOG.md:31 says.
- *Eviction.* The statuses are tested against `AllowStatuses` (1604) before the eviction
  (1617). The default list has 302 but neither 301 nor 503, so those close the connection
  without evicting, and a 302 next to a refused status too. main.go:1617 and dnsx.go:28-30,
  119-121 say that all three evict. `EndProbe` has the code's order; no property is stated.
- *Identification line.* httpCONNECT (1889) drops what comes in the same read as its answer,
  and when `readProbe`'s deadline falls inside the line its first bytes are taken for part of an
  HTTP answer. `BannerKept` counts these (`taken`) and no others; with one the handshake
  cannot succeed.
- *Handshake.* `PreparationEnds` ends at `auth`: line 1536 has no deadline.
- *UDP.* `dial` (udpgw.go:112) and `Write` have no limit: a server that answers keepalives
  but not the channel-open holds the receive loop of all apps (`AwaitsServer`).
- *Patches.* Once two have overlapped, an acknowledged one can be lost (both start from
  the same copy, line 690) and the file can be torn: `OneWriter`.
- *module.prop.* `MayFail = TRUE` violates `PropCatchesUp`: `lastStatus` is set before a
  write that may fail (1396-1398) and the status is never tried again.
- *Notifications.* `DashboardCatchesUp` and `PropCatchesUp` rest on the sampler's 20 s
  tick (their mutants show it for the first): the handler subscribes after its first
  snapshot, and the 3 s limit drops a change.
- *Half-close.* `pipeBoth` never tells the SSH channel that the app has closed its side
  (`SetDeadline` does nothing there), so a server that answers after end of input is cut
  off by the 400 ms grace.

## Bounds

- Two clients (`MaxClients`) are one reconnect: an old and a new one, which is what every
  race over the pointer needs.
- `streams` has one handler or one query at a time: handlers touch each other only through the
  engine, whose losses and kills happen at any step anyway; the theorems have any number.
- Delays are the code's (1, 30, 5 s) in the engine's runs; the other runs do not depend
  on them and use 1.
- Two tunnels and three requests in `lifecycle`: a start, a restart and a stop at any moment
  of them, or a tunnel and its automatic restart. A start beyond the bound waits;
  `RestartRestarts` excuses exactly that case. Two callers that both do everything reach no
  other violation of the safety properties (nine million states, too many for a run).
- Two gateway channels, two flows, reply channels of capacity 1 (16 in the code) and one
  waiter per flow: enough for a flow to be replaced, a channel to be redialled and a reply
  channel to be full. `udp` has one address, whose second flow replaces the first, which is
  where reapers and flows interfere; `udp_reply` needs two. `LoopNotStuck` excuses a dial
  beyond the bound.
- `MaxPolls` is the code's 4.
- `dial`: the line in two pieces (one cut), two answers to a payload (one allowed, one not, or two), two DNS addresses
  so that an answer can be partly dead, one fallback address of the SSH server and none of
  the proxy (the case where `dialFallbackIPs` needs both lists).
- `store`: two handlers and three requests over two ids and two fields: two of the three at
  once, the third before or after; an id is deleted and used again. `broadcast`: one dashboard;
  dashboards do not see each other. `pipe`: one chunk from the app and two from
  the server, one held and one unread.
- No run uses symmetry: all of them but the violations check liveness or name who asks for what.

Deadlock is not checked: every model can stop for good (the loop has returned, the daemon
is shut down, the bound is used up); progress is stated by the liveness properties.

## Fairness

Goroutines that can run do run: weak fairness of each of their steps. A `select` picks
among ready cases at random, so a case that is ready again and again is taken in the end:
strong fairness of `DelayCancelled`, `WaitCancelled`, `WaitReceives`. keepAlive's ticker
ticks. Time passes: the idle timer of
`pipeBoth`, the deadlines before the handshake, the 3 s, the sampler's 20 s and the cache's
5 min come to an end. `TwentySeconds` waits for `ThreeSeconds`, as 20 s are longer than 3 s.
Nothing is assumed of the carrier, the user, servers, peers, dashboards, or of panics:
in particular not that `attemptSSHAuth` or line 329 goes on, that a lost loop returns, that a
server answers a channel-open, takes what is written or closes a channel. Where a
property would need that, it names the wait instead (`StopTerminates`, `LoopNotStuck`,
`PipeEnds`). Only `engine_reconnect`, which shows a violation, is as favourable as can be:
every attempt returns.

## Proofs

Every safety invariant and action property that a passing run checks, but `StatusIsTrue`, is
also a theorem, for every value of the constants and without further hypotheses
(assumptions: the named ASSUMEs of the modules, which TLC evaluates in the runs). A type
invariant is a part of each inductive invariant.

| Module | Theorems |
|---|---|
| `TunnelEngineProofs` | `TypeCorrect`, `OneSession`, `CleanExit`, `NewestPublished`, `AllHooksRemovable`, `RoutingFailsClosed`, `Refinement` (of TunnelContract) |
| `TunnelStreamsProofs` | `StreamCountExact`, `EngineUnderStreams`, `OnlyDeadAreKilled` |
| `TunnelLifecycleProofs` | `SingleTunnel` (until two starts overlap), `StopReachesTunnel`, `StopStays`, `RulesHaveTunnel` |
| `UdpGatewayProofs` | `SingleReader`, `ChannelsReaped` |
| `StreamPipeProofs` | `PipeIsComplete` |
| `StateBroadcastProofs` | `SubscribersLive` |
| `SettingsStoreProofs` | `ProfilesStayConsistent`, `FilesStayWhole`, `NothingAckedIsLost` |
| `TransportDialProofs` | `ConnectionsClosed`, `LineSurvives` |

None of the invariants is inductive as it stands. What each proof adds:

- *TunnelEngine* (with and without panics, for both forms of line 329).
  `MissesBelowLimit`: a running keepAlive has missed at most once, and only clients that
  exist have one (without it `missed` could leave its range). `SessionOrder`: clients not
  yet created have no session, all before the newest are closed (this gives one session).
  `LoopState`: for each place of the loop whether the newest session must be closed and
  what the pointer may hold. `HookState`: listeners start once, so the loop's own hook is
  inserted once, into a table that has none (this bounds the hooks by two, the number
  `net_clean.sh` removes). The refinement is step by step: an action changes the phase,
  opens, closes, routes, cleans or does nothing the caller sees.
- *TunnelStreams* reuses the engine's `IInv`: what a handler or a query does to the engine
  is to close a session and mark a client dead, and a few lemmas show that this preserves
  it. `StreamOrder`: the clients a handler remembers exist, and a retry never goes back to
  an older one. The count is a
  cardinality argument: one handler enters or leaves the set of those piping over a client.
- *TunnelLifecycle*, for any number of callers. `Held`: between the claim of
  `tunnelRunning` and its release by the tail one goroutine holds it, a starter or the
  newest tunnel, and what it has published so far is what a stop reads; it lasts until a
  start claims what is held. `Flagged`: while no start and stop overlap, a stop about to
  cancel still finds its flag set, a cancelled tunnel has not yet to be spawned and will find the
  flag, so nobody gets to the branch for an unexpected exit. `Awaited`: outside a shutdown a
  cancelled tunnel, spawned or about to be, has a stop that will wait for this very tunnel, and
  rules without a tunnel a stop before its `net_clean.sh`; a stop leaves its wait only when the
  tunnel has ended, or is `late`. `Left`: a loop returns only when its context is done.
- *UdpGateway.* `ReaderState`: a `readLoop` that is not over reads `t.conn` itself (or the
  gateway is closed), and a dial begins only with `t.conn` empty. `FlowState`: a registered
  reply channel was made, its reaper has not passed the removal and will remove just this
  key; the datagram being sent has a channel and room for its waiter.
- *StreamPipe.* `Accounted`: a pump holds a chunk exactly while it writes it. `AllRead`:
  unless something cut the streams, a pump that ended had delivered all its end will ever
  send. `DoneCounted`: every finished pump put one value into `done`, and the place of
  `pipeBoth` says how many it has taken.
- *StateBroadcast.* `SubsExact`: the channels on the map are exactly those of the handlers
  between `Subscribe` and `cleanup`, and only they have something pending.
- *SettingsStore.* `Shape` and `Discipline`: what each place of a handler holds, and who has
  `profileMu`. `FileState(f)`, for a file
  with one writer at a time (`OneWriter`): the file is whole; what its writer has done so far fits
  its place (`Saving`); without a writer file and memory are what was acknowledged
  (`Settled`). `profiles.json` has one writer because of `profileMu`, `config.json` until two
  patches overlap (`Calm`). The operators
  (`selectProfileByID`, `filtered`, `upsertProfile`) are shown to map consistent profiles to
  consistent ones.
- *TransportDial.* `OpenExact`: one connection is open from the dial to the close, none
  elsewhere. `LineState`: what has been sent and not
  taken is the end of what `readProbe` has read followed by the wire, in order, with nothing behind it.

Only model-checked:

- all liveness properties: fairness is out of the prover's reach;
- `StatusIsTrue`;
- that `filtered` equals `SelectSeq` and `httpStatuses` selects as the code does: what a
  recursive definition computes needs induction over data.

## Abstractions

- Errors are classified by their text in the code (`isTransportDeath`,
  `isStreamRetryable`): a dial on a closed session gives an error that is recognised or one that
  is not (a broken pipe), a refusal by the server is never taken for the death of the session.
- The rules script and the loop's own hook are one step; failures in between are its
  outcomes (not run, rules in but non-zero exit, ok).
- Time is not measured: a time-out may happen whenever what it waits for has not.
- UDP payloads, frame layout and lengths are left out.
- A request to a handler is well formed or rejected as a whole (`RejectRequest`).
- dnsx resolves one host at a time; nothing but `tunnelLoop` (and the probe command, a
  process of its own) calls it.
- A write of a file is two steps, truncated and complete; a write over longer content
  leaves a tail (`Over`), which a JSON decoder may accept or not: the model takes it as
  torn. Power loss below the file system (no fsync before the rename) is not modelled.

## Not modelled

- The single iptables and policy rules, and the env file `ssh.iptables` looks for: the
  scripts are straight-line and appear only by which rules exist after them.
- `sshcustom.sh`, the watchdog and the VPN-chain script: shell programs around processes,
  outside the daemon.
- TPROXY sockets, socket options, metrics arithmetic, API types, logs, latency and
  public-IP requests, web UI, packaging: single calls, display or build.
- Listener errors: `serveSOCKS` returns on any accept error (engine.go:514) and nothing
  brings it back; no promise of the program is about it.

## Plan

1. `StatusIsTrue` as a theorem: what a stop that nothing overlapped has cancelled, and the
   order of the two writers of IDLE.
2. The lifecycle's loop as a refinement of TunnelContract, so that the reduction of
   `tunnelLoop` to seven actions is proved and not only argued.
3. A module for the scripts: pid file, watchdog and module control.
