# TLA+ verification of KiloProxy's VPN service and engines

This directory holds a TLA+ development of the Android app under `src/app`:
modules that model its VPN service, the surfaces that control it and the native
engines that carry its traffic, TLC configurations that check them on small
instances, and TLAPS proofs for every value of the constants. Kotlin paths like
`SocksVpnService.kt` are relative to `src/app/src/main/java/net/typeblog/socks/`, C
paths to `src/app/src/main/jni/`.

## 1. Inventory of the system

KiloProxy is a SOCKS5 client: an Android `VpnService` opens a tun interface and
hands its descriptor to a native engine that forwards the packets through a
proxy. Two processes of the app take part: the UI with the bubble, and `:vpn`, the
service. The engine is either hev-socks5-tunnel, a library on a thread of `:vpn`, or
badvpn's tun2socks, a process of its own beside the resolver pdnsd.

| part | state | operations | interacts with |
|---|---|---|---|
| `SocksVpnService`, connect and disconnect | `mRunning`, `mTunnelUp`, `mSendfdCancelled`, `mConnectSeq`, `mInterface`, process handles, `mHev`, `mHevActive` | `onStartCommand`, `configure`, `start` and its thread, `startHevTunnel`, `postStartOnMain`, `stopMe` | clients by intents and by binder; tun2socks, pdnsd, hev; the two parts below |
| its verification loop | `mProxyVerified`, `mIpCheckFailures`, `mProbeInFlight`, `mPendingIpInfo`, `mIpInfo`, `accel_ip.json` | `mIpCheckRunnable`, the executor's probe, the answers it posts, `applyIpInfo`, screen receivers | stops the service; started by `start` and by tunnel-up |
| its usage counters | `mCumulativeRx/Tx`, `mReceivedBytes`, `mSentBytes`, `mBaseRx/Tx`, `mStatsTick`, preferences `usage_rx/tx_*` | `mStatsRunnable`, `readUsageBytes`, `loadProfileBytes`, `persistProfileBytes` | tunnel-up and `stopMe`; the UI reads the preferences |
| host resolution | `mResolvedServer`, `accel_dns.json` | `resolveServerHost`, a parallel thread per connect | the start thread, the probes |
| notification | last text and actions | `showNotification`, `updateNotification` | the system |
| `VpnViewModel` | mirrored service state, connect request, binding | poll, broadcasts, `startVpn`, `stopVpn`, rebind | the service by binder and intents |
| `FloatingControlService`, `BubbleMenuOverlay` | bubble state, pending profile, binding | `pollState`, `setState`, `doStart`, time-out, rebind | the service by binder and intents |
| `ProfileManager`, `Profile`, `ProfileFactory` | profile list, default, per-profile keys | add, remove, rename, switch, reload | both processes, one preferences file |
| `Routes`, `SocksTester`, `Utility` | none | prefix splitting, handshake, configuration, parsing | the service |
| `UpdateChecker` | one cache file | download with resume, pause, cancel, retry | update dialog |
| `BootReceiver` | none | starts the service and the bubble | the service |
| hev: entry points, worker, tasks (`hev/src/hev-jni.c`, `hev-main.c`, `hev-socks5-tunnel.c`, task scheduler) | mutex, worker flags, the atomic `tsync`, the event pair, task states, session list | start, stop, init, run, fini; event, TUN, timer and session tasks | the service by JNI; lwIP |
| hev: TCP and UDP sessions (`hev-socks5-session-*.c`) | phase, time-out, queues, ring, frame list | connect, handshake, splice, drain, lwIP's callbacks | the tunnel's tasks, the proxy |
| badvpn: TCP relay (`badvpn/tun2socks/tun2socks.c`, `BSocksClient.c`) | a `struct tcp_client`, two buffers, windows | lwIP's and BSocksClient's callbacks | apps through lwIP, the proxy |
| badvpn: UDP (`UdpGwClient.c`, `SocksUdpGwClient.c`, DNS gateway) | pending jobs, connection table, DNS port table | submit, reuse, keep-alive, reconnect, query, reply | the TUN device, the proxy, pdnsd |
| pdnsd (`dns_answer.c`, `cache.c`, `main.c`) | thread counts, the cache lock and its waiters | answer threads, lock and unlock, exit on SIGTERM | the DNS gateway |
| libancillary, `system.cpp` | none | pass the TUN descriptor, exec, signals | the service |

What is hard in it:

* `stopMe` runs on the main thread or on a binder thread; only its first test is
  synchronized. `onStartCommand` sets `mRunning` long before the interface exists.
* every connect leaves a background thread that a stop does not join; a
  generation counter, incremented without a lock, tells it that it is stale;
* stops are posted to the main looper by threads of sessions that may be over;
* answers of probes reach the looper whenever they like;
* counters are read before a stop and saved after it;
* a surface learns of the service by polls, broadcasts and its own requests, on two
  threads, and shows what the last frame happened to see;
* hev's stop reaches a worker in any phase through four bits of one atomic word;
  its tasks are cooperative, so a task that does not yield stops all of them, a task
  that waits must be woken, and waking one that is gone aborts the process;
* both engines relay two directions that close separately, between a TCP stack
  that calls back and a socket that blocks;
* badvpn keeps pointers into buffers that are valid until a pending job runs, and
  pending jobs run last in, first out;
* pdnsd's cache lock suspends readers, and its exit takes the lock that a stuck
  thread may hold.

The promises that make the parts correct:

* sessions follow one another; the tunnel that is up is the running session's,
  over its own interface; a stopped service holds no interface and no engine; a
  connecting session goes up or ends; a stop ends the session it was meant for;
* "verified" comes from a probe of this session, the cached exit IP is filed under
  the proxy it was seen through, failures of one session do not end another, and
  the loop runs as long as the tunnel does;
* a profile's total counts what passed while its own tunnels were up, once, and is
  never lost but for the last few seconds before a kill;
* a surface that has lost the service binds again, and when the service settles it
  comes to show that;
* a stop of the engine touches only what is open, and returns; a session that ends
  by itself has delivered what it took, in order; nothing sleeps over work it could
  do; a table that is full stays consistent; every ending completes.

`PROJECT.json` lists every component, every hazard with its line, and which
definition models which lines.

## 2. Modules

| module | models | state and actions |
|---|---|---|
| `VpnSession` | the abstract promise: a session is connecting, goes up once, goes down | `phase`, `session`, `by`; `Connect`, `Establish`, `Disconnect` |
| `SocksVpnService` | connect and disconnect with all their threads | below |
| `SocksVpnServiceProofs` | theorems about it | |
| `IpCheck` | the verification loop | below |
| `IpCheckProofs` | theorems about it | |
| `UsageStats` | the usage counters | below |
| `Surfaces` | the view model with its screen, and the bubble | below |
| `UsageAndSurfaces` | the sum of the two, for one run | |
| `UsageAndSurfacesProofs` | theorems about both | |
| `HevTunnel` | hev's entry points, worker and tasks | below |
| `HevTunnelProofs` | theorems about it | |
| `HevSessionTcp`, `HevSessionUdp` | one session of the hev engine | below |
| `HevEngine` | the sum of these three | |
| `HevEngineProofs` | theorems about the sessions and the sum | |
| `TcpRelay`, `Tun2socksUdp`, `Pdnsd` | the badvpn engine | below |
| `TcpRelayProofs`, `PdnsdProofs` | theorems about two of them | |
| `BadvpnEngine` | the sum of these three | |
| `BadvpnEngineProofs` | theorems about `Tun2socksUdp` and the sum | |

A sum module runs one of its parts at a time: the parts meet only in what one
shows the other (a session waits and ends; a packet gets lost or not), and running
them together would multiply their states without adding a step. `HevTunnel` lets a
terminated session end; that it does is `TerminatedSessionsEnd` of the sessions.

### SocksVpnService

Fields keep their names. `open`, `tun2socks`, `pdnsd`, `pidFile` and `hev` are what
the fields stand for outside the heap: open tun descriptors, live processes, the
pid file, the native worker. Sessions are numbered; a process handle, a
descriptor or a posted message is the session it belongs to.

The main thread takes one message of `queue` at a time. `mpc` is its place in
`onStartCommand`, `spc[s]` the place of thread `s` in `stopMe`, `thread[g]` that of
session `g`'s start thread, `monitor[g]` that of its tun2socks monitor. An action
is the code between two accesses of shared state: `mConnectSeq++` is a read
(`StartRunning`, `StopCancel`) and a write (`StartSeqWrite`, `StopSeqWrite`), and the
capture of the counter (`StartCapture`) is a third step. `stopMe` past its
synchronized gate (`EnterStop`) is seven steps, because a binder thread and the
main thread can be in it at once.

* stops: `BinderStop` (`VpnBinder.stop`, and `onRevoke`, which the system calls
  through a binder of its own), `MainStop` (notification action, screen
  off, dead proxy), `PostedStop` (`runOnMainThread { stopMe }`),
  `StopCommand` (the ordered intent), `OnDestroy`;
* a start: `StartIgnored`, `StartNoProfile`, or `StartFields` to `Start`, with
  `ConfigureFails`, `ConfigureReadThrows` (the descriptor is read after a stop
  closed it, inside the handler) and `FdThrows` (the same outside it: the
  process dies and the sticky service is started again);
* the start thread: pdnsd, resolution and first checkpoint, then tun2socks
  (`Spawn` ... `SendFd`) or hev (`HevConf` ... `HevUp`), with all their failures;
* tunnel-up: the posted check (`PostStartStale`, or `PostStartOnMain` past it and past
  `postStartOnMain`'s own test of `mRunning`) and `mTunnelUp = true` (`PostStartUp`) are two
  steps, so a binder stop may come in between;
* `Tun2socksExits` and `HevExits`: an engine dies by itself at any time.

Abstractions. pdnsd forks and writes its pid file at once. A checkpoint reads its
three fields in one step; the sendfd poll is its last attempt. Spawning tun2socks
and storing its handle is one step (nobody else can see the process in between).
Parameters, routes, command lines, configuration files, logging and error texts
are left out. There is one service instance; `onBind` is the flag `bound`.
`MaxSessions` bounds the starts and `MaxQueue` what the environment puts in the looper
(threads post without that bound).

### IpCheck

A proxy stands for its address, its cache key and its exit IP, so that "the IP
saved under this key" can be told right from wrong. A probe is the session that
began it and the proxy it asks. `callbacks` counts posted runs of
`mIpCheckRunnable` (`removeCallbacks` sets it to 0, and posting does not replace an
earlier post), `executor` is the single-thread executor's queue, `results` the
answers on their way to the main looper. A blocked check (screen off, Doze) posts
itself again and is a stuttering step. `evidence` and `ownFailures` are history:
whose probe set `mProxyVerified`, and how many of this session's handshakes
failed. Connecting, tunnel-up and stopping are single steps: this is the service
with stops on the main thread. `mResolvedServer` is identified with the server.
`overlapped` is history too: a session has ended while its probe or an answer was
under way. The properties that are the session's own hold as long as it has not.

### UsageStats

One counter stands for receive and send. `tun` restarts with each interface; `uid`
never does, and counts everything the app transfers: the engine's traffic, but also
probes, look-ups and update downloads (`UidTraffic`, at any time). As in
`readUsageBytes`, every reading finds the interface's counter, the UID's or none
(`Readable`), whatever the last one found; a first reading of none gives the base 0.
`mStatsTick` is kept modulo `USAGE_PERSIST_TICKS`. `persistProfileBytes` reads the name,
then the totals; `stopMe` is split where it saves, closes and resets. `Killed` is the
system killing the process. `shown`, `unsaved`, `baseOf`, `carried` and `switched` are
history: the total last counted per profile, the counts since the last save, the
counter the base was read from, what that counter advanced by while the profile's
tunnel was up, and the profiles for which a session read another counter than its
base's. `CountsWhileUp` bounds a total by `carried`; it says nothing of a profile in
`switched`, whose total the code gets wrong, and on the UID's counter `carried` itself
holds the app's own traffic.

### Surfaces

The service is what `getState` tells (`svc`), its queue of intents, and one broadcast
on its way. A behaviour has one surface, the app or the bubble; to each the other
is somebody else who starts the service.

* The view model: `PollRead` and `PollWrite`, `StateReceiver` and `NoteWrite` are the
  two `syncState` coroutines that may run at once on the I/O dispatcher, each with a
  snapshot that may be stale when it is written (the writes of one are one step).
  `scheduleRebind`, `RebindRunnable` and the connection callbacks are the binding. The
  first `bindService` may be refused; nobody looks at its result
  (`VpnViewModel.kt:228`), and the view model then never binds (`rebind = "refused"`).
* The screen: `Compose` is a frame. `LaunchedEffect` acts on what a frame sees, so
  a message that is replaced or repeated between two frames ends no request, and a
  connect that begins before the last one's end was seen has no time-out of its
  own; `missed` records that. `TapConnect`, `PermissionResult`, `TapStop`,
  `TapRestart`, `ConnectTimeout` are the user's and the clock's steps.
* The bubble: `pollState` (by its poll or by a broadcast), `BubbleTap` (tap,
  notification action, country switch), `BubbleTimeout`, `BubbleRebinds`.

Message texts are reduced to four kinds, exit-IP details are left out, and so is the
fallback of `stopVpn` when the system refuses the ordered intent.

### HevTunnel

`pc[c]` is a caller's place in `native_start_service` or `native_stop_service`,
`worker` the worker's in `hev_socks5_tunnel_main`. `tsync` is the set of bits that are
set; each atomic operation of the code is one action (`QuitWait`, `QuitSent`,
`QuitWrite`, `QuitLatch`, `QuitUnwait` for the stop, `WorkerInit`, `WorkerRun`,
`WorkerFini`, `WorkerClose` for the worker). A task's action is what it does between
two yields: `EventStops` terminates and joins the others in order, `IoRead` accepts
sessions, `TimerPass` parks the timer when there are none, `SessionEnds` unlists
one. `IoFails` is a read of the TUN device that fails other than by EAGAIN, after
which the reader never yields again ("spin"). `cut` holds the sessions told to
terminate. `max-session-count` and mapped DNS are off in the configuration the app
writes (`Utility.makeHevConf`), so eviction and the DNS task do not occur.

### HevSessionTcp and HevSessionUdp

Data are counted. A TCP session's `Pass` is one turn of the splice loop in both
directions; the handlers `tcp_recv_handler`, `tcp_sent_handler`, `tcp_err_handler` and
`terminate` run between any two of its steps. A time-out of 0 is `timeout = FALSE`.
In the UDP session a datagram is its number, `frames` is `frame_list`, and a batch is
fixed before a send that may wait. Replies are only counted. Over the datagram socket
the send reports how many datagrams it took. Inside the TCP connection a frame can be
out or in by halves (`outPart`, `inPart`), and the model follows what the code makes of
it:

* `hev_task_io_socket_sendmsg` returns the size sent so far when a wait or a later send
  fails, and `hev_socks5_udp_sendmmsg_tcp` reports the whole batch for any positive size
  (`Delivered`): the unsent rest of the batch is removed, and a torn frame stays in the
  stream. `torn` records it.
* `hev_socks5_udp_recvmmsg_tcp` waits in the middle of a frame (phase "recv"). If that
  wait fails, what was read is gone, and a number of bytes is returned as a number of
  messages (`hev-socks5-udp.c:188`, `:219`); `RecvBroken` is a choice over what can come of
  it.
* the wake-up of a frame that arrives during that wait is used up by it; when the
  receive then fails, the loop goes to sleep with the frame in its list. `missed` records
  it.

### TcpRelay, Tun2socksUdp, Pdnsd

`TcpRelay` is one `struct tcp_client` (clients share nothing); an action is one
callback of lwIP or of BSocksClient with everything it calls, `client_dealloc`
included. The build defines `NDEBUG`, so the code's asserts are invariants here and
no guards. `Tun2socksUdp` is the udpgw path, because the Android build does not define
`ANDROID_UDP`: `device` is the packet in the read buffer, `jobs` the pending jobs in
the order they will run, `connections` the udpgw table from least to most recently
used, `dns` the gateway's table by source port, `asked[p]` the servers that port `p`
has asked and may still hear from, `mixed` the ports that asked a second server
while the first was remembered, `strayed` those to which a datagram came that was no
reply but bore the gateway's port number, all that the code looks at (`DnsStray`). In
`Pdnsd`, answer threads are alike,
so `at` counts how many are at each place; what is done under `lock_mutex` is one
step; a woken thread is at a place of its own until it has the mutex. The status
socket is off in the configuration the app writes, and the timed lock, the yield
and `empty_cache` with it. lwIP, the kernel's sockets and the proxy are external.

## 3. Runs

| run | question | instance | states |
|---|---|---|---|
| `service_main` | do interface, tunnel and phases belong to the running session, does connecting end, and is none left connecting, if all stops are on the main thread? | 2 sessions, both engines, all events, looper of 2, threads overlap | 263,568 |
| `service_serial` | if a start waits for the old threads, are engines left behind, and does a posted stop end its own session? | 2 sessions, 1 binder thread, both engines, all events | 375,968 |
| `interface_leak` | violation, finding 1 | 1 session, 1 binder thread | |
| `stale_stop` | violation, finding 2 | 2 sessions, no binder thread | |
| `lost_generation` | violation, finding 6 | 3 sessions, 1 binder thread, tun2socks, start commands | |
| `ip_loop` | does the loop live, is a dead proxy torn down, and, while nothing has overlapped, are verification, cache and failures the session's own? | 3 sessions, 3 proxies (one dead), 1 sleep, overlapping probes | 757,165 |
| `ip_stale_saved` | violation, finding 3 | 2 sessions, 2 proxies | |
| `shown` | are the usage totals complete, bounded by what passed while the profile was up, and nearly safe from a kill; do the surfaces bind again and settle on the service's state? | 2 sessions, 2 profiles, 2 units on each counter, save every 2nd tick; 2 events on the app's screen, 4 on the bubble, 1 intent on its way | 641,323 |
| `usage_cancel` | violation, finding 4 | the counters, with stops before tunnel-up | |
| `hev_engine` | does a stop write only to an open pair and return, is no dead task woken, does nothing sleep over work, does an orderly end lose nothing? | 2 callers, 2 workers, 2 sessions, TUN failures; TCP: window and ring 2, 3 units each way; UDP: pool 2, batches of 2, 4 datagrams and 2 replies, whole or in parts | 195,337 |
| `hev_lost_stop` | violation, finding 5 | 2 callers, 1 worker, 1 session | |
| `badvpn_engine` | does a relay keep moving and end complete, do the tables stay consistent, is the cache lock exclusive and without lost wake-ups, does pdnsd exit? | window and send buffer 2, receive buffer 3, 4 and 5 units; 2 x 2 addresses, 2 connections, buffers of 1, 2 queries, stray datagrams; 5 answer threads, 1 queued | 167,682 |

Bounds. Two sessions are the least in which a thread, a message or a stop of one
session meets another. They are not always enough: that a lost increment of
`mConnectSeq` gives two sessions one generation takes a third (`lost_generation`).
The proofs below cover any number of sessions under the conditions of
`service_main` and of `service_serial`. Three sessions of `IpCheck`
let an answer skip a whole session, and let failures of two sessions add up to
`MaxFailures` = 3, the code's value. `PersistTicks` is 2 instead of 5, the least
that has a tick that saves and one that does not; two sessions and two units on
each counter let a unit fall before tunnel-up, between two saves or after the stop,
and into the next session, of the same profile or of the other. An event of `Surfaces` is a request
of a user or a death of the `:vpn` process; a surface made while the service is
connected has used one for it. Two let a request, and its end by a stop, a
restart or a death, meet every broadcast and stale snapshot; snapshots, frames,
time-outs, verification and failures of the service are not bounded.

In the engines a bound is one past the size of what it has to fill: four datagrams
against a pool of two (which lets three wait) and a batch of two, so one is refused
while a batch waits, and a batch can go out whole, in part or torn;
`RecvBuf > SndBuf`, so a received block must wait for acknowledgements; more units
than the windows hold; more address pairs than connections, so one is reused; five
answer threads, so that enough writers wait for readers to be suspended
(`SUSP_THRESH`). Two workers and two callers let a stop of one worker meet the next
start. The proofs cover any numbers for both engines.

The properties hold under conditions that the configurations state and the
violations show to be needed: `Binders = {}` (no stop on a binder thread) or
`Overlap = FALSE` (a start waits for what the last session left under way); with
neither, three sessions violate `SettledRunningIsUp` too, after `lost_generation`;
and
`Cancels = FALSE` and `BinderStops = FALSE` for the counters. With
`BinderStops = TRUE` every property of `UsageStats` fails within a few steps: `stopMe`
on a binder thread resets the name and the counters under a running
`mStatsRunnable`. The app's own stop button goes through the binder (and sends the
ordered intent behind it), so what `service_main` and `shown` establish is the service
without that path, and `interface_leak`, `lost_generation` and `service_serial` are what
is known of it.

Other conditions stand inside the properties. Each is a place where the code does not
do what the rest of the property says, and where no document denies it:

* `~overlapped` (`IpCheck`): a session has ended over a probe (finding 3);
* `missed` (`Surfaces`): a message or the end of a connect fell between two frames, and
  the screen is stranded; and a first `bindService` that was refused;
* `switched` (`UsageStats`): two readings of one session came from different counters;
* `torn` (`HevSessionUdp`): a send in the stream gave up in the middle of a batch and the
  rest of the batch is lost; `missed` (there): a receive in the stream failed in the
  middle of a frame and the task sleeps over frames that came meanwhile;
* a TUN reader that spins (`StopOfRunningReturns`);
* `strayed` and `mixed` (`Tun2socksUdp`): a foreign datagram was taken for a DNS reply, or
  a port asked two servers.

Deadlock checking is off: starts, sleeps and traffic are bounded, so every
instance ends in a state where nothing is left to do; that a session does not end
up stuck is what `ConnectingEnds`, `SettledRunningIsUp` and `LoopStaysAlive` say.

Fairness. `SocksVpnService`: weak fairness of the main thread, of each thread in
`stopMe`, of each start thread and of each monitor: the system schedules every
thread, and the calls they block in have time-outs or return. Clients, the user,
the system and the engines need not act. `IpCheck`: weak fairness of the main looper
and of the executor, whose probes have connect and read time-outs. Screen events,
connects and stops are not fair. `Surfaces`: pollers, coroutines, frames, the
broadcast, the connect time-out and the service's main thread go on, and a bind
comes up while there is a process; users and the proxy need not act. hev: threads
and tasks that can run do, the event pair is polled, and a terminated session ends;
for `ClosedEnds`, the client acknowledges and the proxy reads. The relay: BSocksClient
finishes or fails its handshake and its sends, the app acknowledges or lwIP gives
the connection up. pdnsd: only its main thread; answer threads may hold their locks
for ever.

Every property has a mutant in `PROJECT.json`: a plausible bug of the code (a
dropped generation check, a forgotten close, a missing reset) under which TLC
finds it violated. The mutants are the definitions `Mut_...` beside the originals.

## 4. Findings

1. `interface_leak`. A binder stop between `mRunning = true`
   (`SocksVpnService.kt:531`) and `establish()` (`:966`) closes nothing; the interface
   opens afterwards, the start thread aborts as stale, and the ordered stop intent
   returns at `:630`. The device keeps a tun interface nothing reads.
2. `stale_stop`. Stops posted by monitors and failed start threads are not tied to
   a session: after stop and restart, the old monitor's `mRunning` test (`:1121`)
   is true again and its `stopMe` ends the new session.
3. `ip_stale_saved`. An answer that arrives after the stop is buffered (`:331`), is
   applied at the next session's tunnel-up and saved under its key (`:1288`).
4. `usage_cancel`. A connect that ends before tunnel-up saves 0 over the profile's
   totals (`:647`, loaded only at `:1311`).
5. `hev_lost_stop`. `hev_socks5_tunnel_stop` reads `SYNC_SEND`
   (`hev/src/hev-socks5-tunnel.c:752`) and latches `SYNC_STOP` (`:765`) in two steps. In
   between the worker can finish its init and pass its only test of `SYNC_STOP`
   (`:726`): the tunnel runs on, and `native_stop_service` waits in `pthread_join` with
   the mutex held.
6. `lost_generation`. `mConnectSeq++` is a read and a write. A binder stop of session
   1 reads 0 (`:644`) and stalls while sessions 1 and 2 start (`:534`) with the
   generations 1 and 2; it writes 1 back and ends session 2. Session 3 then runs with
   generation 2, that of session 2's orphaned start thread, whose checkpoints pass
   again: it can bring its tunnel up in session 3's place.

Each quotes the comment it contradicts in `PROJECT.json`.

## 5. Proofs

All leaves are checked by TLAPS (SMT, Zenon, LS4).

`SocksVpnServiceProofs`
* `TypeCorrect`: `Spec => []TypeOK` for all constants.
* Under `Binders = {}`: `TunnelCorrect`, `InterfaceCorrect` and `Refinement`
  (`Spec => ImplementsVpnSession`) for any number of sessions, any engine, any
  queue, with start threads of any number of old sessions running. None of the
  three is inductive. The invariant `SessionInv` adds four parts to the types.
  `PhaseInv`: what `mRunning`, `live`, `begun` are at each place of the main
  thread in `onStartCommand` and `stopMe`. `GenerationInv`: no session has captured
  more than `mConnectSeq`, and once the running session has incremented it every
  other one has captured less; that is why an old thread's "up" message is stale.
  `UpInv`: while the tunnel is up, it is by the running session, or a stop is under
  way. `InterfaceInv`: no interface is open but the one the field holds, and that
  one exactly from `configure()` until `stopMe` closes it. That the message whose check
  passed is still the running session's when `mTunnelUp` is set, one step later, is
  `HandInv` and `HandOwn`: on the main thread nothing comes in between. TLC checked
  `SessionInv` before the proof. The proof goes by action; start threads are shown
  once to leave the variables of the invariant alone (`StartThreadApart`), and all
  ways into `stopMe` share `GateStep`. The refinement maps the gate of `stopMe` to
  `Disconnect`, `StartRunning` to `Connect`, `PostStartUp` to `Establish`, and
  everything else to a stutter.
* `OrphanCorrect`, under `Binders = {}`, from `GenerationInv`: the counter does what its
  comment says. `lost_generation` shows that a binder thread breaks it.
* `ConnectedCorrect`, under `Binders = {}`, and `SerialConnectedCorrect`, under
  `~Overlap` with any binder threads: `SettledRunningIsUp`. `AloneInv` says that a
  running session has no stop beside it; from it `ProgressInv` is kept: the running
  session holds the current generation and is not cancelled, and until the tunnel is
  up its start thread works on, or the looper holds a stop or its own "up".
  `ThreadOutcome` goes once through the nineteen steps of a start thread: each goes
  on, posts, or ends because it was stale.
* `CleanStopCorrect` and `PostedStopCorrect` (an action property), under `~Overlap` with
  any binder threads. `SerialInv` says who owns what a session started outside:
  only the last session has threads and programs (`SoleInv`); a start command in the
  looper finds the service at rest, and what is posted is the last session's
  (`LooperInv`); a tun2socks process or a hev worker is the field's, with the service
  running or a stop that has yet to come to it, or is in the hands of the start
  thread that is about to look whether it was stopped (`Tun2socksInv`, `WorkerInv`).

`IpCheckProofs`
* `TypeCorrect` and `LoopNeverDies`, for all constants. The invariant `LoopInv`
  adds to the property that a probe marked in flight exists, running or answered
  (`FlightInv`), so a callback dropped behind it has a successor, and that the
  failure that reaches the limit has taken the tunnel down (`LifeInv`).
* `VerdictsCorrect` and `SavedCorrect`, for all constants, of properties that hold
  `~overlapped`. `SerialInv`, which holds as long as nothing has overlapped
  (`UnlessInv`), adds that at most one probe or answer exists, that it is the running
  session's and asks its proxy, and that a buffered answer is too; `overlapped` never
  goes back (`StillSerial`).

`HevTunnelProofs`
* `TunnelTypeCorrect`, `WritesCorrect`, `WakesCorrect`, `TimerCorrect`, for any callers,
  sessions and number of workers. The invariant `TunnelInv` adds three parts.
  `MutexInv`: a caller past the lock holds it, so there is at most one. `PairInv`: the
  event pair is open exactly between init and close, `SYNC_SEND` is set only while the
  worker is in run, its scheduler or fini, and the pair stays empty until the holder
  of the mutex writes. `WriteInv`: a stop that saw `SYNC_SEND` holds `SYNC_WAIT`, and
  that keeps the worker in fini, so the pair it writes to is open. `TaskInv`: while
  the tunnel runs no fixed task has stopped, afterwards the event task joins only
  tasks that have not, and no listed session has stopped; that is why no wake-up
  aborts. The proof goes by thread: callers leave the tasks alone, tasks leave the
  handshake alone (`CallersLeaveTasks`, `TasksLeaveHandshake`), and every task step that
  changes one task's state shares `OneTaskStep`.

`HevEngineProofs`
* `EngineTypeCorrect`, `NoSleepCorrect`, `OrderlyEndCorrect`, `FramesCorrect`, for any
  window, ring, pool, batch and amounts. `EngineInv` joins `TunnelInv` with the
  sessions' invariants. `HevTcpInv`: what a side sent is delivered or held
  (`BalanceInv`); while nothing has gone wrong a direction is over only when its
  sender has closed and all was moved on, and lwIP has dropped the connection only
  after our FIN and the last acknowledgement (`OrderlyInv`, which is what makes an
  orderly end complete). `HevUdpInv`: a batch is a prefix of the list and is partly
  unsent while the task is in the send (`BatchInv`), so that removing it by count
  removes what was sent, or in the stream, once `torn`, more than that: the order is
  kept all the same.

`TcpRelayProofs`
* `RelayTypeCorrect`, `WindowCorrect`, `UnderWayCorrect`, `ClosesCorrect`, for any window
  and buffers. `UploadInv` and `DownloadInv` balance what was taken against what is in
  each buffer and tie the operation under way to it; `EndInv` says what a relay
  that only one side has closed still waits for. Every callback is proved through
  the functions it calls (`DeallocFacts` and the lemmas after it).

`PdnsdProofs`
* `PdnsdTypeCorrect`, `CacheCorrect`, `WakeupCorrect`, for any `proc_limit` and
  `procq_limit`. The type invariant is a count of threads and is proved as sums
  (`TypeIsCounts`). `LockInv` ties who is in the cache to the lock's two fields, with
  the soft locks of the exit, which may leave a lock without a holder. `WaitInv` is
  the strengthening `NoLostWakeup` needs: with the lock free and writers pending, a
  writer is woken, or a reader is that will not find itself suspended.

`BadvpnEngineProofs`
* `UdpGwTypeCorrect`, `ConnectionsCorrect`, `FirstPacketCorrect`, `RepliesCorrect`, for any
  addresses, tables and buffers. `TableInv` needs facts on sequences without
  repetition (removing, appending, moving to the tail), proved once; `JobsInv` lists
  what can be pending with a packet in the device's buffer: at most one first job,
  for that packet, before the job that frees the buffer. A stray datagram takes one from
  a port's count (`EntryRemoved`, `StraySafe`), which is why `RepliesCorrect` leaves out
  the ports it came to. `BadvpnTypeCorrect` joins the three parts.

`UsageAndSurfacesProofs`
* `ShownTypeCorrect`, `StopSavesCorrect`, `UsageCorrect`, `KillLossCorrect` and
  `UsageGrowsCorrect` (the action property that `usage_cancel` violates), for any
  profiles, traffic and save interval, under `OrdinaryStops`: no stop on a binder
  thread and none before tunnel-up. Without it they are false (finding 4 and the
  hazard at `SocksVpnService.kt:777`). `UsageInv`: only the counting session's profile
  can have counts that are not saved, its total is what the fields say, and, unless it
  has `switched`, what the counter of its base advanced by since tunnel-up bounds it
  (`AmountInv`), whichever counter each reading finds; unsaved counts are ticks since
  `mStatsTick` was 0 (`TickInv`).
* `RebindCorrect`, for all constants: only a view model whose first bind was refused has
  nothing pending. `SurfaceInv` adds that a retry is due only while
  `scheduleRebind`'s guard lets it through.

Every inductive invariant above was an invariant of a TLC run before its proof.

Assumptions: the named ASSUMEs of the modules (thread names differ, options are
Booleans, numbers and sizes are naturals, buffers, limits and `MaxFailures` where
the code has at least one are positive, session names are not those of the fixed
tasks, "no profile" and "no packet" are not a profile or an address), which TLC
evaluates in every run, and the conditions stated in the theorems.

Only model-checked: the liveness properties `ConnectingEnds`, `DeadProxyIsTornDown`,
`SurfacesSettle`, `StopOfRunningReturns`, `TerminatedSessionsEnd`, `ClosedEnds`,
`HalfClosedIsFreed` and `KilledExits`, since fairness and ENABLED are beyond the prover.
Every other property of a passing run is a theorem.

## 6. Plan

Done: the service (`VpnSession`, `SocksVpnService`, `IpCheck`, `UsageStats`), its
surfaces, both engines, and the proofs above.

To come, in this order:
1. Safety parts of the liveness properties, as theorems: in `TcpRelay`, that a
   half-closed relay always has an operation under way or an acknowledgement to
   come; in the hev sessions, that a terminated task is never asleep.
2. A refinement for the engines: `HevSessionUdp` as a bounded queue that accepts,
   refuses and delivers in order.
3. What `SocksVpnService` keeps with binder threads and overlapping starts: a bound
   on how far `mConnectSeq` can fall behind.

## 7. Not modelled

* Host resolution (`mResolvedServer`, `accel_dns.json`), `ProfileManager` in its two
  processes, and the update download: small state of their own, whose hazards are
  listed in `PROJECT.json` and have no property. The first needs the session
  numbering of `SocksVpnService` and the probes of `IpCheck` in one module; the other
  two are dominated by file and preference I/O that the model would have to invent.
* `Routes` and `SocksTester`: pure code over addresses and bytes, without state.
* UI rendering, notification text, configuration files, parsing and formatting of
  text, and the checker worker.
* Most of the C under `jni/` is third-party code in which the app has no logic of its
  own: two copies of lwIP, yaml, the lemon parser generators, badvpn's client,
  server, ncd and test programs, which `Android.mk` does not build, and pdnsd's resolver
  and configuration parser, which turn packets and text into calls on the cache.
  What the modelled parts see of them (windows, callbacks, errors, lost packets) is
  external to the modules. The share of C lines that the map covers is small for
  that reason.
