--------------------------- MODULE SocksVpnService ---------------------------
(***************************************************************************)
(* Connect and disconnect in SocksVpnService.kt: one service instance in   *)
(* the :vpn process, from onCreate to onDestroy.                           *)
(*                                                                         *)
(* Threads.  The main thread takes one message of its looper at a time and *)
(* runs onStartCommand and most calls of stopMe.  A binder thread runs     *)
(* stopMe when a bound client calls IVpnService.stop() and when the system *)
(* revokes the permission to be the VPN (onRevoke).  Every connect spawns  *)
(* a start thread, and every tun2socks process a monitor thread.  A step   *)
(* below is the code between two accesses of state that another thread can *)
(* touch in between.                                                       *)
(*                                                                         *)
(* A session is one pass of onStartCommand; sessions are numbered in the   *)
(* order they begin, and 0 stands for null.                                *)
(***************************************************************************)
EXTENDS Integers, Sequences, FiniteSets

CONSTANTS
  Main,         \* the main thread
  Binders,      \* the binder threads that clients call stop() on
  Events,       \* which of the commands of Intents are sent, and "unbind"
  HevChoices,   \* the values PREF_HEV_TUNNEL may have when a session begins
  Overlap,      \* may a start arrive while a finished session's threads run on?
  MaxSessions,  \* bound: how many start commands are sent
  MaxQueue      \* bound: the environment sends nothing to a looper this full

ASSUME ThreadAssumption == Main \notin Binders
ASSUME EventAssumption == Events \subseteq {"start", "sysstart", "stop", "unbind"}
ASSUME EngineAssumption == HevChoices \subseteq BOOLEAN /\ HevChoices # {}
ASSUME OverlapAssumption == Overlap \in BOOLEAN
ASSUME BoundAssumption == MaxSessions \in Nat /\ MaxQueue \in Nat

VARIABLES
  \* fields of the service that decide what a connect or a stop does
  mRunning, mTunnelUp, mSendfdCancelled, mConnectSeq, mHev, mHevActive,
  mInterface,         \* the session whose interface the field holds, or 0
  mTun2socksProcess,  \* the session whose process the field holds, or 0
  \* what those fields stand for outside the Java heap
  open,               \* sessions whose tun interface is open
  tun2socks,          \* sessions whose tun2socks process is alive
  pdnsd,              \* sessions whose pdnsd daemon is alive
  pidFile,            \* the session whose daemon wrote pdnsd.pid, or 0
  hev,                \* the session the native hev worker runs for, or 0
  \* the threads
  queue,              \* the main looper's messages
  mpc,                \* where the main thread is in onStartCommand, or "up"
  spc,                \* spc[s]: where thread s is in stopMe
  tmp,                \* tmp[s]: what s read in the middle of mConnectSeq++
  thread,             \* thread[g]: where session g's start thread is
  connectSeq,         \* connectSeq[g]: the generation session g captured
  monitor,            \* monitor[g]: session g's tun2socks monitor thread
  \* the service's life
  begun,              \* how many sessions have begun
  sent,               \* how many start commands have been sent
  bound, startRequested, destroyed,
  \* history: the session that runs, and the one that brought the tunnel up
  live, upBy

fieldVars == <<mRunning, mTunnelUp, mSendfdCancelled, mConnectSeq, live, upBy>>
tunVars == <<mInterface, open>>
tun2socksVars == <<mTun2socksProcess, tun2socks>>
pdnsdVars == <<pdnsd, pidFile>>
hevVars == <<mHev, mHevActive, hev>>
mainVars == <<queue, mpc>>
stopVars == <<spc, tmp>>
threadVars == <<thread, connectSeq, monitor>>
lifeVars == <<begun, sent, bound, startRequested, destroyed>>

vars == <<fieldVars, tunVars, tun2socksVars, pdnsdVars, hevVars, mainVars,
          stopVars, threadVars, lifeVars>>

-----------------------------------------------------------------------------
Sessions == 1..MaxSessions
SessionOrNull == 0..MaxSessions
Stoppers == {Main} \cup Binders

(***************************************************************************)
(* What the main looper is asked to do: deliver a start command with a     *)
(* profile ("start") or without one ("sysstart"), or the ordered stop      *)
(* ("stop"); run a stopMe that a thread of session g posted ("stopMe"), or *)
(* the postStartOnMain that its start thread posted ("up").                *)
(***************************************************************************)
Intents == {"start", "sysstart", "stop"}
Message == [type : Intents, g : {0}] \cup [type : {"stopMe", "up"}, g : Sessions]
Intent(t) == [type |-> t, g |-> 0]
Post(t, g) == queue' = Append(queue, [type |-> t, g |-> g])

MainPcs == {"idle", "run", "seqWrite", "capture", "configure", "start", "up"}
StopPcs == {"out", "cancel", "seqWrite", "tun2socks", "pdnsd", "hev",
            "interface", "reset"}
ThreadPcs == {"none", "pdnsd", "resolve", "spawn", "spawned", "sendfd",
              "hevConf", "hevStart", "hevClaim", "hevRefused", "hevVerify",
              "done"}

MainIdle == mpc = "idle" /\ spc[Main] = "out"

TakeMessage(types) ==
  /\ MainIdle
  /\ queue # <<>>
  /\ Head(queue).type \in types
  /\ queue' = Tail(queue)

\* The checkpoint of the start threads: this attempt has been stopped.
Mut_StaleNoGeneration(g) == ~mRunning \/ mSendfdCancelled
Stale(g) == connectSeq[g] # mConnectSeq \/ ~mRunning \/ mSendfdCancelled

\* mConnectSeq++ reads, then writes this.
Mut_SeqDecrement(seq) == seq - 1
NextSeq(seq) == seq + 1

(***************************************************************************)
(* stopMe's synchronized gate.  The caller's other early returns come      *)
(* after it, so nothing else happens when the gate is shut.                *)
(***************************************************************************)
EnterStop(s, onDestroy) ==
  IF mRunning \/ onDestroy
    THEN /\ mRunning' = FALSE
         /\ live' = 0
         /\ spc' = [spc EXCEPT ![s] = "cancel"]
    ELSE UNCHANGED <<mRunning, live, spc>>

GateUnchanged == UNCHANGED <<mTunnelUp, mSendfdCancelled, mConnectSeq, upBy, tmp>>

Init ==
  /\ mRunning = FALSE /\ mTunnelUp = FALSE /\ mSendfdCancelled = FALSE
  /\ mConnectSeq = 0 /\ live = 0 /\ upBy = 0
  /\ mInterface = 0 /\ open = {}
  /\ mTun2socksProcess = 0 /\ tun2socks = {}
  /\ pdnsd = {} /\ pidFile = 0
  /\ mHev = FALSE /\ mHevActive = FALSE /\ hev = 0
  /\ queue = <<>> /\ mpc = "idle"
  /\ spc = [s \in Stoppers |-> "out"] /\ tmp = [s \in Stoppers |-> 0]
  /\ thread = [g \in Sessions |-> "none"]
  /\ connectSeq = [g \in Sessions |-> 0]
  /\ monitor = [g \in Sessions |-> "none"]
  /\ begun = 0 /\ sent = 0
  /\ bound = TRUE /\ startRequested = FALSE /\ destroyed = FALSE

-----------------------------------------------------------------------------
(***************************************************************************)
(* Clients and the system (external).                                      *)
(***************************************************************************)
\* No thread of the service has anything left to do.
Settled ==
  /\ queue = <<>> /\ mpc = "idle"
  /\ \A s \in Stoppers : spc[s] = "out"
  /\ \A g \in Sessions : /\ thread[g] \in {"none", "done"}
                         /\ monitor[g] = "watch" => g \in tun2socks

SendStart(t) ==
  /\ t \in Events
  /\ ~destroyed /\ sent < MaxSessions /\ Len(queue) < MaxQueue
  /\ Overlap \/ (Settled /\ ~mRunning)
  /\ sent' = sent + 1
  /\ startRequested' = TRUE
  /\ queue' = Append(queue, Intent(t))
  /\ UNCHANGED <<fieldVars, tunVars, tun2socksVars, pdnsdVars, hevVars, mpc,
                 stopVars, threadVars, begun, bound, destroyed>>

SendStop ==
  /\ "stop" \in Events
  /\ ~destroyed /\ Len(queue) < MaxQueue
  /\ queue' = Append(queue, Intent("stop"))
  /\ UNCHANGED <<fieldVars, tunVars, tun2socksVars, pdnsdVars, hevVars, mpc,
                 stopVars, threadVars, lifeVars>>

\* The last bound client goes away; onBind is not modelled further.
Unbind ==
  /\ "unbind" \in Events /\ bound
  /\ bound' = FALSE
  /\ UNCHANGED <<fieldVars, tunVars, tun2socksVars, pdnsdVars, hevVars,
                 mainVars, stopVars, threadVars, begun, sent, startRequested,
                 destroyed>>

-----------------------------------------------------------------------------
(***************************************************************************)
(* Ways into stopMe.                                                       *)
(***************************************************************************)
\* IVpnService.stop() of a bound client, or onRevoke, which the system calls
\* over its own binding and which begins with stopSelf: the calling binder
\* thread runs stopMe itself.
BinderStop(b) ==
  /\ spc[b] = "out" /\ mRunning
  /\ EnterStop(b, FALSE)
  /\ startRequested' \in {startRequested, FALSE}
  /\ GateUnchanged
  /\ UNCHANGED <<tunVars, tun2socksVars, pdnsdVars, hevVars, mainVars,
                 threadVars, begun, sent, bound, destroyed>>

\* The notification's stop action, screen off, or the third failed proxy
\* handshake: a callback on the main thread.
MainStop ==
  /\ MainIdle /\ mRunning
  /\ EnterStop(Main, FALSE)
  /\ GateUnchanged
  /\ UNCHANGED <<tunVars, tun2socksVars, pdnsdVars, hevVars, mainVars,
                 threadVars, lifeVars>>

\* runOnMainThread { stopMe(...) } of a start or a monitor thread.
PostedStop ==
  /\ TakeMessage({"stopMe"})
  /\ EnterStop(Main, FALSE)
  /\ GateUnchanged
  /\ UNCHANGED <<tunVars, tun2socksVars, pdnsdVars, hevVars, mpc, threadVars,
                 lifeVars>>

\* onStartCommand with ACTION_STOP_VPN: stopMe, then stopSelf in any case.
StopCommand ==
  /\ ~destroyed
  /\ TakeMessage({"stop"})
  /\ EnterStop(Main, FALSE)
  /\ startRequested' = FALSE
  /\ GateUnchanged
  /\ UNCHANGED <<tunVars, tun2socksVars, pdnsdVars, hevVars, mpc, threadVars,
                 begun, sent, bound, destroyed>>

\* onDestroy passes stopMe's gate whether or not the service runs.
OnDestroy ==
  /\ MainIdle /\ ~bound /\ ~startRequested /\ ~destroyed
  /\ destroyed' = TRUE
  /\ EnterStop(Main, TRUE)
  /\ GateUnchanged
  /\ UNCHANGED <<tunVars, tun2socksVars, pdnsdVars, hevVars, mainVars,
                 threadVars, begun, sent, bound, startRequested>>

\* Commands for a destroyed service are dropped by the system (external).
DropIntent ==
  /\ destroyed
  /\ TakeMessage(Intents)
  /\ UNCHANGED <<fieldVars, tunVars, tun2socksVars, pdnsdVars, hevVars, mpc,
                 stopVars, threadVars, lifeVars>>

-----------------------------------------------------------------------------
(***************************************************************************)
(* stopMe past its gate, on thread s.                                      *)
(***************************************************************************)
StopStep(s, from, to) ==
  /\ spc[s] = from
  /\ spc' = [spc EXCEPT ![s] = to]

\* Cancel the start thread; mConnectSeq++ reads the counter.
StopCancel(s) ==
  /\ StopStep(s, "cancel", "seqWrite")
  /\ mSendfdCancelled' = TRUE
  /\ tmp' = [tmp EXCEPT ![s] = mConnectSeq]
  /\ UNCHANGED <<mRunning, mTunnelUp, mConnectSeq, live, upBy, tunVars,
                 tun2socksVars, pdnsdVars, hevVars, mainVars, threadVars,
                 lifeVars>>

\* mConnectSeq++ writes it back.
StopSeqWrite(s) ==
  /\ StopStep(s, "seqWrite", "tun2socks")
  /\ mConnectSeq' = NextSeq(tmp[s])
  /\ tmp' = [tmp EXCEPT ![s] = 0]
  /\ UNCHANGED <<mRunning, mTunnelUp, mSendfdCancelled, live, upBy, tunVars,
                 tun2socksVars, pdnsdVars, hevVars, mainVars, threadVars,
                 lifeVars>>

\* Destroy the process the field holds and forget it.
Mut_StopTun2socksForgets(s) ==
  /\ StopStep(s, "tun2socks", "pdnsd")
  /\ mTun2socksProcess' = 0
  /\ UNCHANGED <<fieldVars, tunVars, tun2socks, pdnsdVars, hevVars, mainVars,
                 tmp, threadVars, lifeVars>>

StopTun2socks(s) ==
  /\ StopStep(s, "tun2socks", "pdnsd")
  /\ tun2socks' = tun2socks \ {mTun2socksProcess}
  /\ mTun2socksProcess' = 0
  /\ UNCHANGED <<fieldVars, tunVars, pdnsdVars, hevVars, mainVars, tmp,
                 threadVars, lifeVars>>

\* killPidFile: pdnsd.pid names the daemon that forked last, and nobody writes
\* tun2socks.pid.  mPdnsdProcess is the parent that ended when pdnsd forked.
StopPdnsd(s) ==
  /\ StopStep(s, "pdnsd", "hev")
  /\ pdnsd' = pdnsd \ {pidFile}
  /\ pidFile' = 0
  /\ UNCHANGED <<fieldVars, tunVars, tun2socksVars, hevVars, mainVars, tmp,
                 threadVars, lifeVars>>

StopHev(s) ==
  /\ StopStep(s, "hev", "interface")
  /\ IF mHev \/ mHevActive
       THEN hev' = 0 /\ mHevActive' = FALSE
       ELSE UNCHANGED <<hev, mHevActive>>
  /\ UNCHANGED <<fieldVars, tunVars, tun2socksVars, pdnsdVars, mHev, mainVars,
                 tmp, threadVars, lifeVars>>

\* mInterface?.close(); the field keeps the closed descriptor.
Mut_StopInterfaceForgets(s) ==
  /\ StopStep(s, "interface", "reset")
  /\ UNCHANGED <<fieldVars, tunVars, tun2socksVars, pdnsdVars, hevVars,
                 mainVars, tmp, threadVars, lifeVars>>

StopInterface(s) ==
  /\ StopStep(s, "interface", "reset")
  /\ open' = open \ {mInterface}
  /\ UNCHANGED <<fieldVars, mInterface, tun2socksVars, pdnsdVars, hevVars,
                 mainVars, tmp, threadVars, lifeVars>>

\* The fields go back to their defaults, mRunning among them; then stopSelf.
ResetRest(s) ==
  /\ StopStep(s, "reset", "out")
  /\ mHev' = FALSE
  /\ startRequested' = FALSE
  /\ UNCHANGED <<mSendfdCancelled, mConnectSeq, tunVars, tun2socksVars,
                 pdnsdVars, mHevActive, hev, mainVars, tmp, threadVars, begun,
                 sent, bound, destroyed>>

Mut_ResetKeepsTunnelUp(s) ==
  /\ ResetRest(s)
  /\ mRunning' = FALSE /\ live' = 0
  /\ UNCHANGED <<mTunnelUp, upBy>>

StopReset(s) ==
  /\ ResetRest(s)
  /\ mRunning' = FALSE /\ live' = 0
  /\ mTunnelUp' = FALSE /\ upBy' = 0

StopMe(s) ==
  \/ StopCancel(s)
  \/ StopSeqWrite(s)
  \/ StopTun2socks(s)
  \/ StopPdnsd(s)
  \/ StopHev(s)
  \/ StopInterface(s)
  \/ StopReset(s)

-----------------------------------------------------------------------------
(***************************************************************************)
(* onStartCommand with a start command.                                    *)
(***************************************************************************)
MainStep(from, to) ==
  /\ mpc = from
  /\ spc[Main] = "out"
  /\ mpc' = to

\* Already running: the command is ignored.
StartIgnored ==
  /\ ~destroyed /\ mRunning
  /\ TakeMessage({"start", "sysstart"})
  /\ UNCHANGED <<fieldVars, tunVars, tun2socksVars, pdnsdVars, hevVars, mpc,
                 stopVars, threadVars, lifeVars>>

\* Started by the system with no usable saved profile: stopSelf.
StartNoProfile ==
  /\ ~destroyed /\ ~mRunning
  /\ TakeMessage({"sysstart"})
  /\ startRequested' = FALSE
  /\ UNCHANGED <<fieldVars, tunVars, tun2socksVars, pdnsdVars, hevVars, mpc,
                 stopVars, threadVars, begun, sent, bound, destroyed>>

\* The session's parameters go to the fields, mHev among them.
StartFields ==
  /\ ~destroyed /\ ~mRunning /\ begun < MaxSessions
  /\ TakeMessage({"start", "sysstart"})
  /\ mpc' = "run"
  /\ begun' = begun + 1
  /\ mHev' \in HevChoices
  /\ UNCHANGED <<fieldVars, tunVars, tun2socksVars, pdnsdVars, mHevActive, hev,
                 stopVars, threadVars, sent, bound, startRequested, destroyed>>

\* The service runs from here on; mConnectSeq++ reads the counter.
StartRunning ==
  /\ MainStep("run", "seqWrite")
  /\ mRunning' = TRUE
  /\ live' = begun
  /\ tmp' = [tmp EXCEPT ![Main] = mConnectSeq]
  /\ UNCHANGED <<mTunnelUp, mSendfdCancelled, mConnectSeq, upBy, tunVars,
                 tun2socksVars, pdnsdVars, hevVars, queue, spc, threadVars,
                 lifeVars>>

\* mConnectSeq++ writes it back.
StartSeqWrite ==
  /\ MainStep("seqWrite", "capture")
  /\ mConnectSeq' = NextSeq(tmp[Main])
  /\ tmp' = [tmp EXCEPT ![Main] = 0]
  /\ UNCHANGED <<mRunning, mTunnelUp, mSendfdCancelled, live, upBy, tunVars,
                 tun2socksVars, pdnsdVars, hevVars, queue, spc, threadVars,
                 lifeVars>>

\* val connectSeq = mConnectSeq: a second read of the counter.
StartCapture ==
  /\ MainStep("capture", "configure")
  /\ connectSeq' = [connectSeq EXCEPT ![begun] = mConnectSeq]
  /\ UNCHANGED <<fieldVars, tunVars, tun2socksVars, pdnsdVars, hevVars, queue,
                 stopVars, thread, monitor, lifeVars>>

\* configure(): Builder.establish() opens the tun interface.
Configure ==
  /\ MainStep("configure", "start")
  /\ mInterface' = begun
  /\ open' = open \cup {begun}
  /\ UNCHANGED <<fieldVars, tun2socksVars, pdnsdVars, hevVars, queue, stopVars,
                 threadVars, lifeVars>>

\* configure() throws and leaves mInterface, or establish() returns null.
ConfigureFails ==
  /\ MainStep("configure", "idle")
  /\ mInterface' \in {mInterface, 0}
  /\ EnterStop(Main, FALSE)
  /\ GateUnchanged
  /\ UNCHANGED <<open, tun2socksVars, pdnsdVars, hevVars, queue, threadVars,
                 lifeVars>>

\* A stop closed the new descriptor before configure() logs its number: that
\* read throws inside the handler of onStartCommand, which calls stopMe.
ConfigureReadThrows ==
  /\ MainStep("start", "idle")
  /\ mInterface \notin open
  /\ EnterStop(Main, FALSE)
  /\ GateUnchanged
  /\ UNCHANGED <<tunVars, tun2socksVars, pdnsdVars, hevVars, queue, threadVars,
                 lifeVars>>

\* start() with the number of an open descriptor: a new attempt is not
\* cancelled, and its background thread begins.
Start ==
  /\ MainStep("start", "idle")
  /\ mInterface \in open
  /\ mSendfdCancelled' = FALSE
  /\ thread' = [thread EXCEPT ![begun] = "pdnsd"]
  /\ UNCHANGED <<mRunning, mTunnelUp, mConnectSeq, live, upBy, tunVars,
                 tun2socksVars, pdnsdVars, hevVars, queue, stopVars,
                 connectSeq, monitor, lifeVars>>

(***************************************************************************)
(* The same after configure(): mInterface!!.fd throws outside any handler. *)
(* The :vpn process dies with its threads, its descriptor and its          *)
(* children, and the system starts the sticky service again (external).    *)
(***************************************************************************)
FdThrows ==
  /\ mpc = "start" /\ spc[Main] = "out"
  /\ mInterface \notin open
  /\ mRunning' = FALSE /\ mTunnelUp' = FALSE /\ mSendfdCancelled' = FALSE
  /\ mConnectSeq' = 0 /\ live' = 0 /\ upBy' = 0
  /\ mInterface' = 0 /\ open' = {}
  /\ mTun2socksProcess' = 0 /\ tun2socks' = {}
  /\ pdnsd' = {} /\ pidFile' = 0
  /\ mHev' = FALSE /\ mHevActive' = FALSE /\ hev' = 0
  /\ mpc' = "idle"
  /\ spc' = [s \in Stoppers |-> "out"] /\ tmp' = [s \in Stoppers |-> 0]
  /\ thread' = [g \in Sessions |-> IF g <= begun THEN "done" ELSE "none"]
  /\ connectSeq' = [g \in Sessions |-> 0]
  /\ monitor' = [g \in Sessions |-> "none"]
  /\ IF sent < MaxSessions
       THEN /\ queue' = <<Intent("sysstart")>>
            /\ sent' = sent + 1
            /\ startRequested' = TRUE
       ELSE queue' = <<>> /\ UNCHANGED <<sent, startRequested>>
  /\ UNCHANGED <<begun, bound, destroyed>>

-----------------------------------------------------------------------------
(***************************************************************************)
(* The start thread of session g.                                          *)
(***************************************************************************)
ThreadStep(g, from, to) ==
  /\ thread[g] = from
  /\ thread' = [thread EXCEPT ![g] = to]

\* The hev engine needs no pdnsd.
SkipPdnsd(g) ==
  /\ mHev
  /\ ThreadStep(g, "pdnsd", "resolve")
  /\ UNCHANGED <<fieldVars, tunVars, tun2socksVars, pdnsdVars, hevVars,
                 mainVars, stopVars, connectSeq, monitor, lifeVars>>

\* launchPdnsd; pdnsd forks into the background and writes its pid file.
LaunchPdnsd(g) ==
  /\ ~mHev
  /\ ThreadStep(g, "pdnsd", "resolve")
  /\ pdnsd' = pdnsd \cup {g}
  /\ pidFile' = g
  /\ UNCHANGED <<fieldVars, tunVars, tun2socksVars, hevVars, mainVars,
                 stopVars, connectSeq, monitor, lifeVars>>

\* launchPdnsd returned false, or exec of tun2socks or the native start threw:
\* the thread posts stopMe and ends.
StartFails(g, from) ==
  /\ ThreadStep(g, from, "done")
  /\ Post("stopMe", g)
  /\ UNCHANGED <<fieldVars, tunVars, tun2socksVars, pdnsdVars, hevVars, mpc,
                 stopVars, connectSeq, monitor, lifeVars>>

LaunchPdnsdFails(g) == ~mHev /\ StartFails(g, "pdnsd")

\* Host name resolution has blocked for seconds: the first checkpoint.
CheckBeforeSpawn(g) ==
  /\ ThreadStep(g, "resolve", IF Stale(g) THEN "done"
                            ELSE IF mHev THEN "hevConf" ELSE "spawn")
  /\ UNCHANGED <<fieldVars, tunVars, tun2socksVars, pdnsdVars, hevVars,
                 mainVars, stopVars, connectSeq, monitor, lifeVars>>

Spawn(g) ==
  /\ ThreadStep(g, "spawn", "spawned")
  /\ tun2socks' = tun2socks \cup {g}
  /\ mTun2socksProcess' = g
  /\ UNCHANGED <<fieldVars, tunVars, pdnsdVars, hevVars, mainVars, stopVars,
                 connectSeq, monitor, lifeVars>>

SpawnFails(g) == StartFails(g, "spawn")

\* Stopped while exec'ing: destroy the new process and clear the field.
Mut_AbortSpawnedLeaks(g) ==
  /\ Stale(g)
  /\ ThreadStep(g, "spawned", "done")
  /\ UNCHANGED <<fieldVars, tunVars, tun2socksVars, pdnsdVars, hevVars,
                 mainVars, stopVars, connectSeq, monitor, lifeVars>>

AbortSpawned(g) ==
  /\ Stale(g)
  /\ ThreadStep(g, "spawned", "done")
  /\ tun2socks' = tun2socks \ {g}
  /\ mTun2socksProcess' = 0
  /\ UNCHANGED <<fieldVars, tunVars, pdnsdVars, hevVars, mainVars, stopVars,
                 connectSeq, monitor, lifeVars>>

StartMonitor(g) ==
  /\ ~Stale(g)
  /\ ThreadStep(g, "spawned", "sendfd")
  /\ monitor' = [monitor EXCEPT ![g] = "watch"]
  /\ UNCHANGED <<fieldVars, tunVars, tun2socksVars, pdnsdVars, hevVars,
                 mainVars, stopVars, connectSeq, lifeVars>>

\* The poll ends with the descriptor sent: any tun2socks listens on the one
\* socket path.  The attempts that fail on the way change nothing.
SendFd(g) ==
  /\ ~Stale(g)
  /\ tun2socks # {}
  /\ ThreadStep(g, "sendfd", "done")
  /\ Post("up", g)
  /\ UNCHANGED <<fieldVars, tunVars, tun2socksVars, pdnsdVars, hevVars, mpc,
                 stopVars, connectSeq, monitor, lifeVars>>

\* All attempts failed.
Mut_SendFdFailsSilently(g) ==
  /\ ~Stale(g)
  /\ ThreadStep(g, "sendfd", "done")
  /\ UNCHANGED <<fieldVars, tunVars, tun2socksVars, pdnsdVars, hevVars,
                 mainVars, stopVars, connectSeq, monitor, lifeVars>>

SendFdFails(g) == ~Stale(g) /\ StartFails(g, "sendfd")

\* The poll sees the stop and the thread ends.
SendFdStale(g) ==
  /\ Stale(g)
  /\ ThreadStep(g, "sendfd", "done")
  /\ UNCHANGED <<fieldVars, tunVars, tun2socksVars, pdnsdVars, hevVars,
                 mainVars, stopVars, connectSeq, monitor, lifeVars>>

-----------------------------------------------------------------------------
(***************************************************************************)
(* startHevTunnel, on the start thread of session g.                       *)
(***************************************************************************)
\* No resolved address: stopMe.
HevNoServer(g) == StartFails(g, "hevConf")

HevConf(g) ==
  /\ ThreadStep(g, "hevConf", IF Stale(g) THEN "done" ELSE "hevStart")
  /\ UNCHANGED <<fieldVars, tunVars, tun2socksVars, pdnsdVars, hevVars,
                 mainVars, stopVars, connectSeq, monitor, lifeVars>>

\* The native library is missing, or the call throws.
HevStartThrows(g) == StartFails(g, "hevStart")

\* TProxyStartService spawns the native worker.
HevStart(g) ==
  /\ hev = 0
  /\ ThreadStep(g, "hevStart", "hevClaim")
  /\ hev' = g
  /\ UNCHANGED <<fieldVars, tunVars, tun2socksVars, pdnsdVars, mHev, mHevActive,
                 mainVars, stopVars, connectSeq, monitor, lifeVars>>

\* It returns false: a worker runs already, or none can be created.
HevStartRefused(g) ==
  /\ ThreadStep(g, "hevStart", "hevRefused")
  /\ UNCHANGED <<fieldVars, tunVars, tun2socksVars, pdnsdVars, hevVars,
                 mainVars, stopVars, connectSeq, monitor, lifeVars>>

\* mHevActive is set either way; a refused start posts stopMe.
HevClaim(g) ==
  /\ \/ ThreadStep(g, "hevClaim", "hevVerify") /\ UNCHANGED queue
     \/ ThreadStep(g, "hevRefused", "done") /\ Post("stopMe", g)
  /\ mHevActive' = TRUE
  /\ UNCHANGED <<fieldVars, tunVars, tun2socksVars, pdnsdVars, mHev, hev, mpc,
                 stopVars, connectSeq, monitor, lifeVars>>

\* After the grace period: stopped meanwhile, or the worker has died.
HevAbort(g) ==
  /\ Stale(g) \/ hev = 0
  /\ ThreadStep(g, "hevVerify", "done")
  /\ hev' = 0
  /\ mHevActive' = FALSE
  /\ IF Stale(g) THEN UNCHANGED queue ELSE Post("stopMe", g)
  /\ UNCHANGED <<fieldVars, tunVars, tun2socksVars, pdnsdVars, mHev, mpc,
                 stopVars, connectSeq, monitor, lifeVars>>

HevUp(g) ==
  /\ ~Stale(g) /\ hev # 0
  /\ ThreadStep(g, "hevVerify", "done")
  /\ Post("up", g)
  /\ UNCHANGED <<fieldVars, tunVars, tun2socksVars, pdnsdVars, hevVars, mpc,
                 stopVars, connectSeq, monitor, lifeVars>>

-----------------------------------------------------------------------------
(***************************************************************************)
(* runOnMainThread { if (not stopped) postStartOnMain() }.  A stop on      *)
(* another thread may come between the check and mTunnelUp = true, so      *)
(* these are two steps; the message stays at the looper's head until its   *)
(* callback returns.                                                       *)
(***************************************************************************)
PostStartStale ==
  /\ TakeMessage({"up"})
  /\ Stale(Head(queue).g)
  /\ UNCHANGED <<fieldVars, tunVars, tun2socksVars, pdnsdVars, hevVars, mpc,
                 stopVars, threadVars, lifeVars>>

PostStartOnMain ==
  /\ MainIdle
  /\ queue # <<>>
  /\ Head(queue).type = "up"
  /\ ~Stale(Head(queue).g)
  /\ mpc' = "up"
  /\ UNCHANGED <<fieldVars, tunVars, tun2socksVars, pdnsdVars, hevVars, queue,
                 stopVars, threadVars, lifeVars>>

PostStartUp ==
  /\ MainStep("up", "idle")
  /\ mTunnelUp' = TRUE
  /\ upBy' = Head(queue).g
  /\ queue' = Tail(queue)
  /\ UNCHANGED <<mRunning, mSendfdCancelled, mConnectSeq, live, tunVars,
                 tun2socksVars, pdnsdVars, hevVars, stopVars, threadVars,
                 lifeVars>>

\* The monitor of session g's tun2socks: every exit has a non-zero code.
MonitorExit(g) ==
  /\ monitor[g] = "watch"
  /\ g \notin tun2socks
  /\ monitor' = [monitor EXCEPT ![g] = "done"]
  /\ IF mRunning THEN Post("stopMe", g) ELSE UNCHANGED queue
  /\ UNCHANGED <<fieldVars, tunVars, tun2socksVars, pdnsdVars, hevVars, mpc,
                 stopVars, thread, connectSeq, lifeVars>>

(***************************************************************************)
(* The native programs (external): tun2socks or the hev worker may end by  *)
(* itself.                                                                 *)
(***************************************************************************)
Tun2socksExits(g) ==
  /\ g \in tun2socks
  /\ tun2socks' = tun2socks \ {g}
  /\ UNCHANGED <<fieldVars, tunVars, mTun2socksProcess, pdnsdVars, hevVars,
                 mainVars, stopVars, threadVars, lifeVars>>

HevExits ==
  /\ hev # 0
  /\ hev' = 0
  /\ UNCHANGED <<fieldVars, tunVars, tun2socksVars, pdnsdVars, mHev, mHevActive,
                 mainVars, stopVars, threadVars, lifeVars>>

-----------------------------------------------------------------------------
OnStartCommand ==
  \/ StartIgnored
  \/ StartNoProfile
  \/ StartFields
  \/ StartRunning
  \/ StartSeqWrite
  \/ StartCapture
  \/ Configure
  \/ ConfigureFails
  \/ ConfigureReadThrows
  \/ FdThrows
  \/ Start

MainThread ==
  \/ PostedStop
  \/ StopCommand
  \/ DropIntent
  \/ OnStartCommand
  \/ PostStartStale
  \/ PostStartOnMain
  \/ PostStartUp
  \/ StopMe(Main)

StartThread(g) ==
  \/ SkipPdnsd(g)
  \/ LaunchPdnsd(g)
  \/ LaunchPdnsdFails(g)
  \/ CheckBeforeSpawn(g)
  \/ Spawn(g)
  \/ SpawnFails(g)
  \/ AbortSpawned(g)
  \/ StartMonitor(g)
  \/ SendFd(g)
  \/ SendFdFails(g)
  \/ SendFdStale(g)
  \/ HevNoServer(g)
  \/ HevConf(g)
  \/ HevStartThrows(g)
  \/ HevStart(g)
  \/ HevStartRefused(g)
  \/ HevClaim(g)
  \/ HevAbort(g)
  \/ HevUp(g)

Environment ==
  \/ \E t \in {"start", "sysstart"} : SendStart(t)
  \/ SendStop
  \/ Unbind
  \/ \E b \in Binders : BinderStop(b)
  \/ MainStop
  \/ OnDestroy
  \/ \E g \in Sessions : Tun2socksExits(g)
  \/ HevExits

Next ==
  \/ MainThread
  \/ \E b \in Binders : StopMe(b)
  \/ \E g \in Sessions : StartThread(g)
  \/ \E g \in Sessions : MonitorExit(g)
  \/ Environment

\* Every thread of the process is scheduled; clients, the user, the system
\* and the native programs need not do anything.
Fairness ==
  /\ WF_vars(MainThread)
  /\ \A b \in Binders : WF_vars(StopMe(b))
  /\ \A g \in Sessions : WF_vars(StartThread(g)) /\ WF_vars(MonitorExit(g))

Spec == Init /\ [][Next]_vars
FairSpec == Spec /\ Fairness

-----------------------------------------------------------------------------
(***************************************************************************)
(* Properties.                                                             *)
(***************************************************************************)
\* The values the fields and the threads' positions take; mConnectSeq never
\* goes below zero.
TypeOK ==
  /\ mRunning \in BOOLEAN /\ mTunnelUp \in BOOLEAN
  /\ mSendfdCancelled \in BOOLEAN /\ mConnectSeq \in Nat
  /\ mHev \in BOOLEAN /\ mHevActive \in BOOLEAN
  /\ mInterface \in SessionOrNull /\ open \subseteq Sessions
  /\ mTun2socksProcess \in SessionOrNull /\ tun2socks \subseteq Sessions
  /\ pdnsd \subseteq Sessions /\ pidFile \in SessionOrNull
  /\ hev \in SessionOrNull
  /\ queue \in Seq(Message)
  /\ mpc \in MainPcs
  /\ spc \in [Stoppers -> StopPcs] /\ tmp \in [Stoppers -> Nat]
  /\ thread \in [Sessions -> ThreadPcs]
  /\ connectSeq \in [Sessions -> Nat]
  /\ monitor \in [Sessions -> {"none", "watch", "done"}]
  /\ begun \in SessionOrNull /\ sent \in SessionOrNull
  /\ bound \in BOOLEAN /\ startRequested \in BOOLEAN /\ destroyed \in BOOLEAN
  /\ live \in SessionOrNull /\ upBy \in SessionOrNull

\* The tunnel the service reports up was brought up by the start thread of
\* the session that runs, over that session's own open interface: a thread
\* orphaned by a stop never resurrects the tunnel (mConnectSeq's promise).
TunnelBelongsToSession ==
  mRunning /\ mTunnelUp =>
    /\ upBy = live
    /\ mInterface = live
    /\ live \in open

\* A stopped service with no start or stop under way holds no tun interface
\* open: every interface establish() returned has been closed.
StoppedClosesInterface ==
  ~mRunning /\ mpc = "idle" /\ (\A s \in Stoppers : spc[s] = "out") => open = {}

\* Once every thread is done, a service that still runs has its tunnel up,
\* and it is the running session's: neither an early return of a start thread
\* nor a stop beside a start leaves it "connecting" for ever. It holds if stops
\* are on the main thread, or if a start waits for the old threads.
SettledRunningIsUp ==
  Settled /\ mRunning => mTunnelUp /\ upBy = live

\* Between starts and stops, a start thread that still runs for a session
\* other than the running one is stale: its next checkpoint aborts it, as the
\* comments on mConnectSeq say (SocksVpnService.kt:193-195, :532-533).
OrphanIsStale ==
  mpc = "idle" /\ (\A s \in Stoppers : spc[s] = "out") =>
    \A g \in Sessions :
      thread[g] \notin {"none", "done"} /\ g # live => Stale(g)

\* Once every thread is done, a stopped service leaves no tun2socks process
\* and no hev worker behind.
SettledStoppedIsClean ==
  Settled /\ ~mRunning => tun2socks = {} /\ hev = 0

\* A stop that a start thread or a monitor posted ends no other session.
PostedStopEndsOwnSession ==
  [][PostedStop /\ mRunning => live = Head(queue).g]_vars

\* A session that connects gets its tunnel up or ends.
ConnectingEnds ==
  \A g \in Sessions : (live = g /\ upBy # g) ~> (live # g \/ upBy = g)

\* What the service promises its clients, with a session's phase and the
\* session whose start thread brought the tunnel up.
Abstract == INSTANCE VpnSession WITH
  phase <- IF ~mRunning THEN "down" ELSE IF mTunnelUp THEN "up" ELSE "connecting",
  session <- IF mpc = "run" THEN begun - 1 ELSE begun,
  by <- IF mRunning THEN upBy ELSE 0

\* Clients see sessions come and go one after the other, each going up at most
\* once and by its own start thread (getState and the state broadcasts).
ImplementsVpnSession == Abstract!Spec
=============================================================================
