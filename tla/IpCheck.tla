------------------------------- MODULE IpCheck -------------------------------
(***************************************************************************)
(* The verification loop of SocksVpnService.kt: mIpCheckRunnable on the    *)
(* main thread, its probes on the "ipcheck" executor, and the exit IP that *)
(* the accelerator caches.  Connecting, tunnel-up and stopping are single  *)
(* steps here; SocksVpnService.tla takes them apart.                       *)
(*                                                                         *)
(* A proxy stands for its address, its accelKey and its exit IP.  A probe  *)
(* is the session that began it and the proxy it asks about.               *)
(***************************************************************************)
EXTENDS Integers, Sequences

CONSTANTS
  Proxies,       \* the proxies the profiles name
  Dead,          \* those whose SOCKS handshake always fails
  None,          \* null
  ProbeOn,       \* !mAccel || mAccelProbe: failed handshakes count
  CacheIp,       \* mAccel && mAccelCacheIp
  MaxFailures,   \* MAX_IP_CHECK_FAILURES
  MaxSessions,   \* bound: how many sessions begin
  MaxSleeps      \* bound: how often the screen goes off

ASSUME ProxyAssumption == Dead \subseteq Proxies /\ None \notin Proxies
ASSUME OptionAssumption == {ProbeOn, CacheIp} \subseteq BOOLEAN
ASSUME NumberAssumption ==
  MaxFailures \in Nat \ {0} /\ MaxSessions \in Nat /\ MaxSleeps \in Nat

VARIABLES
  mRunning, mTunnelUp,
  mServer,           \* the proxy of the running session, or None
  mProxyVerified, mIpCheckFailures, mProbeInFlight,
  mIpInfo,           \* the proxy whose exit IP is shown, or None
  mPendingIpInfo,    \* the probe whose answer is buffered until tunnel-up, or None
  callbacks,         \* posted runs of mIpCheckRunnable that are still due
  executor,          \* probes queued or running on the one executor thread
  results,           \* answers posted to the main looper
  accelIp,           \* accel_ip.json: a proxy's key and the exit IP saved under it
  blocked, sleeps,   \* isNetworkCheckBlocked(), and how often it came about
  session,           \* the number of the latest session
  evidence,          \* history: whose probe set mProxyVerified; 0 for the cache
  ownFailures,       \* history: failed handshakes of this session that count
  overlapped         \* history: has a session ended with its probe under way?

lifeVars == <<mRunning, mTunnelUp, mServer, session, overlapped>>
showVars == <<mProxyVerified, mIpInfo, evidence>>
failVars == <<mIpCheckFailures, ownFailures>>
powerVars == <<blocked, sleeps>>
vars == <<lifeVars, showVars, failVars, powerVars, mPendingIpInfo, accelIp,
          mProbeInFlight, callbacks, executor, results>>

-----------------------------------------------------------------------------
Probe == [g : 1..MaxSessions, p : Proxies]
Kinds == {"info", "lookup", "dead", "error"}
Result == [probe : Probe, kind : Kinds]

(***************************************************************************)
(* How a probe may end: the exit IP, no exit IP but a sound handshake, a   *)
(* failed handshake, or an exception.                                      *)
(***************************************************************************)
Outcomes(p) == IF p \in Dead THEN {"dead"} ELSE Kinds

NoEntry == [key |-> None, info |-> None]

Init ==
  /\ mRunning = FALSE /\ mTunnelUp = FALSE /\ mServer = None /\ session = 0
  /\ overlapped = FALSE
  /\ mProxyVerified = FALSE /\ mIpInfo = None /\ evidence = 0
  /\ mIpCheckFailures = 0 /\ ownFailures = 0
  /\ blocked = FALSE /\ sleeps = 0
  /\ mPendingIpInfo = None /\ accelIp = NoEntry
  /\ mProbeInFlight = FALSE /\ callbacks = 0
  /\ executor = <<>> /\ results = <<>>

-----------------------------------------------------------------------------
(***************************************************************************)
(* The session's life.                                                     *)
(***************************************************************************)
\* onStartCommand and start(): the first check runs while the tunnel spawns.
Connect(p) ==
  /\ ~mRunning /\ session < MaxSessions
  /\ mRunning' = TRUE /\ mServer' = p /\ session' = session + 1
  /\ callbacks' = callbacks + 1
  /\ ownFailures' = 0
  /\ UNCHANGED <<mTunnelUp, overlapped, showVars, mIpCheckFailures, powerVars,
                 mPendingIpInfo, accelIp, mProbeInFlight, executor, results>>

\* applyIpInfo for a fresh answer, which is saved under the session's key.
Apply(probe) ==
  /\ mProxyVerified' = TRUE
  /\ mIpInfo' = probe.p
  /\ evidence' = probe.g
  /\ accelIp' = IF CacheIp THEN [key |-> mServer, info |-> probe.p] ELSE accelIp

\* applyIpInfo(cached, fromCache = true): loadAccelIp misses another proxy's
\* entry and may find this one's expired.
ApplyCached ==
  /\ \/ /\ CacheIp /\ accelIp.key = mServer
        /\ mProxyVerified' = TRUE /\ mIpInfo' = accelIp.info
     \/ mProxyVerified' = FALSE /\ UNCHANGED mIpInfo
  /\ evidence' = 0
  /\ UNCHANGED accelIp

Mut_TunnelUpBufferedNoRepost ==
  /\ mRunning /\ ~mTunnelUp
  /\ mTunnelUp' = TRUE
  /\ mIpCheckFailures' = 0 /\ ownFailures' = 0
  /\ IF mPendingIpInfo # None
       THEN Apply(mPendingIpInfo) /\ UNCHANGED callbacks
       ELSE ApplyCached /\ callbacks' = callbacks + 1
  /\ mPendingIpInfo' = None
  /\ UNCHANGED <<mRunning, mServer, session, overlapped, powerVars,
                 mProbeInFlight, executor, results>>

Mut_TunnelUpKeepsFailures ==
  /\ mRunning /\ ~mTunnelUp
  /\ mTunnelUp' = TRUE
  /\ IF mPendingIpInfo # None THEN Apply(mPendingIpInfo) ELSE ApplyCached
  /\ mPendingIpInfo' = None
  /\ callbacks' = callbacks + 1
  /\ UNCHANGED <<mRunning, mServer, session, overlapped, failVars, powerVars,
                 mProbeInFlight, executor, results>>

\* postStartOnMain: the buffered answer, or the cached one, is shown.
TunnelUp ==
  /\ mRunning /\ ~mTunnelUp
  /\ mTunnelUp' = TRUE
  /\ mIpCheckFailures' = 0 /\ ownFailures' = 0
  /\ IF mPendingIpInfo # None THEN Apply(mPendingIpInfo) ELSE ApplyCached
  /\ mPendingIpInfo' = None
  /\ callbacks' = callbacks + 1
  /\ UNCHANGED <<mRunning, mServer, session, overlapped, powerVars,
                 mProbeInFlight, executor, results>>

\* What every stopMe resets of this state; probes and posted answers stay.
StoppedRest ==
  /\ mRunning' = FALSE /\ mTunnelUp' = FALSE /\ mServer' = None
  /\ mProxyVerified' = FALSE /\ mIpInfo' = None /\ evidence' = 0
  /\ callbacks' = 0
  /\ UNCHANGED <<session, powerVars, accelIp, executor>>

Mut_StoppedKeepsPending ==
  StoppedRest /\ mProbeInFlight' = FALSE /\ UNCHANGED mPendingIpInfo

Stopped == StoppedRest /\ mProbeInFlight' = FALSE /\ mPendingIpInfo' = None

\* The user, the system or an engine that dies stops the session.
Stop ==
  /\ mRunning
  /\ overlapped' = (overlapped \/ executor # <<>> \/ results # <<>>)
  /\ Stopped
  /\ UNCHANGED <<failVars, results>>

\* The screen goes off, or the device idles.
Sleep ==
  /\ ~blocked /\ sleeps < MaxSleeps
  /\ blocked' = TRUE /\ sleeps' = sleeps + 1
  /\ UNCHANGED <<lifeVars, showVars, failVars, mPendingIpInfo, accelIp,
                 mProbeInFlight, callbacks, executor, results>>

\* The screen goes on, which mScreenOnReceiver hears from tunnel-up until the
\* stop; or the device only ceases to idle.
Wake ==
  /\ blocked
  /\ blocked' = FALSE
  /\ \/ /\ mRunning /\ mTunnelUp
        /\ callbacks' = 1 /\ mIpCheckFailures' = 0 /\ ownFailures' = 0
     \/ UNCHANGED <<callbacks, failVars>>
  /\ UNCHANGED <<lifeVars, showVars, sleeps, mPendingIpInfo, accelIp,
                 mProbeInFlight, executor, results>>

-----------------------------------------------------------------------------
(***************************************************************************)
(* mIpCheckRunnable.  Blocked checks are posted again, which leaves the    *)
(* number of callbacks as it is.                                           *)
(***************************************************************************)
\* Not running, or a probe is in flight: this callback ends its chain.
RunDropped ==
  /\ callbacks > 0
  /\ ~mRunning \/ (~blocked /\ mProbeInFlight)
  /\ callbacks' = callbacks - 1
  /\ UNCHANGED <<lifeVars, showVars, failVars, powerVars, mPendingIpInfo,
                 accelIp, mProbeInFlight, executor, results>>

RunProbe ==
  /\ callbacks > 0 /\ mRunning /\ ~blocked /\ ~mProbeInFlight
  /\ callbacks' = callbacks - 1
  /\ mProbeInFlight' = TRUE
  /\ executor' = Append(executor, [g |-> session, p |-> mServer])
  /\ UNCHANGED <<lifeVars, showVars, failVars, powerVars, mPendingIpInfo,
                 accelIp, results>>

\* The executor ends its oldest probe and posts the answer.
ProbeEnds ==
  /\ executor # <<>>
  /\ executor' = Tail(executor)
  /\ \E kind \in Outcomes(Head(executor).p) :
       results' = Append(results, [probe |-> Head(executor), kind |-> kind])
  /\ UNCHANGED <<lifeVars, showVars, failVars, powerVars, mPendingIpInfo,
                 accelIp, mProbeInFlight, callbacks>>

(***************************************************************************)
(* The posted answers, on the main thread.                                 *)
(***************************************************************************)
TakeResult(kinds) ==
  /\ results # <<>>
  /\ Head(results).kind \in kinds
  /\ results' = Tail(results)

\* An exit IP before tunnel-up is buffered, and the chain pauses.
ResultBuffered ==
  /\ ~mTunnelUp
  /\ TakeResult({"info"})
  /\ mProbeInFlight' = FALSE
  /\ mPendingIpInfo' = Head(results).probe
  /\ UNCHANGED <<lifeVars, showVars, failVars, powerVars, accelIp, callbacks,
                 executor>>

ResultInfo ==
  /\ mTunnelUp
  /\ TakeResult({"info"})
  /\ mProbeInFlight' = FALSE
  /\ Apply(Head(results).probe)
  /\ mIpCheckFailures' = 0 /\ ownFailures' = 0
  /\ callbacks' = callbacks + 1
  /\ UNCHANGED <<lifeVars, powerVars, mPendingIpInfo, executor>>

\* Any other answer before tunnel-up, an exception, or a failed handshake that
\* does not count: only try again.
ResultRetry ==
  /\ IF mTunnelUp THEN TakeResult(IF ProbeOn THEN {"error"} ELSE {"dead", "error"})
                  ELSE TakeResult({"lookup", "dead", "error"})
  /\ mProbeInFlight' = FALSE
  /\ callbacks' = callbacks + 1
  /\ UNCHANGED <<lifeVars, showVars, failVars, powerVars, mPendingIpInfo,
                 accelIp, executor>>

\* No exit IP, but the handshake is sound.
ResultProxyOk ==
  /\ mTunnelUp
  /\ TakeResult({"lookup"})
  /\ mProbeInFlight' = FALSE
  /\ mProxyVerified' = TRUE /\ evidence' = Head(results).probe.g
  /\ mIpCheckFailures' = 0 /\ ownFailures' = 0
  /\ callbacks' = callbacks + 1
  /\ UNCHANGED <<lifeVars, mIpInfo, powerVars, mPendingIpInfo, accelIp, executor>>

CountOwn == ownFailures' = IF Head(results).probe.g = session
                             THEN ownFailures + 1 ELSE ownFailures

Mut_ResultDeadOneTooMany ==
  /\ mTunnelUp /\ ProbeOn
  /\ TakeResult({"dead"})
  /\ CountOwn
  /\ mIpCheckFailures' = mIpCheckFailures + 1
  /\ IF mIpCheckFailures >= MaxFailures
       THEN Stopped /\ UNCHANGED overlapped
       ELSE /\ mProbeInFlight' = FALSE /\ mProxyVerified' = FALSE
            /\ callbacks' = callbacks + 1
            /\ UNCHANGED <<lifeVars, mIpInfo, evidence, powerVars,
                           mPendingIpInfo, accelIp, executor>>

Mut_ResultDeadNoCount ==
  /\ mTunnelUp /\ ProbeOn
  /\ TakeResult({"dead"})
  /\ mProbeInFlight' = FALSE /\ mProxyVerified' = FALSE
  /\ callbacks' = callbacks + 1
  /\ UNCHANGED <<lifeVars, mIpInfo, evidence, failVars, powerVars,
                 mPendingIpInfo, accelIp, executor>>

\* The handshake failed: the session is torn down the MaxFailures-th time.
ResultDead ==
  /\ mTunnelUp /\ ProbeOn
  /\ TakeResult({"dead"})
  /\ CountOwn
  /\ mIpCheckFailures' = mIpCheckFailures + 1
  /\ IF mIpCheckFailures + 1 >= MaxFailures
       THEN Stopped /\ UNCHANGED overlapped
       ELSE /\ mProbeInFlight' = FALSE /\ mProxyVerified' = FALSE
            /\ callbacks' = callbacks + 1
            /\ UNCHANGED <<lifeVars, mIpInfo, evidence, powerVars,
                           mPendingIpInfo, accelIp, executor>>

-----------------------------------------------------------------------------
MainThread ==
  \/ RunDropped
  \/ RunProbe
  \/ ResultBuffered
  \/ ResultInfo
  \/ ResultRetry
  \/ ResultProxyOk
  \/ ResultDead

Next ==
  \/ \E p \in Proxies : Connect(p)
  \/ TunnelUp
  \/ Stop
  \/ Sleep
  \/ Wake
  \/ MainThread
  \/ ProbeEnds

Spec == Init /\ [][Next]_vars

\* The looper runs what is due and the executor ends its probes (they have
\* time-outs); nobody has to connect, to stop or to touch the screen.
FairSpec == Spec /\ WF_vars(MainThread) /\ WF_vars(ProbeEnds)

-----------------------------------------------------------------------------
\* The values the fields, the looper and the cache file take; the failure
\* counter never passes MAX_IP_CHECK_FAILURES.
TypeOK ==
  /\ mRunning \in BOOLEAN /\ mTunnelUp \in BOOLEAN /\ overlapped \in BOOLEAN
  /\ mServer \in Proxies \cup {None} /\ session \in 0..MaxSessions
  /\ mProxyVerified \in BOOLEAN /\ mIpInfo \in Proxies \cup {None}
  /\ evidence \in 0..MaxSessions
  /\ mIpCheckFailures \in 0..MaxFailures /\ ownFailures \in Nat
  /\ blocked \in BOOLEAN /\ sleeps \in 0..MaxSleeps
  /\ mPendingIpInfo \in Probe \cup {None}
  /\ accelIp \in [key : Proxies \cup {None}, info : Proxies \cup {None}]
  /\ mProbeInFlight \in BOOLEAN /\ callbacks \in Nat
  /\ executor \in Seq(Probe) /\ results \in Seq(Result)

\* While a tunnel is up, another check is always on its way: a callback is
\* due, or a probe or its answer will post one.  No drop of a callback behind
\* a probe in flight, and no stop and restart, ends the loop.
LoopStaysAlive ==
  mRunning /\ mTunnelUp => callbacks > 0 \/ executor # <<>> \/ results # <<>>

\* As long as no session has ended with its probe or an answer under way, the
\* verdicts on a session are its own: "verified" rests on a probe it began (or
\* on the cached exit IP, when that option is on), and no handshake that failed
\* for an earlier session counts toward its teardown.
VerdictsAreOwn ==
  ~overlapped =>
    /\ mProxyVerified => evidence = session \/ (CacheIp /\ evidence = 0)
    /\ mTunnelUp => mIpCheckFailures <= ownFailures

\* The exit IP saved under a proxy's key is that proxy's.
SavedUnderOwnKey == accelIp.info = accelIp.key

\* It is, as long as no session has ended with its probe under way.
SavedOwnUnlessOverlapped == ~overlapped => SavedUnderOwnKey

\* A session over a proxy that is dead is torn down, unless the device sleeps.
DeadProxyIsTornDown ==
  (ProbeOn /\ mTunnelUp /\ mServer \in Dead) ~> (~mRunning \/ blocked)
=============================================================================
