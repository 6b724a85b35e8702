------------------------------ MODULE UsageStats ------------------------------
(***************************************************************************)
(* The data-usage counters of SocksVpnService.kt: mStatsRunnable reads a   *)
(* byte counter once a second, and the totals of each profile are kept in  *)
(* the preferences.  One number stands for the received and the sent       *)
(* bytes, which the code treats alike.  Every reading takes the counter it *)
(* finds: that of the tun interface, else that of all the app's traffic,   *)
(* else none.                                                              *)
(*                                                                         *)
(* stopMe runs on a binder thread or on the main thread; everything else   *)
(* here runs on the main thread.  Connecting and tunnel-up are single      *)
(* steps.                                                                  *)
(***************************************************************************)
EXTENDS Integers

CONSTANTS
  Profiles,
  None,          \* null
  BinderStops,   \* does a binder thread run stopMe?  If not, the main thread does
  Cancels,       \* may a session be stopped before its tunnel is up?
  PersistTicks,  \* USAGE_PERSIST_TICKS
  UidStart,      \* what the app's UID has transferred before the first session
  MaxSessions,   \* bound: how many sessions begin
  MaxBytes       \* bound: what an interface carries, and what the app transfers

ASSUME ProfileAssumption == None \notin Profiles
ASSUME OptionAssumption == {BinderStops, Cancels} \subseteq BOOLEAN
ASSUME NumberAssumption ==
  /\ PersistTicks \in Nat \ {0} /\ UidStart \in Nat
  /\ MaxSessions \in Nat /\ MaxBytes \in Nat

VARIABLES
  mRunning, mTunnelUp, mProfileName,
  mCumulative,   \* mCumulativeRx/Tx: the profile's total when the tunnel came up
  mBytes,        \* mReceivedBytes/mSentBytes: what this session has counted
  mBase,         \* mBaseRx/Tx: the counter when the tunnel came up
  mStatsTick,    \* modulo PersistTicks, which is all the code asks of it
  posted,        \* runs of mStatsRunnable that are due
  prefs,         \* prefs[p]: usage_rx/tx of profile p
  open,          \* is the tun interface there?
  tun,           \* its counter
  uid,           \* the counter of the app's UID
  tpc, tname,    \* where the main thread is in mStatsRunnable, the name it read
  spc,           \* where the stopping thread is in stopMe
  sessions,      \* how many sessions have begun
  shown,         \* history: shown[p]: the total last counted for profile p
  baseOf,        \* history: the counter mBase was read from
  carried,       \* history: carried[p]: what the counters that p's sessions
                 \* were based on advanced by while p's tunnels were up
  switched,      \* history: profiles for which another counter was read later
  unsaved        \* history: ticks that counted since the last save

fieldVars == <<mRunning, mTunnelUp, mProfileName>>
byteVars == <<mCumulative, mBytes, mBase>>
tickVars == <<mStatsTick, posted, tpc, tname>>
netVars == <<open, tun, uid, carried>>
baseVars == <<baseOf, switched>>
savedVars == <<prefs, shown, unsaved>>
vars == <<fieldVars, byteVars, tickVars, netVars, baseVars, savedVars, spc, sessions>>

-----------------------------------------------------------------------------
\* readUsageBytes: the interface's counter if it is there and can be read now,
\* else that of the UID, else null.
Readable == (IF open THEN {"tun"} ELSE {}) \cup {"uid", "none"}
Value(c) == IF c = "tun" THEN tun ELSE uid

AtLeastZero(n) == IF n < 0 THEN 0 ELSE n

\* The main thread runs neither mStatsRunnable nor stopMe.
MainFree == tpc = "idle" /\ (BinderStops \/ spc = "out")

Init ==
  /\ mRunning = FALSE /\ mTunnelUp = FALSE /\ mProfileName = None
  /\ mCumulative = 0 /\ mBytes = 0 /\ mBase = 0
  /\ mStatsTick = 0 /\ posted = 0 /\ tpc = "idle" /\ tname = None
  /\ open = FALSE /\ tun = 0 /\ uid = UidStart
  /\ carried = [p \in Profiles |-> 0] /\ baseOf = "none" /\ switched = {}
  /\ prefs = [p \in Profiles |-> 0] /\ shown = [p \in Profiles |-> 0]
  /\ unsaved = 0
  /\ spc = "out" /\ sessions = 0

-----------------------------------------------------------------------------
\* onStartCommand up to start(): the interface is new, and so is its counter.
Connect(p) ==
  /\ MainFree /\ ~mRunning /\ sessions < MaxSessions
  /\ sessions' = sessions + 1
  /\ mProfileName' = p /\ mRunning' = TRUE
  /\ open' = TRUE /\ tun' = 0
  /\ UNCHANGED <<mTunnelUp, byteVars, tickVars, uid, carried, baseVars, savedVars, spc>>

\* persistProfileBytes for the profile name
Save(name) ==
  /\ prefs' = IF name = None THEN prefs
              ELSE [prefs EXCEPT ![name] = mCumulative + mBytes]
  /\ unsaved' = IF name = None THEN unsaved ELSE 0

UpRest ==
  /\ MainFree /\ mRunning /\ ~mTunnelUp
  /\ mTunnelUp' = TRUE
  /\ mBytes' = 0
  /\ posted' = posted + 1
  /\ UNCHANGED <<mRunning, mProfileName, mStatsTick, tpc, tname, netVars, switched,
                 prefs, unsaved, spc, sessions>>

Mut_TunnelUpNoBase ==
  /\ UpRest
  /\ mCumulative' = IF mProfileName = None THEN mCumulative ELSE prefs[mProfileName]
  /\ baseOf' \in Readable /\ UNCHANGED mBase
  /\ shown' = [p \in Profiles |-> IF p = mProfileName THEN prefs[p] ELSE shown[p]]

\* postStartOnMain: the profile's total is loaded and the counting begins.
TunnelUp ==
  /\ UpRest
  /\ mCumulative' = IF mProfileName = None THEN mCumulative ELSE prefs[mProfileName]
  /\ \E c \in Readable :
       baseOf' = c /\ mBase' = IF c = "none" THEN 0 ELSE Value(c)
  /\ shown' = [p \in Profiles |-> IF p = mProfileName THEN prefs[p] ELSE shown[p]]

\* What counter c advances by is due to the profile whose tunnel is up and
\* based on it.
CarriedOn(c) ==
  carried' = [p \in Profiles |->
    IF mRunning /\ mTunnelUp /\ p = mProfileName /\ baseOf = c
      THEN carried[p] + 1 ELSE carried[p]]

\* A packet passes the tunnel (external).
Traffic ==
  /\ open /\ tun < MaxBytes
  /\ tun' = tun + 1
  /\ CarriedOn("tun")
  /\ UNCHANGED <<fieldVars, byteVars, tickVars, open, uid, baseVars, savedVars, spc, sessions>>

\* The app transfers something (external): the engine to the proxy, but also
\* the probes, the look-ups and the update downloads of either process.
UidTraffic ==
  /\ uid < UidStart + MaxBytes
  /\ uid' = uid + 1
  /\ CarriedOn("uid")
  /\ UNCHANGED <<fieldVars, byteVars, tickVars, open, tun, baseVars, savedVars, spc, sessions>>

-----------------------------------------------------------------------------
(***************************************************************************)
(* mStatsRunnable: count; if the service runs, save every PersistTicks-th  *)
(* time and post the next run.                                             *)
(***************************************************************************)
Mut_NextTick == (mStatsTick + 1) % (PersistTicks + 1)
NextTick == (mStatsTick + 1) % PersistTicks

Count ==
  /\ MainFree /\ posted > 0
  /\ posted' = posted - 1
  /\ \E c \in Readable :
       /\ mBytes' = IF c = "none" THEN mBytes ELSE AtLeastZero(Value(c) - mBase)
       /\ switched' = IF c \in {"none", baseOf} THEN switched
                      ELSE switched \cup ({mProfileName} \ {None})
  /\ mStatsTick' = NextTick
  /\ shown' = [p \in Profiles |-> IF p = mProfileName THEN mCumulative + mBytes'
                                  ELSE shown[p]]
  /\ unsaved' = IF mProfileName = None THEN unsaved ELSE unsaved + 1
  /\ tpc' = IF ~mRunning THEN "idle" ELSE IF NextTick = 0 THEN "name" ELSE "post"
  /\ UNCHANGED <<fieldVars, mCumulative, mBase, tname, netVars, baseOf, prefs, spc, sessions>>

\* persistProfileBytes reads the name first, the counters after it.
ReadName ==
  /\ tpc = "name"
  /\ tname' = mProfileName
  /\ tpc' = "save"
  /\ UNCHANGED <<fieldVars, byteVars, mStatsTick, posted, netVars, baseVars,
                 savedVars, spc, sessions>>

TickSave ==
  /\ tpc = "save"
  /\ Save(tname)
  /\ tname' = None
  /\ tpc' = "post"
  /\ UNCHANGED <<fieldVars, byteVars, mStatsTick, posted, netVars, baseVars, shown,
                 spc, sessions>>

PostNext ==
  /\ tpc = "post"
  /\ posted' = posted + 1
  /\ tpc' = "idle"
  /\ UNCHANGED <<fieldVars, byteVars, mStatsTick, tname, netVars, baseVars,
                 savedVars, spc, sessions>>

-----------------------------------------------------------------------------
(***************************************************************************)
(* stopMe, as far as it touches these counters.                            *)
(***************************************************************************)
Gate ==
  /\ mRunning /\ spc = "out"
  /\ BinderStops \/ tpc = "idle"
  /\ Cancels \/ mTunnelUp
  /\ mRunning' = FALSE
  /\ spc' = "persist"
  /\ UNCHANGED <<mTunnelUp, mProfileName, byteVars, tickVars, netVars, baseVars,
                 savedVars, sessions>>

Mut_StopPersistNot ==
  /\ spc = "persist"
  /\ posted' = 0
  /\ spc' = "close"
  /\ UNCHANGED <<fieldVars, byteVars, mStatsTick, tpc, tname, netVars, baseVars,
                 savedVars, sessions>>

\* persistProfileBytes, then mStatsHandler.removeCallbacks.
StopPersist ==
  /\ spc = "persist"
  /\ Save(mProfileName)
  /\ posted' = 0
  /\ spc' = "close"
  /\ UNCHANGED <<fieldVars, byteVars, mStatsTick, tpc, tname, netVars, baseVars,
                 shown, sessions>>

StopClose ==
  /\ spc = "close"
  /\ open' = FALSE /\ tun' = 0
  /\ spc' = "name"
  /\ UNCHANGED <<fieldVars, byteVars, tickVars, uid, carried, baseVars, savedVars,
                 sessions>>

StopResetName ==
  /\ spc = "name"
  /\ mProfileName' = None
  /\ spc' = "bytes"
  /\ UNCHANGED <<mRunning, mTunnelUp, byteVars, tickVars, netVars, baseVars,
                 savedVars, sessions>>

StopResetBytes ==
  /\ spc = "bytes"
  /\ mRunning' = FALSE /\ mTunnelUp' = FALSE
  /\ mCumulative' = 0 /\ mBytes' = 0 /\ mBase' = 0 /\ baseOf' = "none"
  /\ posted' = 0
  /\ unsaved' = 0
  /\ spc' = "out"
  /\ UNCHANGED <<mProfileName, mStatsTick, tpc, tname, netVars, switched, prefs,
                 shown, sessions>>

\* The system kills the :vpn process (external): what was not saved is lost.
Killed ==
  /\ mRunning' = FALSE /\ mTunnelUp' = FALSE /\ mProfileName' = None
  /\ mCumulative' = 0 /\ mBytes' = 0 /\ mBase' = 0 /\ baseOf' = "none"
  /\ mStatsTick' = 0 /\ posted' = 0 /\ tpc' = "idle" /\ tname' = None
  /\ open' = FALSE /\ tun' = 0
  /\ shown' = prefs /\ unsaved' = 0
  /\ spc' = "out"
  /\ UNCHANGED <<prefs, uid, carried, switched, sessions>>

-----------------------------------------------------------------------------
StatsRunnable == Count \/ ReadName \/ TickSave \/ PostNext

StopMe == Gate \/ StopPersist \/ StopClose \/ StopResetName \/ StopResetBytes

Next ==
  \/ \E p \in Profiles : Connect(p)
  \/ TunnelUp
  \/ Traffic \/ UidTraffic
  \/ StatsRunnable
  \/ StopMe
  \/ Killed

Spec == Init /\ [][Next]_vars

-----------------------------------------------------------------------------
\* The values the counters take; one run of mStatsRunnable is due at a time.
TypeOK ==
  /\ mRunning \in BOOLEAN /\ mTunnelUp \in BOOLEAN
  /\ mProfileName \in Profiles \cup {None}
  /\ mCumulative \in Nat /\ mBytes \in Nat /\ mBase \in Nat
  /\ mStatsTick \in 0..(PersistTicks - 1) /\ posted \in 0..1
  /\ tpc \in {"idle", "name", "save", "post"} /\ tname \in Profiles \cup {None}
  /\ open \in BOOLEAN /\ tun \in Nat /\ uid \in Nat
  /\ baseOf \in {"tun", "uid", "none"} /\ switched \subseteq Profiles
  /\ carried \in [Profiles -> Nat]
  /\ prefs \in [Profiles -> Nat] /\ shown \in [Profiles -> Nat]
  /\ unsaved \in Nat
  /\ spc \in {"out", "persist", "close", "name", "bytes"}
  /\ sessions \in 0..MaxSessions

\* A stopped service has saved, for every profile, exactly the total it last
\* counted: a stop loses nothing and adds nothing.
StoppedIsSaved ==
  ~mRunning /\ spc = "out" /\ tpc = "idle" => prefs = shown

\* A profile's saved total never goes down (persistProfileBytes overwrites it)
\* for another reason than that two counters were mixed.
UsageNeverShrinks ==
  [][\A p \in Profiles : prefs'[p] >= prefs[p] \/ p \in switched']_vars

\* Nothing is counted twice, for another profile, from before tunnel-up or from
\* after the stop, over any sequence of sessions, missed readings and kills: a
\* profile's total is no more than the counters its sessions were based on
\* advanced by while its tunnels were up.  It is not so once a session has read
\* another counter than the one its base was read from.
CountsWhileUp ==
  \A p \in Profiles \ switched : prefs[p] <= shown[p] /\ shown[p] <= carried[p]

\* A kill of the process loses fewer than USAGE_PERSIST_TICKS counts: while no
\* tick is under way, fewer than that are unsaved.
KillLosesLittle == tpc = "idle" => unsaved < PersistTicks
=============================================================================
