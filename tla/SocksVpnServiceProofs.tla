------------------------ MODULE SocksVpnServiceProofs ------------------------
(***************************************************************************)
(* What SocksVpnService.tla keeps true for every set of binder threads,    *)
(* every engine choice and every bound, and, when every stop runs on the   *)
(* main thread, that it implements VpnSession.tla.                         *)
(***************************************************************************)
EXTENDS SocksVpnService, TLAPS

-----------------------------------------------------------------------------
(***************************************************************************)
(* Type correctness.  Configure puts begun into the set of open            *)
(* interfaces, so that a session has begun whenever onStartCommand is past *)
(* its first step belongs to the induction; so does that the message       *)
(* postStartOnMain works on is at the looper's head while it does.         *)
(***************************************************************************)
TypeInv ==
  /\ TypeOK
  /\ mpc \notin {"idle", "up"} => begun # 0
  /\ upBy # 0 => mTunnelUp

HandInv == mpc = "up" => queue # <<>> /\ Head(queue).type = "up"

\* Posting a well-formed message keeps the looper well formed.
LEMMA PostType ==
  ASSUME NEW q \in Seq(Message), NEW m \in Message
  PROVE  Append(q, m) \in Seq(Message)
OBVIOUS

\* A looper that is not empty holds a message and, behind it, a looper.
LEMMA TakeType ==
  ASSUME NEW q \in Seq(Message), q # <<>>
  PROVE  Head(q) \in Message /\ Tail(q) \in Seq(Message)
OBVIOUS

\* The messages that the actions post.
LEMMA MessageType ==
  /\ \A t \in Intents : Intent(t) \in Message
  /\ \A g \in Sessions : [type |-> "stopMe", g |-> g] \in Message
  /\ \A g \in Sessions : [type |-> "up", g |-> g] \in Message
BY DEF Message, Intent, Intents

\* A message of a start thread names its session.
LEMMA ThreadMessage ==
  ASSUME NEW m \in Message, m.type \in {"stopMe", "up"}
  PROVE  m.g \in Sessions
BY DEF Message, Intents

\* null is a value of the fields that name a session, and so is every session.
LEMMA NullType ==
  /\ 0 \in SessionOrNull
  /\ Sessions \subseteq SessionOrNull
  /\ \A g \in SessionOrNull : g # 0 => g \in Sessions
BY BoundAssumption DEF Sessions, SessionOrNull

\* A step of stopMe keeps the types.
LEMMA StopMeType ==
  ASSUME TypeInv, NEW s \in Stoppers, StopMe(s)
  PROVE  TypeInv'
<1> USE DEF TypeInv, TypeOK, fieldVars, tunVars, tun2socksVars, pdnsdVars,
            hevVars, mainVars, stopVars, threadVars, lifeVars, StopStep, StopPcs
<1>1. CASE StopCancel(s)
  BY <1>1 DEF StopCancel
<1>2. CASE StopSeqWrite(s)
  BY <1>2 DEF StopSeqWrite, NextSeq
<1>3. CASE StopTun2socks(s)
  BY <1>3, NullType DEF StopTun2socks
<1>4. CASE StopPdnsd(s)
  BY <1>4, NullType DEF StopPdnsd
<1>5. CASE StopHev(s)
  BY <1>5, NullType DEF StopHev
<1>6. CASE StopInterface(s)
  BY <1>6 DEF StopInterface
<1>7. CASE StopReset(s)
  BY <1>7, NullType DEF StopReset, ResetRest
<1>. QED BY <1>1, <1>2, <1>3, <1>4, <1>5, <1>6, <1>7 DEF StopMe

\* A step of onStartCommand keeps the types.
LEMMA OnStartCommandType ==
  ASSUME TypeInv, OnStartCommand
  PROVE  TypeInv'
<1> USE BoundAssumption, EngineAssumption
    DEF TypeInv, TypeOK, fieldVars, tunVars, tun2socksVars, pdnsdVars, hevVars,
        mainVars, stopVars, threadVars, lifeVars
<1>1. CASE StartIgnored
  BY <1>1, TakeType DEF StartIgnored, TakeMessage
<1>2. CASE StartNoProfile
  BY <1>2, TakeType DEF StartNoProfile, TakeMessage
<1>3. CASE StartFields
  BY <1>3, TakeType DEF StartFields, TakeMessage, MainPcs, SessionOrNull
<1>4. CASE StartRunning
  BY <1>4, TakeType DEF StartRunning, MainStep, MainPcs, SessionOrNull
<1>5. CASE StartSeqWrite
  BY <1>5 DEF StartSeqWrite, MainStep, MainPcs, NextSeq, Stoppers
<1>6. CASE StartCapture
  BY <1>6, TakeType DEF StartCapture, MainStep, MainPcs
<1>7. CASE Configure
  BY <1>7, TakeType DEF Configure, MainStep, MainPcs, Sessions, SessionOrNull
<1>8. CASE ConfigureFails
  BY <1>8, NullType DEF ConfigureFails, MainStep, MainPcs, EnterStop,
     GateUnchanged, Stoppers, StopPcs
<1>9. CASE ConfigureReadThrows
  BY <1>9, NullType DEF ConfigureReadThrows, MainStep, MainPcs, EnterStop,
     GateUnchanged, Stoppers, StopPcs
<1>10. CASE FdThrows
  <2>1. queue' \in Seq(Message)
    <3> DEFINE m == Intent("sysstart")
    <3>1. m \in Message
      BY MessageType DEF Intents
    <3> HIDE DEF m
    <3>2. <<>> \in Seq(Message) /\ <<m>> \in Seq(Message)
      BY <3>1
    <3>3. queue' \in {<<>>, <<m>>}
      BY <1>10 DEF FdThrows, m
    <3>. QED BY <3>2, <3>3
  <2>2. sent' \in SessionOrNull
    BY <1>10 DEF FdThrows, SessionOrNull
  <2>. QED BY <1>10, <2>1, <2>2, NullType DEF FdThrows, MainPcs, StopPcs, ThreadPcs
<1>11. CASE Start
  BY <1>11, TakeType DEF Start, MainStep, MainPcs, ThreadPcs
<1>. QED BY <1>1, <1>2, <1>3, <1>4, <1>5, <1>6, <1>7, <1>8, <1>9, <1>10,
            <1>11 DEF OnStartCommand

\* A step of a start thread keeps the types.
LEMMA StartThreadType ==
  ASSUME TypeInv, NEW g \in Sessions, StartThread(g)
  PROVE  TypeInv'
<1> USE DEF TypeInv, TypeOK, fieldVars, tunVars, tun2socksVars, pdnsdVars,
            hevVars, mainVars, stopVars, threadVars, lifeVars, ThreadStep,
            ThreadPcs
<1>a. /\ Append(queue, [type |-> "stopMe", g |-> g]) \in Seq(Message)
      /\ Append(queue, [type |-> "up", g |-> g]) \in Seq(Message)
  BY MessageType, PostType
<1>b. ASSUME NEW from, StartFails(g, from)
      PROVE  TypeInv'
  BY <1>a, <1>b DEF StartFails, Post
<1>1. CASE SkipPdnsd(g)
  BY <1>1, NullType DEF SkipPdnsd
<1>2. CASE LaunchPdnsd(g)
  BY <1>2, NullType DEF LaunchPdnsd
<1>3. CASE LaunchPdnsdFails(g)
  BY <1>3, <1>b DEF LaunchPdnsdFails
<1>4. CASE CheckBeforeSpawn(g)
  BY <1>4, NullType DEF CheckBeforeSpawn
<1>5. CASE Spawn(g)
  BY <1>5, NullType DEF Spawn
<1>6. CASE SpawnFails(g)
  BY <1>6, <1>b DEF SpawnFails
<1>7. CASE AbortSpawned(g)
  BY <1>7, NullType DEF AbortSpawned
<1>8. CASE StartMonitor(g)
  BY <1>8, NullType DEF StartMonitor
<1>9. CASE SendFd(g)
  BY <1>9, <1>a, NullType DEF SendFd, Post
<1>10. CASE SendFdFails(g)
  BY <1>10, <1>b DEF SendFdFails
<1>11. CASE SendFdStale(g)
  BY <1>11, NullType DEF SendFdStale
<1>12. CASE HevNoServer(g)
  BY <1>12, <1>b DEF HevNoServer
<1>13. CASE HevConf(g)
  BY <1>13, NullType DEF HevConf
<1>14. CASE HevStartThrows(g)
  BY <1>14, <1>b DEF HevStartThrows
<1>15. CASE HevStart(g)
  BY <1>15, NullType DEF HevStart
<1>16. CASE HevStartRefused(g)
  BY <1>16, NullType DEF HevStartRefused
<1>17. CASE HevClaim(g)
  <2>1. CASE ThreadStep(g, "hevClaim", "hevVerify") /\ UNCHANGED queue
    BY <1>17, <2>1, NullType DEF HevClaim
  <2>2. CASE ThreadStep(g, "hevRefused", "done") /\ Post("stopMe", g)
    BY <1>17, <2>2, <1>a, NullType DEF HevClaim, Post
  <2>. QED BY <1>17, <2>1, <2>2 DEF HevClaim
<1>18. CASE HevAbort(g)
  BY <1>18, <1>a, NullType DEF HevAbort, Post
<1>19. CASE HevUp(g)
  BY <1>19, <1>a, NullType DEF HevUp, Post
<1>. QED BY <1>1, <1>2, <1>3, <1>4, <1>5, <1>6, <1>7, <1>8, <1>9,
            <1>10, <1>11, <1>12, <1>13, <1>14, <1>15, <1>16, <1>17, <1>18,
            <1>19 DEF StartThread

\* A step of the clients, the system or a native program keeps the types.
LEMMA EnvironmentType ==
  ASSUME TypeInv, Environment
  PROVE  TypeInv'
<1> USE DEF TypeInv, TypeOK, fieldVars, tunVars, tun2socksVars, pdnsdVars,
            hevVars, mainVars, stopVars, threadVars, lifeVars
<1>1. ASSUME NEW t \in {"start", "sysstart"}, SendStart(t)
      PROVE  TypeInv'
  <2>1. queue' \in Seq(Message)
    BY <1>1, MessageType, PostType DEF SendStart, Intents
  <2>2. sent' \in SessionOrNull
    BY <1>1, BoundAssumption DEF SendStart, SessionOrNull
  <2>. QED BY <1>1, <2>1, <2>2 DEF SendStart
<1>2. CASE SendStop
  BY <1>2, MessageType, PostType DEF SendStop, Intents
<1>3. CASE Unbind
  BY <1>3 DEF Unbind
<1>4. ASSUME NEW b \in Binders, BinderStop(b)
      PROVE  TypeInv'
  BY <1>4, NullType DEF BinderStop, EnterStop, GateUnchanged, Stoppers, StopPcs
<1>5. CASE MainStop
  BY <1>5, NullType DEF MainStop, EnterStop, GateUnchanged, Stoppers, StopPcs
<1>6. CASE OnDestroy
  BY <1>6, NullType DEF OnDestroy, EnterStop, GateUnchanged, Stoppers, StopPcs
<1>7. ASSUME NEW g \in Sessions, Tun2socksExits(g)
      PROVE  TypeInv'
  BY <1>7 DEF Tun2socksExits
<1>8. CASE HevExits
  BY <1>8, NullType DEF HevExits
<1>. QED BY <1>1, <1>2, <1>3, <1>4, <1>5, <1>6, <1>7, <1>8 DEF Environment

\* Every step keeps the types.
LEMMA TypeStep ==
  ASSUME TypeInv, HandInv, [Next]_vars
  PROVE  TypeInv'
<1> USE DEF TypeInv, TypeOK, fieldVars, tunVars, tun2socksVars, pdnsdVars,
            hevVars, mainVars, stopVars, threadVars, lifeVars
<1>1. CASE PostedStop
  BY <1>1, TakeType, NullType DEF PostedStop, TakeMessage, EnterStop,
     GateUnchanged, Stoppers, StopPcs
<1>2. CASE StopCommand
  BY <1>2, TakeType, NullType DEF StopCommand, TakeMessage, EnterStop,
     GateUnchanged, Stoppers, StopPcs
<1>3. CASE DropIntent
  BY <1>3, TakeType DEF DropIntent, TakeMessage
<1>4. CASE OnStartCommand
  BY <1>4, OnStartCommandType
<1>5. CASE PostStartStale \/ PostStartOnMain \/ PostStartUp
  <2>1. CASE PostStartStale
    BY <2>1, TakeType DEF PostStartStale, TakeMessage
  <2>2. CASE PostStartOnMain
    BY <2>2 DEF PostStartOnMain, MainPcs
  <2>3. CASE PostStartUp
    BY <2>3, TakeType, ThreadMessage, NullType
       DEF PostStartUp, MainStep, MainPcs, HandInv
  <2> QED BY <1>5, <2>1, <2>2, <2>3
<1>6. ASSUME NEW s \in Stoppers, StopMe(s)
      PROVE  TypeInv'
  BY <1>6, StopMeType
<1>7. ASSUME NEW g \in Sessions, StartThread(g)
      PROVE  TypeInv'
  BY <1>7, StartThreadType
<1>8. ASSUME NEW g \in Sessions, MonitorExit(g)
      PROVE  TypeInv'
  BY <1>8, MessageType, PostType DEF MonitorExit, Post
<1>9. CASE Environment
  BY <1>9, EnvironmentType
<1>10. CASE UNCHANGED vars
  BY <1>10 DEF vars
<1>. QED BY <1>1, <1>2, <1>3, <1>4, <1>5, <1>6, <1>7, <1>8, <1>9, <1>10
         DEF Next, MainThread, Stoppers

\* The service begins with values of their kind.
LEMMA TypeInit ==
  ASSUME Init
  PROVE  TypeInv
<1>1. <<>> \in Seq(Message)
  OBVIOUS
<1>2. /\ spc \in [Stoppers -> StopPcs] /\ tmp \in [Stoppers -> Nat]
      /\ thread \in [Sessions -> ThreadPcs]
      /\ connectSeq \in [Sessions -> Nat]
      /\ monitor \in [Sessions -> {"none", "watch", "done"}]
  BY DEF Init, StopPcs, ThreadPcs
<1>3. /\ mRunning \in BOOLEAN /\ mTunnelUp \in BOOLEAN
      /\ mSendfdCancelled \in BOOLEAN /\ mConnectSeq \in Nat
      /\ mHev \in BOOLEAN /\ mHevActive \in BOOLEAN
      /\ bound \in BOOLEAN /\ startRequested \in BOOLEAN
      /\ destroyed \in BOOLEAN
  BY DEF Init
<1>. QED BY <1>1, <1>2, <1>3, NullType DEF Init, TypeInv, TypeOK, MainPcs

\* Only the checkpoint of postStartOnMain takes the main thread there.
LEMMA HandIsPostStart ==
  ASSUME [Next]_vars, mpc # "up", mpc' = "up"
  PROVE  PostStartOnMain
<1> USE DEF mainVars
<1>1. ASSUME NEW s \in Stoppers, StopMe(s)
      PROVE  FALSE
  BY <1>1 DEF StopMe, StopCancel, StopSeqWrite, StopTun2socks, StopPdnsd,
     StopHev, StopInterface, StopReset, ResetRest
<1>2. ASSUME NEW g \in Sessions, StartThread(g)
      PROVE  FALSE
  BY <1>2
     DEF StartThread, SkipPdnsd, LaunchPdnsd, LaunchPdnsdFails, CheckBeforeSpawn,
         Spawn, SpawnFails, AbortSpawned, StartMonitor, SendFd, SendFdFails,
         SendFdStale, HevNoServer, HevConf, HevStartThrows, HevStart,
         HevStartRefused, HevClaim, HevAbort, HevUp, StartFails
<1>3. ASSUME NEW g \in Sessions, MonitorExit(g)
      PROVE  FALSE
  BY <1>3 DEF MonitorExit
<1>4. ASSUME Environment
      PROVE  FALSE
  BY <1>4
     DEF Environment, SendStart, SendStop, Unbind, BinderStop, MainStop, OnDestroy,
         Tun2socksExits, HevExits
<1>5. ASSUME MainThread, ~StopMe(Main)
      PROVE  PostStartOnMain
  BY <1>5
     DEF MainThread, PostedStop, StopCommand, DropIntent, OnStartCommand,
         StartIgnored, StartNoProfile, StartFields, StartRunning, StartSeqWrite,
         StartCapture, Configure, ConfigureFails, ConfigureReadThrows, FdThrows,
         Start, PostStartStale, PostStartUp, MainStep, TakeMessage, MainIdle
<1> QED BY <1>1, <1>2, <1>3, <1>4, <1>5 DEF Next, Stoppers, vars

\* Messages are posted behind the one postStartOnMain works on, and nobody
\* else takes one meanwhile.
LEMMA HandStep ==
  ASSUME TypeInv, HandInv, [Next]_vars
  PROVE  HandInv' /\ (mpc = "up" /\ mpc' = "up" => Head(queue') = Head(queue))
<1> USE DEF mainVars
<1>0. queue \in Seq(Message)
  BY DEF TypeInv, TypeOK
<1>1. ASSUME mpc = "up", mpc' = "up"
      PROVE  queue' = queue \/ \E m \in Message : queue' = Append(queue, m)
  <2>1. ASSUME NEW s \in Stoppers, StopMe(s)
        PROVE  queue' = queue
    BY <2>1 DEF StopMe, StopCancel, StopSeqWrite, StopTun2socks, StopPdnsd,
       StopHev, StopInterface, StopReset, ResetRest
  <2>2. ASSUME NEW g \in Sessions, StartThread(g)
        PROVE  queue' = queue \/ \E m \in Message : queue' = Append(queue, m)
    BY <2>2, MessageType
       DEF StartThread, SkipPdnsd, LaunchPdnsd, LaunchPdnsdFails, CheckBeforeSpawn,
           Spawn, SpawnFails, AbortSpawned, StartMonitor, SendFd, SendFdFails,
           SendFdStale, HevNoServer, HevConf, HevStartThrows, HevStart,
           HevStartRefused, HevClaim, HevAbort, HevUp, StartFails, Post
  <2>3. ASSUME NEW g \in Sessions, MonitorExit(g)
        PROVE  queue' = queue \/ \E m \in Message : queue' = Append(queue, m)
    BY <2>3, MessageType DEF MonitorExit, Post
  <2>4. ASSUME Environment
        PROVE  queue' = queue \/ \E m \in Message : queue' = Append(queue, m)
    BY <2>4, MessageType
       DEF Environment, SendStart, SendStop, Unbind, BinderStop, MainStop, OnDestroy,
           Tun2socksExits, HevExits, Intents
  <2>5. ASSUME MainThread, ~StopMe(Main)
        PROVE  FALSE
    BY <1>1, <2>5
       DEF MainThread, PostedStop, StopCommand, DropIntent, OnStartCommand,
           StartIgnored, StartNoProfile, StartFields, StartRunning, StartSeqWrite,
           StartCapture, Configure, ConfigureFails, ConfigureReadThrows, FdThrows,
           Start, PostStartStale, PostStartOnMain, PostStartUp, MainStep,
           TakeMessage, MainIdle
  <2> QED BY <2>1, <2>2, <2>3, <2>4, <2>5 DEF Next, Stoppers, vars
<1>2. ASSUME mpc = "up", mpc' = "up"
      PROVE  queue' # <<>> /\ Head(queue') = Head(queue)
  <2>1. queue # <<>>
    BY <1>2 DEF HandInv
  <2> QED BY <1>0, <1>1, <1>2, <2>1
<1>3. ASSUME mpc # "up", mpc' = "up"
      PROVE  queue # <<>> /\ Head(queue).type = "up" /\ queue' = queue
  BY <1>3, HandIsPostStart DEF PostStartOnMain
<1> QED BY <1>2, <1>3 DEF HandInv

\* The fields, the threads' positions and the looper always have values of
\* their kind, however binder threads, start threads and the main thread
\* interleave: mConnectSeq stays a natural number under the unsynchronised
\* increments, and what configure() opens belongs to a session that began.
THEOREM TypeCorrect == Spec => []TypeOK
<1>1. Init => TypeInv /\ HandInv
  BY TypeInit DEF Init, HandInv
<1>2. TypeInv /\ HandInv /\ [Next]_vars => TypeInv' /\ HandInv'
  BY TypeStep, HandStep
<1>3. TypeInv => TypeOK
  BY DEF TypeInv
<1>. QED BY <1>1, <1>2, <1>3, PTL DEF Spec

-----------------------------------------------------------------------------
(***************************************************************************)
(* When every stop runs on the main thread (Binders = {}), a stop and a    *)
(* start never interleave, and what is left to race are the start threads  *)
(* of stopped sessions.  Four facts make this inductive.                   *)
(***************************************************************************)
Starting == {"seqWrite", "capture", "configure", "start"}

\* The main thread is in onStartCommand or in stopMe, never in both, and
\* mRunning says which session runs.
PhaseInv ==
  /\ mpc # "idle" => spc[Main] = "out"
  /\ mpc = "run" => ~mRunning
  /\ mpc \in Starting \cup {"up"} => mRunning
  /\ spc[Main] # "out" => ~mRunning
  /\ live = IF mRunning THEN begun ELSE 0
  /\ mRunning => begun # 0

\* The running session is the only one that holds the latest generation.
GenerationInv ==
  /\ mpc = "seqWrite" \/ spc[Main] = "seqWrite" => tmp[Main] = mConnectSeq
  /\ \A g \in Sessions : connectSeq[g] <= mConnectSeq
  /\ mRunning /\ mpc # "seqWrite" =>
       \A g \in Sessions : g # begun => connectSeq[g] < mConnectSeq

\* The tunnel goes up by the running session's thread; until it does, no
\* session is on record as having brought it up.
UpInv ==
  /\ mTunnelUp => \/ mRunning /\ mpc \in {"idle", "up"} /\ upBy = live
                  \/ spc[Main] # "out"
  /\ ~mTunnelUp => upBy = 0

\* No interface is open but the one the field holds, and that one is open
\* exactly from configure() until stopMe closes it.
InterfaceInv ==
  /\ open \subseteq {mInterface}
  /\ mRunning /\ mpc \in {"start", "idle", "up"} =>
       mInterface = begun /\ open = {begun}
  /\ ~mRunning /\ spc[Main] \in {"out", "reset"} => open = {}
  /\ mpc \in {"seqWrite", "capture", "configure"} => open = {}

MainInv == PhaseInv /\ GenerationInv /\ UpInv /\ InterfaceInv

\* The "up" that passed the checkpoint of postStartOnMain is the running
\* session's.
HandOwn == mpc = "up" => Head(queue).g = live

SessionInv == TypeInv /\ MainInv /\ HandInv /\ HandOwn

\* What MainInv is about.
sessionVars == <<mRunning, mTunnelUp, mConnectSeq, live, upBy, tunVars, mpc,
                 stopVars, connectSeq, begun>>

\* A step that touches none of it keeps MainInv.
LEMMA MainInvUnchanged ==
  ASSUME MainInv, UNCHANGED sessionVars
  PROVE  MainInv'
BY DEF MainInv, PhaseInv, GenerationInv, UpInv, InterfaceInv, Starting,
   sessionVars, tunVars, stopVars

\* Start threads touch only their engine and the looper.
LEMMA StartThreadApart ==
  ASSUME NEW g \in Sessions, StartThread(g)
  PROVE  UNCHANGED sessionVars
<1> USE DEF sessionVars, fieldVars, mainVars, lifeVars, StartFails
<1>1. CASE SkipPdnsd(g)
  BY <1>1 DEF SkipPdnsd
<1>2. CASE LaunchPdnsd(g)
  BY <1>2 DEF LaunchPdnsd
<1>3. CASE LaunchPdnsdFails(g)
  BY <1>3 DEF LaunchPdnsdFails
<1>4. CASE CheckBeforeSpawn(g)
  BY <1>4 DEF CheckBeforeSpawn
<1>5. CASE Spawn(g)
  BY <1>5 DEF Spawn
<1>6. CASE SpawnFails(g)
  BY <1>6 DEF SpawnFails
<1>7. CASE AbortSpawned(g)
  BY <1>7 DEF AbortSpawned
<1>8. CASE StartMonitor(g)
  BY <1>8 DEF StartMonitor
<1>9. CASE SendFd(g)
  BY <1>9 DEF SendFd
<1>10. CASE SendFdFails(g)
  BY <1>10 DEF SendFdFails
<1>11. CASE SendFdStale(g)
  BY <1>11 DEF SendFdStale
<1>12. CASE HevNoServer(g)
  BY <1>12 DEF HevNoServer
<1>13. CASE HevConf(g)
  BY <1>13 DEF HevConf
<1>14. CASE HevStartThrows(g)
  BY <1>14 DEF HevStartThrows
<1>15. CASE HevStart(g)
  BY <1>15 DEF HevStart
<1>16. CASE HevStartRefused(g)
  BY <1>16 DEF HevStartRefused
<1>17. CASE HevClaim(g)
  BY <1>17 DEF HevClaim
<1>18. CASE HevAbort(g)
  BY <1>18 DEF HevAbort
<1>19. CASE HevUp(g)
  BY <1>19 DEF HevUp
<1>. QED BY <1>1, <1>2, <1>3, <1>4, <1>5, <1>6, <1>7, <1>8, <1>9,
            <1>10, <1>11, <1>12, <1>13, <1>14, <1>15, <1>16, <1>17, <1>18,
            <1>19 DEF StartThread

\* Entering stopMe on the main thread, whoever calls it.
LEMMA GateStep ==
  ASSUME SessionInv, mpc = "idle" \/ mpc = "configure", NEW onDestroy \in BOOLEAN,
         spc[Main] = "out", EnterStop(Main, onDestroy), GateUnchanged,
         mpc' = "idle", open' = open, begun' = begun, connectSeq' = connectSeq,
         mpc = "idle" => mInterface' = mInterface
  PROVE  MainInv'
<1> USE DEF SessionInv, TypeInv, TypeOK, MainInv, EnterStop, GateUnchanged, Starting
<1>1. PhaseInv'
  BY DEF PhaseInv, Stoppers
<1>2. GenerationInv'
  BY DEF PhaseInv, GenerationInv, Stoppers
<1>3. UpInv'
  BY DEF PhaseInv, UpInv, Stoppers
<1>4. InterfaceInv'
  BY DEF PhaseInv, InterfaceInv, Stoppers
<1>. QED BY <1>1, <1>2, <1>3, <1>4

\* A step of stopMe on the main thread.
LEMMA StopMeStep ==
  ASSUME SessionInv, StopMe(Main)
  PROVE  MainInv'
<1> USE DEF SessionInv, TypeInv, TypeOK, MainInv, Starting, Stoppers, fieldVars,
            tunVars, mainVars, threadVars, lifeVars, StopStep
<1>1. CASE StopCancel(Main)
  <2>1. PhaseInv'
    BY <1>1 DEF StopCancel, PhaseInv
  <2>2. GenerationInv'
    BY <1>1 DEF StopCancel, PhaseInv, GenerationInv
  <2>3. UpInv'
    BY <1>1 DEF StopCancel, PhaseInv, UpInv
  <2>4. InterfaceInv'
    BY <1>1 DEF StopCancel, PhaseInv, InterfaceInv
  <2>. QED BY <2>1, <2>2, <2>3, <2>4
<1>2. CASE StopSeqWrite(Main)
  <2>1. PhaseInv'
    BY <1>2 DEF StopSeqWrite, NextSeq, PhaseInv
  <2>2. GenerationInv'
    BY <1>2 DEF StopSeqWrite, NextSeq, PhaseInv, GenerationInv
  <2>3. UpInv'
    BY <1>2 DEF StopSeqWrite, NextSeq, PhaseInv, UpInv
  <2>4. InterfaceInv'
    BY <1>2 DEF StopSeqWrite, NextSeq, PhaseInv, InterfaceInv
  <2>. QED BY <2>1, <2>2, <2>3, <2>4
<1>3. CASE StopTun2socks(Main)
  <2>1. PhaseInv'
    BY <1>3 DEF StopTun2socks, PhaseInv
  <2>2. GenerationInv'
    BY <1>3 DEF StopTun2socks, PhaseInv, GenerationInv
  <2>3. UpInv'
    BY <1>3 DEF StopTun2socks, PhaseInv, UpInv
  <2>4. InterfaceInv'
    BY <1>3 DEF StopTun2socks, PhaseInv, InterfaceInv
  <2>. QED BY <2>1, <2>2, <2>3, <2>4
<1>4. CASE StopPdnsd(Main)
  <2>1. PhaseInv'
    BY <1>4 DEF StopPdnsd, PhaseInv
  <2>2. GenerationInv'
    BY <1>4 DEF StopPdnsd, PhaseInv, GenerationInv
  <2>3. UpInv'
    BY <1>4 DEF StopPdnsd, PhaseInv, UpInv
  <2>4. InterfaceInv'
    BY <1>4 DEF StopPdnsd, PhaseInv, InterfaceInv
  <2>. QED BY <2>1, <2>2, <2>3, <2>4
<1>5. CASE StopHev(Main)
  <2>1. PhaseInv'
    BY <1>5 DEF StopHev, PhaseInv
  <2>2. GenerationInv'
    BY <1>5 DEF StopHev, PhaseInv, GenerationInv
  <2>3. UpInv'
    BY <1>5 DEF StopHev, PhaseInv, UpInv
  <2>4. InterfaceInv'
    BY <1>5 DEF StopHev, PhaseInv, InterfaceInv
  <2>. QED BY <2>1, <2>2, <2>3, <2>4
<1>6. CASE StopInterface(Main)
  <2>1. PhaseInv'
    BY <1>6 DEF StopInterface, PhaseInv
  <2>2. GenerationInv'
    BY <1>6 DEF StopInterface, PhaseInv, GenerationInv
  <2>3. UpInv'
    BY <1>6 DEF StopInterface, PhaseInv, UpInv
  <2>4. InterfaceInv'
    BY <1>6 DEF StopInterface, PhaseInv, InterfaceInv
  <2>. QED BY <2>1, <2>2, <2>3, <2>4
<1>7. CASE StopReset(Main)
  <2>1. PhaseInv'
    BY <1>7 DEF StopReset, ResetRest, PhaseInv
  <2>2. GenerationInv'
    BY <1>7 DEF StopReset, ResetRest, PhaseInv, GenerationInv
  <2>3. UpInv'
    BY <1>7 DEF StopReset, ResetRest, PhaseInv, UpInv
  <2>4. InterfaceInv'
    BY <1>7 DEF StopReset, ResetRest, PhaseInv, InterfaceInv
  <2>. QED BY <2>1, <2>2, <2>3, <2>4
<1>. QED BY <1>1, <1>2, <1>3, <1>4, <1>5, <1>6, <1>7 DEF StopMe

\* A step of onStartCommand.  The descriptor that start() reads is open, so
\* the process never dies of reading it.
LEMMA OnStartCommandStep ==
  ASSUME Binders = {}, SessionInv, OnStartCommand
  PROVE  MainInv'
<1> USE DEF SessionInv, TypeInv, TypeOK, MainInv, Starting, Stoppers, fieldVars,
            tunVars, mainVars, stopVars, threadVars, lifeVars, MainStep
<1>1. CASE StartIgnored
  BY <1>1, MainInvUnchanged DEF StartIgnored, TakeMessage, sessionVars
<1>2. CASE StartNoProfile
  BY <1>2, MainInvUnchanged DEF StartNoProfile, TakeMessage, sessionVars
<1>3. CASE StartFields
  <2>1. PhaseInv'
    BY <1>3 DEF StartFields, TakeMessage, MainIdle, SessionOrNull, PhaseInv
  <2>2. GenerationInv'
    BY <1>3 DEF StartFields, TakeMessage, MainIdle, SessionOrNull, PhaseInv, GenerationInv
  <2>3. UpInv'
    BY <1>3 DEF StartFields, TakeMessage, MainIdle, SessionOrNull, PhaseInv, UpInv
  <2>4. InterfaceInv'
    BY <1>3 DEF StartFields, TakeMessage, MainIdle, SessionOrNull, PhaseInv, InterfaceInv
  <2>. QED BY <2>1, <2>2, <2>3, <2>4
<1>4. CASE StartRunning
  <2>1. PhaseInv'
    BY <1>4 DEF StartRunning, PhaseInv
  <2>2. GenerationInv'
    BY <1>4 DEF StartRunning, PhaseInv, GenerationInv
  <2>3. UpInv'
    BY <1>4 DEF StartRunning, PhaseInv, UpInv
  <2>4. InterfaceInv'
    BY <1>4 DEF StartRunning, PhaseInv, InterfaceInv
  <2>. QED BY <2>1, <2>2, <2>3, <2>4
<1>5. CASE StartSeqWrite
  <2>1. PhaseInv'
    BY <1>5 DEF StartSeqWrite, NextSeq, PhaseInv
  <2>2. GenerationInv'
    BY <1>5 DEF StartSeqWrite, NextSeq, PhaseInv, GenerationInv
  <2>3. UpInv'
    BY <1>5 DEF StartSeqWrite, NextSeq, PhaseInv, UpInv
  <2>4. InterfaceInv'
    BY <1>5 DEF StartSeqWrite, NextSeq, PhaseInv, InterfaceInv
  <2>. QED BY <2>1, <2>2, <2>3, <2>4
<1>6. CASE StartCapture
  <2>1. PhaseInv'
    BY <1>6 DEF StartCapture, PhaseInv
  <2>2. GenerationInv'
    BY <1>6 DEF StartCapture, PhaseInv, GenerationInv
  <2>3. UpInv'
    BY <1>6 DEF StartCapture, PhaseInv, UpInv
  <2>4. InterfaceInv'
    BY <1>6 DEF StartCapture, PhaseInv, InterfaceInv
  <2>. QED BY <2>1, <2>2, <2>3, <2>4
<1>7. CASE Configure
  <2>1. PhaseInv'
    BY <1>7 DEF Configure, PhaseInv
  <2>2. GenerationInv'
    BY <1>7 DEF Configure, PhaseInv, GenerationInv
  <2>3. UpInv'
    BY <1>7 DEF Configure, PhaseInv, UpInv
  <2>4. InterfaceInv'
    BY <1>7 DEF Configure, PhaseInv, InterfaceInv
  <2>. QED BY <2>1, <2>2, <2>3, <2>4
<1>8. CASE ConfigureFails
  BY <1>8, GateStep DEF ConfigureFails
<1>9. CASE ConfigureReadThrows
  BY <1>9 DEF ConfigureReadThrows, PhaseInv, InterfaceInv
<1>10. CASE FdThrows
  BY <1>10 DEF FdThrows, PhaseInv, InterfaceInv
<1>11. CASE Start
  <2>1. PhaseInv'
    BY <1>11 DEF Start, PhaseInv
  <2>2. GenerationInv'
    BY <1>11 DEF Start, PhaseInv, GenerationInv
  <2>3. UpInv'
    BY <1>11 DEF Start, PhaseInv, UpInv
  <2>4. InterfaceInv'
    BY <1>11 DEF Start, PhaseInv, InterfaceInv
  <2>. QED BY <2>1, <2>2, <2>3, <2>4
<1>. QED BY <1>1, <1>2, <1>3, <1>4, <1>5, <1>6, <1>7, <1>8, <1>9, <1>10, <1>11
         DEF OnStartCommand

\* The checkpoint of postStartOnMain lets only the running session's thread
\* pass: it alone holds the latest generation.
LEMMA PostStartOwn ==
  ASSUME SessionInv, PostStartOnMain
  PROVE  mRunning /\ mpc = "idle" /\ spc[Main] = "out" /\ Head(queue).g = begun /\ live = begun
<1> DEFINE g == Head(queue).g
<1>1. g \in Sessions
  BY TakeType, ThreadMessage DEF SessionInv, TypeInv, TypeOK, PostStartOnMain
<1>2. mRunning /\ mpc = "idle" /\ spc[Main] = "out" /\ connectSeq[g] = mConnectSeq
  BY DEF PostStartOnMain, MainIdle, Stale
<1>3. g = begun /\ live = begun
  BY <1>1, <1>2 DEF SessionInv, MainInv, GenerationInv, PhaseInv, TypeInv, TypeOK
<1>. QED BY <1>2, <1>3

\* postStartOnMain brings up the running session's tunnel.
LEMMA PostStartStep ==
  ASSUME SessionInv, PostStartStale \/ PostStartOnMain \/ PostStartUp
  PROVE  MainInv'
<1> USE DEF fieldVars, tunVars, stopVars, threadVars, lifeVars
<1>1. CASE PostStartStale
  BY <1>1, MainInvUnchanged DEF PostStartStale, SessionInv, sessionVars
<1>2. CASE PostStartOnMain
  <2> USE <1>2 DEF SessionInv, MainInv, PostStartOnMain
  <2>1. mRunning /\ mpc = "idle" /\ spc[Main] = "out"
    BY PostStartOwn
  <2>2. PhaseInv' /\ GenerationInv'
    BY <2>1 DEF PhaseInv, GenerationInv, Starting
  <2>3. UpInv' /\ InterfaceInv'
    BY <2>1 DEF UpInv, InterfaceInv
  <2>. QED BY <2>2, <2>3
<1>3. CASE PostStartUp
  <2> USE <1>3 DEF SessionInv, MainInv, PostStartUp, MainStep
  <2>1. mRunning /\ mpc = "up" /\ mpc' = "idle" /\ Head(queue).g = live
    BY DEF PhaseInv, HandOwn
  <2>2. PhaseInv' /\ GenerationInv'
    BY <2>1 DEF PhaseInv, GenerationInv, Starting
  <2>3. UpInv' /\ InterfaceInv'
    BY <2>1 DEF UpInv, InterfaceInv
  <2>. QED BY <2>2, <2>3
<1>. QED BY <1>1, <1>2, <1>3

\* While postStartOnMain is under way the running session does not change.
LEMMA HandOwnStep ==
  ASSUME Binders = {}, SessionInv, [Next]_vars
  PROVE  HandOwn'
<1> USE DEF fieldVars, mainVars
<1>1. CASE mpc = "up" /\ mpc' = "up"
  <2>1. Head(queue') = Head(queue) /\ spc[Main] = "out"
    BY <1>1, HandStep DEF SessionInv, MainInv, PhaseInv
  <2>2. live' = live
    <3>1. ~StopMe(Main)
      BY <2>1 DEF StopMe, StopCancel, StopSeqWrite, StopTun2socks, StopPdnsd,
         StopHev, StopInterface, StopReset, ResetRest, StopStep
    <3>2. ASSUME NEW g \in Sessions, StartThread(g)
          PROVE  live' = live
      BY <3>2, StartThreadApart DEF sessionVars
    <3>3. ASSUME NEW g \in Sessions, MonitorExit(g)
          PROVE  live' = live
      BY <3>3 DEF MonitorExit
    <3>4. ASSUME Environment
          PROVE  live' = live
      BY <1>1, <3>4
         DEF Environment, SendStart, SendStop, Unbind, MainStop, OnDestroy,
             Tun2socksExits, HevExits, MainIdle
    <3>5. ASSUME MainThread
          PROVE  FALSE
      BY <1>1, <3>1, <3>5
         DEF MainThread, PostedStop, StopCommand, DropIntent, OnStartCommand,
             StartIgnored, StartNoProfile, StartFields, StartRunning, StartSeqWrite,
             StartCapture, Configure, ConfigureFails, ConfigureReadThrows, FdThrows,
             Start, PostStartStale, PostStartOnMain, PostStartUp, MainStep,
             TakeMessage, MainIdle
    <3> QED BY <3>2, <3>3, <3>4, <3>5 DEF Next, vars
  <2> QED BY <1>1, <2>1, <2>2 DEF SessionInv, HandOwn
<1>2. CASE mpc # "up" /\ mpc' = "up"
  <2>1. PostStartOnMain
    BY <1>2, HandIsPostStart DEF SessionInv
  <2>2. queue' = queue /\ live' = live
    BY <2>1 DEF PostStartOnMain
  <2> QED BY <2>1, <2>2, PostStartOwn DEF HandOwn
<1> QED BY <1>1, <1>2 DEF HandOwn

\* Every step keeps MainInv, and so SessionInv.
LEMMA SessionStep ==
  ASSUME Binders = {}, SessionInv, [Next]_vars
  PROVE  SessionInv'
<1> USE DEF SessionInv, fieldVars, tunVars, mainVars, stopVars, threadVars,
            lifeVars, sessionVars
<1>1. TypeInv' /\ HandInv' /\ HandOwn'
  BY TypeStep, HandStep, HandOwnStep
<1>2. CASE PostedStop
  BY <1>2, <1>1, GateStep DEF PostedStop, TakeMessage, MainIdle
<1>3. CASE StopCommand
  BY <1>3, <1>1, GateStep DEF StopCommand, TakeMessage, MainIdle
<1>4. CASE DropIntent
  BY <1>4, <1>1, MainInvUnchanged DEF DropIntent
<1>5. CASE OnStartCommand
  BY <1>5, <1>1, OnStartCommandStep
<1>6. CASE PostStartStale \/ PostStartOnMain \/ PostStartUp
  BY <1>6, <1>1, PostStartStep
<1>7. CASE StopMe(Main)
  BY <1>7, <1>1, StopMeStep
<1>8. ASSUME NEW h \in Sessions, StartThread(h)
      PROVE  SessionInv'
  BY <1>8, <1>1, StartThreadApart, MainInvUnchanged
<1>9. ASSUME NEW h \in Sessions, MonitorExit(h)
      PROVE  SessionInv'
  BY <1>9, <1>1, MainInvUnchanged DEF MonitorExit
<1>10. CASE Environment
  <2>1. ASSUME NEW t, SendStart(t)
        PROVE  UNCHANGED sessionVars
    BY <2>1 DEF SendStart
  <2>2. CASE SendStop
    BY <2>2, <1>1, MainInvUnchanged DEF SendStop
  <2>3. CASE Unbind
    BY <2>3, <1>1, MainInvUnchanged DEF Unbind
  <2>4. CASE MainStop
    BY <2>4, <1>1, GateStep DEF MainStop, MainIdle
  <2>5. CASE OnDestroy
    BY <2>5, <1>1, GateStep DEF OnDestroy, MainIdle
  <2>6. ASSUME NEW h \in Sessions, Tun2socksExits(h)
        PROVE  UNCHANGED sessionVars
    BY <2>6 DEF Tun2socksExits
  <2>7. CASE HevExits
    BY <2>7, <1>1, MainInvUnchanged DEF HevExits
  <2>. QED BY <1>1, <1>10, <2>1, <2>2, <2>3, <2>4, <2>5, <2>6, <2>7,
              MainInvUnchanged DEF Environment
<1>11. CASE UNCHANGED vars
  BY <1>11, <1>1, MainInvUnchanged DEF vars
<1>. QED BY <1>2, <1>3, <1>4, <1>5, <1>6, <1>7, <1>8, <1>9, <1>10, <1>11
         DEF Next, MainThread

\* The service begins stopped, with nothing open.
LEMMA SessionInit ==
  ASSUME Init
  PROVE  SessionInv
<1>1. TypeInv
  BY TypeInit
<1>2. MainInv
  BY DEF Init, MainInv, PhaseInv, GenerationInv, UpInv, InterfaceInv, Starting,
     Stoppers
<1>3. HandInv /\ HandOwn
  BY DEF Init, HandInv, HandOwn
<1>. QED BY <1>1, <1>2, <1>3 DEF SessionInv

\* The four facts hold throughout.
LEMMA SessionCorrect ==
  ASSUME Binders = {}
  PROVE  Spec => []SessionInv
<1>1. Init => SessionInv
  BY SessionInit
<1>2. SessionInv /\ [Next]_vars => SessionInv'
  BY SessionStep
<1>. QED BY <1>1, <1>2, PTL DEF Spec

\* With every stop on the main thread, the tunnel that getState reports up was
\* brought up by the running session's own start thread over its own open
\* interface, for any number of sessions, orphaned start threads and
\* monitors.  This is what mConnectSeq is for.
THEOREM TunnelCorrect ==
  ASSUME Binders = {}
  PROVE  Spec => []TunnelBelongsToSession
<1>1. SessionInv => TunnelBelongsToSession
  BY DEF SessionInv, MainInv, PhaseInv, UpInv, InterfaceInv, TunnelBelongsToSession
<1>. QED BY <1>1, SessionCorrect, PTL

\* With every stop on the main thread, stopMe closes every interface that
\* establish() returned: none stays open behind a stopped service.
THEOREM InterfaceCorrect ==
  ASSUME Binders = {}
  PROVE  Spec => []StoppedClosesInterface
<1>1. SessionInv => StoppedClosesInterface
  BY DEF SessionInv, MainInv, InterfaceInv, StoppedClosesInterface, Stoppers
<1>. QED BY <1>1, SessionCorrect, PTL

\* With every stop on the main thread, mConnectSeq keeps its comment's promise:
\* between starts and stops, a start thread left over from any earlier session
\* finds itself stale.  With a binder thread the increment may be lost.
THEOREM OrphanCorrect ==
  ASSUME Binders = {}
  PROVE  Spec => []OrphanIsStale
<1>1. SessionInv => OrphanIsStale
  <2> SUFFICES ASSUME SessionInv, mpc = "idle", NEW g \in Sessions, g # live
               PROVE  Stale(g)
    BY DEF OrphanIsStale
  <2>1. CASE ~mRunning
    BY <2>1 DEF Stale
  <2>2. CASE mRunning
    <3>1. connectSeq[g] < mConnectSeq
      BY <2>2 DEF SessionInv, MainInv, PhaseInv, GenerationInv
    <3> QED BY <3>1 DEF Stale, SessionInv, TypeInv, TypeOK
  <2> QED BY <2>1, <2>2
<1>. QED BY <1>1, SessionCorrect, PTL

-----------------------------------------------------------------------------
(***************************************************************************)
(* Refinement of VpnSession.                                               *)
(***************************************************************************)
\* What the mapping to VpnSession reads.
mappedVars == <<mRunning, mTunnelUp, mpc, begun, upBy>>

\* A step that changes none of it is a stutter.
LEMMA MappedUnchanged ==
  ASSUME UNCHANGED mappedVars
  PROVE  UNCHANGED Abstract!vars
BY DEF mappedVars, Abstract!vars

\* Entering stopMe ends the session that runs, if one does.
LEMMA GateMaps ==
  ASSUME SessionInv, mpc # "run", NEW onDestroy \in BOOLEAN,
         EnterStop(Main, onDestroy), GateUnchanged, mpc' = "idle", begun' = begun
  PROVE  [Abstract!Next]_(Abstract!vars)
<1>1. CASE mRunning
  <2>1. Abstract!Disconnect
    BY <1>1 DEF EnterStop, GateUnchanged, Abstract!Disconnect
  <2>. QED BY <2>1 DEF Abstract!Next
<1>2. CASE ~mRunning
  <2>1. mRunning' = FALSE
    BY <1>2 DEF EnterStop, SessionInv, TypeInv, TypeOK
  <2>. QED BY <1>2, <2>1 DEF Abstract!vars
<1>. QED BY <1>1, <1>2

\* stopMe past its gate changes nothing a client can tell: the service has
\* been stopped since the gate.
LEMMA StopMeMaps ==
  ASSUME SessionInv, StopMe(Main)
  PROVE  UNCHANGED Abstract!vars
<1>1. ~mRunning
  BY DEF SessionInv, MainInv, PhaseInv, StopMe, StopCancel, StopSeqWrite,
     StopTun2socks, StopPdnsd, StopHev, StopInterface, StopReset, ResetRest, StopStep
<1>2. mpc' = mpc /\ begun' = begun
  BY DEF StopMe, StopCancel, StopSeqWrite, StopTun2socks, StopPdnsd, StopHev,
     StopInterface, StopReset, ResetRest, mainVars, lifeVars
<1>3. ~mRunning'
  BY <1>1 DEF StopMe, StopCancel, StopSeqWrite, StopTun2socks, StopPdnsd, StopHev,
     StopInterface, StopReset, fieldVars
<1>. QED BY <1>1, <1>2, <1>3 DEF Abstract!vars

\* onStartCommand begins a session when it sets mRunning, and at no other step.
LEMMA OnStartCommandMaps ==
  ASSUME Binders = {}, SessionInv, OnStartCommand
  PROVE  [Abstract!Next]_(Abstract!vars)
<1> USE DEF fieldVars, stopVars, threadVars, lifeVars, MainStep, mappedVars
<1>0. SessionInv'
  BY SessionStep DEF Next, MainThread
<1>1. CASE StartIgnored
  BY <1>1, MappedUnchanged DEF StartIgnored
<1>2. CASE StartNoProfile
  BY <1>2, MappedUnchanged DEF StartNoProfile
<1>3. CASE StartFields
  BY <1>3 DEF StartFields, TakeMessage, MainIdle, SessionInv, TypeInv, TypeOK,
     SessionOrNull, Abstract!vars
<1>4. CASE StartRunning
  <2>1. ~mRunning /\ ~mTunnelUp /\ upBy = 0 /\ begun \in Nat
    BY <1>4 DEF StartRunning, SessionInv, MainInv, PhaseInv, UpInv, TypeInv,
       TypeOK, SessionOrNull
  <2>2. Abstract!Connect
    BY <1>4, <2>1 DEF StartRunning, Abstract!Connect
  <2>. QED BY <2>2 DEF Abstract!Next
<1>5. CASE StartSeqWrite
  BY <1>5 DEF StartSeqWrite, Abstract!vars
<1>6. CASE StartCapture
  BY <1>6 DEF StartCapture, Abstract!vars
<1>7. CASE Configure
  BY <1>7 DEF Configure, Abstract!vars
<1>8. CASE ConfigureFails
  BY <1>8, GateMaps DEF ConfigureFails
<1>9. CASE ConfigureReadThrows
  BY <1>9 DEF ConfigureReadThrows, SessionInv, MainInv, PhaseInv, InterfaceInv,
     Starting
<1>10. CASE FdThrows
  BY <1>10 DEF FdThrows, SessionInv, MainInv, PhaseInv, InterfaceInv, Starting
<1>11. CASE Start
  BY <1>11 DEF Start, Abstract!vars
<1>. QED BY <1>1, <1>2, <1>3, <1>4, <1>5, <1>6, <1>7, <1>8, <1>9, <1>10, <1>11
         DEF OnStartCommand

\* postStartOnMain establishes the session that is connecting, or does nothing.
LEMMA PostStartMaps ==
  ASSUME SessionInv, PostStartStale \/ PostStartOnMain \/ PostStartUp, SessionInv'
  PROVE  [Abstract!Next]_(Abstract!vars)
<1> USE DEF fieldVars, lifeVars
<1>1. CASE PostStartStale
  BY <1>1, MappedUnchanged DEF PostStartStale, mappedVars
<1>2. CASE PostStartOnMain
  <2>1. mpc = "idle" /\ mpc' = "up" /\ UNCHANGED <<mRunning, mTunnelUp, begun, upBy>>
    BY <1>2 DEF PostStartOnMain, MainIdle
  <2> QED BY <2>1 DEF Abstract!vars
<1>3. CASE PostStartUp
  <2>1. /\ mpc = "up" /\ mpc' = "idle" /\ mTunnelUp' = TRUE /\ upBy' = live
        /\ UNCHANGED <<mRunning, begun>> /\ spc[Main] = "out"
    BY <1>3 DEF PostStartUp, MainStep, SessionInv, HandOwn
  <2>2. mRunning /\ live = begun
    BY <2>1 DEF SessionInv, MainInv, PhaseInv
  <2>3. CASE mTunnelUp
    <3>1. upBy = live
      BY <2>1, <2>3 DEF SessionInv, MainInv, UpInv
    <3> QED BY <2>1, <2>2, <2>3, <3>1 DEF Abstract!vars
  <2>4. CASE ~mTunnelUp
    <3>1. Abstract!Establish
      BY <2>1, <2>2, <2>4 DEF Abstract!Establish
    <3> QED BY <3>1 DEF Abstract!Next
  <2> QED BY <2>3, <2>4
<1>. QED BY <1>1, <1>2, <1>3

\* With every stop on the main thread, the service implements VpnSession: a
\* client sees sessions begin one after the other, each going up at most once
\* and by its own start thread, and none coming back after its stop.
THEOREM Refinement ==
  ASSUME Binders = {}
  PROVE  Spec => ImplementsVpnSession
<1>1. Init => Abstract!Init
  BY DEF Init, Abstract!Init
<1>2. ASSUME SessionInv, SessionInv', [Next]_vars
      PROVE  [Abstract!Next]_(Abstract!vars)
  <2> USE <1>2 DEF fieldVars, mainVars, lifeVars, mappedVars
  <2>1. CASE PostedStop
    BY <2>1, GateMaps DEF PostedStop, TakeMessage, MainIdle
  <2>2. CASE StopCommand
    BY <2>2, GateMaps DEF StopCommand, TakeMessage, MainIdle
  <2>3. CASE DropIntent
    BY <2>3, MappedUnchanged DEF DropIntent
  <2>4. CASE OnStartCommand
    BY <2>4, OnStartCommandMaps
  <2>5. CASE PostStartStale \/ PostStartOnMain \/ PostStartUp
    BY <2>5, PostStartMaps
  <2>6. CASE StopMe(Main)
    BY <2>6, StopMeMaps
  <2>7. ASSUME NEW h \in Sessions, StartThread(h)
        PROVE  UNCHANGED mappedVars
    BY <2>7, StartThreadApart DEF sessionVars
  <2>8. ASSUME NEW h \in Sessions, MonitorExit(h)
        PROVE  UNCHANGED mappedVars
    BY <2>8 DEF MonitorExit
  <2>9. CASE MainStop
    BY <2>9, GateMaps DEF MainStop, MainIdle
  <2>10. CASE OnDestroy
    BY <2>10, GateMaps DEF OnDestroy, MainIdle
  <2>11. ASSUME Environment, ~MainStop, ~OnDestroy
         PROVE  UNCHANGED mappedVars
    BY <2>11 DEF Environment, SendStart, SendStop, Unbind, Tun2socksExits, HevExits
  <2>12. CASE UNCHANGED vars
    BY <2>12, MappedUnchanged DEF vars
  <2>. QED BY <2>1, <2>2, <2>3, <2>4, <2>5, <2>6, <2>7, <2>8, <2>9, <2>10,
              <2>11, <2>12, MappedUnchanged DEF Next, MainThread
<1>. QED BY <1>1, <1>2, SessionCorrect, PTL
         DEF Spec, ImplementsVpnSession, Abstract!Spec

-----------------------------------------------------------------------------
(***************************************************************************)
(* A running service is not left connecting.  While the running session    *)
(* has the counter for itself (AloneInv, which holds when no binder thread *)
(* stops, and also when no start overtakes a stop), its start thread is    *)
(* not stale, so it works on, or has posted what ends the wait.            *)
(***************************************************************************)
AllOut == \A s \in Stoppers : spc[s] = "out"

AloneInv ==
  /\ mRunning \/ mpc = "run" => AllOut
  /\ mpc = "run" => ~mRunning
  /\ mRunning => begun # 0 /\ live = begun

\* The looper holds a stop, or the running session's own "up".
Pending ==
  \E i \in 1..Len(queue) :
    \/ queue[i].type = "stopMe"
    \/ queue[i].type = "up" /\ queue[i].g = begun

ProgressInv ==
  /\ mRunning /\ mpc \in {"configure", "start", "idle", "up"} =>
       connectSeq[begun] = mConnectSeq
  /\ mRunning /\ mpc \in {"idle", "up"} => ~mSendfdCancelled
  /\ mRunning /\ mpc \in {"idle", "up"} /\ upBy # begun =>
       thread[begun] \notin {"none", "done"} \/ Pending

\* What is left of the looper when its first message is taken.
LEMMA QueueTail ==
  ASSUME NEW q \in Seq(Message), q # <<>>
  PROVE  /\ Len(q) \in Nat /\ Len(q) >= 1 /\ Head(q) = q[1]
         /\ Len(Tail(q)) = Len(q) - 1
         /\ \A i \in 1..Len(Tail(q)) : Tail(q)[i] = q[i + 1]
OBVIOUS

\* A posted message goes behind the others.
LEMMA QueuePost ==
  ASSUME NEW q \in Seq(Message), NEW m \in Message
  PROVE  /\ Len(q) \in Nat /\ Len(Append(q, m)) = Len(q) + 1
         /\ \A i \in 1..Len(q) : Append(q, m)[i] = q[i]
         /\ Append(q, m)[Len(q) + 1] = m
OBVIOUS

\* What waits in the looper waits on when something is posted behind it.
LEMMA PendingKept ==
  ASSUME TypeInv, Pending, begun' = begun,
         queue' = queue \/ \E m \in Message : queue' = Append(queue, m)
  PROVE  Pending'
<1>0. queue \in Seq(Message)
  BY DEF TypeInv, TypeOK
<1>1. CASE queue' = queue
  BY <1>1 DEF Pending
<1>2. ASSUME NEW m \in Message, queue' = Append(queue, m)
      PROVE  Pending'
  <2>1. PICK i \in 1..Len(queue) : \/ queue[i].type = "stopMe"
                                   \/ queue[i].type = "up" /\ queue[i].g = begun
    BY DEF Pending
  <2>2. i \in 1..Len(queue') /\ queue'[i] = queue[i]
    BY <1>0, <1>2, QueuePost
  <2> QED BY <2>1, <2>2 DEF Pending
<1> QED BY <1>1, <1>2

\* It waits on, too, when another message is taken.
LEMMA PendingTaken ==
  ASSUME TypeInv, Pending, begun' = begun, queue # <<>>, queue' = Tail(queue),
         Head(queue).type # "stopMe",
         Head(queue).type = "up" => Head(queue).g # begun
  PROVE  Pending'
<1>0. queue \in Seq(Message)
  BY DEF TypeInv, TypeOK
<1>1. /\ Len(queue) \in Nat /\ Len(queue) >= 1 /\ Head(queue) = queue[1]
      /\ Len(queue') = Len(queue) - 1
      /\ \A i \in 1..Len(queue') : queue'[i] = queue[i + 1]
  BY <1>0, QueueTail
<1>2. PICK i \in 1..Len(queue) : \/ queue[i].type = "stopMe"
                                 \/ queue[i].type = "up" /\ queue[i].g = begun
  BY DEF Pending
<1>3. i # 1
  BY <1>1, <1>2
<1>4. i - 1 \in 1..Len(queue') /\ (i - 1) + 1 = i
  BY <1>1, <1>3
<1>5. queue'[i - 1] = queue[i]
  BY <1>1, <1>4
<1> QED BY <1>2, <1>4, <1>5 DEF Pending

\* A posted stop, and a posted "up" of the session, wait in the looper.
LEMMA PostPends ==
  ASSUME TypeInv, NEW g \in Sessions, begun' = begun,
         Post("stopMe", g) \/ (Post("up", g) /\ g = begun)
  PROVE  Pending'
<1>0. queue \in Seq(Message)
  BY DEF TypeInv, TypeOK
<1>1. PICK m \in Message : /\ queue' = Append(queue, m)
                           /\ m.type = "stopMe" \/ (m.type = "up" /\ m.g = begun)
  <2>1. CASE Post("stopMe", g)
    BY <2>1, MessageType DEF Post
  <2>2. CASE Post("up", g) /\ g = begun
    BY <2>2, MessageType DEF Post
  <2> QED BY <2>1, <2>2
<1>2. Len(queue) + 1 \in 1..Len(queue') /\ queue'[Len(queue) + 1] = m
  BY <1>0, <1>1, QueuePost
<1> QED BY <1>1, <1>2 DEF Pending

\* What a step of a start thread comes to: it goes on, or it ends, and then it
\* was stale or has posted a message.
LEMMA ThreadOutcome ==
  ASSUME TypeInv, NEW g \in Sessions, StartThread(g)
  PROVE  /\ thread[g] \notin {"none", "done"}
         /\ mSendfdCancelled' = mSendfdCancelled /\ destroyed' = destroyed
         /\ \A h \in Sessions : h # g => thread'[h] = thread[h]
         /\ \/ queue' = queue /\ (thread'[g] \notin {"none", "done"} \/ Stale(g))
            \/ Post("stopMe", g)
            \/ Post("up", g)
<1> USE DEF TypeInv, TypeOK, fieldVars, mainVars, lifeVars, ThreadStep
<1>b. ASSUME NEW from, from \notin {"none", "done"}, StartFails(g, from)
      PROVE  /\ thread[g] \notin {"none", "done"}
             /\ mSendfdCancelled' = mSendfdCancelled /\ destroyed' = destroyed
             /\ \A h \in Sessions : h # g => thread'[h] = thread[h]
             /\ Post("stopMe", g)
  BY <1>b DEF StartFails
<1>1. CASE SkipPdnsd(g)
  BY <1>1 DEF SkipPdnsd
<1>2. CASE LaunchPdnsd(g)
  BY <1>2 DEF LaunchPdnsd
<1>3. CASE LaunchPdnsdFails(g)
  BY <1>3, <1>b DEF LaunchPdnsdFails
<1>4. CASE CheckBeforeSpawn(g)
  BY <1>4 DEF CheckBeforeSpawn
<1>5. CASE Spawn(g)
  BY <1>5 DEF Spawn
<1>6. CASE SpawnFails(g)
  BY <1>6, <1>b DEF SpawnFails
<1>7. CASE AbortSpawned(g)
  BY <1>7 DEF AbortSpawned
<1>8. CASE StartMonitor(g)
  BY <1>8 DEF StartMonitor
<1>9. CASE SendFd(g)
  BY <1>9 DEF SendFd
<1>10. CASE SendFdFails(g)
  BY <1>10, <1>b DEF SendFdFails
<1>11. CASE SendFdStale(g)
  BY <1>11 DEF SendFdStale
<1>12. CASE HevNoServer(g)
  BY <1>12, <1>b DEF HevNoServer
<1>13. CASE HevConf(g)
  BY <1>13 DEF HevConf
<1>14. CASE HevStartThrows(g)
  BY <1>14, <1>b DEF HevStartThrows
<1>15. CASE HevStart(g)
  BY <1>15 DEF HevStart
<1>16. CASE HevStartRefused(g)
  BY <1>16 DEF HevStartRefused
<1>17. CASE HevClaim(g)
  BY <1>17 DEF HevClaim
<1>18. CASE HevAbort(g)
  BY <1>18 DEF HevAbort
<1>19. CASE HevUp(g)
  BY <1>19 DEF HevUp
<1>. QED BY <1>1, <1>2, <1>3, <1>4, <1>5, <1>6, <1>7, <1>8, <1>9,
            <1>10, <1>11, <1>12, <1>13, <1>14, <1>15, <1>16, <1>17, <1>18,
            <1>19 DEF StartThread

\* A start thread leaves the running session work or a message to wait for.
LEMMA ThreadProgress ==
  ASSUME TypeInv, AloneInv, ProgressInv, NEW g \in Sessions, StartThread(g)
  PROVE  ProgressInv'
<1>1. UNCHANGED <<mRunning, upBy, mConnectSeq, mpc, connectSeq, begun>>
  BY StartThreadApart DEF sessionVars
<1>2. mSendfdCancelled' = mSendfdCancelled
  BY ThreadOutcome
<1>3. ASSUME mRunning, mpc \in {"idle", "up"}, upBy # begun
      PROVE  thread'[begun] \notin {"none", "done"} \/ Pending'
  <2>1. begun \in Sessions /\ ~Stale(begun)
    BY <1>3, NullType DEF AloneInv, TypeInv, TypeOK, ProgressInv, Stale
  <2>2. queue' = queue \/ \E m \in Message : queue' = Append(queue, m)
    BY ThreadOutcome, MessageType DEF Post
  <2>3. CASE Pending
    BY <1>1, <2>2, <2>3, PendingKept
  <2>4. CASE ~Pending /\ g # begun
    BY <1>3, <2>1, <2>4, ThreadOutcome DEF ProgressInv
  <2>5. CASE g = begun
    <3>1. \/ thread'[g] \notin {"none", "done"}
          \/ Post("stopMe", g) \/ Post("up", g)
      BY <2>1, <2>5, ThreadOutcome
    <3> QED BY <1>1, <2>5, <3>1, PostPends
  <2> QED BY <2>3, <2>4, <2>5
<1> QED BY <1>1, <1>2, <1>3 DEF ProgressInv

\* A session that does not run waits for nothing.
LEMMA StoppedProgress ==
  ASSUME ~mRunning'
  PROVE  ProgressInv'
BY DEF ProgressInv

\* Whoever passes stopMe's gate, and whoever finds it shut, leaves a service
\* that does not run.
LEMMA GateStops ==
  ASSUME TypeInv, NEW s \in Stoppers, NEW onDestroy \in BOOLEAN, EnterStop(s, onDestroy)
  PROVE  ~mRunning'
BY DEF EnterStop, TypeInv, TypeOK

\* A step of stopMe finds the service stopped and leaves it so.
LEMMA StopMeStops ==
  ASSUME AloneInv, NEW s \in Stoppers, StopMe(s)
  PROVE  /\ spc[s] # "out" /\ ~mRunning /\ ~mRunning'
         /\ mpc # "run"
<1>1. spc[s] # "out"
  BY DEF StopMe, StopCancel, StopSeqWrite, StopTun2socks, StopPdnsd, StopHev,
     StopInterface, StopReset, ResetRest, StopStep
<1>2. ~mRunning /\ mpc # "run"
  BY <1>1 DEF AloneInv, AllOut
<1>3. ~mRunning'
  BY <1>2 DEF StopMe, StopCancel, StopSeqWrite, StopTun2socks, StopPdnsd, StopHev,
     StopInterface, StopReset, fieldVars
<1> QED BY <1>1, <1>2, <1>3

\* A step that touches only what ProgressInv does not read, and the looper's
\* end, keeps it.
LEMMA ApartProgress ==
  ASSUME TypeInv, ProgressInv, mSendfdCancelled' = mSendfdCancelled,
         UNCHANGED <<mRunning, upBy, mConnectSeq, mpc, connectSeq, begun, thread>>,
         queue' = queue \/ \E m \in Message : queue' = Append(queue, m)
  PROVE  ProgressInv'
<1>1. ASSUME Pending
      PROVE  Pending'
  BY <1>1, PendingKept
<1> QED BY <1>1 DEF ProgressInv

\* Every step keeps ProgressInv, as long as the running session is alone.
LEMMA ProgressStep ==
  ASSUME TypeInv, HandInv, AloneInv, ProgressInv, [Next]_vars,
         mpc = "up" /\ mRunning => Head(queue).g = begun
  PROVE  ProgressInv'
<1> USE DEF fieldVars, tunVars, mainVars, stopVars, threadVars, lifeVars
<1>0. Main \in Stoppers /\ \A b \in Binders : b \in Stoppers
  BY DEF Stoppers
<1>1. CASE PostedStop \/ StopCommand \/ MainStop \/ OnDestroy \/ ConfigureFails
           \/ ConfigureReadThrows
  <2>1. \E d \in BOOLEAN : EnterStop(Main, d)
    BY <1>1 DEF PostedStop, StopCommand, MainStop, OnDestroy, ConfigureFails,
       ConfigureReadThrows
  <2> QED BY <1>0, <2>1, GateStops, StoppedProgress
<1>2. ASSUME NEW b \in Binders, BinderStop(b)
      PROVE  ProgressInv'
  BY <1>0, <1>2, GateStops, StoppedProgress DEF BinderStop
<1>3. ASSUME NEW s \in Stoppers, StopMe(s)
      PROVE  ProgressInv'
  BY <1>3, StopMeStops, StoppedProgress
<1>4. CASE DropIntent \/ StartIgnored
  <2>1. /\ queue # <<>> /\ queue' = Tail(queue) /\ Head(queue).type \in Intents
        /\ mSendfdCancelled' = mSendfdCancelled
        /\ UNCHANGED <<mRunning, upBy, mConnectSeq, mpc, connectSeq, begun, thread>>
    BY <1>4 DEF DropIntent, StartIgnored, TakeMessage, Intents
  <2>2. ASSUME Pending
        PROVE  Pending'
    BY <2>1, <2>2, PendingTaken DEF Intents
  <2> QED BY <2>1, <2>2 DEF ProgressInv
<1>5. CASE StartNoProfile \/ StartFields \/ FdThrows
  <2>1. ~mRunning'
    BY <1>5 DEF StartNoProfile, StartFields, FdThrows
  <2> QED BY <2>1, StoppedProgress
<1>6. CASE StartRunning \/ StartSeqWrite
  <2>1. mpc' \in {"seqWrite", "capture"}
    BY <1>6 DEF StartRunning, StartSeqWrite, MainStep
  <2> QED BY <2>1 DEF ProgressInv
<1>7. CASE StartCapture
  <2>1. mpc' = "configure" /\ begun' = begun /\ mConnectSeq' = mConnectSeq
    BY <1>7 DEF StartCapture, MainStep
  <2>2. connectSeq'[begun] = mConnectSeq
    <3>1. begun \in Sessions
      BY <1>7, NullType DEF StartCapture, MainStep, TypeInv, TypeOK
    <3> QED BY <1>7, <3>1 DEF StartCapture, TypeInv, TypeOK
  <2> QED BY <2>1, <2>2 DEF ProgressInv
<1>8. CASE Configure
  <2>1. mpc' = "start" /\ mpc = "configure"
        /\ UNCHANGED <<mRunning, mConnectSeq, connectSeq, begun>>
    BY <1>8 DEF Configure, MainStep
  <2> QED BY <2>1 DEF ProgressInv
<1>9. CASE Start
  <2>1. /\ mpc = "start" /\ mSendfdCancelled' = FALSE
        /\ UNCHANGED <<mRunning, mConnectSeq, connectSeq, begun>>
    BY <1>9 DEF Start, MainStep
  <2>2. thread'[begun] = "pdnsd"
    <3>1. begun \in Sessions
      BY <1>9, NullType DEF Start, MainStep, TypeInv, TypeOK
    <3> QED BY <1>9, <3>1 DEF Start, TypeInv, TypeOK
  <2> QED BY <2>1, <2>2 DEF ProgressInv
<1>10. CASE PostStartStale
  <2>1. /\ queue # <<>> /\ queue' = Tail(queue) /\ Head(queue).type = "up" /\ mpc = "idle"
        /\ UNCHANGED <<mRunning, upBy, mConnectSeq, mpc, connectSeq, begun, thread>>
        /\ mSendfdCancelled' = mSendfdCancelled
        /\ Stale(Head(queue).g)
    BY <1>10 DEF PostStartStale, TakeMessage, MainIdle
  <2>2. ASSUME mRunning, Pending
        PROVE  Pending'
    <3>1. ~Stale(begun)
      BY <2>1, <2>2 DEF ProgressInv, Stale
    <3> QED BY <2>1, <2>2, <3>1, PendingTaken
  <2> QED BY <2>1, <2>2 DEF ProgressInv
<1>16. CASE PostStartOnMain
  <2>1. /\ mpc = "idle" /\ mpc' = "up"
        /\ UNCHANGED <<mRunning, upBy, mConnectSeq, queue, connectSeq, begun, thread>>
        /\ mSendfdCancelled' = mSendfdCancelled
    BY <1>16 DEF PostStartOnMain, MainIdle
  <2> QED BY <2>1 DEF ProgressInv, Pending
<1>17. CASE PostStartUp
  <2>1. /\ mpc = "up" /\ mpc' = "idle" /\ upBy' = Head(queue).g
        /\ UNCHANGED <<mRunning, mConnectSeq, connectSeq, begun>>
        /\ mSendfdCancelled' = mSendfdCancelled
    BY <1>17 DEF PostStartUp, MainStep
  <2> QED BY <2>1 DEF ProgressInv
<1>11. ASSUME NEW g \in Sessions, StartThread(g)
       PROVE  ProgressInv'
  BY <1>11, ThreadProgress
<1>12. ASSUME NEW g \in Sessions, MonitorExit(g)
       PROVE  ProgressInv'
  <2>1. queue' = queue \/ \E m \in Message : queue' = Append(queue, m)
    BY <1>12, MessageType DEF MonitorExit, Post
  <2> QED BY <1>12, <2>1, ApartProgress DEF MonitorExit
<1>13. ASSUME NEW t \in {"start", "sysstart"}, SendStart(t)
       PROVE  ProgressInv'
  <2>1. \E m \in Message : queue' = Append(queue, m)
    BY <1>13, MessageType DEF SendStart, Intents
  <2> QED BY <1>13, <2>1, ApartProgress DEF SendStart
<1>14. CASE SendStop
  <2>1. \E m \in Message : queue' = Append(queue, m)
    BY <1>14, MessageType DEF SendStop, Intents
  <2> QED BY <1>14, <2>1, ApartProgress DEF SendStop
<1>15. CASE Unbind \/ HevExits \/ (\E g \in Sessions : Tun2socksExits(g)) \/ UNCHANGED vars
  BY <1>15, ApartProgress DEF Unbind, HevExits, Tun2socksExits, vars
<1> QED BY <1>0, <1>1, <1>2, <1>3, <1>4, <1>5, <1>6, <1>7, <1>8, <1>9, <1>10, <1>11,
           <1>12, <1>13, <1>14, <1>15, <1>16, <1>17
        DEF Next, MainThread, OnStartCommand, Environment

\* With every stop on the main thread the running session is alone.
LEMMA MainIsAlone ==
  ASSUME Binders = {}, SessionInv
  PROVE  AloneInv
BY DEF SessionInv, MainInv, PhaseInv, AloneInv, AllOut, Stoppers

\* When every thread is done nothing is left to wait for.
LEMMA NothingPends ==
  ASSUME TypeInv, AloneInv, ProgressInv, Settled, mRunning
  PROVE  mTunnelUp /\ upBy = live
<1>1. mpc = "idle" /\ begun \in Sessions
  BY NullType DEF Settled, AloneInv, TypeInv, TypeOK
<1>2. thread[begun] \in {"none", "done"} /\ ~Pending
  <2>1. Len(queue) = 0
    BY DEF Settled
  <2> QED BY <1>1, <2>1 DEF Settled, Pending
<1>3. upBy = begun /\ begun # 0 /\ live = begun
  BY <1>1, <1>2 DEF ProgressInv, AloneInv
<1> QED BY <1>3 DEF TypeInv

\* With every stop on the main thread, a service that still runs once all its
\* threads are done is connected, by the running session: neither the start
\* threads of stopped sessions nor a failure on the way leaves it connecting.
THEOREM ConnectedCorrect ==
  ASSUME Binders = {}
  PROVE  Spec => []SettledRunningIsUp
<1> DEFINE Inv == SessionInv /\ ProgressInv
<1>1. Init => Inv
  <2>1. Init => ProgressInv
    BY DEF Init, ProgressInv
  <2> QED BY <2>1, SessionInit
<1>2. Inv /\ [Next]_vars => Inv'
  <2> SUFFICES ASSUME Inv, [Next]_vars
               PROVE  Inv'
    OBVIOUS
  <2>1. mpc = "up" /\ mRunning => Head(queue).g = begun
    BY DEF SessionInv, HandOwn, MainInv, PhaseInv
  <2> QED BY <2>1, SessionStep, MainIsAlone, ProgressStep DEF SessionInv
<1>3. Inv => SettledRunningIsUp
  <2> SUFFICES ASSUME Inv, Settled, mRunning
               PROVE  mTunnelUp /\ upBy = live
    BY DEF SettledRunningIsUp
  <2> QED BY MainIsAlone, NothingPends DEF SessionInv
<1> QED BY <1>1, <1>2, <1>3, PTL DEF Spec

-----------------------------------------------------------------------------
(***************************************************************************)
(* When no start overtakes a stop (~Overlap), for any binder threads.  A   *)
(* start command is delivered only to a service at rest, so one session is *)
(* under way at a time; what it started outside is owned by the running    *)
(* service, by a stopMe that has yet to come to it, or by the start thread *)
(* that is about to look whether it was stopped.                           *)
(***************************************************************************)
Starts == {"start", "sysstart"}

Dormant ==
  /\ \A g \in Sessions : thread[g] \in {"none", "done"} /\ monitor[g] # "watch"
  /\ tun2socks = {} /\ hev = 0

\* Only the last session that began has threads and programs, and it has none
\* before onStartCommand is through.
SoleInv ==
  /\ mpc \notin {"idle", "up"} => Dormant
  /\ \A g \in Sessions : g # begun => thread[g] \in {"none", "done"} /\ monitor[g] # "watch"
  /\ tun2socks \subseteq {begun} /\ hev \in {0, begun}

Quiet == Dormant /\ ~mRunning /\ mpc = "idle" /\ AllOut

\* A start command stands first in the looper and finds the service at rest;
\* what threads have posted is the last session's.
LooperInv ==
  /\ \A i \in 2..Len(queue) : queue[i].type \notin Starts
  /\ \A i \in 1..Len(queue) : queue[i].type \in {"stopMe", "up"} => queue[i].g = begun
  /\ queue # <<>> /\ queue[1].type \in Starts /\ ~destroyed =>
       Quiet /\ \A i \in 2..Len(queue) : queue[i].type = "stop"

StopAt(places) == \E s \in Stoppers : spc[s] \in places

Tun2socksInv ==
  tun2socks # {} =>
    \/ /\ mTun2socksProcess = begun
       /\ mRunning \/ StopAt({"cancel", "seqWrite", "tun2socks"})
    \/ thread[begun] = "spawned" /\ ~mRunning

WorkerInv ==
  /\ hev # 0 =>
       \/ mHevActive /\ (mRunning \/ StopAt({"cancel", "seqWrite", "tun2socks", "pdnsd", "hev"}))
       \/ thread[begun] \in {"hevClaim", "hevVerify"}
  /\ begun # 0 /\ thread[begun] = "hevVerify" /\ mRunning => mHevActive

SerialInv ==
  TypeInv /\ HandInv /\ AloneInv /\ SoleInv /\ LooperInv /\ Tun2socksInv /\ WorkerInv

\* A service whose threads are all done, and which does not run, is at rest.
LEMMA SettledIsQuiet ==
  ASSUME SerialInv, Settled, ~mRunning
  PROVE  Quiet
<1> USE DEF SerialInv
<1>1. AllOut /\ mpc = "idle"
  BY DEF Settled, AllOut
<1>2. ~StopAt({"cancel", "seqWrite", "tun2socks"})
      /\ ~StopAt({"cancel", "seqWrite", "tun2socks", "pdnsd", "hev"})
  BY <1>1 DEF StopAt, AllOut
<1>3. tun2socks = {}
  <2> SUFFICES ASSUME tun2socks # {}
               PROVE  FALSE
    OBVIOUS
  <2>1. begun \in Sessions
    BY DEF SoleInv, TypeInv, TypeOK
  <2> QED BY <1>2, <2>1 DEF Tun2socksInv, Settled
<1>4. hev = 0
  <2> SUFFICES ASSUME hev # 0
               PROVE  FALSE
    OBVIOUS
  <2>1. begun \in Sessions
    BY NullType DEF SoleInv, TypeInv, TypeOK
  <2> QED BY <1>2, <2>1 DEF WorkerInv, Settled
<1>5. \A g \in Sessions : thread[g] \in {"none", "done"} /\ monitor[g] # "watch"
  BY <1>3 DEF Settled
<1> QED BY <1>1, <1>3, <1>4, <1>5 DEF Quiet, Dormant

\* The looper keeps its order: a message of the last session is posted, or the
\* first message is taken, while no start waits that would miss the quiet.
LEMMA LooperStep ==
  ASSUME SerialInv, begun' = begun, destroyed => destroyed',
         \/ queue' = queue /\ (~Quiet \/ destroyed')
         \/ queue # <<>> /\ queue' = Tail(queue)
         \/ /\ ~Quiet
            /\ Post("stopMe", begun) \/ Post("up", begun)
            /\ begun \in Sessions
  PROVE  LooperInv'
<1>0. queue \in Seq(Message) /\ LooperInv
  BY DEF SerialInv, TypeInv, TypeOK
<1>1. CASE queue' = queue /\ (~Quiet \/ destroyed')
  BY <1>0, <1>1 DEF LooperInv
<1>2. CASE queue # <<>> /\ queue' = Tail(queue)
  <2>1. /\ Len(queue) \in Nat /\ Len(queue') = Len(queue) - 1
        /\ \A i \in 1..Len(queue') : queue'[i] = queue[i + 1]
    BY <1>0, <1>2, QueueTail
  <2>2. queue' # <<>> => 1 \in 1..Len(queue')
    BY <1>0, <1>2
  <2>3. \A i \in 1..Len(queue') : queue'[i].type \notin Starts
    BY <1>0, <2>1 DEF LooperInv
  <2>4. \A i \in 1..Len(queue') : queue'[i].type \in {"stopMe", "up"} => queue'[i].g = begun
    BY <1>0, <2>1 DEF LooperInv
  <2> QED BY <2>1, <2>2, <2>3, <2>4 DEF LooperInv
<1>3. CASE ~Quiet /\ (Post("stopMe", begun) \/ Post("up", begun)) /\ begun \in Sessions
  <2>1. PICK m \in Message :
          queue' = Append(queue, m) /\ m.type \in {"stopMe", "up"} /\ m.g = begun
    BY <1>3, MessageType DEF Post
  <2>2. /\ Len(queue) \in Nat /\ Len(queue') = Len(queue) + 1
        /\ \A i \in 1..Len(queue) : queue'[i] = queue[i]
        /\ queue'[Len(queue) + 1] = m
    BY <1>0, <2>1, QueuePost
  <2>3. \A i \in 1..Len(queue') : i \in 1..Len(queue) \/ i = Len(queue) + 1
    BY <2>2
  <2>4. \A i \in 2..Len(queue') : queue'[i].type \notin Starts
    BY <1>0, <2>1, <2>2, <2>3 DEF LooperInv, Starts
  <2>5. \A i \in 1..Len(queue') : queue'[i].type \in {"stopMe", "up"} => queue'[i].g = begun
    BY <1>0, <2>1, <2>2, <2>3 DEF LooperInv
  <2>6. ~(queue' # <<>> /\ queue'[1].type \in Starts /\ ~destroyed')
    <3>1. CASE queue = <<>>
      BY <2>1, <2>2, <3>1 DEF Starts
    <3>2. CASE queue # <<>>
      <4>1. 1 \in 1..Len(queue)
        BY <1>0, <3>2
      <4> QED BY <1>0, <1>3, <2>2, <3>2, <4>1 DEF LooperInv
    <3> QED BY <3>1, <3>2
  <2> QED BY <2>4, <2>5, <2>6 DEF LooperInv
<1> QED BY <1>1, <1>2, <1>3

\* Entering stopMe, on whichever thread, hands what the session owns over to it.
LEMMA GateSerial ==
  ASSUME SerialInv, NEW s \in Stoppers, NEW onDestroy \in BOOLEAN, spc[s] = "out",
         EnterStop(s, onDestroy), GateUnchanged, mpc' \in {mpc, "idle"}, mpc' # "run",
         mpc # "run",
         UNCHANGED <<tun2socksVars, hevVars, threadVars, begun>>
  PROVE  AloneInv' /\ SoleInv' /\ Tun2socksInv' /\ WorkerInv'
<1> USE DEF SerialInv, tun2socksVars, hevVars, threadVars
<1>0. spc \in [Stoppers -> StopPcs]
  BY DEF TypeInv, TypeOK
<1>1. ~mRunning'
  BY GateStops
<1>2. AloneInv'
  BY <1>1 DEF AloneInv
<1>3. SoleInv'
  BY DEF SoleInv, Dormant
<1>4. CASE spc' = [spc EXCEPT ![s] = "cancel"]
  <2>1. spc'[s] = "cancel"
    BY <1>0, <1>4
  <2>2. /\ StopAt({"cancel", "seqWrite", "tun2socks"})'
        /\ StopAt({"cancel", "seqWrite", "tun2socks", "pdnsd", "hev"})'
        /\ ~AllOut'
    BY <2>1 DEF StopAt, AllOut
  <2>3. Tun2socksInv'
    BY <1>1, <2>2 DEF Tun2socksInv
  <2>4. WorkerInv'
    BY <1>1, <2>2 DEF WorkerInv
  <2> QED BY <1>2, <1>3, <2>3, <2>4
<1>5. CASE ~mRunning /\ UNCHANGED <<mRunning, live, spc>>
  <2>1. Tun2socksInv'
    BY <1>5 DEF Tun2socksInv, StopAt
  <2>2. WorkerInv'
    BY <1>5 DEF WorkerInv, StopAt
  <2> QED BY <1>2, <1>3, <2>1, <2>2
<1> QED BY <1>4, <1>5 DEF EnterStop

\* A step of stopMe ends what the session owns where it comes to it.
LEMMA StopMeSerial ==
  ASSUME SerialInv, NEW s \in Stoppers, StopMe(s)
  PROVE  AloneInv' /\ SoleInv' /\ LooperInv' /\ Tun2socksInv' /\ WorkerInv'
<1> USE DEF fieldVars, tunVars, tun2socksVars, pdnsdVars, hevVars, mainVars, threadVars,
            lifeVars
<1>0. /\ TypeInv /\ AloneInv /\ SoleInv /\ LooperInv /\ Tun2socksInv /\ WorkerInv
      /\ spc \in [Stoppers -> StopPcs]
  BY DEF SerialInv, TypeInv, TypeOK
<1>1. spc[s] # "out" /\ ~mRunning /\ ~mRunning' /\ mpc # "run"
  BY <1>0, StopMeStops
<1>2. UNCHANGED <<mpc, queue, thread, monitor, begun, destroyed>>
  BY DEF StopMe, StopCancel, StopSeqWrite, StopTun2socks, StopPdnsd, StopHev,
     StopInterface, StopReset, ResetRest
<1>3. AloneInv'
  BY <1>1, <1>2 DEF AloneInv
<1>4. tun2socks' \subseteq tun2socks /\ hev' \in {0, hev}
  BY DEF StopMe, StopCancel, StopSeqWrite, StopTun2socks, StopPdnsd, StopHev,
     StopInterface, StopReset, ResetRest
<1>5. SoleInv'
  BY <1>0, <1>2, <1>4 DEF SoleInv, Dormant
<1>6. LooperInv'
  <2>1. ~Quiet
    BY <1>1 DEF Quiet, AllOut
  <2> QED BY <1>2, <2>1, LooperStep
<1>8. Tun2socksInv'
  <2>1. CASE StopTun2socks(s)
    <3>1. CASE mTun2socksProcess = begun
      BY <1>0, <2>1, <3>1 DEF StopTun2socks, SoleInv, Tun2socksInv
    <3>2. CASE mTun2socksProcess # begun
      BY <1>0, <1>1, <1>2, <2>1, <3>2 DEF StopTun2socks, Tun2socksInv
    <3> QED BY <3>1, <3>2
  <2>2. CASE StopCancel(s) \/ StopSeqWrite(s)
    <3>1. UNCHANGED <<tun2socks, mTun2socksProcess>>
      BY <2>2 DEF StopCancel, StopSeqWrite
    <3>2. spc'[s] \in {"cancel", "seqWrite", "tun2socks"}
      BY <1>0, <2>2 DEF StopCancel, StopSeqWrite, StopStep
    <3> QED BY <1>0, <1>1, <1>2, <3>1, <3>2 DEF Tun2socksInv, StopAt
  <2>3. CASE StopPdnsd(s) \/ StopHev(s) \/ StopInterface(s) \/ StopReset(s)
    <3>1. UNCHANGED <<tun2socks, mTun2socksProcess>>
      BY <2>3 DEF StopPdnsd, StopHev, StopInterface, StopReset, ResetRest
    <3>2. spc[s] \notin {"cancel", "seqWrite", "tun2socks"}
      BY <2>3 DEF StopPdnsd, StopHev, StopInterface, StopReset, ResetRest, StopStep
    <3>3. \A r \in Stoppers : r # s => spc'[r] = spc[r]
      BY <1>0, <2>3 DEF StopPdnsd, StopHev, StopInterface, StopReset, ResetRest, StopStep
    <3>4. StopAt({"cancel", "seqWrite", "tun2socks"})
            => StopAt({"cancel", "seqWrite", "tun2socks"})'
      BY <3>2, <3>3 DEF StopAt
    <3> QED BY <1>0, <1>1, <1>2, <3>1, <3>4 DEF Tun2socksInv
  <2> QED BY <2>1, <2>2, <2>3 DEF StopMe
<1>9. WorkerInv'
  <2>1. CASE StopHev(s)
    <3>1. CASE mHev \/ mHevActive
      BY <1>1, <2>1, <3>1 DEF StopHev, WorkerInv
    <3>2. CASE ~(mHev \/ mHevActive)
      BY <1>0, <1>1, <1>2, <2>1, <3>2 DEF StopHev, WorkerInv
    <3> QED BY <3>1, <3>2
  <2>2. CASE StopCancel(s) \/ StopSeqWrite(s) \/ StopTun2socks(s) \/ StopPdnsd(s)
    <3>1. UNCHANGED <<hev, mHevActive>>
      BY <2>2 DEF StopCancel, StopSeqWrite, StopTun2socks, StopPdnsd
    <3>2. spc'[s] \in {"cancel", "seqWrite", "tun2socks", "pdnsd", "hev"}
      BY <1>0, <2>2 DEF StopCancel, StopSeqWrite, StopTun2socks, StopPdnsd, StopStep
    <3> QED BY <1>0, <1>1, <1>2, <3>1, <3>2 DEF WorkerInv, StopAt
  <2>3. CASE StopInterface(s) \/ StopReset(s)
    <3>1. UNCHANGED <<hev, mHevActive>>
      BY <2>3 DEF StopInterface, StopReset, ResetRest
    <3>2. spc[s] \notin {"cancel", "seqWrite", "tun2socks", "pdnsd", "hev"}
      BY <2>3 DEF StopInterface, StopReset, ResetRest, StopStep
    <3>3. \A r \in Stoppers : r # s => spc'[r] = spc[r]
      BY <1>0, <2>3 DEF StopInterface, StopReset, ResetRest, StopStep
    <3>4. StopAt({"cancel", "seqWrite", "tun2socks", "pdnsd", "hev"})
            => StopAt({"cancel", "seqWrite", "tun2socks", "pdnsd", "hev"})'
      BY <3>2, <3>3 DEF StopAt
    <3> QED BY <1>0, <1>1, <1>2, <3>1, <3>4 DEF WorkerInv
  <2> QED BY <2>1, <2>2, <2>3 DEF StopMe
<1> QED BY <1>3, <1>5, <1>6, <1>8, <1>9

\* The threads' programs when a step leaves them, and who owns them, alone.
LEMMA EnginesUnchanged ==
  ASSUME SerialInv, UNCHANGED <<mRunning, spc, begun, tun2socksVars, hev, mHevActive>>,
         begun # 0 => thread'[begun] = thread[begun]
  PROVE  Tun2socksInv' /\ WorkerInv'
<1> USE DEF SerialInv, tun2socksVars
<1>1. ASSUME tun2socks # {}
      PROVE  begun # 0
  <2>1. begun \in Sessions
    BY <1>1 DEF SoleInv, TypeInv, TypeOK
  <2> QED BY <2>1, BoundAssumption DEF Sessions
<1>2. hev # 0 => begun # 0
  BY DEF SoleInv
<1>3. Tun2socksInv'
  BY <1>1 DEF Tun2socksInv, StopAt
<1>4. WorkerInv'
  BY <1>2 DEF WorkerInv, StopAt
<1> QED BY <1>3, <1>4

\* onStartCommand begins its session with nothing under way.
LEMMA OnStartCommandSerial ==
  ASSUME SerialInv, OnStartCommand
  PROVE  AloneInv' /\ SoleInv' /\ LooperInv' /\ Tun2socksInv' /\ WorkerInv'
<1> USE DEF fieldVars, tunVars, tun2socksVars, pdnsdVars, hevVars, mainVars, stopVars,
            threadVars, lifeVars, MainStep
<1>0. /\ TypeInv /\ AloneInv /\ SoleInv /\ LooperInv /\ Tun2socksInv /\ WorkerInv
      /\ Main \in Stoppers
  BY DEF SerialInv, Stoppers
<1>a. ASSUME mpc # "idle", begun' = begun, destroyed' = destroyed, queue' = queue
      PROVE  LooperInv'
  <2>1. ~Quiet
    BY <1>a DEF Quiet
  <2> QED BY <1>a, <2>1, LooperStep
<1>1. CASE StartIgnored \/ StartNoProfile
  <2>1. /\ queue # <<>> /\ queue' = Tail(queue)
        /\ UNCHANGED <<fieldVars, tun2socksVars, hevVars, mpc, spc, threadVars, begun, destroyed>>
    BY <1>1 DEF StartIgnored, StartNoProfile, TakeMessage
  <2>2. LooperInv'
    BY <2>1, LooperStep
  <2>3. Tun2socksInv' /\ WorkerInv'
    BY <2>1, EnginesUnchanged
  <2>4. AloneInv' /\ SoleInv'
    BY <1>0, <2>1 DEF AloneInv, SoleInv, Dormant, AllOut
  <2> QED BY <2>2, <2>3, <2>4
<1>2. CASE StartFields
  <2>1. /\ queue # <<>> /\ queue' = Tail(queue) /\ Head(queue).type \in Starts /\ ~destroyed
        /\ mpc' = "run" /\ begun' = begun + 1
        /\ UNCHANGED <<fieldVars, tun2socksVars, hev, mHevActive, spc, threadVars, destroyed>>
    BY <1>2 DEF StartFields, TakeMessage, Starts
  <2>2. /\ queue \in Seq(Message) /\ Len(queue) \in Nat /\ Head(queue) = queue[1]
        /\ Len(queue') = Len(queue) - 1
        /\ \A i \in 1..Len(queue') : queue'[i] = queue[i + 1]
    BY <1>0, <2>1, QueueTail DEF TypeInv, TypeOK
  <2>3. Quiet /\ \A i \in 2..Len(queue) : queue[i].type = "stop"
    BY <1>0, <2>1, <2>2 DEF LooperInv
  <2>4. \A i \in 1..Len(queue') : queue'[i].type = "stop"
    BY <2>2, <2>3
  <2>5. queue' # <<>> => 1 \in 1..Len(queue')
    BY <2>1, <2>2
  <2>6. LooperInv'
    BY <2>4, <2>5 DEF LooperInv, Starts
  <2>7. AloneInv'
    BY <1>0, <2>1, <2>3 DEF AloneInv, Quiet, AllOut
  <2>8. SoleInv'
    BY <2>1, <2>3 DEF SoleInv, Quiet, Dormant
  <2>9. Tun2socksInv' /\ WorkerInv'
    BY <2>1, <2>3 DEF Tun2socksInv, WorkerInv, Quiet, Dormant
  <2> QED BY <2>6, <2>7, <2>8, <2>9
<1>3. CASE StartRunning
  <2>1. /\ mpc = "run" /\ mpc' = "seqWrite" /\ mRunning' = TRUE /\ live' = begun
        /\ UNCHANGED <<mTunnelUp, upBy, tun2socksVars, hevVars, queue, spc, threadVars,
                       begun, destroyed>>
    BY <1>3 DEF StartRunning
  <2>2. Dormant /\ AllOut /\ ~mRunning /\ begun \in Sessions
    BY <1>0, <2>1, NullType DEF SoleInv, AloneInv, TypeInv, TypeOK
  <2>4. AloneInv'
    BY <2>1, <2>2, NullType, BoundAssumption DEF AloneInv, AllOut, Sessions
  <2>5. SoleInv'
    BY <1>0, <2>1, <2>2 DEF SoleInv, Dormant
  <2>6. Tun2socksInv' /\ WorkerInv'
    BY <2>1, <2>2 DEF Tun2socksInv, WorkerInv, Dormant
  <2> QED BY <1>a, <2>1, <2>4, <2>5, <2>6
<1>4. CASE StartSeqWrite \/ StartCapture \/ Configure
  <2>1. /\ mpc \in {"seqWrite", "capture", "configure"}
        /\ mpc' \in {"capture", "configure", "start"}
        /\ UNCHANGED <<mRunning, live, mTunnelUp, upBy, tun2socksVars, hevVars, queue, spc,
                       thread, monitor, begun, destroyed>>
    BY <1>4 DEF StartSeqWrite, StartCapture, Configure
  <2>2. AloneInv' /\ SoleInv'
    BY <1>0, <2>1 DEF AloneInv, SoleInv, Dormant, AllOut
  <2>3. Tun2socksInv' /\ WorkerInv'
    BY <2>1, EnginesUnchanged
  <2> QED BY <1>a, <2>1, <2>2, <2>3
<1>5. CASE ConfigureFails \/ ConfigureReadThrows
  <2>1. /\ mpc \in {"configure", "start"} /\ mpc' = "idle" /\ spc[Main] = "out"
        /\ EnterStop(Main, FALSE) /\ GateUnchanged
        /\ UNCHANGED <<tun2socksVars, hevVars, threadVars, begun, destroyed, queue>>
    BY <1>5 DEF ConfigureFails, ConfigureReadThrows
  <2>2. AloneInv' /\ SoleInv' /\ Tun2socksInv' /\ WorkerInv'
    BY <1>0, <2>1, GateSerial
  <2> QED BY <1>a, <2>1, <2>2
<1>6. CASE Start
  <2>1. /\ mpc = "start" /\ mpc' = "idle" /\ thread' = [thread EXCEPT ![begun] = "pdnsd"]
        /\ UNCHANGED <<mRunning, live, mTunnelUp, upBy, tun2socksVars, hevVars, queue, spc,
                       monitor, begun, destroyed>>
    BY <1>6 DEF Start
  <2>2. Dormant /\ begun \in Sessions /\ thread'[begun] = "pdnsd"
    BY <1>0, <2>1, NullType DEF SoleInv, TypeInv, TypeOK
  <2>3. AloneInv'
    BY <1>0, <2>1 DEF AloneInv, AllOut
  <2>4. SoleInv'
    BY <1>0, <2>1, <2>2 DEF SoleInv, Dormant, TypeInv, TypeOK
  <2>5. Tun2socksInv' /\ WorkerInv'
    BY <2>1, <2>2 DEF Tun2socksInv, WorkerInv, Dormant
  <2> QED BY <1>a, <2>1, <2>3, <2>4, <2>5
<1>7. CASE FdThrows
  <2>1. /\ mRunning' = FALSE /\ mTunnelUp' = FALSE /\ tun2socks' = {} /\ hev' = 0
        /\ mpc' = "idle" /\ begun' = begun
    BY <1>7 DEF FdThrows
  <2>2. AllOut' /\ \A g \in Sessions : thread'[g] \in {"none", "done"} /\ monitor'[g] # "watch"
    BY <1>7 DEF FdThrows, AllOut
  <2>3. Quiet'
    BY <2>1, <2>2 DEF Quiet, Dormant
  <2>4. AloneInv' /\ SoleInv'
    BY <2>1, <2>2 DEF AloneInv, SoleInv
  <2>5. Tun2socksInv' /\ WorkerInv'
    BY <2>1 DEF Tun2socksInv, WorkerInv
  <2>6. LooperInv'
    <3> DEFINE m == Intent("sysstart")
    <3>1. m.type = "sysstart"
      BY DEF Intent
    <3>2. queue' \in {<<>>, <<m>>}
      BY <1>7 DEF FdThrows
    <3> HIDE DEF m
    <3>3. Len(queue') \in {0, 1} /\ (Len(queue') = 1 => queue'[1] = m)
      BY <3>2
    <3> QED BY <2>3, <3>1, <3>3 DEF LooperInv
  <2> QED BY <2>4, <2>5, <2>6
<1> QED BY <1>1, <1>2, <1>3, <1>4, <1>5, <1>6, <1>7 DEF OnStartCommand

\* A start thread hands its program over to the service, or ends it.
LEMMA ThreadSerial ==
  ASSUME SerialInv, NEW g \in Sessions, StartThread(g)
  PROVE  AloneInv' /\ SoleInv' /\ LooperInv' /\ Tun2socksInv' /\ WorkerInv'
<1> USE DEF fieldVars, tun2socksVars, hevVars, mainVars, ThreadStep
<1>0. /\ TypeInv /\ AloneInv /\ SoleInv /\ LooperInv /\ Tun2socksInv /\ WorkerInv
      /\ thread \in [Sessions -> ThreadPcs]
      /\ monitor \in [Sessions -> {"none", "watch", "done"}]
  BY DEF SerialInv, TypeInv, TypeOK
<1>1. UNCHANGED <<mRunning, mTunnelUp, live, upBy, mpc, spc, begun, destroyed>>
  BY <1>0, StartThreadApart, ThreadOutcome DEF sessionVars, stopVars
<1>2. g = begun /\ g # 0 /\ mpc \in {"idle", "up"} /\ ~Quiet /\ thread[g] \notin {"none", "done"}
  <2>1. thread[g] \notin {"none", "done"}
    BY <1>0, ThreadOutcome
  <2>2. g = begun /\ ~Dormant
    BY <1>0, <2>1 DEF SoleInv, Dormant
  <2> QED BY <1>0, <2>1, <2>2, BoundAssumption DEF SoleInv, Quiet, Sessions
<1>3. AloneInv'
  BY <1>0, <1>1 DEF AloneInv, AllOut
<1>4. LooperInv'
  <2>1. queue' = queue \/ Post("stopMe", g) \/ Post("up", g)
    BY <1>0, ThreadOutcome
  <2> QED BY <1>1, <1>2, <2>1, LooperStep
<1>5. /\ tun2socks' \subseteq tun2socks \cup {g} /\ hev' \in {0, hev, g}
      /\ \A h \in Sessions : h # g => monitor'[h] = monitor[h]
  BY <1>0 DEF StartThread, SkipPdnsd, LaunchPdnsd, LaunchPdnsdFails, CheckBeforeSpawn,
     Spawn, SpawnFails, AbortSpawned, StartMonitor, SendFd, SendFdFails, SendFdStale,
     HevNoServer, HevConf, HevStartThrows, HevStart, HevStartRefused, HevClaim, HevAbort,
     HevUp, StartFails
<1>6. SoleInv'
  <2>1. \A h \in Sessions : h # g => thread'[h] = thread[h]
    BY <1>0, ThreadOutcome
  <2> QED BY <1>0, <1>1, <1>2, <1>5, <2>1 DEF SoleInv
<1>7. tun2socks \subseteq {g} /\ hev \in {0, g}
  BY <1>0, <1>2 DEF SoleInv
<1>8. Tun2socksInv'
  <2>1. CASE Spawn(g)
    BY <1>0, <1>1, <1>2, <2>1 DEF Spawn, Tun2socksInv, StopAt
  <2>2. CASE AbortSpawned(g)
    BY <1>7, <2>2 DEF AbortSpawned, Tun2socksInv
  <2>3. CASE StartMonitor(g)
    <3>1. mRunning /\ UNCHANGED <<tun2socks, mTun2socksProcess>>
      BY <2>3 DEF StartMonitor, Stale
    <3> QED BY <1>0, <1>1, <3>1 DEF Tun2socksInv
  <2>4. ASSUME ~Spawn(g), ~AbortSpawned(g), ~StartMonitor(g)
        PROVE  UNCHANGED <<tun2socks, mTun2socksProcess>> /\ thread[g] # "spawned"
    BY <2>4 DEF StartThread, SkipPdnsd, LaunchPdnsd, LaunchPdnsdFails, CheckBeforeSpawn,
       SpawnFails, SendFd, SendFdFails, SendFdStale, HevNoServer, HevConf, HevStartThrows,
       HevStart, HevStartRefused, HevClaim, HevAbort, HevUp, StartFails
  <2>5. ASSUME UNCHANGED <<tun2socks, mTun2socksProcess>>, thread[g] # "spawned"
        PROVE  Tun2socksInv'
    BY <1>0, <1>1, <1>2, <2>5 DEF Tun2socksInv, StopAt
  <2> QED BY <2>1, <2>2, <2>3, <2>4, <2>5
<1>9. WorkerInv'
  <2>1. CASE HevStart(g)
    <3>1. thread'[g] = "hevClaim"
      BY <1>0, <2>1 DEF HevStart
    <3> QED BY <1>1, <1>2, <3>1 DEF WorkerInv
  <2>2. CASE HevClaim(g)
    <3>1. mHevActive' = TRUE /\ hev' = hev
      BY <2>2 DEF HevClaim
    <3>2. \/ thread[g] = "hevClaim" /\ thread'[g] = "hevVerify"
          \/ thread[g] = "hevRefused"
      BY <1>0, <2>2 DEF HevClaim
    <3> QED BY <1>0, <1>1, <1>2, <3>1, <3>2 DEF WorkerInv, StopAt
  <2>3. CASE HevAbort(g)
    <3>1. hev' = 0 /\ thread'[g] = "done"
      BY <1>0, <2>3 DEF HevAbort
    <3> QED BY <1>1, <1>2, <3>1 DEF WorkerInv
  <2>4. CASE HevUp(g)
    <3>1. mRunning /\ thread[g] = "hevVerify" /\ thread'[g] = "done"
          /\ UNCHANGED <<hev, mHevActive>>
      BY <1>0, <2>4 DEF HevUp, Stale
    <3> QED BY <1>0, <1>1, <1>2, <3>1 DEF WorkerInv
  <2>5. ASSUME ~HevStart(g), ~HevClaim(g), ~HevAbort(g), ~HevUp(g)
        PROVE  /\ UNCHANGED <<hev, mHevActive>>
               /\ thread[g] \notin {"hevClaim", "hevVerify"}
               /\ thread'[g] # "hevVerify"
    BY <1>0, <2>5 DEF StartThread, SkipPdnsd, LaunchPdnsd, LaunchPdnsdFails,
       CheckBeforeSpawn, Spawn, AbortSpawned, StartMonitor, SpawnFails, SendFd,
       SendFdFails, SendFdStale, HevNoServer, HevConf, HevStartThrows, HevStartRefused,
       StartFails
  <2>6. ASSUME /\ UNCHANGED <<hev, mHevActive>>
               /\ thread[g] \notin {"hevClaim", "hevVerify"}
               /\ thread'[g] # "hevVerify"
        PROVE  WorkerInv'
    BY <1>0, <1>1, <1>2, <2>6 DEF WorkerInv, StopAt
  <2> QED BY <2>1, <2>2, <2>3, <2>4, <2>5, <2>6
<1> QED BY <1>3, <1>4, <1>6, <1>8, <1>9

\* A start command, and a stop, are sent to a looper that can take them.
LEMMA SendSerial ==
  ASSUME SerialInv, ~Overlap, (\E t \in Starts : SendStart(t)) \/ SendStop
  PROVE  AloneInv' /\ SoleInv' /\ LooperInv' /\ Tun2socksInv' /\ WorkerInv'
<1> USE DEF fieldVars, tun2socksVars, hevVars, stopVars, threadVars, lifeVars
<1>0. /\ AloneInv /\ SoleInv /\ LooperInv /\ queue \in Seq(Message)
  BY DEF SerialInv, TypeInv, TypeOK
<1>1. UNCHANGED <<mRunning, mTunnelUp, live, upBy, tun2socksVars, hev, mHevActive, mpc, spc,
                  threadVars, begun, destroyed>>
  BY DEF SendStart, SendStop
<1>2. AloneInv' /\ SoleInv'
  BY <1>0, <1>1 DEF AloneInv, SoleInv, Dormant, AllOut
<1>3. Tun2socksInv' /\ WorkerInv'
  BY <1>1, EnginesUnchanged
<1>4. LooperInv'
  <2>1. ASSUME NEW t \in Starts, SendStart(t)
        PROVE  LooperInv'
    <3>1. Settled /\ ~mRunning /\ queue = <<>>
      BY <2>1 DEF SendStart, Settled
    <3>2. Quiet
      BY <3>1, SettledIsQuiet
    <3>3. Quiet'
      BY <1>1, <3>2 DEF Quiet, Dormant, AllOut
    <3> DEFINE m == Intent(t)
    <3>4. m \in Message /\ m.type = t /\ queue' = Append(queue, m)
      BY <2>1, MessageType DEF SendStart, Intent, Intents, Starts
    <3> HIDE DEF m
    <3>5. Len(queue') = 1 /\ queue'[1] = m
      BY <3>1, <3>4
    <3> QED BY <3>3, <3>4, <3>5 DEF LooperInv, Starts
  <2>2. ASSUME SendStop
        PROVE  LooperInv'
    <3> DEFINE m == Intent("stop")
    <3>1. m \in Message /\ m.type = "stop" /\ queue' = Append(queue, m)
      BY <2>2, MessageType DEF SendStop, Intent, Intents
    <3> HIDE DEF m
    <3>2. /\ Len(queue) \in Nat /\ Len(queue') = Len(queue) + 1
          /\ \A i \in 1..Len(queue) : queue'[i] = queue[i]
          /\ queue'[Len(queue) + 1] = m
      BY <1>0, <3>1, QueuePost
    <3>3. \A i \in 1..Len(queue') : i \in 1..Len(queue) \/ i = Len(queue) + 1
      BY <3>2
    <3>4. \A i \in 2..Len(queue') : queue'[i].type \notin Starts
      BY <1>0, <3>1, <3>2, <3>3 DEF LooperInv, Starts
    <3>5. \A i \in 1..Len(queue') : queue'[i].type \in {"stopMe", "up"} => queue'[i].g = begun
      BY <1>0, <3>1, <3>2, <3>3 DEF LooperInv
    <3>6. ASSUME queue'[1].type \in Starts, ~destroyed
          PROVE  Quiet' /\ \A i \in 2..Len(queue') : queue'[i].type = "stop"
      <4>1. queue # <<>>
        BY <3>1, <3>2, <3>6 DEF Starts
      <4>2. 1 \in 1..Len(queue)
        BY <1>0, <4>1
      <4>3. Quiet /\ \A i \in 2..Len(queue) : queue[i].type = "stop"
        BY <1>0, <3>2, <3>6, <4>1, <4>2 DEF LooperInv
      <4>4. Quiet'
        BY <1>1, <4>3 DEF Quiet, Dormant, AllOut
      <4> QED BY <3>1, <3>2, <3>3, <4>3, <4>4
    <3> QED BY <1>1, <3>4, <3>5, <3>6 DEF LooperInv
  <2> QED BY <2>1, <2>2
<1> QED BY <1>2, <1>3, <1>4

\* Every step keeps SerialInv.
LEMMA SerialStep ==
  ASSUME ~Overlap, SerialInv, [Next]_vars
  PROVE  SerialInv'
<1> USE DEF fieldVars, tun2socksVars, hevVars, mainVars, stopVars, threadVars, lifeVars
<1> DEFINE Kept == AloneInv' /\ SoleInv' /\ LooperInv' /\ Tun2socksInv' /\ WorkerInv'
<1>0. /\ TypeInv /\ HandInv /\ AloneInv /\ SoleInv /\ LooperInv /\ Tun2socksInv /\ WorkerInv
      /\ Main \in Stoppers /\ \A b \in Binders : b \in Stoppers
  BY DEF SerialInv, Stoppers
<1>a. TypeInv' /\ HandInv'
  BY <1>0, TypeStep, HandStep
<1> SUFFICES Kept
  BY <1>a DEF SerialInv
<1>1. CASE PostedStop \/ StopCommand \/ MainStop \/ OnDestroy
  <2>1. /\ mpc = "idle" /\ mpc' = "idle" /\ spc[Main] = "out" /\ GateUnchanged
        /\ UNCHANGED <<tun2socksVars, hevVars, threadVars, begun>>
    BY <1>1 DEF PostedStop, StopCommand, MainStop, OnDestroy, TakeMessage, MainIdle
  <2>2. \E d \in BOOLEAN : EnterStop(Main, d)
    BY <1>1 DEF PostedStop, StopCommand, MainStop, OnDestroy
  <2>3. AloneInv' /\ SoleInv' /\ Tun2socksInv' /\ WorkerInv'
    BY <1>0, <2>1, <2>2, GateSerial
  <2>4. LooperInv'
    <3>1. CASE PostedStop \/ StopCommand
      <4>1. queue # <<>> /\ queue' = Tail(queue) /\ destroyed' = destroyed /\ begun' = begun
        BY <3>1 DEF PostedStop, StopCommand, TakeMessage
      <4> QED BY <4>1, LooperStep
    <3>2. CASE MainStop
      BY <3>2, LooperStep DEF MainStop, Quiet
    <3>3. CASE OnDestroy
      BY <3>3, LooperStep DEF OnDestroy
    <3> QED BY <1>1, <3>1, <3>2, <3>3
  <2> QED BY <2>3, <2>4
<1>2. ASSUME NEW b \in Binders, BinderStop(b)
      PROVE  Kept
  <2>1. mRunning /\ mpc # "run"
    BY <1>0, <1>2 DEF BinderStop, AloneInv
  <2>2. AloneInv' /\ SoleInv' /\ Tun2socksInv' /\ WorkerInv'
    BY <1>0, <1>2, <2>1, GateSerial DEF BinderStop
  <2>3. LooperInv'
    BY <1>2, <2>1, LooperStep DEF BinderStop, Quiet
  <2> QED BY <2>2, <2>3
<1>3. ASSUME NEW s \in Stoppers, StopMe(s)
      PROVE  Kept
  BY <1>3, StopMeSerial
<1>4. CASE OnStartCommand
  BY <1>4, OnStartCommandSerial
<1>5. CASE DropIntent \/ PostStartStale \/ PostStartOnMain \/ PostStartUp
  <2>1. /\ mpc \in {"idle", "up"} /\ mpc' \in {"idle", "up"} /\ AllOut = AllOut'
        /\ UNCHANGED <<mRunning, live, tun2socksVars, hevVars, spc, threadVars, begun,
                       destroyed>>
    BY <1>5 DEF DropIntent, PostStartStale, PostStartOnMain, PostStartUp, TakeMessage,
       MainIdle, MainStep, AllOut
  <2>2. LooperInv'
    <3>1. CASE DropIntent \/ PostStartStale \/ PostStartUp
      <4>1. queue # <<>> /\ queue' = Tail(queue)
        BY <1>0, <3>1 DEF DropIntent, PostStartStale, PostStartUp, TakeMessage, MainStep, HandInv
      <4> QED BY <2>1, <4>1, LooperStep
    <3>2. CASE PostStartOnMain
      <4>1. queue' = queue /\ ~Quiet
        BY <3>2 DEF PostStartOnMain, Stale, Quiet
      <4> QED BY <2>1, <4>1, LooperStep
    <3> QED BY <1>5, <3>1, <3>2
  <2>3. Tun2socksInv' /\ WorkerInv'
    BY <2>1, EnginesUnchanged
  <2>4. AloneInv' /\ SoleInv'
    BY <1>0, <2>1 DEF AloneInv, SoleInv, Dormant, AllOut
  <2> QED BY <2>2, <2>3, <2>4
<1>6. ASSUME NEW g \in Sessions, StartThread(g)
      PROVE  Kept
  BY <1>6, ThreadSerial
<1>7. ASSUME NEW g \in Sessions, MonitorExit(g)
      PROVE  Kept
  <2>1. /\ monitor[g] = "watch" /\ monitor' = [monitor EXCEPT ![g] = "done"]
        /\ UNCHANGED <<fieldVars, tun2socksVars, hevVars, mpc, spc, thread, begun, destroyed>>
        /\ queue' = queue \/ Post("stopMe", g)
    BY <1>7 DEF MonitorExit
  <2>2. g = begun /\ ~Quiet /\ mpc \in {"idle", "up"}
    BY <1>0, <2>1 DEF SoleInv, Quiet, Dormant
  <2>3. LooperInv'
    BY <2>1, <2>2, LooperStep
  <2>4. Tun2socksInv' /\ WorkerInv'
    BY <2>1, EnginesUnchanged
  <2>5. AloneInv'
    BY <1>0, <2>1 DEF AloneInv, AllOut
  <2>6. SoleInv'
    BY <1>0, <2>1, <2>2 DEF SoleInv, TypeInv, TypeOK
  <2> QED BY <2>3, <2>4, <2>5, <2>6
<1>8. CASE (\E t \in Starts : SendStart(t)) \/ SendStop
  BY <1>8, SendSerial
<1>9. CASE HevExits \/ \E g \in Sessions : Tun2socksExits(g)
  <2>1. /\ UNCHANGED <<fieldVars, mTun2socksProcess, mHevActive, queue, mpc, spc, threadVars,
                       begun, destroyed>>
        /\ tun2socks' \subseteq tun2socks /\ hev' \in {0, hev}
        /\ ~Dormant
    BY <1>9 DEF HevExits, Tun2socksExits, Dormant
  <2>2. LooperInv'
    BY <2>1, LooperStep DEF Quiet
  <2>3. AloneInv' /\ SoleInv'
    BY <1>0, <2>1 DEF AloneInv, AllOut, SoleInv
  <2>4. Tun2socksInv'
    BY <1>0, <2>1 DEF Tun2socksInv, StopAt
  <2>5. WorkerInv'
    BY <1>0, <2>1 DEF WorkerInv, StopAt
  <2> QED BY <2>2, <2>3, <2>4, <2>5
<1>10. CASE Unbind \/ UNCHANGED vars
  <2>1. UNCHANGED <<fieldVars, tun2socksVars, hevVars, queue, mpc, spc, threadVars, begun,
                    destroyed>>
    BY <1>10 DEF Unbind, vars
  <2>2. LooperInv'
    BY <1>0, <2>1 DEF LooperInv, Quiet, Dormant, AllOut
  <2>3. Tun2socksInv' /\ WorkerInv'
    BY <2>1, EnginesUnchanged
  <2>4. AloneInv' /\ SoleInv'
    BY <1>0, <2>1 DEF AloneInv, AllOut, SoleInv, Dormant
  <2> QED BY <2>2, <2>3, <2>4
<1>11. \/ PostedStop \/ StopCommand \/ MainStop \/ OnDestroy
       \/ \E b \in Binders : BinderStop(b)
       \/ \E s \in Stoppers : StopMe(s)
       \/ OnStartCommand \/ DropIntent
       \/ PostStartStale \/ PostStartOnMain \/ PostStartUp
       \/ \E g \in Sessions : StartThread(g)
       \/ \E g \in Sessions : MonitorExit(g)
       \/ \E t \in Starts : SendStart(t)
       \/ SendStop \/ HevExits \/ (\E g \in Sessions : Tun2socksExits(g))
       \/ Unbind \/ UNCHANGED vars
  BY <1>0 DEF Next, MainThread, Environment, Starts
<1> HIDE DEF Kept
<1> QED BY <1>1, <1>2, <1>3, <1>4, <1>5, <1>6, <1>7, <1>8, <1>9, <1>10, <1>11

\* The service begins at rest.
LEMMA SerialInit ==
  ASSUME Init
  PROVE  SerialInv
<1>1. TypeInv /\ HandInv
  BY TypeInit DEF Init, HandInv
<1>2. Len(queue) = 0
  BY DEF Init
<1>3. AloneInv /\ LooperInv
  BY <1>2 DEF Init, AloneInv, AllOut, LooperInv
<1>4. SoleInv /\ Tun2socksInv /\ WorkerInv
  BY DEF Init, SoleInv, Dormant, Tun2socksInv, WorkerInv
<1> QED BY <1>1, <1>3, <1>4 DEF SerialInv

\* The invariant holds throughout.
LEMMA SerialCorrect ==
  ASSUME ~Overlap
  PROVE  Spec => []SerialInv
<1>1. Init => SerialInv
  BY SerialInit
<1>2. SerialInv /\ [Next]_vars => SerialInv'
  BY SerialStep
<1> QED BY <1>1, <1>2, PTL DEF Spec

\* When no start overtakes a stop, a service that has stopped, with all its
\* threads done, has left no tun2socks process and no hev worker behind,
\* wherever stopMe, on the main thread or on any binder thread, met the start
\* thread: what stopMe missed the start thread's own checks end.
THEOREM CleanStopCorrect ==
  ASSUME ~Overlap
  PROVE  Spec => []SettledStoppedIsClean
<1>1. SerialInv => SettledStoppedIsClean
  BY SettledIsQuiet DEF SettledStoppedIsClean, Quiet, Dormant
<1> QED BY <1>1, SerialCorrect, PTL

\* When no start overtakes a stop, a stopMe that a start thread or a monitor
\* thread posted to the main looper ends the session that thread belongs to.
THEOREM PostedStopCorrect ==
  ASSUME ~Overlap
  PROVE  Spec => PostedStopEndsOwnSession
<1>1. ASSUME SerialInv
      PROVE  [PostedStop /\ mRunning => live = Head(queue).g]_vars
  <2> SUFFICES ASSUME PostedStop, mRunning
               PROVE  live = Head(queue).g
    OBVIOUS
  <2>1. queue # <<>> /\ Head(queue).type = "stopMe"
    BY DEF PostedStop, TakeMessage
  <2>2. Head(queue) = queue[1] /\ 1 \in 1..Len(queue)
    BY <1>1, <2>1, QueueTail DEF SerialInv, TypeInv, TypeOK
  <2> QED BY <1>1, <2>1, <2>2 DEF SerialInv, LooperInv, AloneInv
<1> QED BY <1>1, SerialCorrect, PTL DEF PostedStopEndsOwnSession

\* When no start overtakes a stop, a service that still runs once all its
\* threads are done is connected by the running session, also when any binder
\* thread may stop it at any step of the connect.
THEOREM SerialConnectedCorrect ==
  ASSUME ~Overlap
  PROVE  Spec => []SettledRunningIsUp
<1> DEFINE Inv == SerialInv /\ ProgressInv
<1>1. Init => Inv
  <2>1. Init => ProgressInv
    BY DEF Init, ProgressInv
  <2> QED BY <2>1, SerialInit
<1>2. Inv /\ [Next]_vars => Inv'
  <2> SUFFICES ASSUME Inv, [Next]_vars
               PROVE  Inv'
    OBVIOUS
  <2>1. ASSUME mpc = "up"
        PROVE  Head(queue).g = begun
    <3>1. queue # <<>> /\ Head(queue).type = "up"
      BY <2>1 DEF SerialInv, HandInv
    <3>2. Head(queue) = queue[1] /\ 1 \in 1..Len(queue)
      BY <3>1, QueueTail DEF SerialInv, TypeInv, TypeOK
    <3> QED BY <3>1, <3>2 DEF SerialInv, LooperInv
  <2> QED BY <2>1, SerialStep, ProgressStep DEF SerialInv
<1>3. Inv => SettledRunningIsUp
  <2> SUFFICES ASSUME Inv, Settled, mRunning
               PROVE  mTunnelUp /\ upBy = live
    BY DEF SettledRunningIsUp
  <2> QED BY NothingPends DEF SerialInv
<1> QED BY <1>1, <1>2, <1>3, PTL DEF Spec
=============================================================================
