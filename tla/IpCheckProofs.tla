---------------------------- MODULE IpCheckProofs ----------------------------
(***************************************************************************)
(* The verification loop never ends under a running tunnel, whatever the   *)
(* options and however sessions overlap with their probes; and where no    *)
(* session ends while a probe is under way, a session is verified, torn    *)
(* down and cached on the word of its own probes only.                     *)
(***************************************************************************)
EXTENDS IpCheck, TLAPS

-----------------------------------------------------------------------------
(***************************************************************************)
(* Types and the loop.  The counter stays within its bound because the     *)
(* failure that reaches it tears the tunnel down; a callback dropped       *)
(* behind a probe in flight is replaced by what that probe posts.          *)
(***************************************************************************)
LifeInv ==
  /\ mTunnelUp => mRunning /\ mIpCheckFailures < MaxFailures
  /\ mRunning => session # 0 /\ mServer \in Proxies

FlightInv == mProbeInFlight => executor # <<>> \/ results # <<>>

LoopInv == TypeOK /\ LifeInv /\ FlightInv /\ LoopStaysAlive

\* A queue of probes or answers keeps its kind when one is taken or added.
LEMMA QueueType ==
  ASSUME NEW S, NEW q \in Seq(S)
  PROVE  /\ q # <<>> => Head(q) \in S /\ Tail(q) \in Seq(S)
         /\ \A e \in S : Append(q, e) \in Seq(S) /\ Append(q, e) # <<>>
<1>1. q # <<>> => Head(q) \in S /\ Tail(q) \in Seq(S)
  OBVIOUS
<1>2. ASSUME NEW e \in S
      PROVE  Append(q, e) \in Seq(S) /\ Append(q, e) # <<>>
  <2>1. Append(q, e) \in Seq(S)
    OBVIOUS
  <2>2. Len(Append(q, e)) = Len(q) + 1 /\ Len(q) \in Nat
    OBVIOUS
  <2>3. Len(<<>>) = 0
    OBVIOUS
  <2>. QED BY <2>1, <2>2, <2>3
<1>. QED BY <1>1, <1>2

\* What an answer carries.
LEMMA ResultType ==
  ASSUME NEW r \in Result
  PROVE  /\ r.probe \in Probe /\ r.probe.p \in Proxies
         /\ r.probe.g \in 1..MaxSessions /\ r.kind \in Kinds
BY DEF Result, Probe

\* What a probe carries.
LEMMA ProbeType ==
  ASSUME NEW r \in Probe
  PROVE  r.p \in Proxies /\ r.g \in 1..MaxSessions
BY DEF Probe

\* An answer may only be taken from a looper that holds one.
LEMMA TakeResultType ==
  ASSUME TypeOK, NEW kinds, TakeResult(kinds)
  PROVE  /\ Head(results) \in Result
         /\ results' \in Seq(Result)
BY QueueType DEF TypeOK, TakeResult

\* The loop begins stopped.
LEMMA LoopInit ==
  ASSUME Init
  PROVE  LoopInv
<1>1. <<>> \in Seq(Probe) /\ <<>> \in Seq(Result)
  OBVIOUS
<1>2. TypeOK
  <2>1. /\ mRunning \in BOOLEAN /\ mTunnelUp \in BOOLEAN
        /\ mProxyVerified \in BOOLEAN /\ blocked \in BOOLEAN
        /\ mProbeInFlight \in BOOLEAN /\ overlapped \in BOOLEAN
    BY DEF Init
  <2>2. accelIp \in [key : Proxies \cup {None}, info : Proxies \cup {None}]
    BY DEF Init, NoEntry
  <2>. QED BY <1>1, <2>1, <2>2, NumberAssumption DEF Init, TypeOK
<1>3. LifeInv /\ FlightInv /\ LoopStaysAlive
  BY DEF Init, LifeInv, FlightInv, LoopStaysAlive
<1>. QED BY <1>2, <1>3 DEF LoopInv

\* stopMe leaves fields of their kind.
LEMMA StoppedType ==
  ASSUME LoopInv, Stopped, results' \in Seq(Result),
         mIpCheckFailures' \in 0..MaxFailures, ownFailures' \in Nat,
         overlapped' \in BOOLEAN
  PROVE  TypeOK' /\ LifeInv'
<1> USE NumberAssumption DEF LoopInv, TypeOK, Stopped, StoppedRest, powerVars
<1>1. /\ mRunning' \in BOOLEAN /\ mTunnelUp' \in BOOLEAN
      /\ mProxyVerified' \in BOOLEAN /\ mProbeInFlight' \in BOOLEAN
  OBVIOUS
<1>2. /\ mServer' \in Proxies \cup {None} /\ mIpInfo' \in Proxies \cup {None}
      /\ mPendingIpInfo' \in Probe \cup {None} /\ evidence' \in 0..MaxSessions
      /\ callbacks' \in Nat
  OBVIOUS
<1>3. LifeInv'
  BY DEF LifeInv
<1>. QED BY <1>1, <1>2, <1>3

\* applyIpInfo leaves fields of their kind.
LEMMA ApplyType ==
  ASSUME TypeOK, NEW probe \in Probe, Apply(probe)
  PROVE  /\ mProxyVerified' \in BOOLEAN /\ mIpInfo' \in Proxies \cup {None}
         /\ evidence' \in 0..MaxSessions
         /\ accelIp' \in [key : Proxies \cup {None}, info : Proxies \cup {None}]
<1>1. probe.p \in Proxies /\ probe.g \in 1..MaxSessions
  BY ProbeType
<1>2. accelIp' \in [key : Proxies \cup {None}, info : Proxies \cup {None}]
  BY <1>1 DEF Apply, TypeOK
<1>. QED BY <1>1, <1>2, NumberAssumption DEF Apply

\* Every step keeps the types and the session's life in order.
LEMMA TypeStep ==
  ASSUME LoopInv, [Next]_vars
  PROVE  TypeOK' /\ LifeInv'
<1> USE NumberAssumption DEF LoopInv, TypeOK, LifeInv, lifeVars, showVars,
        failVars, powerVars
<1>1. ASSUME NEW p \in Proxies, Connect(p)
      PROVE  TypeOK' /\ LifeInv'
  BY <1>1 DEF Connect
<1>2. CASE TunnelUp
  <2>1. /\ mProxyVerified' \in BOOLEAN /\ mIpInfo' \in Proxies \cup {None}
        /\ evidence' \in 0..MaxSessions
        /\ accelIp' \in [key : Proxies \cup {None}, info : Proxies \cup {None}]
    <3>1. CASE mPendingIpInfo # None
      BY <1>2, <3>1, ApplyType DEF TunnelUp
    <3>2. CASE mPendingIpInfo = None
      <4>1. ApplyCached
        BY <1>2, <3>2 DEF TunnelUp
      <4>2. mProxyVerified' \in BOOLEAN
        BY <4>1 DEF ApplyCached
      <4>3. mIpInfo' \in Proxies \cup {None} /\ evidence' = 0 /\ accelIp' = accelIp
        BY <4>1 DEF ApplyCached
      <4>. QED BY <4>2, <4>3
    <3>. QED BY <3>1, <3>2
  <2>2. mTunnelUp' \in BOOLEAN /\ mIpCheckFailures' \in 0..MaxFailures
        /\ ownFailures' \in Nat /\ mPendingIpInfo' \in Probe \cup {None}
    BY <1>2 DEF TunnelUp
  <2>3. mIpCheckFailures' < MaxFailures
    BY <1>2 DEF TunnelUp
  <2>. QED BY <1>2, <2>1, <2>2, <2>3 DEF TunnelUp
<1>3. CASE Stop
  <2>1. overlapped' \in BOOLEAN
    BY <1>3 DEF Stop
  <2>. QED BY <1>3, <2>1, StoppedType DEF Stop
<1>4. CASE Sleep
  BY <1>4 DEF Sleep
<1>5. CASE Wake
  <2>1. blocked' \in BOOLEAN
    BY <1>5 DEF Wake
  <2>2. /\ mIpCheckFailures' \in 0..MaxFailures /\ ownFailures' \in Nat
        /\ callbacks' \in Nat
        /\ mTunnelUp => mIpCheckFailures' < MaxFailures
    BY <1>5 DEF Wake
  <2>. QED BY <1>5, <2>1, <2>2 DEF Wake
<1>6. CASE RunDropped
  BY <1>6 DEF RunDropped
<1>7. CASE RunProbe
  <2>1. [g |-> session, p |-> mServer] \in Probe
    BY <1>7 DEF RunProbe, Probe
  <2>2. executor' \in Seq(Probe)
    BY <1>7, <2>1, QueueType DEF RunProbe
  <2>. QED BY <1>7, <2>2 DEF RunProbe
<1>8. CASE ProbeEnds
  <2>1. Head(executor) \in Probe /\ executor' \in Seq(Probe)
    BY <1>8, QueueType DEF ProbeEnds
  <2>2. PICK kind \in Outcomes(Head(executor).p) :
          results' = Append(results, [probe |-> Head(executor), kind |-> kind])
    BY <1>8 DEF ProbeEnds
  <2>3. [probe |-> Head(executor), kind |-> kind] \in Result
    BY <2>1, <2>2 DEF Outcomes, Kinds, Result
  <2>4. results' \in Seq(Result)
    BY <2>2, <2>3, QueueType
  <2>. QED BY <1>8, <2>1, <2>4 DEF ProbeEnds
<1>9. CASE ResultBuffered
  <2>1. Head(results) \in Result /\ results' \in Seq(Result)
    BY <1>9, TakeResultType DEF ResultBuffered
  <2>. QED BY <1>9, <2>1, ResultType DEF ResultBuffered
<1>10. CASE ResultInfo
  <2>1. Head(results) \in Result /\ results' \in Seq(Result)
    BY <1>10, TakeResultType DEF ResultInfo
  <2>2. Head(results).probe \in Probe
    BY <2>1, ResultType
  <2>3. /\ mProxyVerified' \in BOOLEAN /\ mIpInfo' \in Proxies \cup {None}
        /\ evidence' \in 0..MaxSessions
        /\ accelIp' \in [key : Proxies \cup {None}, info : Proxies \cup {None}]
    BY <1>10, <2>2, ApplyType DEF ResultInfo
  <2>4. /\ mIpCheckFailures' \in 0..MaxFailures /\ mIpCheckFailures' < MaxFailures
        /\ ownFailures' \in Nat /\ callbacks' \in Nat
    BY <1>10 DEF ResultInfo
  <2>5. mProbeInFlight' \in BOOLEAN
    BY <1>10 DEF ResultInfo
  <2>. QED BY <1>10, <2>1, <2>3, <2>4, <2>5 DEF ResultInfo
<1>11. CASE ResultRetry
  <2>1. Head(results) \in Result /\ results' \in Seq(Result)
    BY <1>11, TakeResultType DEF ResultRetry
  <2>2. callbacks' \in Nat
    BY <1>11 DEF ResultRetry
  <2>4. mProbeInFlight' \in BOOLEAN
    BY <1>11 DEF ResultRetry
  <2>3. UNCHANGED <<lifeVars, showVars, failVars, powerVars, mPendingIpInfo,
                    accelIp, executor>>
    BY <1>11 DEF ResultRetry
  <2>. QED BY <2>1, <2>2, <2>3, <2>4
<1>12. CASE ResultProxyOk
  <2>1. Head(results) \in Result /\ results' \in Seq(Result)
    BY <1>12, TakeResultType DEF ResultProxyOk
  <2>2. evidence' \in 0..MaxSessions
    BY <1>12, <2>1, ResultType DEF ResultProxyOk
  <2>3. /\ mIpCheckFailures' \in 0..MaxFailures /\ mIpCheckFailures' < MaxFailures
        /\ ownFailures' \in Nat /\ callbacks' \in Nat
    BY <1>12 DEF ResultProxyOk
  <2>4. mProbeInFlight' \in BOOLEAN /\ mProxyVerified' \in BOOLEAN
    BY <1>12 DEF ResultProxyOk
  <2>. QED BY <1>12, <2>1, <2>2, <2>3, <2>4 DEF ResultProxyOk
<1>13. CASE ResultDead
  <2>1. Head(results) \in Result /\ results' \in Seq(Result)
    BY <1>13, TakeResultType DEF ResultDead
  <2>2. mIpCheckFailures' \in 0..MaxFailures /\ ownFailures' \in Nat
    BY <1>13 DEF ResultDead, CountOwn
  <2>3. CASE mIpCheckFailures + 1 >= MaxFailures
    BY <1>13, <2>1, <2>2, <2>3, StoppedType DEF ResultDead
  <2>4. CASE mIpCheckFailures + 1 < MaxFailures
    <3>1. /\ mProbeInFlight' = FALSE /\ mProxyVerified' = FALSE
          /\ callbacks' = callbacks + 1
          /\ UNCHANGED <<lifeVars, mIpInfo, evidence, powerVars,
                         mPendingIpInfo, accelIp, executor>>
      <4>1. ~(mIpCheckFailures + 1 >= MaxFailures)
        BY <2>4
      <4>. QED BY <1>13, <4>1 DEF ResultDead
    <3>2. mIpCheckFailures' < MaxFailures
      BY <1>13, <2>4 DEF ResultDead
    <3>3. mProbeInFlight' \in BOOLEAN /\ mProxyVerified' \in BOOLEAN
      BY <3>1
    <3>. QED BY <2>1, <2>2, <3>1, <3>2, <3>3
  <2>. QED BY <2>3, <2>4
<1>14. CASE UNCHANGED vars
  BY <1>14 DEF vars
<1>. QED BY <1>1, <1>2, <1>3, <1>4, <1>5, <1>6, <1>7,
            <1>8, <1>9, <1>10, <1>11, <1>12, <1>13, <1>14
         DEF Next, MainThread

\* Every step leaves the loop a callback, a probe or an answer.
LEMMA LoopStep ==
  ASSUME LoopInv, [Next]_vars
  PROVE  FlightInv' /\ LoopStaysAlive'
<1> USE DEF LoopInv, TypeOK, LifeInv, FlightInv, LoopStaysAlive, lifeVars
<1>1. ASSUME NEW p \in Proxies, Connect(p)
      PROVE  FlightInv' /\ LoopStaysAlive'
  BY <1>1 DEF Connect
<1>2. CASE TunnelUp
  BY <1>2 DEF TunnelUp
<1>3. CASE Stop
  BY <1>3 DEF Stop, Stopped, StoppedRest
<1>4. CASE Sleep
  BY <1>4 DEF Sleep
<1>5. CASE Wake
  BY <1>5 DEF Wake
<1>6. CASE RunDropped
  BY <1>6 DEF RunDropped
<1>7. CASE RunProbe
  <2>1. executor' # <<>>
    <3>1. [g |-> session, p |-> mServer] \in Probe
      BY <1>7 DEF RunProbe, Probe
    <3>. QED BY <1>7, <3>1, QueueType DEF RunProbe
  <2>. QED BY <2>1
<1>8. CASE ProbeEnds
  <2>1. results' # <<>>
    <3>1. PICK kind \in Outcomes(Head(executor).p) :
            results' = Append(results, [probe |-> Head(executor), kind |-> kind])
      BY <1>8 DEF ProbeEnds
    <3>2. [probe |-> Head(executor), kind |-> kind] \in Result
      BY <1>8, <3>1, QueueType DEF ProbeEnds, Outcomes, Kinds, Result
    <3>. QED BY <3>1, <3>2, QueueType
  <2>. QED BY <2>1
<1>9. CASE ResultBuffered
  BY <1>9 DEF ResultBuffered
<1>10. CASE ResultInfo
  BY <1>10 DEF ResultInfo
<1>11. CASE ResultRetry
  BY <1>11 DEF ResultRetry
<1>12. CASE ResultProxyOk
  BY <1>12 DEF ResultProxyOk
<1>13. CASE ResultDead
  <2>1. ~mProbeInFlight'
    BY <1>13 DEF ResultDead, Stopped
  <2>2. CASE mIpCheckFailures + 1 >= MaxFailures
    BY <1>13, <2>1, <2>2 DEF ResultDead, Stopped, StoppedRest
  <2>3. CASE ~(mIpCheckFailures + 1 >= MaxFailures)
    <3>1. callbacks' = callbacks + 1
      BY <1>13, <2>3 DEF ResultDead
    <3>. QED BY <2>1, <3>1
  <2>. QED BY <2>2, <2>3
<1>14. CASE UNCHANGED vars
  BY <1>14 DEF vars
<1>. QED BY <1>1, <1>2, <1>3, <1>4, <1>5, <1>6, <1>7,
            <1>8, <1>9, <1>10, <1>11, <1>12, <1>13, <1>14
         DEF Next, MainThread

\* The loop's fields have values of their kind, and the failure counter never
\* passes MAX_IP_CHECK_FAILURES, whichever session's answers come in.
THEOREM TypeCorrect == Spec => []TypeOK
<1>1. Init => LoopInv
  BY LoopInit
<1>2. LoopInv /\ [Next]_vars => LoopInv'
  BY TypeStep, LoopStep DEF LoopInv
<1>3. LoopInv => TypeOK
  BY DEF LoopInv
<1>. QED BY <1>1, <1>2, <1>3, PTL DEF Spec

\* Under a tunnel that is up another check is always on its way, for every
\* choice of options and proxies and however stops, restarts and sleeps
\* interleave with the probes: no callback that mIpCheckRunnable drops because
\* of mProbeInFlight was the last.
THEOREM LoopNeverDies == Spec => []LoopStaysAlive
<1>1. Init => LoopInv
  BY LoopInit
<1>2. LoopInv /\ [Next]_vars => LoopInv'
  BY TypeStep, LoopStep DEF LoopInv
<1>3. LoopInv => LoopStaysAlive
  BY DEF LoopInv
<1>. QED BY <1>1, <1>2, <1>3, PTL DEF Spec

-----------------------------------------------------------------------------
(***************************************************************************)
(* As long as no session has ended while its probe or an answer was under  *)
(* way (~overlapped), at most one probe is about, and it is the running    *)
(* session's own.                                                          *)
(***************************************************************************)
Own == [g |-> session, p |-> mServer]

OwnInv ==
  /\ executor \in {<<>>, <<Own>>}
  /\ results # <<>> => \E kind \in Kinds : results = <<[probe |-> Own, kind |-> kind]>>
  /\ mPendingIpInfo \in {None, Own}

OneInv ==
  /\ executor = <<>> \/ results = <<>>
  /\ ~mProbeInFlight => executor = <<>> /\ results = <<>>
  /\ ~mRunning => /\ executor = <<>> /\ results = <<>>
                  /\ mPendingIpInfo = None /\ ~mProxyVerified

VerifiedByOwnProbe ==
  ~overlapped /\ mProxyVerified => evidence = session \/ (CacheIp /\ evidence = 0)
FailuresAreOwn == ~overlapped /\ mTunnelUp => mIpCheckFailures <= ownFailures
WordInv == VerifiedByOwnProbe /\ SavedUnderOwnKey /\ FailuresAreOwn

SerialInv == LoopInv /\ OwnInv /\ OneInv /\ WordInv

UnlessInv == LoopInv /\ (~overlapped => SerialInv)

\* What has not overlapped after a step had not before it, and a stop that does
\* not overlap meets no probe.
LEMMA StillSerial ==
  ASSUME ~overlapped', UnlessInv, [Next]_vars
  PROVE  SerialInv /\ ~overlapped /\ (Stop => executor = <<>> /\ results = <<>>)
<1>1. CASE Stop
  <2>1. ~overlapped /\ executor = <<>> /\ results = <<>>
    BY <1>1 DEF Stop
  <2>. QED BY <2>1 DEF UnlessInv
<1>2. CASE ~Stop
  <2>1. UNCHANGED overlapped
    BY <1>2 DEF Next, MainThread, vars, lifeVars, Connect, TunnelUp, Sleep, Wake,
       RunDropped, RunProbe, ProbeEnds, ResultBuffered, ResultInfo, ResultRetry,
       ResultProxyOk, ResultDead
  <2>. QED BY <1>2, <2>1 DEF UnlessInv
<1>. QED BY <1>1, <1>2

\* A queue with one element.
LEMMA Single ==
  ASSUME NEW x
  PROVE  /\ Append(<<>>, x) = <<x>> /\ <<x>> # <<>>
         /\ Head(<<x>>) = x /\ Tail(<<x>>) = <<>>
OBVIOUS

\* The answer the main thread takes is the session's own and was the only one.
LEMMA TakeOwn ==
  ASSUME OwnInv, OneInv, NEW kinds, TakeResult(kinds)
  PROVE  Head(results).probe = Own /\ results' = <<>> /\ executor = <<>> /\ mRunning
<1>1. PICK kind \in Kinds : results = <<[probe |-> Own, kind |-> kind]>>
  BY DEF OwnInv, TakeResult
<1>. QED BY <1>1, Single DEF TakeResult, OneInv

\* Probes and answers stay the session's own, one at a time.
LEMMA OwnStep ==
  ASSUME SerialInv, [Next]_vars, Stop => executor = <<>> /\ results = <<>>
  PROVE  OwnInv' /\ OneInv'
<1> USE DEF SerialInv, lifeVars, showVars
<1>1. ASSUME NEW p \in Proxies, Connect(p)
      PROVE  OwnInv' /\ OneInv'
  BY <1>1 DEF Connect, OwnInv, OneInv
<1>2. CASE TunnelUp
  BY <1>2 DEF TunnelUp, OwnInv, OneInv, Own
<1>3. CASE Stop
  BY <1>3 DEF Stop, Stopped, StoppedRest, OwnInv, OneInv
<1>4. CASE Sleep
  BY <1>4 DEF Sleep, OwnInv, OneInv, Own
<1>5. CASE Wake
  BY <1>5 DEF Wake, OwnInv, OneInv, Own
<1>6. CASE RunDropped
  BY <1>6 DEF RunDropped, OwnInv, OneInv, Own
<1>7. CASE RunProbe
  <2>1. executor' = <<Own>> /\ results = <<>> /\ Own' = Own
    BY <1>7, Single DEF RunProbe, OneInv, Own
  <2>. QED BY <1>7, <2>1 DEF RunProbe, OwnInv, OneInv
<1>8. CASE ProbeEnds
  <2>1. executor = <<Own>> /\ results = <<>> /\ Own' = Own
    BY <1>8, Single DEF ProbeEnds, OwnInv, OneInv, Own
  <2>2. PICK kind \in Outcomes(Head(executor).p) :
          results' = Append(results, [probe |-> Head(executor), kind |-> kind])
    BY <1>8 DEF ProbeEnds
  <2>3. kind \in Kinds
    BY <2>2 DEF Outcomes, Kinds
  <2>4. executor' = <<>> /\ results' = <<[probe |-> Own, kind |-> kind]>>
    BY <1>8, <2>1, <2>2, Single DEF ProbeEnds
  <2>5. mRunning /\ mProbeInFlight
    BY <2>1, Single DEF OneInv
  <2>6. OwnInv'
    BY <1>8, <2>1, <2>3, <2>4 DEF ProbeEnds, OwnInv
  <2>7. OneInv'
    BY <1>8, <2>4, <2>5 DEF ProbeEnds, OneInv
  <2>. QED BY <2>6, <2>7
<1>9. CASE ResultBuffered
  BY <1>9, TakeOwn DEF ResultBuffered, OwnInv, OneInv, Own
<1>10. CASE ResultInfo
  BY <1>10, TakeOwn DEF ResultInfo, OwnInv, OneInv, Own
<1>11. CASE ResultRetry
  BY <1>11, TakeOwn DEF ResultRetry, OwnInv, OneInv, Own
<1>12. CASE ResultProxyOk
  BY <1>12, TakeOwn DEF ResultProxyOk, OwnInv, OneInv, Own
<1>13. CASE ResultDead
  <2>1. results' = <<>> /\ executor = <<>> /\ mRunning
    BY <1>13, TakeOwn DEF ResultDead
  <2>2. CASE mIpCheckFailures + 1 >= MaxFailures
    BY <1>13, <2>1, <2>2 DEF ResultDead, Stopped, StoppedRest, OwnInv, OneInv
  <2>3. CASE ~(mIpCheckFailures + 1 >= MaxFailures)
    BY <1>13, <2>1, <2>3 DEF ResultDead, OwnInv, OneInv, Own
  <2>. QED BY <2>2, <2>3
<1>14. CASE UNCHANGED vars
  BY <1>14 DEF vars, OwnInv, OneInv, Own
<1>. QED BY <1>1, <1>2, <1>3, <1>4, <1>5, <1>6, <1>7,
            <1>8, <1>9, <1>10, <1>11, <1>12, <1>13, <1>14
         DEF Next, MainThread

\* What an own answer verifies and saves is the session's.
LEMMA ApplyOwn ==
  ASSUME WordInv, Apply(Own), session' = session
  PROVE  VerifiedByOwnProbe' /\ SavedUnderOwnKey'
BY DEF WordInv, Apply, Own, VerifiedByOwnProbe, SavedUnderOwnKey

\* What a session shows, saves and counts rests on its own probes.
LEMMA WordStep ==
  ASSUME SerialInv, ~overlapped, [Next]_vars
  PROVE  WordInv'
<1> USE DEF SerialInv, WordInv, VerifiedByOwnProbe, SavedUnderOwnKey,
            FailuresAreOwn, lifeVars, showVars, failVars
<1>1. ASSUME NEW p \in Proxies, Connect(p)
      PROVE  WordInv'
  BY <1>1 DEF Connect, OneInv, LoopInv, LifeInv
<1>2. CASE TunnelUp
  <2>1. session' = session /\ FailuresAreOwn'
    BY <1>2 DEF TunnelUp
  <2>2. CASE mPendingIpInfo # None
    BY <1>2, <2>1, <2>2, ApplyOwn DEF TunnelUp, OwnInv
  <2>3. CASE mPendingIpInfo = None
    <3>1. ApplyCached
      BY <1>2, <2>3 DEF TunnelUp
    <3>. QED BY <2>1, <3>1 DEF ApplyCached
  <2>. QED BY <2>2, <2>3
<1>3. CASE Stop
  BY <1>3 DEF Stop, Stopped, StoppedRest
<1>4. CASE Sleep
  BY <1>4 DEF Sleep
<1>5. CASE Wake
  BY <1>5 DEF Wake
<1>6. CASE RunDropped
  BY <1>6 DEF RunDropped
<1>7. CASE RunProbe
  BY <1>7 DEF RunProbe
<1>8. CASE ProbeEnds
  BY <1>8 DEF ProbeEnds
<1>9. CASE ResultBuffered
  BY <1>9 DEF ResultBuffered
<1>10. CASE ResultInfo
  <2>1. Apply(Own) /\ session' = session
    BY <1>10, TakeOwn DEF ResultInfo
  <2>. QED BY <1>10, <2>1, ApplyOwn DEF ResultInfo
<1>11. CASE ResultRetry
  BY <1>11 DEF ResultRetry
<1>12. CASE ResultProxyOk
  BY <1>12, TakeOwn DEF ResultProxyOk, Own
<1>13. CASE ResultDead
  <2>1. ownFailures' = ownFailures + 1 /\ mIpCheckFailures' = mIpCheckFailures + 1
    BY <1>13, TakeOwn DEF ResultDead, CountOwn, Own
  <2>2. mIpCheckFailures \in Nat /\ ownFailures \in Nat
    BY NumberAssumption DEF LoopInv, TypeOK
  <2>3. CASE mIpCheckFailures + 1 >= MaxFailures
    BY <1>13, <2>3 DEF ResultDead, Stopped, StoppedRest
  <2>4. CASE ~(mIpCheckFailures + 1 >= MaxFailures)
    BY <1>13, <2>1, <2>2, <2>4 DEF ResultDead
  <2>. QED BY <2>3, <2>4
<1>14. CASE UNCHANGED vars
  BY <1>14 DEF vars
<1>. QED BY <1>1, <1>2, <1>3, <1>4, <1>5, <1>6, <1>7,
            <1>8, <1>9, <1>10, <1>11, <1>12, <1>13, <1>14
         DEF Next, MainThread

\* Probes and answers are the running session's own unless sessions overlap.
LEMMA SerialCorrect ==
  Spec => []UnlessInv
<1>1. Init => UnlessInv
  <2>1. ASSUME Init
        PROVE  OwnInv /\ OneInv /\ WordInv
    BY <2>1 DEF Init, OwnInv, OneInv, WordInv, VerifiedByOwnProbe,
       SavedUnderOwnKey, FailuresAreOwn, NoEntry
  <2>. QED BY <2>1, LoopInit DEF UnlessInv, SerialInv
<1>2. ASSUME UnlessInv, [Next]_vars
      PROVE  UnlessInv'
  <2>1. LoopInv'
    BY <1>2, TypeStep, LoopStep DEF UnlessInv, LoopInv
  <2>2. ASSUME ~overlapped'
        PROVE  SerialInv'
    BY <1>2, <2>1, <2>2, StillSerial, OwnStep, WordStep DEF SerialInv
  <2>. QED BY <2>1, <2>2 DEF UnlessInv
<1>. QED BY <1>1, <1>2, PTL DEF Spec

\* As long as no session has ended while its probe was under way, mProxyVerified
\* rests on a probe of the running session or on the cached exit IP, and only
\* its own failed handshakes count toward its teardown.
THEOREM VerdictsCorrect == Spec => []VerdictsAreOwn
<1>1. UnlessInv => VerdictsAreOwn
  BY DEF UnlessInv, SerialInv, WordInv, VerdictsAreOwn, VerifiedByOwnProbe,
         FailuresAreOwn
<1>. QED BY <1>1, SerialCorrect, PTL

\* Likewise, saveAccelIp files an exit IP under the key of the proxy it is of.
THEOREM SavedCorrect == Spec => []SavedOwnUnlessOverlapped
<1>1. UnlessInv => SavedOwnUnlessOverlapped
  BY DEF UnlessInv, SerialInv, WordInv, SavedOwnUnlessOverlapped
<1>. QED BY <1>1, SerialCorrect, PTL
=============================================================================
