----------------------- MODULE UsageAndSurfacesProofs -----------------------
(***************************************************************************)
(* What the user is shown, for any profiles, any traffic and any bounds.   *)
(* When the main thread stops sessions whose tunnel is up, the usage       *)
(* totals are within what the counters they were read from advanced by     *)
(* while the tunnel was up (the other two cases are hazards of their own:  *)
(* a stop on a binder thread, and a cancelled connect, which writes a      *)
(* zero); and a surface that has lost the service never stops binding      *)
(* again.                                                                  *)
(***************************************************************************)
EXTENDS UsageAndSurfaces, TLAPS

-----------------------------------------------------------------------------
(* The usage counters *)

\* The sessions whose counters are shown to be exact.
OrdinaryStops == ~BinderStops /\ ~Cancels

(***************************************************************************)
(* Where a session is.  The main thread counts, or stops, and not both; a  *)
(* run of mStatsRunnable is due exactly while the tunnel is up, the thread *)
(* is not in one, and the stop has not taken it away.                      *)
(***************************************************************************)
PhaseInv ==
  /\ mRunning => spc = "out" /\ mProfileName # None /\ open
  /\ spc = "out" /\ ~mRunning => ~mTunnelUp /\ mProfileName = None
  /\ spc # "out" => mTunnelUp /\ tpc = "idle"
  /\ spc \in {"persist", "close", "name"} => mProfileName # None
  /\ spc = "bytes" => mProfileName = None
  /\ posted = (IF mTunnelUp /\ tpc = "idle" /\ spc \in {"out", "persist"} THEN 1 ELSE 0)
  /\ tpc # "idle" => mTunnelUp
  /\ tpc = "save" => tname = mProfileName

\* Does mProfileName have counts that may not be saved yet?
Counting == mTunnelUp /\ spc \in {"out", "persist"}

(***************************************************************************)
(* What is saved, shown and carried.  While a session reads only the       *)
(* counter its base was read from, that counter has advanced by at least   *)
(* what was counted, and at most by what is due to the profile.            *)
(***************************************************************************)
AmountInv ==
  /\ \A q \in Profiles : (Counting /\ q = mProfileName) \/ prefs[q] = shown[q]
  /\ Counting => shown[mProfileName] = mCumulative + mBytes
  /\ CountsWhileUp
  /\ mRunning /\ mTunnelUp /\ baseOf # "none" /\ mProfileName \notin switched =>
       /\ mBytes <= Value(baseOf) - mBase
       /\ mCumulative + Value(baseOf) - mBase <= carried[mProfileName]

\* Counts that are not saved are ticks since mStatsTick was zero.
TickInv ==
  IF tpc \in {"idle", "post"} THEN unsaved <= mStatsTick ELSE unsaved <= PersistTicks

UsageInv == OrdinaryStops /\ TypeOK /\ PhaseInv /\ AmountInv /\ TickInv

USE DEF fieldVars, byteVars, tickVars, netVars, baseVars, savedVars, MainFree, OrdinaryStops

\* Whichever counter readUsageBytes reads, it is a number.
LEMMA ValueType == TypeOK => \A c : Value(c) \in Nat
BY DEF TypeOK, Value

\* mStatsTick goes round.
LEMMA NextTickProperties ==
  ASSUME TypeOK
  PROVE  /\ NextTick \in 0..(PersistTicks - 1)
         /\ NextTick = IF mStatsTick + 1 = PersistTicks THEN 0 ELSE mStatsTick + 1
<1>1. PersistTicks \in Nat \ {0} /\ mStatsTick \in 0..(PersistTicks - 1)
  BY NumberAssumption DEF TypeOK
<1> QED BY <1>1 DEF NextTick

\* A session begins; nothing has been counted for it.
LEMMA ConnectCounts ==
  ASSUME UsageInv, NEW p \in Profiles, Connect(p)
  PROVE  UsageInv'
<1>0. OrdinaryStops /\ TypeOK /\ PhaseInv /\ AmountInv /\ TickInv
  BY DEF UsageInv
<1>1. TypeOK'
  BY <1>0, NumberAssumption DEF TypeOK, PhaseInv, Connect
<1>2. PhaseInv'
  BY <1>0, ProfileAssumption DEF TypeOK, PhaseInv, Connect
<1>3. AmountInv'
  BY <1>0 DEF TypeOK, PhaseInv, AmountInv, Counting, CountsWhileUp, Value,
              Connect
<1>4. TickInv'
  BY <1>0, NumberAssumption DEF TypeOK, TickInv, Connect
<1> QED BY <1>0, <1>1, <1>2, <1>3, <1>4 DEF UsageInv

\* The tunnel comes up and the counting begins, from the profile's total.
LEMMA TunnelUpCounts ==
  ASSUME UsageInv, TunnelUp
  PROVE  UsageInv'
<1>0. OrdinaryStops /\ TypeOK /\ PhaseInv /\ AmountInv /\ TickInv
  BY DEF UsageInv
<1>1. TypeOK'
  <2>1. posted = 0 /\ posted' = 1 /\ prefs \in [Profiles -> Nat]
    BY <1>0 DEF TypeOK, PhaseInv, TunnelUp, UpRest
  <2>2. mCumulative' \in Nat /\ shown' \in [Profiles -> Nat]
    BY <1>0, <2>1 DEF TypeOK, TunnelUp
  <2>3. mBase' \in Nat /\ baseOf' \in {"tun", "uid", "none"}
    BY <1>0, ValueType DEF TunnelUp, Readable
  <2> QED BY <1>0, <2>1, <2>2, <2>3 DEF TypeOK, TunnelUp, UpRest
<1>2. PhaseInv'
  BY <1>0, ProfileAssumption DEF TypeOK, PhaseInv, TunnelUp, UpRest
<1>3. AmountInv'
  BY <1>0 DEF TypeOK, PhaseInv, AmountInv, Counting, CountsWhileUp, Value,
              TunnelUp, UpRest
<1>4. TickInv'
  BY <1>0, NumberAssumption DEF TypeOK, TickInv, TunnelUp, UpRest
<1> QED BY <1>0, <1>1, <1>2, <1>3, <1>4 DEF UsageInv

\* What a counter advances by is due to the profile whose tunnel is up.
LEMMA TrafficCounts ==
  ASSUME UsageInv, Traffic
  PROVE  UsageInv'
<1>0. OrdinaryStops /\ TypeOK /\ PhaseInv /\ AmountInv /\ TickInv
  BY DEF UsageInv
<1>1. TypeOK'
  BY <1>0, NumberAssumption DEF TypeOK, PhaseInv, Traffic, CarriedOn
<1>2. PhaseInv'
  BY <1>0, ProfileAssumption DEF TypeOK, PhaseInv, Traffic, CarriedOn
<1>3. AmountInv'
  BY <1>0 DEF TypeOK, PhaseInv, AmountInv, Counting, CountsWhileUp, Value,
              Traffic, CarriedOn
<1>4. TickInv'
  BY <1>0, NumberAssumption DEF TypeOK, TickInv, Traffic
<1> QED BY <1>0, <1>1, <1>2, <1>3, <1>4 DEF UsageInv

\* So is what the app itself transfers, where that counter is the base.
LEMMA UidTrafficCounts ==
  ASSUME UsageInv, UidTraffic
  PROVE  UsageInv'
<1>0. OrdinaryStops /\ TypeOK /\ PhaseInv /\ AmountInv /\ TickInv
  BY DEF UsageInv
<1>1. TypeOK'
  BY <1>0, NumberAssumption DEF TypeOK, PhaseInv, UidTraffic, CarriedOn
<1>2. PhaseInv'
  BY <1>0, ProfileAssumption DEF TypeOK, PhaseInv, UidTraffic, CarriedOn
<1>3. AmountInv'
  BY <1>0 DEF TypeOK, PhaseInv, AmountInv, Counting, CountsWhileUp, Value,
              UidTraffic, CarriedOn
<1>4. TickInv'
  BY <1>0, NumberAssumption DEF TypeOK, TickInv, UidTraffic
<1> QED BY <1>0, <1>1, <1>2, <1>3, <1>4 DEF UsageInv

\* A tick counts no more than is due and, while the counters are not mixed, no
\* less than the tick before.
LEMMA CountCounts ==
  ASSUME UsageInv, Count
  PROVE  UsageInv'
<1>0. OrdinaryStops /\ TypeOK /\ PhaseInv /\ AmountInv /\ TickInv
  BY DEF UsageInv
<1>a. /\ posted = 1 /\ posted' = 0 /\ mTunnelUp /\ spc = "out" /\ mRunning
      /\ mProfileName \in Profiles /\ tpc = "idle" /\ PersistTicks \in Nat \ {0}
      /\ mProfileName # None
  BY <1>0, NumberAssumption, ProfileAssumption DEF TypeOK, PhaseInv, Count
<1>n. /\ mCumulative \in Nat /\ mBytes \in Nat /\ mBase \in Nat
      /\ \A c : Value(c) \in Nat
      /\ \A q \in Profiles : prefs[q] \in Nat /\ carried[q] \in Nat /\ shown[q] \in Nat
  BY <1>0, ValueType DEF TypeOK
<1>b. PICK c \in Readable :
        /\ mBytes' = IF c = "none" THEN mBytes ELSE AtLeastZero(Value(c) - mBase)
        /\ switched' = IF c \in {"none", baseOf} THEN switched
                       ELSE switched \cup ({mProfileName} \ {None})
  BY DEF Count
<1>e. mBytes' \in Nat /\ switched' \subseteq Profiles /\ switched \subseteq switched'
  BY <1>0, <1>a, <1>b, <1>n DEF TypeOK, AtLeastZero
<1>f. ASSUME mProfileName \notin switched'
      PROVE  /\ mProfileName \notin switched
             /\ mBytes <= mBytes'
             /\ mBytes' = mBytes \/ (baseOf # "none" /\ mBytes' = Value(baseOf) - mBase)
  <2>1. c \in {"none", baseOf} /\ mProfileName \notin switched
    BY <1>a, <1>b, <1>f
  <2>2. CASE c = "none"
    BY <1>b, <1>n, <2>1, <2>2
  <2>3. CASE c # "none"
    <3>1. c = baseOf /\ baseOf # "none" /\ mBytes' = AtLeastZero(Value(baseOf) - mBase)
      BY <1>b, <2>1, <2>3
    <3>2. mBytes <= Value(baseOf) - mBase
      BY <1>0, <1>a, <2>1, <3>1 DEF AmountInv
    <3> QED BY <1>n, <2>1, <3>1, <3>2 DEF AtLeastZero
  <2> QED BY <2>2, <2>3
<1>c. /\ mStatsTick' \in 0..(PersistTicks - 1) /\ unsaved' = unsaved + 1
      /\ mStatsTick' = IF mStatsTick + 1 = PersistTicks THEN 0 ELSE mStatsTick + 1
      /\ tpc' = IF mStatsTick' = 0 THEN "name" ELSE "post"
  BY <1>0, <1>a, NextTickProperties DEF Count
<1>d. /\ shown' = [p \in Profiles |-> IF p = mProfileName THEN mCumulative + mBytes'
                                      ELSE shown[p]]
      /\ shown' \in [Profiles -> Nat]
  BY <1>0, <1>e DEF TypeOK, Count
<1>1. TypeOK'
  BY <1>0, <1>a, <1>c, <1>d, <1>e DEF TypeOK, Count
<1>2. PhaseInv'
  BY <1>0, <1>a, <1>c DEF PhaseInv, Count
<1>3. AmountInv'
  <2>1. /\ mCumulative' = mCumulative /\ mBase' = mBase /\ prefs' = prefs
        /\ carried' = carried /\ mProfileName' = mProfileName /\ baseOf' = baseOf
        /\ mTunnelUp' = mTunnelUp /\ mRunning' = mRunning /\ spc' = spc
        /\ Value(baseOf)' = Value(baseOf)
    BY DEF Count, Value
  <2>2. \A q \in Profiles : shown'[q] = IF q = mProfileName THEN mCumulative + mBytes'
                                        ELSE shown[q]
    BY <1>d
  <2>3. CountsWhileUp'
    <3> SUFFICES ASSUME NEW q \in Profiles, q \notin switched'
                 PROVE  prefs[q] <= shown'[q] /\ shown'[q] <= carried[q]
      BY <2>1 DEF CountsWhileUp
    <3>1. prefs[q] <= shown[q] /\ shown[q] <= carried[q]
      BY <1>0, <1>e DEF AmountInv, CountsWhileUp
    <3>2. CASE q # mProfileName
      BY <2>2, <3>1, <3>2
    <3>3. CASE q = mProfileName
      <4>1. shown[q] = mCumulative + mBytes
        BY <1>0, <1>a, <3>3 DEF AmountInv, Counting
      <4>2. shown'[q] = mCumulative + mBytes' /\ mBytes <= mBytes'
        BY <1>f, <2>2, <3>3
      <4>3. CASE mBytes' = mBytes
        BY <1>n, <3>1, <4>1, <4>2, <4>3
      <4>4. CASE baseOf # "none" /\ mBytes' = Value(baseOf) - mBase
        <5>1. mCumulative + Value(baseOf) - mBase <= carried[q]
          BY <1>0, <1>a, <1>f, <3>3, <4>4 DEF AmountInv
        <5> QED BY <1>e, <1>n, <3>1, <4>1, <4>2, <4>4, <5>1
      <4> QED BY <1>f, <3>3, <4>3, <4>4
    <3> QED BY <3>2, <3>3
  <2>4. ASSUME baseOf # "none", mProfileName \notin switched'
        PROVE  /\ mBytes' <= Value(baseOf) - mBase
               /\ mCumulative + Value(baseOf) - mBase <= carried[mProfileName]
    <3>1. mProfileName \notin switched
      BY <1>f, <2>4
    <3>2. /\ mBytes <= Value(baseOf) - mBase
          /\ mCumulative + Value(baseOf) - mBase <= carried[mProfileName]
      BY <1>0, <1>a, <2>4, <3>1 DEF AmountInv
    <3>3. mBytes' = mBytes \/ mBytes' = Value(baseOf) - mBase
      BY <1>f, <2>4
    <3> QED BY <1>e, <1>n, <3>2, <3>3
  <2> QED BY <1>0, <1>a, <2>1, <2>2, <2>3, <2>4 DEF AmountInv, Counting
<1>4. TickInv'
  BY <1>0, <1>a, <1>c DEF TypeOK, TickInv
<1> QED BY <1>0, <1>1, <1>2, <1>3, <1>4 DEF UsageInv

\* The name that persistProfileBytes reads stays the session's.
LEMMA ReadNameCounts ==
  ASSUME UsageInv, ReadName
  PROVE  UsageInv'
<1>0. OrdinaryStops /\ TypeOK /\ PhaseInv /\ AmountInv /\ TickInv
  BY DEF UsageInv
<1>1. TypeOK'
  BY <1>0, NumberAssumption DEF TypeOK, PhaseInv, ReadName
<1>2. PhaseInv'
  BY <1>0, ProfileAssumption DEF TypeOK, PhaseInv, ReadName
<1>3. AmountInv'
  BY <1>0 DEF TypeOK, PhaseInv, AmountInv, Counting, CountsWhileUp, Value,
              ReadName
<1>4. TickInv'
  BY <1>0, NumberAssumption DEF TypeOK, TickInv, ReadName
<1> QED BY <1>0, <1>1, <1>2, <1>3, <1>4 DEF UsageInv

\* What a tick saves is what was shown.
LEMMA TickSaveCounts ==
  ASSUME UsageInv, TickSave
  PROVE  UsageInv'
<1>0. OrdinaryStops /\ TypeOK /\ PhaseInv /\ AmountInv /\ TickInv
  BY DEF UsageInv
<1>1. TypeOK'
  BY <1>0, NumberAssumption DEF TypeOK, PhaseInv, TickSave, Save
<1>2. PhaseInv'
  BY <1>0, ProfileAssumption DEF TypeOK, PhaseInv, TickSave, Save
<1>3. AmountInv'
  BY <1>0 DEF TypeOK, PhaseInv, AmountInv, Counting, CountsWhileUp, Value,
              TickSave, Save
<1>4. TickInv'
  BY <1>0 DEF TypeOK, PhaseInv, TickInv, TickSave, Save
<1> QED BY <1>0, <1>1, <1>2, <1>3, <1>4 DEF UsageInv

\* The next tick is due again.
LEMMA PostNextCounts ==
  ASSUME UsageInv, PostNext
  PROVE  UsageInv'
<1>0. OrdinaryStops /\ TypeOK /\ PhaseInv /\ AmountInv /\ TickInv
  BY DEF UsageInv
<1>1. TypeOK'
  BY <1>0, NumberAssumption DEF TypeOK, PhaseInv, PostNext
<1>2. PhaseInv'
  BY <1>0, ProfileAssumption DEF TypeOK, PhaseInv, PostNext
<1>3. AmountInv'
  BY <1>0 DEF TypeOK, PhaseInv, AmountInv, Counting, CountsWhileUp, Value,
              PostNext
<1>4. TickInv'
  BY <1>0, NumberAssumption DEF TypeOK, TickInv, PostNext
<1> QED BY <1>0, <1>1, <1>2, <1>3, <1>4 DEF UsageInv

\* A stop begins between two ticks.
LEMMA GateCounts ==
  ASSUME UsageInv, Gate
  PROVE  UsageInv'
<1>0. OrdinaryStops /\ TypeOK /\ PhaseInv /\ AmountInv /\ TickInv
  BY DEF UsageInv
<1>1. TypeOK'
  BY <1>0, NumberAssumption DEF TypeOK, PhaseInv, Gate
<1>2. PhaseInv'
  BY <1>0, ProfileAssumption DEF TypeOK, PhaseInv, Gate
<1>3. AmountInv'
  BY <1>0 DEF TypeOK, PhaseInv, AmountInv, Counting, CountsWhileUp, Value,
              Gate
<1>4. TickInv'
  BY <1>0, NumberAssumption DEF TypeOK, TickInv, Gate
<1> QED BY <1>0, <1>1, <1>2, <1>3, <1>4 DEF UsageInv

\* A stop saves what was shown, and takes the next tick away.
LEMMA StopPersistCounts ==
  ASSUME UsageInv, StopPersist
  PROVE  UsageInv'
<1>0. OrdinaryStops /\ TypeOK /\ PhaseInv /\ AmountInv /\ TickInv
  BY DEF UsageInv
<1>1. TypeOK'
  BY <1>0, NumberAssumption DEF TypeOK, PhaseInv, StopPersist, Save
<1>2. PhaseInv'
  BY <1>0, ProfileAssumption DEF TypeOK, PhaseInv, StopPersist, Save
<1>3. AmountInv'
  BY <1>0 DEF TypeOK, PhaseInv, AmountInv, Counting, CountsWhileUp, Value,
              StopPersist, Save
<1>4. TickInv'
  BY <1>0, NumberAssumption DEF TypeOK, TickInv, StopPersist, Save
<1> QED BY <1>0, <1>1, <1>2, <1>3, <1>4 DEF UsageInv

\* The interface goes away.
LEMMA StopCloseCounts ==
  ASSUME UsageInv, StopClose
  PROVE  UsageInv'
<1>0. OrdinaryStops /\ TypeOK /\ PhaseInv /\ AmountInv /\ TickInv
  BY DEF UsageInv
<1>1. TypeOK'
  BY <1>0, NumberAssumption DEF TypeOK, PhaseInv, StopClose
<1>2. PhaseInv'
  BY <1>0, ProfileAssumption DEF TypeOK, PhaseInv, StopClose
<1>3. AmountInv'
  BY <1>0 DEF TypeOK, PhaseInv, AmountInv, Counting, CountsWhileUp, Value,
              StopClose
<1>4. TickInv'
  BY <1>0, NumberAssumption DEF TypeOK, TickInv, StopClose
<1> QED BY <1>0, <1>1, <1>2, <1>3, <1>4 DEF UsageInv

\* The name is reset.
LEMMA StopResetNameCounts ==
  ASSUME UsageInv, StopResetName
  PROVE  UsageInv'
<1>0. OrdinaryStops /\ TypeOK /\ PhaseInv /\ AmountInv /\ TickInv
  BY DEF UsageInv
<1>1. TypeOK'
  BY <1>0, NumberAssumption DEF TypeOK, PhaseInv, StopResetName
<1>2. PhaseInv'
  BY <1>0, ProfileAssumption DEF TypeOK, PhaseInv, StopResetName
<1>3. AmountInv'
  BY <1>0 DEF TypeOK, PhaseInv, AmountInv, Counting, CountsWhileUp, Value,
              StopResetName
<1>4. TickInv'
  BY <1>0, NumberAssumption DEF TypeOK, TickInv, StopResetName
<1> QED BY <1>0, <1>1, <1>2, <1>3, <1>4 DEF UsageInv

\* The counters are reset.
LEMMA StopResetBytesCounts ==
  ASSUME UsageInv, StopResetBytes
  PROVE  UsageInv'
<1>0. OrdinaryStops /\ TypeOK /\ PhaseInv /\ AmountInv /\ TickInv
  BY DEF UsageInv
<1>1. TypeOK'
  BY <1>0, NumberAssumption DEF TypeOK, PhaseInv, StopResetBytes
<1>2. PhaseInv'
  BY <1>0, ProfileAssumption DEF TypeOK, PhaseInv, StopResetBytes
<1>3. AmountInv'
  BY <1>0 DEF TypeOK, PhaseInv, AmountInv, Counting, CountsWhileUp, Value,
              StopResetBytes
<1>4. TickInv'
  BY <1>0, NumberAssumption DEF TypeOK, TickInv, StopResetBytes
<1> QED BY <1>0, <1>1, <1>2, <1>3, <1>4 DEF UsageInv

\* The process is killed, and what is shown is what was saved.
LEMMA KilledCounts ==
  ASSUME UsageInv, Killed
  PROVE  UsageInv'
<1>0. OrdinaryStops /\ TypeOK /\ PhaseInv /\ AmountInv /\ TickInv
  BY DEF UsageInv
<1>1. TypeOK'
  <2>1. 0 \in 0..(PersistTicks - 1) /\ 0 \in 0..1
    BY NumberAssumption
  <2> QED BY <1>0, <2>1 DEF TypeOK, Killed
<1>2. PhaseInv'
  BY <1>0, ProfileAssumption DEF TypeOK, PhaseInv, Killed
<1>3. AmountInv'
  BY <1>0 DEF TypeOK, PhaseInv, AmountInv, Counting, CountsWhileUp, Value,
              Killed
<1>4. TickInv'
  BY <1>0, NumberAssumption DEF TypeOK, TickInv, Killed
<1> QED BY <1>0, <1>1, <1>2, <1>3, <1>4 DEF UsageInv

\* Before the first session nothing is counted.
LEMMA UsageInitial == OrdinaryStops /\ Init => UsageInv
<1> SUFFICES ASSUME OrdinaryStops, Init
             PROVE  UsageInv
  OBVIOUS
<1>1. /\ PersistTicks \in Nat \ {0} /\ UidStart \in Nat /\ MaxSessions \in Nat
      /\ 0 \in 0..(PersistTicks - 1) /\ 0 \in 0..1 /\ 0 \in 0..MaxSessions
  BY NumberAssumption
<1>2. TypeOK
  BY <1>1 DEF Init, TypeOK
<1>3. PhaseInv
  BY DEF Init, PhaseInv
<1>4. AmountInv
  BY DEF Init, AmountInv, CountsWhileUp, Counting
<1>5. TickInv
  BY DEF Init, TickInv
<1> QED BY <1>2, <1>3, <1>4, <1>5 DEF UsageInv

\* A step that leaves the counters alone.
LEMMA UsageSame ==
  ASSUME UsageInv, UNCHANGED vars
  PROVE  UsageInv'
<1>0. OrdinaryStops /\ TypeOK /\ PhaseInv /\ AmountInv /\ TickInv
  BY DEF UsageInv
<1>1. TypeOK'
  BY <1>0 DEF vars, TypeOK
<1>2. PhaseInv'
  BY <1>0 DEF vars, PhaseInv
<1>3. AmountInv'
  BY <1>0 DEF vars, AmountInv, Counting, CountsWhileUp, Value
<1>4. TickInv'
  BY <1>0 DEF vars, TickInv
<1> QED BY <1>0, <1>1, <1>2, <1>3, <1>4 DEF UsageInv

\* Every step of the main thread, the tunnel and the system.
LEMMA UsageStep ==
  ASSUME UsageInv, [Next]_vars
  PROVE  UsageInv'
BY ConnectCounts, TunnelUpCounts, TrafficCounts, UidTrafficCounts, CountCounts, ReadNameCounts,
   TickSaveCounts, PostNextCounts, GateCounts, StopPersistCounts, StopCloseCounts,
   StopResetNameCounts, StopResetBytesCounts, KilledCounts, UsageSame
   DEF Next, StatsRunnable, StopMe

\* What is saved is what was shown, which is not less than what was saved
\* unless counters were mixed.
LEMMA UsageGrows ==
  ASSUME UsageInv, [Next]_vars
  PROVE  \A p \in Profiles : prefs'[p] >= prefs[p] \/ p \in switched'
<1>0. TypeOK /\ PhaseInv /\ AmountInv
  BY DEF UsageInv
<1>1. ASSUME UNCHANGED prefs
      PROVE  \A p \in Profiles : prefs'[p] >= prefs[p] \/ p \in switched'
  BY <1>0, <1>1 DEF TypeOK
<1>2. ASSUME Counting, mProfileName \in Profiles,
             prefs' = [prefs EXCEPT ![mProfileName] = mCumulative + mBytes],
             switched' = switched
      PROVE  \A p \in Profiles : prefs'[p] >= prefs[p] \/ p \in switched'
  BY <1>0, <1>2 DEF TypeOK, AmountInv, CountsWhileUp
<1>3. CASE TickSave
  BY <1>0, <1>2, <1>3 DEF TypeOK, PhaseInv, Counting, TickSave, Save
<1>4. CASE StopPersist
  BY <1>0, <1>2, <1>4 DEF TypeOK, PhaseInv, Counting, StopPersist, Save
<1>5. CASE UNCHANGED prefs
  BY <1>1, <1>5
<1>6. TickSave \/ StopPersist \/ UNCHANGED prefs
  BY DEF Next, StatsRunnable, StopMe, Connect, TunnelUp, UpRest, Traffic, UidTraffic, Count, ReadName,
         PostNext, Gate, StopClose, StopResetName, StopResetBytes, Killed, vars
<1> QED BY <1>3, <1>4, <1>5, <1>6

-----------------------------------------------------------------------------
(* The surfaces *)

Errors == {"null", "service", "timeout", "other"}
AppFields ==
  [isRunning : BOOLEAN, isConnected : BOOLEAN, requested : BOOLEAN, pending : BOOLEAN,
   error : Errors, bound : BOOLEAN, restart : BOOLEAN, rebinding : BOOLEAN,
   rebind : {"none", "first", "refused", "retry", "watchdog"}]
BubbleFields ==
  [state : {"CONNECTING", "CONNECTED", "DISCONNECTED"}, pending : BOOLEAN,
   restart : BOOLEAN, bound : BOOLEAN, attempts : BOOLEAN, inFlight : BOOLEAN]

ServiceInv ==
  /\ svc \in Snapshots \cup {"dead"}
  /\ note \in {"none", "plain", "error", "shown"}
CommandsInv ==
  commands \in Seq({"start", "stop"}) /\ Len(commands) <= MaxCommands
ScreenInv ==
  /\ syncs \in [{"poll", "note"} -> Snapshots \cup {"dead", "none"}]
  /\ screen \in [error : Errors, busy : BOOLEAN, timer : {"off", "armed", "fired"}]

(***************************************************************************)
(* The view model's binding: a retry is due only while scheduleRebind's    *)
(* guard lets it through, or the attempt would end with nothing under way. *)
(***************************************************************************)
Binds(a) ==
  /\ a \in AppFields
  /\ a.rebind = "retry" => ~a.rebinding
  /\ ~a.bound => a.rebind # "none"
BubbleBinds(b) ==
  b \in BubbleFields /\ (b.attempts /\ ~b.bound => b.inFlight)

SurfaceInv ==
  ServiceInv /\ CommandsInv /\ ScreenInv /\ Binds(app) /\ BubbleBinds(bubble)

-----------------------------------------------------------------------------
(* The view model's functions *)

\* What does not touch the binding keeps it.
LEMMA SameBinding ==
  ASSUME NEW a, Binds(a), NEW b \in AppFields,
         b.rebind = a.rebind, b.rebinding = a.rebinding, b.bound = a.bound
  PROVE  Binds(b)
BY DEF Binds

\* clearState, cancelConnect and syncState do not.
LEMMA FlowsBind ==
  ASSUME NEW a, Binds(a)
  PROVE  /\ Binds(clearState(a))
         /\ Binds(Cancelled(a))
         /\ \A e \in Errors : Binds([a EXCEPT !.error = e])
         /\ \A s \in Snapshots \cup {"dead"} : Binds(Synced(a, s))
<1>1. a \in AppFields
  BY DEF Binds
<1>2. Binds(clearState(a))
  BY <1>1 DEF Binds, clearState, AppFields
<1>3. Binds(Cancelled(a))
  BY <1>1 DEF Binds, Cancelled, AppFields
<1>4. \A e \in Errors : Binds([a EXCEPT !.error = e])
  BY <1>1 DEF Binds, AppFields
<1>5. ASSUME NEW s \in Snapshots \cup {"dead"}
      PROVE  Binds(Synced(a, s))
  <2>1. CASE s = "dead"
    BY <1>1, <2>1 DEF Binds, Synced, clearState, AppFields, Errors
  <2>2. CASE s # "dead"
    <3> DEFINE r == IsRunning(s)
               c == s = "connected"
               q == a.requested /\ s = "stopped"
               e == IF s \in {"failing", "failed"} THEN "service" ELSE "null"
               b == [a EXCEPT !.isRunning = r, !.isConnected = c, !.requested = q,
                              !.error = e]
    <3>1. r \in BOOLEAN /\ c \in BOOLEAN /\ q \in BOOLEAN /\ e \in Errors
      BY DEF IsRunning, Errors
    <3>2. Synced(a, s) = b
      BY <2>2 DEF Synced
    <3> HIDE DEF r, c, q, e
    <3>3. b \in AppFields
      BY <1>1, <3>1 DEF AppFields
    <3>4. b.rebind = a.rebind /\ b.rebinding = a.rebinding /\ b.bound = a.bound
      BY <1>1 DEF AppFields
    <3> QED BY <3>2, <3>3, <3>4, SameBinding
  <2> QED BY <2>1, <2>2
<1> QED BY <1>2, <1>3, <1>4, <1>5

\* scheduleRebind leaves an attempt under way, if the guard was down.
LEMMA RebindBinds ==
  ASSUME NEW a \in AppFields, ~a.rebinding, NEW b \in scheduleRebind(a)
  PROVE  Binds(b)
BY DEF Binds, scheduleRebind, AppFields

\* A command is posted only while there is room.
LEMMA PostFits ==
  ASSUME CommandsInv, Room, NEW cmd \in {"start", "stop"}, Post(cmd)
  PROVE  CommandsInv'
BY SurfaceAssumption DEF CommandsInv, Room, Post

\* startVpn posts a command or does not, and does not touch the binding.
LEMMA StartBinds ==
  ASSUME CommandsInv, Room, NEW a, Binds(a), startVpn(a)
  PROVE  CommandsInv' /\ Binds(app')
<1>1. a \in AppFields
  BY DEF Binds
<1>2. \A e \in {"null", "other"} : Binds([a EXCEPT !.requested = TRUE, !.error = e])
  BY <1>1 DEF Binds, AppFields, Errors
<1>3. app' \in {[a EXCEPT !.requested = TRUE, !.error = e] : e \in {"null", "other"}}
  BY DEF startVpn
<1>4. CommandsInv'
  <2>1. CASE Post("start")
    BY <2>1, PostFits
  <2>2. CASE UNCHANGED commands
    BY <2>2 DEF CommandsInv
  <2> QED BY <2>1, <2>2 DEF startVpn
<1> QED BY <1>2, <1>3, <1>4

\* stopMe leaves a state that getState can tell.
LEMMA StopsService ==
  ASSUME ServiceInv, Stops
  PROVE  ServiceInv'
BY DEF ServiceInv, Stops, Notify, IsRunning, Snapshots

-----------------------------------------------------------------------------
(* Steps *)

\* The service's own steps, and others who start it.
LEMMA ServerSteps ==
  ASSUME SurfaceInv, Server
  PROVE  SurfaceInv'
<1>0. ServiceInv /\ CommandsInv /\ ScreenInv /\ Binds(app) /\ BubbleBinds(bubble)
  BY DEF SurfaceInv
<1>1. UNCHANGED <<app, syncs, screen, bubble>>
  BY DEF Server, ServiceServes, ServiceChanges, ServiceDies, Others, appVars
<1>2. ScreenInv' /\ Binds(app') /\ BubbleBinds(bubble')
  BY <1>0, <1>1 DEF ScreenInv, Snapshots, Errors
<1>3. CASE ServiceServes
  <2>1. CommandsInv'
    BY <1>0, <1>3, SurfaceAssumption DEF ServiceServes, CommandsInv
  <2>2. ServiceInv'
    <3>1. CASE Stops
      BY <1>0, <3>1, StopsService
    <3>2. CASE /\ svc' \in (IF svc = "stopped" THEN {"running", "stopped"} ELSE {svc})
               /\ UNCHANGED note
      BY <1>0, <3>2 DEF ServiceInv, Snapshots
    <3> QED BY <1>3, <3>1, <3>2 DEF ServiceServes
  <2> QED BY <1>2, <2>1, <2>2 DEF SurfaceInv
<1>4. CASE ServiceChanges
  <2>1. CommandsInv'
    BY <1>0, <1>4 DEF ServiceChanges, CommandsInv
  <2>2. CASE Stops
    BY <1>0, <1>2, <2>1, <2>2, StopsService DEF SurfaceInv
  <2>3. CASE ~Stops
    <3>1. ServiceInv'
      BY <1>0, <1>4, <2>3 DEF ServiceChanges, ServiceInv, Notify, Snapshots
    <3> QED BY <1>2, <2>1, <3>1 DEF SurfaceInv
  <2> QED BY <2>2, <2>3
<1>5. CASE ServiceDies
  BY <1>0, <1>2, <1>5 DEF ServiceDies, ServiceInv, CommandsInv, Snapshots, SurfaceInv
<1>6. CASE Others
  <2>1. ServiceInv'
    BY <1>0, <1>6 DEF Others, ServiceInv, Snapshots
  <2>2. CommandsInv'
    <3>1. CASE Room /\ Post("start")
      BY <1>0, <3>1, PostFits
    <3>2. CASE UNCHANGED commands
      BY <1>0, <3>2 DEF CommandsInv
    <3> QED BY <1>6, <3>1, <3>2 DEF Others
  <2> QED BY <1>2, <2>1, <2>2 DEF SurfaceInv
<1> QED BY <1>3, <1>4, <1>5, <1>6 DEF Server

\* The view model takes over what the service tells.
LEMMA SyncSteps ==
  ASSUME SurfaceInv, AppSyncs
  PROVE  SurfaceInv'
<1>0. ServiceInv /\ CommandsInv /\ ScreenInv /\ Binds(app) /\ BubbleBinds(bubble)
  BY DEF SurfaceInv
<1>1. UNCHANGED <<svc, commands, screen, bubble>>
  BY DEF AppSyncs, PollRead, PollWrite, StateReceiver, NoteWrite, serverVars
<1>2. CommandsInv' /\ BubbleBinds(bubble') /\ svc' \in Snapshots \cup {"dead"}
  BY <1>0, <1>1 DEF CommandsInv, ServiceInv
<1>3. note' \in {"none", "plain", "error", "shown"}
  BY <1>0 DEF AppSyncs, PollRead, PollWrite, StateReceiver, NoteWrite, serverVars, ServiceInv
<1>4. \A w \in {"poll", "note"} : syncs[w] # "none" => syncs[w] \in Snapshots \cup {"dead"}
  BY <1>0 DEF ScreenInv
<1>5. \A w \in {"poll", "note"}, s \in Snapshots \cup {"dead", "none"} :
        [syncs EXCEPT ![w] = s] \in [{"poll", "note"} -> Snapshots \cup {"dead", "none"}]
  BY <1>0 DEF ScreenInv
<1>6. ScreenInv'
  <2>1. syncs' = syncs \/ \E w \in {"poll", "note"}, s \in Snapshots \cup {"dead", "none"} :
                            syncs' = [syncs EXCEPT ![w] = s]
    BY <1>0 DEF AppSyncs, PollRead, PollWrite, StateReceiver, NoteWrite, ServiceInv
  <2> QED BY <1>0, <1>1, <1>5, <2>1 DEF ScreenInv, Snapshots, Errors
<1>7. Binds(app')
  <2>1. CASE PollRead
    BY <1>0, <2>1, FlowsBind DEF PollRead, Becomes
  <2>2. CASE PollWrite
    BY <1>0, <1>4, <2>2, FlowsBind DEF PollWrite, Becomes
  <2>3. CASE StateReceiver
    <3>1. (IF note = "error" THEN "service" ELSE app.error) \in Errors
      BY <1>0 DEF Binds, AppFields, Errors
    <3> QED BY <1>0, <2>3, <3>1, FlowsBind DEF StateReceiver, Becomes
  <2>4. CASE NoteWrite
    <3>1. Binds(Synced(app, syncs["note"]))
      BY <1>0, <1>4, <2>4, FlowsBind DEF NoteWrite
    <3>2. Binds([Synced(app, syncs["note"]) EXCEPT !.error = "service"])
      BY <3>1, FlowsBind DEF Errors
    <3> QED BY <2>4, <3>1, <3>2 DEF NoteWrite, Becomes
  <2> QED BY <2>1, <2>2, <2>3, <2>4 DEF AppSyncs
<1> QED BY <1>2, <1>3, <1>6, <1>7 DEF SurfaceInv, ServiceInv, Snapshots

\* The view model loses the service and binds again.
LEMMA BindSteps ==
  ASSUME SurfaceInv, AppBinds
  PROVE  SurfaceInv'
<1>0. ServiceInv /\ CommandsInv /\ ScreenInv /\ Binds(app) /\ BubbleBinds(bubble)
  BY DEF SurfaceInv
<1>1. UNCHANGED <<svc, commands, note, screen, bubble>>
  BY DEF AppBinds, onServiceDisconnected, onServiceConnected, RebindRunnable, serverVars
<1>2. ServiceInv' /\ CommandsInv' /\ BubbleBinds(bubble')
  BY <1>0, <1>1 DEF CommandsInv, ServiceInv, Snapshots
<1>3. app \in AppFields
  BY <1>0 DEF Binds
<1>4. CASE onServiceDisconnected
  <2>1. LET a == [app EXCEPT !.bound = FALSE, !.rebinding = FALSE]
        IN  a \in AppFields /\ ~a.rebinding
    BY <1>3 DEF AppFields
  <2>2. Binds(app')
    BY <1>4, <2>1, RebindBinds DEF onServiceDisconnected
  <2>3. ScreenInv'
    BY <1>0, <1>1, <1>4 DEF onServiceDisconnected, ScreenInv, Snapshots, Errors
  <2> QED BY <1>2, <2>2, <2>3 DEF SurfaceInv
<1>5. CASE onServiceConnected
  <2>1. Binds(app')
    BY <1>3, <1>5 DEF onServiceConnected, Binds, AppFields
  <2>2. ScreenInv'
    BY <1>0, <1>1, <1>5 DEF onServiceConnected, ScreenInv, ServiceInv, Snapshots, Errors
  <2> QED BY <1>2, <2>1, <2>2 DEF SurfaceInv
<1>6. CASE RebindRunnable
  <2> DEFINE a == [app EXCEPT !.rebind = "none"]
  <2>1. a \in AppFields /\ a.bound = app.bound /\ a.rebinding = app.rebinding
        /\ a.rebind = "none"
    BY <1>3 DEF AppFields
  <2>2. CASE app.rebind = "watchdog" /\ app.bound
    <3>1. app' = a
      BY <1>6, <2>1, <2>2 DEF RebindRunnable
    <3>2. Binds(app')
      BY <2>1, <2>2, <3>1 DEF Binds
    <3> QED BY <1>0, <1>1, <1>2, <1>6, <3>2 DEF RebindRunnable, SurfaceInv, ScreenInv,
                                                Snapshots, Errors
  <2>3. CASE app.rebind = "watchdog" /\ ~app.bound
    <3>1. LET b == [a EXCEPT !.rebinding = FALSE] IN b \in AppFields /\ ~b.rebinding
      BY <2>1 DEF AppFields
    <3>2. app' \in scheduleRebind([a EXCEPT !.rebinding = FALSE])
      BY <1>6, <2>1, <2>3 DEF RebindRunnable
    <3>3. Binds(app')
      BY <3>1, <3>2, RebindBinds
    <3> QED BY <1>0, <1>1, <1>2, <1>6, <3>3 DEF RebindRunnable, SurfaceInv, ScreenInv,
                                                Snapshots, Errors
  <2>4. CASE app.rebind = "retry"
    <3>1. ~a.rebinding
      BY <1>0, <2>1, <2>4 DEF Binds
    <3>2. app' \in scheduleRebind(a)
      BY <1>6, <2>1, <2>4 DEF RebindRunnable
    <3>3. Binds(app')
      BY <2>1, <3>1, <3>2, RebindBinds
    <3> QED BY <1>0, <1>1, <1>2, <1>6, <3>3 DEF RebindRunnable, SurfaceInv, ScreenInv,
                                                Snapshots, Errors
  <2> QED BY <1>6, <2>2, <2>3, <2>4 DEF RebindRunnable
<1> QED BY <1>4, <1>5, <1>6 DEF AppBinds

\* The status screen: frames, the connect time-out and what the user taps.
LEMMA ScreenSteps ==
  ASSUME SurfaceInv, AppScreen
  PROVE  SurfaceInv'
<1>0. ServiceInv /\ CommandsInv /\ ScreenInv /\ Binds(app) /\ BubbleBinds(bubble)
  BY DEF SurfaceInv
<1>1. app \in AppFields /\ app.error \in Errors
  BY <1>0 DEF Binds, AppFields
<1>2. UNCHANGED <<syncs, bubble>>
  BY DEF AppScreen, Compose, ConnectTimeout, TapConnect, PermissionResult, TapStop,
         TapRestart, RestartVpn
<1>3. BubbleBinds(bubble') /\ (UNCHANGED screen => ScreenInv')
  BY <1>0, <1>2 DEF ScreenInv, Snapshots, Errors
<1>4. UNCHANGED <<svc, note>> => ServiceInv'
  BY <1>0 DEF ServiceInv, Snapshots
<1>5. UNCHANGED commands => CommandsInv'
  BY <1>0 DEF CommandsInv
<1>6. CASE Compose
  <2>1. UNCHANGED <<svc, note>> /\ UNCHANGED commands
    BY <1>6 DEF Compose, serverVars
  <2>2. Binds(app')
    BY <1>0, <1>6, FlowsBind DEF Compose
  <2> DEFINE t == IF ~IsConnecting(app) THEN "off"
                  ELSE IF screen.timer = "off" THEN "armed" ELSE screen.timer
  <2>3. t \in {"off", "armed", "fired"} /\ Busy \in BOOLEAN
    BY <1>0 DEF ScreenInv, Busy
  <2>4. screen' = [error |-> app.error, busy |-> Busy, timer |-> t]
    BY <1>6 DEF Compose
  <2> HIDE DEF t
  <2>5. ScreenInv'
    BY <1>0, <1>1, <1>2, <2>3, <2>4 DEF ScreenInv, Snapshots, Errors
  <2> QED BY <1>3, <1>4, <1>5, <2>1, <2>2, <2>5 DEF SurfaceInv
<1>7. CASE ConnectTimeout
  <2>1. UNCHANGED <<svc, note>> /\ UNCHANGED commands
    BY <1>7 DEF ConnectTimeout, serverVars
  <2>2. Binds(app')
    <3>1. app' \in {app, [app EXCEPT !.error = "timeout"]}
      BY <1>7 DEF ConnectTimeout, Becomes
    <3> QED BY <1>0, <3>1, FlowsBind DEF Errors
  <2>3. ScreenInv'
    BY <1>0, <1>2, <1>7 DEF ConnectTimeout, ScreenInv, Snapshots, Errors
  <2> QED BY <1>3, <1>4, <1>5, <2>1, <2>2, <2>3 DEF SurfaceInv
<1>8. CASE TapConnect
  <2>1. UNCHANGED <<svc, note>> /\ UNCHANGED screen /\ Room
    BY <1>8 DEF TapConnect
  <2>2. CASE granted
    <3>1. CommandsInv' /\ Binds(app')
      BY <1>0, <1>8, <2>1, <2>2, StartBinds DEF TapConnect
    <3> QED BY <1>3, <1>4, <2>1, <3>1 DEF SurfaceInv
  <2>3. CASE ~granted
    <3>1. /\ app' = [app EXCEPT !.requested = TRUE, !.pending = TRUE, !.error = "null"]
          /\ UNCHANGED commands
      BY <1>8, <2>3 DEF TapConnect, Becomes
    <3>2. Binds(app')
      BY <1>0, <1>1, <3>1 DEF Binds, AppFields, Errors
    <3> QED BY <1>3, <1>4, <1>5, <2>1, <3>1, <3>2 DEF SurfaceInv
  <2> QED BY <2>2, <2>3
<1>9. CASE PermissionResult
  <2>1. UNCHANGED <<svc, note>> /\ UNCHANGED screen /\ Room
    BY <1>9 DEF PermissionResult
  <2>2. CASE granted
    <3>1. Binds([app EXCEPT !.pending = FALSE])
      BY <1>0, <1>1 DEF Binds, AppFields
    <3>2. CommandsInv' /\ Binds(app')
      BY <1>0, <1>9, <2>1, <2>2, <3>1, StartBinds DEF PermissionResult
    <3> QED BY <1>3, <1>4, <2>1, <3>2 DEF SurfaceInv
  <2>3. CASE ~granted
    <3>1. Binds(app') /\ UNCHANGED commands
      BY <1>0, <1>9, <2>3, FlowsBind DEF PermissionResult
    <3> QED BY <1>3, <1>4, <1>5, <2>1, <3>1 DEF SurfaceInv
  <2> QED BY <2>2, <2>3
<1>10. CASE TapStop
  <2>1. UNCHANGED screen /\ Room /\ Post("stop")
    BY <1>10 DEF TapStop, StopService
  <2>2. CommandsInv'
    BY <1>0, <2>1, PostFits
  <2>3. ServiceInv'
    BY <1>0, <1>4, <1>10, StopsService DEF TapStop, StopService
  <2>4. Binds(app')
    <3> DEFINE e == IF ~app.bound THEN Cancelled(app).error
                    ELSE IF svc = "dead" THEN "other" ELSE "null"
    <3>1. Binds(Cancelled(app))
      BY <1>0, FlowsBind
    <3>2. e \in Errors
      BY <3>1 DEF Binds, AppFields, Errors
    <3>3. app' = [Cancelled(app) EXCEPT !.error = e]
      BY <1>10 DEF TapStop, Becomes
    <3> HIDE DEF e
    <3> QED BY <3>1, <3>2, <3>3, FlowsBind
  <2> QED BY <1>3, <2>1, <2>2, <2>3, <2>4 DEF SurfaceInv
<1>11. CASE TapRestart
  <2>1. UNCHANGED screen /\ UNCHANGED commands /\ app' = [app EXCEPT !.restart = TRUE]
    BY <1>11 DEF TapRestart
  <2>2. ServiceInv'
    BY <1>0, <1>4, <1>11, StopsService DEF TapRestart
  <2>3. Binds(app')
    BY <1>0, <1>1, <2>1 DEF Binds, AppFields
  <2> QED BY <1>3, <1>5, <2>1, <2>2, <2>3 DEF SurfaceInv
<1>12. CASE RestartVpn
  <2>1. UNCHANGED <<svc, note>> /\ UNCHANGED screen /\ Room
    BY <1>12 DEF RestartVpn
  <2>2. Binds([app EXCEPT !.restart = FALSE])
    BY <1>0, <1>1 DEF Binds, AppFields
  <2>3. CommandsInv' /\ Binds(app')
    BY <1>0, <1>12, <2>1, <2>2, StartBinds DEF RestartVpn
  <2> QED BY <1>3, <1>4, <2>1, <2>3 DEF SurfaceInv
<1> QED BY <1>6, <1>7, <1>8, <1>9, <1>10, <1>11, <1>12 DEF AppScreen

\* The bubble's scheduleRebind leaves an attempt in flight.
LEMMA RebindingFlies ==
  ASSUME NEW b \in BubbleFields
  PROVE  /\ Rebinding(b) \in BubbleFields /\ Rebinding(b).inFlight
         /\ Rebinding(b).bound = b.bound /\ Rebinding(b).state = b.state
BY DEF Rebinding, BubbleFields

\* doStart and startVpn do not touch the bubble's binding.
LEMMA BubbleStartsBind ==
  ASSUME CommandsInv, NEW b, BubbleBinds(b), doStart(b) \/ BubbleStarts(b)
  PROVE  CommandsInv' /\ BubbleBinds(bubble')
<1>1. b \in BubbleFields
  BY DEF BubbleBinds
<1>2. UNCHANGED commands => CommandsInv'
  BY DEF CommandsInv
<1>3. Room /\ Post("start") => CommandsInv'
  BY PostFits
<1>4. \A p \in BOOLEAN, s \in {"CONNECTING", "DISCONNECTED"} :
        BubbleBinds([b EXCEPT !.pending = p, !.state = s])
  BY <1>1 DEF BubbleBinds, BubbleFields
<1>5. \/ bubble' = b
      \/ \E p \in BOOLEAN, s \in {"CONNECTING", "DISCONNECTED"} :
           bubble' = [b EXCEPT !.pending = p, !.state = s]
  BY DEF doStart, BubbleStarts
<1>6. (Room /\ Post("start")) \/ UNCHANGED commands
  BY DEF doStart, BubbleStarts
<1> QED BY <1>2, <1>3, <1>4, <1>5, <1>6

\* The bubble's steps.
LEMMA BubbleSteps ==
  ASSUME SurfaceInv, BubbleNext
  PROVE  SurfaceInv'
<1>0. ServiceInv /\ CommandsInv /\ ScreenInv /\ Binds(app) /\ BubbleBinds(bubble)
  BY DEF SurfaceInv
<1>1. bubble \in BubbleFields
  BY <1>0 DEF BubbleBinds
<1>2. UNCHANGED appVars
  BY DEF BubbleNext, pollState, BubbleDisconnected, BubbleConnected, BubbleRebinds,
         BubbleTimeout, BubbleTap, BubbleRestarts
<1>3. ScreenInv' /\ Binds(app')
  BY <1>0, <1>2 DEF appVars, ScreenInv, Snapshots, Errors
<1>4. UNCHANGED <<svc, note>> => ServiceInv'
  BY <1>0 DEF ServiceInv, Snapshots
<1>5. UNCHANGED commands => CommandsInv'
  BY <1>0 DEF CommandsInv
<1>6. CASE pollState
  <2>1. ServiceInv'
    BY <1>0, <1>6 DEF pollState, ServiceInv, Snapshots
  <2>2. CASE bubble.pending /\ granted
    BY <1>0, <1>3, <1>6, <2>1, <2>2, BubbleStartsBind DEF pollState, SurfaceInv
  <2>3. CASE ~(bubble.pending /\ granted)
    <3>1. UNCHANGED commands
      BY <1>6, <2>3 DEF pollState
    <3>2. CASE ~bubble.bound
      <4>1. bubble' = IF bubble.attempts THEN bubble ELSE Rebinding(bubble)
        BY <1>6, <2>3, <3>2 DEF pollState
      <4> QED BY <1>0, <1>1, <1>3, <1>5, <2>1, <3>1, <4>1, RebindingFlies
              DEF SurfaceInv, BubbleBinds
    <3>3. CASE bubble.bound /\ svc = "dead"
      <4> DEFINE r == Rebinding(bubble)
                 d == IF r.state = "CONNECTED" THEN "DISCONNECTED" ELSE r.state
      <4>1. bubble' = [r EXCEPT !.bound = FALSE, !.state = d]
        BY <1>6, <2>3, <3>3 DEF pollState
      <4>2. r \in BubbleFields /\ r.inFlight
        BY <1>1, RebindingFlies
      <4> HIDE DEF r
      <4>3. d \in {"CONNECTING", "CONNECTED", "DISCONNECTED"}
        BY <4>2 DEF BubbleFields
      <4> HIDE DEF d
      <4>4. BubbleBinds(bubble')
        BY <4>1, <4>2, <4>3 DEF BubbleBinds, BubbleFields
      <4> QED BY <1>3, <1>5, <2>1, <3>1, <4>4 DEF SurfaceInv
    <3>4. CASE bubble.bound /\ svc # "dead"
      <4>1. \E d \in {"CONNECTING", "CONNECTED", "DISCONNECTED"} :
              bubble' = [bubble EXCEPT !.state = d]
        <5>1. bubble' = Polled(bubble, svc)
          BY <1>6, <2>3, <3>4 DEF pollState
        <5>2. bubble.state \in {"CONNECTING", "CONNECTED", "DISCONNECTED"}
          BY <1>1 DEF BubbleFields
        <5> QED BY <5>1, <5>2 DEF Polled
      <4>2. BubbleBinds(bubble')
        BY <1>0, <1>1, <4>1 DEF BubbleBinds, BubbleFields
      <4> QED BY <1>3, <1>5, <2>1, <3>1, <4>2 DEF SurfaceInv
    <3> QED BY <3>2, <3>3, <3>4
  <2> QED BY <2>2, <2>3
<1>7. CASE BubbleDisconnected \/ BubbleConnected \/ BubbleRebinds \/ BubbleTimeout
  <2>1. UNCHANGED <<svc, note>> /\ UNCHANGED commands
    BY <1>7 DEF BubbleDisconnected, BubbleConnected, BubbleRebinds, BubbleTimeout, serverVars
  <2>2. CASE BubbleDisconnected
    <3>1. Rebinding(bubble) \in BubbleFields /\ Rebinding(bubble).inFlight
      BY <1>1, RebindingFlies
    <3>2. BubbleBinds(bubble')
      BY <2>2, <3>1 DEF BubbleDisconnected, BubbleBinds, BubbleFields
    <3> QED BY <1>3, <1>4, <1>5, <2>1, <3>2 DEF SurfaceInv
  <2>3. CASE BubbleConnected
    <3>1. BubbleBinds(bubble')
      BY <1>1, <2>3 DEF BubbleConnected, BubbleBinds, BubbleFields
    <3> QED BY <1>3, <1>4, <1>5, <2>1, <3>1 DEF SurfaceInv
  <2>4. CASE BubbleRebinds
    <3>1. [bubble EXCEPT !.inFlight = FALSE] \in BubbleFields
      BY <1>1 DEF BubbleFields
    <3>2. CASE bubble.bound
      BY <1>1, <1>3, <1>4, <1>5, <2>1, <2>4, <3>2
         DEF BubbleRebinds, BubbleBinds, BubbleFields, SurfaceInv
    <3>3. CASE ~bubble.bound
      <4>1. bubble' \in BubbleFields /\ bubble'.inFlight
        BY <2>4, <3>1, <3>3, RebindingFlies DEF BubbleRebinds
      <4> QED BY <1>3, <1>4, <1>5, <2>1, <4>1 DEF BubbleBinds, SurfaceInv
    <3> QED BY <3>2, <3>3
  <2>5. CASE BubbleTimeout
    <3>1. BubbleBinds(bubble')
      BY <1>0, <1>1, <2>5 DEF BubbleTimeout, BubbleBinds, BubbleFields
    <3> QED BY <1>3, <1>4, <1>5, <2>1, <3>1 DEF SurfaceInv
  <2> QED BY <1>7, <2>2, <2>3, <2>4, <2>5
<1>8. CASE BubbleTap
  <2>1. CASE BubbleStarts(bubble) /\ UNCHANGED <<svc, note>>
    BY <1>0, <1>3, <1>4, <2>1, BubbleStartsBind DEF SurfaceInv
  <2>2. CASE /\ Room /\ StopService(bubble.bound /\ svc # "dead")
             /\ \E again \in {FALSE, bubble.state = "CONNECTED"} :
                  bubble' = [bubble EXCEPT !.pending = FALSE,
                                           !.restart = bubble.restart \/ again,
                                           !.state = "DISCONNECTED"]
    <3>1. CommandsInv'
      BY <1>0, <2>2, PostFits DEF StopService
    <3>2. ServiceInv'
      BY <1>0, <1>4, <2>2, StopsService DEF StopService
    <3>3. \E r \in BOOLEAN : bubble' = [bubble EXCEPT !.pending = FALSE, !.restart = r,
                                                      !.state = "DISCONNECTED"]
      BY <2>2
    <3>4. BubbleBinds(bubble')
      BY <1>0, <1>1, <3>3 DEF BubbleBinds, BubbleFields
    <3> QED BY <1>3, <3>1, <3>2, <3>4 DEF SurfaceInv
  <2> QED BY <1>8, <2>1, <2>2 DEF BubbleTap
<1>9. CASE BubbleRestarts
  <2>1. BubbleBinds([bubble EXCEPT !.restart = FALSE])
    BY <1>0, <1>1 DEF BubbleBinds, BubbleFields
  <2> QED BY <1>0, <1>3, <1>4, <1>9, <2>1, BubbleStartsBind DEF BubbleRestarts, SurfaceInv
<1> QED BY <1>6, <1>7, <1>8, <1>9 DEF BubbleNext

\* A step that leaves the surfaces alone.
LEMMA SurfaceSame ==
  ASSUME SurfaceInv, UNCHANGED surfaceVars
  PROVE  SurfaceInv'
BY DEF SurfaceInv, surfaceVars, serverVars, appVars, ServiceInv, CommandsInv, ScreenInv,
       Snapshots, Errors

\* Every step of a surface or of the service keeps the invariant.
LEMMA SurfaceStep ==
  ASSUME SurfaceInv, SurfacesNext
  PROVE  SurfaceInv'
BY ServerSteps, SyncSteps, BindSteps, ScreenSteps, BubbleSteps DEF SurfacesNext

\* A surface that has just been made waits for its first binding.
LEMMA SurfaceInitial ==
  ASSUME NEW s \in {"none", "app", "bubble"}, SurfacesFrom(s)
  PROVE  SurfaceInv
<1>1. ServiceInv
  BY DEF SurfacesFrom, ServiceInv, Snapshots
<1>2. CommandsInv
  BY SurfaceAssumption DEF SurfacesFrom, CommandsInv
<1>3. ScreenInv
  BY DEF SurfacesFrom, ScreenInv, Errors
<1>4. Binds(app)
  BY DEF SurfacesFrom, Binds, AppFields, Errors
<1>5. BubbleBinds(bubble)
  BY DEF SurfacesFrom, BubbleBinds, BubbleFields
<1> QED BY <1>1, <1>2, <1>3, <1>4, <1>5 DEF SurfaceInv

-----------------------------------------------------------------------------
(* Theorems *)

\* The invariants of the composition: the counters' and the surfaces'.
LEMMA SurfaceInvariant == ShownSpec => []SurfaceInv
<1>1. ShownInit => SurfaceInv
  BY SurfaceInitial DEF ShownInit
<1>2. SurfaceInv /\ [ShownNext]_shownVars => SurfaceInv'
  BY SurfaceStep, SurfaceSame DEF ShownNext, shownVars
<1> QED BY <1>1, <1>2, PTL DEF ShownSpec

\* The counters' invariant holds in the composition ...
LEMMA ShownUsageInvariant == OrdinaryStops /\ ShownSpec => []UsageInv
<1>1. OrdinaryStops /\ ShownInit => UsageInv
  BY UsageInitial DEF ShownInit
<1>2. UsageInv /\ [ShownNext]_shownVars => UsageInv'
  BY UsageStep, UsageSame DEF ShownNext, shownVars
<1> QED BY <1>1, <1>2, PTL DEF ShownSpec

\* ... and in the service alone.
LEMMA UsageInvariant == OrdinaryStops /\ Spec => []UsageInv
BY UsageInitial, UsageStep, PTL DEF Spec

\* The counters and what the surfaces keep have the values the code gives them;
\* one run of mStatsRunnable is due at a time.
THEOREM ShownTypeCorrect == OrdinaryStops /\ ShownSpec => []ShownTypeOK
<1>1. UsageInv /\ SurfaceInv => ShownTypeOK
  <2> SUFFICES ASSUME UsageInv, SurfaceInv
               PROVE  ShownTypeOK
    OBVIOUS
  <2>1. TypeOK
    BY DEF UsageInv
  <2>2. SurfacesTypeOK
    BY DEF SurfaceInv, ServiceInv, CommandsInv, ScreenInv, Binds, BubbleBinds, AppFields,
           BubbleFields, Errors, SurfacesTypeOK
  <2> QED BY <2>1, <2>2 DEF ShownTypeOK
<1> QED BY <1>1, SurfaceInvariant, ShownUsageInvariant, PTL

\* When a session has been stopped, the preferences hold the totals last shown.
THEOREM StopSavesCorrect == OrdinaryStops /\ ShownSpec => []StoppedIsSaved
<1>1. UsageInv => StoppedIsSaved
  <2> SUFFICES ASSUME UsageInv, ~mRunning, spc = "out", tpc = "idle"
               PROVE  prefs = shown
    BY DEF StoppedIsSaved
  <2>1. \A q \in Profiles : prefs[q] = shown[q]
    BY DEF UsageInv, PhaseInv, AmountInv, Counting
  <2> QED BY <2>1 DEF UsageInv, TypeOK
<1> QED BY <1>1, ShownUsageInvariant, PTL

\* mStatsRunnable and stopMe count nothing twice, for another profile or from
\* outside a session's tunnel: no total exceeds what its sessions' counters
\* (the tun interface's, or the UID's, which every transfer of the app moves)
\* advanced by while they were up, for any readings that fail and any kills,
\* as long as no session has read two different counters.
THEOREM UsageCorrect == OrdinaryStops /\ ShownSpec => []CountsWhileUp
<1>1. UsageInv => CountsWhileUp
  BY DEF UsageInv, AmountInv
<1> QED BY <1>1, ShownUsageInvariant, PTL

\* Between two ticks fewer than USAGE_PERSIST_TICKS counts are unsaved.
THEOREM KillLossCorrect == OrdinaryStops /\ ShownSpec => []KillLosesLittle
<1>1. UsageInv => KillLosesLittle
  BY NumberAssumption DEF UsageInv, TypeOK, TickInv, KillLosesLittle
<1> QED BY <1>1, ShownUsageInvariant, PTL

\* persistProfileBytes never overwrites a total by a smaller one, unless a
\* connect is cancelled, a binder thread stops the session, or a session mixes
\* two counters.
THEOREM UsageGrowsCorrect == OrdinaryStops /\ Spec => UsageNeverShrinks
<1>1. UsageInv /\ [Next]_vars
        => [\A p \in Profiles : prefs'[p] >= prefs[p] \/ p \in switched']_vars
  BY UsageGrows
<1> QED BY <1>1, UsageInvariant, PTL DEF Spec, UsageNeverShrinks

\* A surface that has lost the service has an attempt to bind again under way,
\* and a view model stays without one only after a refused first bindService.
THEOREM RebindCorrect == ShownSpec => []RebindPending
<1>1. SurfaceInv => RebindPending
  BY DEF SurfaceInv, Binds, BubbleBinds, RebindPending
<1> QED BY <1>1, SurfaceInvariant, PTL
=============================================================================
