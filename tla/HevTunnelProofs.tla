--------------------------- MODULE HevTunnelProofs ---------------------------
(***************************************************************************)
(* The stop handshake and the tasks of the hev engine, for any number of   *)
(* calling threads, sessions and workers: a stop writes only to an event   *)
(* pair that is open, no stopped task is woken, and the timer runs while   *)
(* there are sessions.                                                     *)
(***************************************************************************)
EXTENDS HevTunnel, TLAPS

-----------------------------------------------------------------------------
(***************************************************************************)
(* The handshake.  One caller at a time is past the mutex.  SYNC_SEND says *)
(* that the worker is between its init and its fini, with an open pair; a  *)
(* stop that has seen it holds SYNC_WAIT, which keeps the worker in fini.  *)
(* The pair is empty until the holder of the mutex writes to it, and again *)
(* when a worker is joined.                                                *)
(***************************************************************************)
Up == {"run", "sched", "fini"}

MutexInv ==
  /\ \A c \in Callers : pc[c] # "idle" => mutex = c
  /\ \A c \in Callers : pc[c] \in {"start", "reap"} => starts < MaxStarts

PairInv ==
  /\ worker # "none" => thread_joinable
  /\ worker \in {"none", "config", "init", "exit", "dead"} => pair = "closed"
  /\ "SEND" \in tsync => worker \in Up /\ pair = "open"

WriteInv ==
  /\ \A c \in Callers : pc[c] \in {"sent", "write"} =>
       "WAIT" \in tsync /\ worker \in Up /\ pair = "open"
  /\ \A c \in Callers : pc[c] \notin {"idle", "unwait", "join"} => bytes = 0
  /\ mutex = None => bytes = 0

(***************************************************************************)
(* The tasks.  While run is set the timer has not stopped, and a session   *)
(* in the list has not either: it leaves the list as its task ends.        *)
(***************************************************************************)
TaskInv ==
  /\ run => worker = "sched" /\ task["timer"] # "stopped"
  /\ \A s \in live : task[s] # "stopped"

TunnelInv ==
  /\ TunnelTypeOK /\ MutexInv /\ PairInv /\ WriteInv
  /\ TaskInv /\ NoWakeAborts /\ TimerServesSessions

CallerPlaces == {"idle", "start", "reap", "stop", "quit", "sent", "write",
                 "latch", "unwait", "join"}

TaskStates == {"ready", "wait", "sleep", "spin", "stopped"}

\* The fixed tasks are no sessions.
LEMMA FixedTasks ==
  /\ "event" \in Tasks /\ "io" \in Tasks /\ "timer" \in Tasks
  /\ "event" \notin Sessions /\ "io" \notin Sessions /\ "timer" \notin Sessions
  /\ Sessions \subseteq Tasks
BY HevAssumption DEF Tasks, Fixed

\* hev_task_join wakes only a task that has not stopped, and stops none but
\* the event task itself.
LEMMA JoinFacts ==
  ASSUME NEW t \in {"io", "timer"}, NEW f \in [Tasks -> TaskStates]
  PROVE  /\ JoinNext(t, f).to \in {"io", "timer", None}
         /\ JoinNext(t, f).task \in [Tasks -> TaskStates]
         /\ \A u \in JoinNext(t, f).wakes : u \in {"io", "timer"} /\ f[u] # "stopped"
         /\ \A u \in Tasks \ {"event"} :
              JoinNext(t, f).task[u] = "stopped" <=> f[u] = "stopped"
<1>. DEFINE left == {u \in {t, "timer"} : f[u] # "stopped"}
            v    == IF t \in left THEN t ELSE "timer"
            g    == [f EXCEPT !["event"] = "wait"]
<1>1. CASE left = {}
  <2>1. /\ JoinNext(t, f).to = None /\ JoinNext(t, f).wakes = {}
        /\ JoinNext(t, f).task = [f EXCEPT !["event"] = "stopped"]
    BY <1>1 DEF JoinNext
  <2>. QED BY <2>1, FixedTasks DEF TaskStates
<1>2. CASE left # {}
  <2>1. /\ JoinNext(t, f).to = v /\ JoinNext(t, f).wakes = {v}
        /\ JoinNext(t, f).task = [w \in Tasks |-> IF w \in {v} THEN "ready" ELSE g[w]]
    BY <1>2 DEF JoinNext, Woken
  <2>2. v \in {"io", "timer"} /\ f[v] # "stopped"
    BY <1>2
  <2>3. g \in [Tasks -> TaskStates]
        /\ \A w \in Tasks \ {"event"} : g[w] = f[w]
    BY FixedTasks DEF TaskStates
  <2>. HIDE DEF v, g
  <2>4. JoinNext(t, f).task \in [Tasks -> TaskStates]
    BY <2>1, <2>3 DEF TaskStates
  <2>5. \A u \in Tasks \ {"event"} :
          JoinNext(t, f).task[u] = "stopped" <=> f[u] = "stopped"
    BY <2>1, <2>2, <2>3
  <2>. QED BY <2>1, <2>2, <2>4, <2>5
<1>. QED BY <1>1, <1>2

\* The engine starts with the invariant.
LEMMA TunnelInvInit == TunnelInit => TunnelInv
<1>. SUFFICES ASSUME TunnelInit PROVE TunnelInv OBVIOUS
<1>. USE DEF TunnelInit
<1>1. TunnelTypeOK
  <2>1. task \in [Tasks -> TaskStates] BY DEF TaskStates
  <2>2. starts \in 0..MaxStarts /\ bytes \in 0..1 BY HevAssumption
  <2>3. pc \in [Callers -> {"idle"}] OBVIOUS
  <2>. QED BY <2>1, <2>2, <2>3 DEF TunnelTypeOK, TaskStates
<1>2. MutexInv /\ PairInv /\ WriteInv BY DEF MutexInv, PairInv, WriteInv
<1>3. TaskInv /\ NoWakeAborts /\ TimerServesSessions
  BY DEF TaskInv, NoWakeAborts, TimerServesSessions
<1>. QED BY <1>1, <1>2, <1>3 DEF TunnelInv

-----------------------------------------------------------------------------
(* The callers *)

\* A step of a caller leaves the tasks alone; what the worker is may matter
\* to them only where it is scheduled.
LEMMA CallersLeaveTasks ==
  ASSUME TunnelInv, UNCHANGED taskVars, worker = "sched" => worker' = "sched"
  PROVE  TaskInv' /\ NoWakeAborts' /\ TimerServesSessions'
BY DEF TunnelInv, TaskInv, NoWakeAborts, TimerServesSessions, taskVars

\* Every step of a caller keeps the invariant: it holds the mutex, so nobody
\* else is past it, and it writes or goes on only as the handshake allows.
LEMMA CallerStep ==
  ASSUME TunnelInv, NEW c \in Callers, Lock(c) \/ Caller(c)
  PROVE  TunnelInv'
<1>. USE HevAssumption DEF TunnelInv, syncVars, jniVars, Goto, Return, Up
<1>0. pc[c] # "idle" => mutex = c /\ \A d \in Callers \ {c} : pc[d] = "idle"
  BY DEF MutexInv, TunnelTypeOK
<1>1. CASE Lock(c)
  <2>. USE <1>1 DEF Lock
  <2>0. \A d \in Callers : pc[d] = "idle"
    BY DEF MutexInv, TunnelTypeOK
  <2>1. TunnelTypeOK' BY DEF TunnelTypeOK, taskVars
  <2>2. MutexInv' BY <2>0 DEF MutexInv, TunnelTypeOK
  <2>3. PairInv' BY DEF PairInv
  <2>4. WriteInv' BY <2>0 DEF WriteInv, TunnelTypeOK
  <2>. QED BY <2>1, <2>2, <2>3, <2>4, CallersLeaveTasks
<1>2. CASE StartCheck(c) \/ StopCheck(c)
  <2>. USE <1>2, <1>0 DEF StartCheck, StopCheck
  <2>1. TunnelTypeOK'
    <3>1. mutex' \in Callers \cup {None} BY DEF TunnelTypeOK, CallerPlaces
    <3>2. pc' \in [Callers -> CallerPlaces]
      BY DEF TunnelTypeOK, CallerPlaces
    <3>. QED BY <3>1, <3>2 DEF TunnelTypeOK, taskVars, CallerPlaces
  <2>2. MutexInv' BY DEF MutexInv, TunnelTypeOK
  <2>3. PairInv' BY DEF PairInv
  <2>4. WriteInv' BY DEF WriteInv, TunnelTypeOK, PairInv
  <2>. QED BY <2>1, <2>2, <2>3, <2>4, CallersLeaveTasks
<1>3. CASE StartCreate(c)
  <2>. USE <1>3, <1>0 DEF StartCreate
  <2>0. worker \in {"none", "dead"} BY DEF PairInv, TunnelTypeOK
  <2>1. TunnelTypeOK'
    <3>1. starts' \in 0..MaxStarts BY DEF TunnelTypeOK, MutexInv
    <3>2. pc' \in [Callers -> CallerPlaces]
      BY DEF TunnelTypeOK, CallerPlaces
    <3>3. worker' \in {"config", "none"} /\ is_running' \in BOOLEAN
          /\ thread_joinable' \in BOOLEAN
      OBVIOUS
    <3>. QED BY <3>1, <3>2, <3>3 DEF TunnelTypeOK, taskVars, CallerPlaces
  <2>2. MutexInv' BY DEF MutexInv, TunnelTypeOK
  <2>3. PairInv' BY <2>0 DEF PairInv, TunnelTypeOK
  <2>4. WriteInv' BY <2>0 DEF WriteInv, TunnelTypeOK, PairInv
  <2>. QED BY <2>0, <2>1, <2>2, <2>3, <2>4, CallersLeaveTasks
<1>4. CASE QuitWait(c)
  <2>. USE <1>4, <1>0 DEF QuitWait
  <2>1. TunnelTypeOK' BY DEF TunnelTypeOK, taskVars
  <2>2. MutexInv' BY DEF MutexInv, TunnelTypeOK
  <2>3. PairInv' BY DEF PairInv
  <2>4. WriteInv' BY DEF WriteInv, TunnelTypeOK, PairInv
  <2>. QED BY <2>1, <2>2, <2>3, <2>4, CallersLeaveTasks
<1>5. CASE QuitSent(c)
  <2>. USE <1>5, <1>0 DEF QuitSent
  <2>1. TunnelTypeOK' BY DEF TunnelTypeOK, taskVars
  <2>2. MutexInv' BY DEF MutexInv, TunnelTypeOK
  <2>3. PairInv' BY DEF PairInv
  <2>4. WriteInv' BY DEF WriteInv, TunnelTypeOK, PairInv
  <2>. QED BY <2>1, <2>2, <2>3, <2>4, CallersLeaveTasks
<1>6. CASE QuitWrite(c)
  <2>. USE <1>6, <1>0 DEF QuitWrite
  <2>0. bytes = 0 /\ pair = "open" BY DEF WriteInv
  <2>1. TunnelTypeOK' BY <2>0 DEF TunnelTypeOK, taskVars
  <2>2. MutexInv' BY DEF MutexInv, TunnelTypeOK
  <2>3. PairInv' BY DEF PairInv
  <2>4. WriteInv' BY DEF WriteInv, TunnelTypeOK, PairInv
  <2>. QED BY <2>1, <2>2, <2>3, <2>4, CallersLeaveTasks
<1>7. CASE QuitLatch(c) \/ QuitUnwait(c)
  <2>. USE <1>7, <1>0 DEF QuitLatch, QuitUnwait
  <2>1. TunnelTypeOK'
    <3>1. tsync' \subseteq {"SEND", "SENT", "WAIT", "STOP"} BY DEF TunnelTypeOK, CallerPlaces
    <3>2. pc' \in [Callers -> CallerPlaces]
      BY DEF TunnelTypeOK, CallerPlaces
    <3>. QED BY <3>1, <3>2 DEF TunnelTypeOK, taskVars, CallerPlaces
  <2>2. MutexInv' BY DEF MutexInv, TunnelTypeOK
  <2>3. PairInv' BY DEF PairInv
  <2>4. WriteInv' BY DEF WriteInv, TunnelTypeOK, PairInv
  <2>. QED BY <2>1, <2>2, <2>3, <2>4, CallersLeaveTasks
<1>8. CASE StopJoin(c)
  <2>. USE <1>8, <1>0 DEF StopJoin
  <2>1. TunnelTypeOK' BY DEF TunnelTypeOK, taskVars
  <2>2. MutexInv' BY DEF MutexInv, TunnelTypeOK
  <2>3. PairInv' BY DEF PairInv
  <2>4. WriteInv' BY DEF WriteInv, TunnelTypeOK, PairInv
  <2>. QED BY <2>1, <2>2, <2>3, <2>4, CallersLeaveTasks
<1>. QED BY <1>1, <1>2, <1>3, <1>4, <1>5, <1>6, <1>7, <1>8 DEF Caller

-----------------------------------------------------------------------------
(* The worker *)

\* Every step of the worker keeps the invariant: it gives the pair up only
\* from fini, and not while a stop holds SYNC_WAIT.
LEMMA WorkerStep ==
  ASSUME TunnelInv, Worker
  PROVE  TunnelInv'
<1>. USE DEF TunnelInv, syncVars, jniVars, Up
<1>1. CASE WorkerConfig
  <2>. USE <1>1 DEF WorkerConfig
  <2>1. TunnelTypeOK' BY DEF TunnelTypeOK, taskVars
  <2>2. MutexInv' /\ PairInv' /\ WriteInv' BY DEF MutexInv, PairInv, WriteInv
  <2>. QED BY <2>1, <2>2, CallersLeaveTasks
<1>2. CASE WorkerInit
  <2>. USE <1>2 DEF WorkerInit
  <2>1. TunnelTypeOK' BY DEF TunnelTypeOK, taskVars, PairInv
  <2>2. MutexInv' BY DEF MutexInv
  <2>3. PairInv' BY DEF PairInv
  <2>4. WriteInv' BY DEF WriteInv
  <2>. QED BY <2>1, <2>2, <2>3, <2>4, CallersLeaveTasks
<1>3. CASE WorkerRun
  <2>. USE <1>3 DEF WorkerRun
  <2>1. TunnelTypeOK' BY DEF TunnelTypeOK, Tasks, Fixed
  <2>2. MutexInv' /\ PairInv' /\ WriteInv' BY DEF MutexInv, PairInv, WriteInv
  <2>3. TaskInv' BY FixedTasks DEF TaskInv, TunnelTypeOK, Fixed
  <2>4. NoWakeAborts' BY DEF NoWakeAborts
  <2>5. TimerServesSessions' BY FixedTasks DEF TimerServesSessions, TaskInv, Fixed
  <2>. QED BY <2>1, <2>2, <2>3, <2>4, <2>5
<1>4. CASE WorkerTasksGone
  <2>. USE <1>4 DEF WorkerTasksGone
  <2>1. TunnelTypeOK' BY DEF TunnelTypeOK, taskVars
  <2>2. MutexInv' /\ PairInv' /\ WriteInv' BY DEF MutexInv, PairInv, WriteInv
  <2>3. ~run BY FixedTasks DEF TaskInv
  <2>4. TaskInv' /\ NoWakeAborts' /\ TimerServesSessions'
    BY <2>3 DEF TaskInv, NoWakeAborts, TimerServesSessions, taskVars
  <2>. QED BY <2>1, <2>2, <2>4
<1>5. CASE WorkerFini
  <2>. USE <1>5 DEF WorkerFini
  <2>1. TunnelTypeOK' BY DEF TunnelTypeOK, taskVars
  <2>2. MutexInv' BY DEF MutexInv
  <2>3. PairInv' BY DEF PairInv
  <2>4. WriteInv' BY DEF WriteInv
  <2>. QED BY <2>1, <2>2, <2>3, <2>4, CallersLeaveTasks
<1>6. CASE WorkerClose
  <2>. USE <1>6 DEF WorkerClose
  <2>1. TunnelTypeOK' BY DEF TunnelTypeOK
  <2>2. MutexInv' BY DEF MutexInv
  <2>3. PairInv' BY DEF PairInv
  <2>4. WriteInv' BY DEF WriteInv
  <2>5. TaskInv' /\ NoWakeAborts' /\ TimerServesSessions'
    BY DEF TaskInv, NoWakeAborts, TimerServesSessions
  <2>. QED BY <2>1, <2>2, <2>3, <2>4, <2>5
<1>7. CASE WorkerExit
  <2>. USE <1>7 DEF WorkerExit
  <2>1. TunnelTypeOK' BY DEF TunnelTypeOK, taskVars
  <2>2. MutexInv' /\ PairInv' /\ WriteInv' BY DEF MutexInv, PairInv, WriteInv
  <2>. QED BY <2>1, <2>2, CallersLeaveTasks
<1>. QED BY <1>1, <1>2, <1>3, <1>4, <1>5, <1>6, <1>7 DEF Worker

-----------------------------------------------------------------------------
(* The tasks *)

\* A task only ever takes bytes out of the pair and bits out of tsync other
\* than SYNC_WAIT, which the handshake's invariant allows.
LEMMA TasksLeaveHandshake ==
  ASSUME TunnelInv, UNCHANGED <<jniVars, worker, pair>>,
         tsync' = tsync \/ tsync' = tsync \ {"SENT"},
         bytes' = bytes \/ (bytes > 0 /\ bytes' = bytes - 1)
  PROVE  /\ MutexInv' /\ PairInv' /\ WriteInv'
         /\ tsync' \subseteq {"SEND", "SENT", "WAIT", "STOP"}
         /\ bytes' \in 0..1 /\ (pair' = "closed" => bytes' = 0)
<1>. USE DEF TunnelInv, jniVars
<1>1. bytes' \in 0..1 /\ (bytes = 0 => bytes' = 0)
  BY DEF TunnelTypeOK
<1>2. MutexInv' BY DEF MutexInv
<1>3. PairInv' BY DEF PairInv
<1>4. WriteInv' BY <1>1 DEF WriteInv
<1>. QED BY <1>1, <1>2, <1>3, <1>4 DEF TunnelTypeOK

\* A step that only changes the state of task t, and does not stop it while
\* it is needed nor park the timer over a session, keeps the invariant.
LEMMA OneTaskStep ==
  ASSUME TunnelInv, NEW t \in Tasks, NEW to \in TaskStates,
         task' = [task EXCEPT ![t] = to],
         UNCHANGED <<jniVars, worker, syncVars, run, joining, live, cut, aborted>>,
         to # "stopped",
         t = "timer" /\ to = "wait" => live = {}
  PROVE  TunnelInv'
<1>. USE DEF TunnelInv, TaskStates
<1>1. MutexInv' /\ PairInv' /\ WriteInv' BY TasksLeaveHandshake DEF syncVars
<1>2. TunnelTypeOK' BY DEF TunnelTypeOK, syncVars, jniVars
<1>3. TaskInv' BY FixedTasks DEF TaskInv, TunnelTypeOK
<1>4. NoWakeAborts' BY DEF NoWakeAborts
<1>5. TimerServesSessions' BY FixedTasks DEF TimerServesSessions, TunnelTypeOK
<1>. QED BY <1>1, <1>2, <1>3, <1>4, <1>5

\* A task that ends, and leaves the list if it is a session, keeps the
\* invariant, unless it is the timer of a tunnel that runs.
LEMMA FinishStep ==
  ASSUME TunnelInv, NEW t \in Tasks, Finish(t),
         UNCHANGED <<jniVars, worker, syncVars, run, joining, cut, aborted>>,
         live' = live \ {t}, t = "timer" => ~run
  PROVE  TunnelInv'
<1>. USE DEF TunnelInv, Finish
<1>1. MutexInv' /\ PairInv' /\ WriteInv' BY TasksLeaveHandshake DEF syncVars
<1>2. TunnelTypeOK'
  <2>1. task' \in [Tasks -> TaskStates] BY DEF TunnelTypeOK, TaskStates
  <2>. QED BY <2>1 DEF TunnelTypeOK, syncVars, jniVars, TaskStates
<1>3. TaskInv' BY FixedTasks DEF TaskInv, TunnelTypeOK
<1>4. NoWakeAborts' BY DEF NoWakeAborts
<1>5. TimerServesSessions' BY FixedTasks DEF TimerServesSessions, TunnelTypeOK
<1>. QED BY <1>1, <1>2, <1>3, <1>4, <1>5

\* The event task's steps.
LEMMA EventStep ==
  ASSUME TunnelInv, Event
  PROVE  TunnelInv'
<1>. USE DEF TunnelInv
<1>0. task \in [Tasks -> TaskStates] BY DEF TunnelTypeOK, TaskStates
<1>1. CASE EventWaits
  <2>1. "wait" \in TaskStates BY DEF TaskStates
  <2>. QED BY <1>1, <2>1, FixedTasks, OneTaskStep DEF EventWaits
<1>2. CASE EventStops
  <2>. DEFINE f == Woken(task, live)
              j == JoinNext("io", f)
  <2>1. /\ bytes > 0 /\ bytes' = bytes - 1 /\ run' = FALSE
        /\ tsync' = tsync \ {"SENT"} /\ cut' = cut \cup live
        /\ joining' = j.to /\ task' = j.task
        /\ aborted' = (aborted \/ WakeAborts(live \cup j.wakes))
        /\ UNCHANGED <<jniVars, worker, pair, live>>
    BY <1>2 DEF EventStops
  <2>2. /\ f \in [Tasks -> TaskStates]
        /\ \A u \in Tasks : f[u] = IF u \in live THEN "ready" ELSE task[u]
    BY <1>0 DEF Woken, TaskStates
  <2>. HIDE DEF f
  <2>3. /\ j.to \in {"io", "timer", None} /\ j.task \in [Tasks -> TaskStates]
        /\ \A u \in j.wakes : u \in {"io", "timer"} /\ f[u] # "stopped"
        /\ \A u \in Tasks \ {"event"} : j.task[u] = "stopped" <=> f[u] = "stopped"
    BY <2>2, JoinFacts
  <2>. HIDE DEF j
  <2>4. live \subseteq Sessions BY DEF TunnelTypeOK
  <2>5. ~WakeAborts(live \cup j.wakes)
    BY <2>2, <2>3, <2>4, FixedTasks DEF WakeAborts, TaskInv
  <2>6. MutexInv' /\ PairInv' /\ WriteInv' BY <2>1, TasksLeaveHandshake
  <2>7. TunnelTypeOK'
    <3>1. tsync' \subseteq {"SEND", "SENT", "WAIT", "STOP"}
          /\ bytes' \in 0..1 /\ (pair' = "closed" => bytes' = 0)
      BY <2>1, TasksLeaveHandshake
    <3>2. aborted' \in BOOLEAN BY <2>1, <2>5 DEF TunnelTypeOK, NoWakeAborts
    <3>. QED BY <2>1, <2>3, <3>1, <3>2 DEF TunnelTypeOK, TaskStates, jniVars
  <2>8. TaskInv'
    BY <2>1, <2>2, <2>3, <2>4, FixedTasks DEF TaskInv
  <2>9. NoWakeAborts' BY <2>1, <2>5 DEF NoWakeAborts
  <2>10. TimerServesSessions' BY <2>1 DEF TimerServesSessions
  <2>. QED BY <2>6, <2>7, <2>8, <2>9, <2>10
<1>3. CASE EventJoins
  <2>. DEFINE j == JoinNext(joining, task)
  <2>1. /\ joining \in {"io", "timer"}
        /\ joining' = j.to /\ task' = j.task
        /\ aborted' = (aborted \/ WakeAborts(j.wakes))
        /\ UNCHANGED <<jniVars, worker, syncVars, run, live, cut>>
    BY <1>3 DEF EventJoins, TunnelTypeOK
  <2>2. /\ j.to \in {"io", "timer", None} /\ j.task \in [Tasks -> TaskStates]
        /\ \A u \in j.wakes : u \in {"io", "timer"} /\ task[u] # "stopped"
        /\ \A u \in Tasks \ {"event"} : j.task[u] = "stopped" <=> task[u] = "stopped"
    BY <2>1, <1>0, JoinFacts
  <2>3. run /\ live # {} => j.task["timer"] # "wait"
    BY <2>1, <1>0, FixedTasks DEF JoinNext, Woken, TimerServesSessions
  <2>. HIDE DEF j
  <2>4. live \subseteq Sessions BY DEF TunnelTypeOK
  <2>5. ~WakeAborts(j.wakes) BY <2>2 DEF WakeAborts
  <2>6. MutexInv' /\ PairInv' /\ WriteInv' BY <2>1, TasksLeaveHandshake DEF syncVars
  <2>7. TunnelTypeOK'
    <3>1. aborted' \in BOOLEAN BY <2>1, <2>5 DEF TunnelTypeOK, NoWakeAborts
    <3>. QED BY <2>1, <2>2, <3>1 DEF TunnelTypeOK, TaskStates, jniVars, syncVars
  <2>8. TaskInv' BY <2>1, <2>2, <2>4, FixedTasks DEF TaskInv
  <2>9. NoWakeAborts' BY <2>1, <2>5 DEF NoWakeAborts
  <2>10. TimerServesSessions' BY <2>1, <2>3 DEF TimerServesSessions
  <2>. QED BY <2>6, <2>7, <2>8, <2>9, <2>10
<1>. QED BY <1>1, <1>2, <1>3 DEF Event

\* The TUN reader's steps: with new sessions it wakes the timer, which has not
\* stopped while run is set.
LEMMA IoStep ==
  ASSUME TunnelInv, Io
  PROVE  TunnelInv'
<1>. USE DEF TunnelInv
<1>1. CASE IoRead
  <2>1. PICK new \in SUBSET {s \in Sessions \ live : task[s] = "stopped"} : Accept(new)
    BY <1>1 DEF IoRead
  <2>2. run /\ UNCHANGED <<jniVars, worker, syncVars, run, joining>>
    BY <1>1 DEF IoRead
  <2>. DEFINE woken == new \cup (IF new = {} THEN {} ELSE {"timer"})
  <2>3. /\ live' = live \cup new /\ cut' = cut \ new
        /\ aborted' = (aborted \/ (new # {} /\ WakeAborts({"timer"})))
        /\ task' = [t \in Tasks |-> IF t \in woken THEN "ready"
                                    ELSE [task EXCEPT !["io"] = "wait"][t]]
    BY <2>1 DEF Accept, Woken
  <2>4. ~WakeAborts({"timer"}) BY <2>2 DEF WakeAborts, TaskInv
  <2>5. MutexInv' /\ PairInv' /\ WriteInv' BY <2>2, TasksLeaveHandshake DEF syncVars
  <2>6. TunnelTypeOK'
    <3>1. task' \in [Tasks -> TaskStates] BY <2>3, FixedTasks DEF TunnelTypeOK, TaskStates
    <3>2. aborted' \in BOOLEAN BY <2>3, <2>4 DEF TunnelTypeOK, NoWakeAborts
    <3>3. live' \subseteq Sessions /\ cut' \subseteq Sessions
      BY <2>1, <2>3 DEF TunnelTypeOK
    <3>. QED BY <2>2, <3>1, <3>2, <3>3 DEF TunnelTypeOK, TaskStates, jniVars, syncVars
  <2>7. TaskInv'
    BY <2>1, <2>2, <2>3, FixedTasks DEF TaskInv, TunnelTypeOK
  <2>8. NoWakeAborts' BY <2>3, <2>4 DEF NoWakeAborts
  <2>9. TimerServesSessions'
    BY <2>2, <2>3, FixedTasks DEF TimerServesSessions, TunnelTypeOK
  <2>. QED BY <2>5, <2>6, <2>7, <2>8, <2>9
<1>2. CASE IoFails
  <2>1. "spin" \in TaskStates BY DEF TaskStates
  <2>. QED BY <1>2, <2>1, FixedTasks, OneTaskStep DEF IoFails
<1>3. CASE IoEnds
  <2>1. live' = live \ {"io"} BY <1>3, FixedTasks DEF IoEnds, TunnelTypeOK
  <2>. QED BY <1>3, <2>1, FixedTasks, FinishStep DEF IoEnds
<1>. QED BY <1>1, <1>2, <1>3 DEF Io

\* The timer's steps.
LEMMA TimerStep ==
  ASSUME TunnelInv, Timer
  PROVE  TunnelInv'
<1>. USE DEF TunnelInv
<1>1. CASE TimerPass
  <2>1. (IF live = {} THEN "wait" ELSE "sleep") \in TaskStates BY DEF TaskStates
  <2>. QED BY <1>1, <2>1, FixedTasks, OneTaskStep DEF TimerPass
<1>2. CASE TimerEnds
  <2>1. live' = live \ {"timer"} BY <1>2, FixedTasks DEF TimerEnds, TunnelTypeOK
  <2>. QED BY <1>2, <2>1, FixedTasks, FinishStep DEF TimerEnds
<1>. QED BY <1>1, <1>2 DEF Timer

\* The sessions' steps and the scheduler's polling.
LEMMA SessionStep ==
  ASSUME TunnelInv, NEW s \in Sessions, SessionWaits(s) \/ SessionEnds(s)
  PROVE  TunnelInv'
<1>1. CASE SessionWaits(s)
  <2>1. "sleep" \in TaskStates BY DEF TaskStates
  <2>. QED BY <1>1, <2>1, FixedTasks, OneTaskStep DEF SessionWaits
<1>2. CASE SessionEnds(s)
  BY <1>2, FixedTasks, FinishStep DEF SessionEnds
<1>. QED BY <1>1, <1>2

\* A poll of the descriptors wakes tasks that wait; none of them has stopped.
LEMMA PollStep ==
  ASSUME TunnelInv, NEW t \in Tasks, Poll(t)
  PROVE  TunnelInv'
<1>1. "ready" \in TaskStates BY DEF TaskStates
<1>. QED BY <1>1, OneTaskStep DEF Poll

-----------------------------------------------------------------------------
\* The invariant is inductive.
LEMMA TunnelInvNext == TunnelInv /\ [TunnelNext]_tunnelVars => TunnelInv'
<1>. SUFFICES ASSUME TunnelInv, [TunnelNext]_tunnelVars PROVE TunnelInv'
  OBVIOUS
<1>1. CASE \E c \in Callers : Lock(c) \/ Caller(c) BY <1>1, CallerStep
<1>2. CASE Worker BY <1>2, WorkerStep
<1>3. CASE Event BY <1>3, EventStep
<1>4. CASE Io BY <1>4, IoStep
<1>5. CASE Timer BY <1>5, TimerStep
<1>6. CASE \E s \in Sessions : SessionWaits(s) \/ SessionEnds(s)
  BY <1>6, SessionStep
<1>7. CASE \E t \in Tasks : Poll(t) BY <1>7, PollStep
<1>8. CASE UNCHANGED tunnelVars
  <2>. USE <1>8 DEF TunnelInv, tunnelVars, jniVars, syncVars, taskVars
  <2>1. TunnelTypeOK' BY DEF TunnelTypeOK
  <2>2. MutexInv' /\ PairInv' /\ WriteInv' BY DEF MutexInv, PairInv, WriteInv
  <2>3. TaskInv' /\ NoWakeAborts' /\ TimerServesSessions'
    BY DEF TaskInv, NoWakeAborts, TimerServesSessions
  <2>. QED BY <2>1, <2>2, <2>3
<1>. QED BY <1>1, <1>2, <1>3, <1>4, <1>5, <1>6, <1>7, <1>8 DEF TunnelNext

\* The invariant holds throughout every behaviour.
LEMMA TunnelInvHolds == TunnelSpec => []TunnelInv
BY TunnelInvInit, TunnelInvNext, PTL DEF TunnelSpec

\* The flags and tasks keep their types, and the event pair holds at most one
\* byte, however many threads call the library.
THEOREM TunnelTypeCorrect == TunnelSpec => []TunnelTypeOK
<1>1. TunnelInv => TunnelTypeOK BY DEF TunnelInv
<1>. QED BY <1>1, TunnelInvHolds, PTL

\* hev_socks5_tunnel_stop never writes to a closed event pair.
THEOREM WritesCorrect == TunnelSpec => []WritesToOpenPair
<1>1. TunnelInv => WritesToOpenPair BY DEF TunnelInv, WriteInv, WritesToOpenPair
<1>. QED BY <1>1, TunnelInvHolds, PTL

\* No stopped task is woken, so hev_task_system_wakeup_task never aborts.
THEOREM WakesCorrect == TunnelSpec => []NoWakeAborts
<1>1. TunnelInv => NoWakeAborts BY DEF TunnelInv
<1>. QED BY <1>1, TunnelInvHolds, PTL

\* lwIP's timer is never parked while a running tunnel has sessions.
THEOREM TimerCorrect == TunnelSpec => []TimerServesSessions
<1>1. TunnelInv => TimerServesSessions BY DEF TunnelInv
<1>. QED BY <1>1, TunnelInvHolds, PTL
=============================================================================
