------------------------------ MODULE HevTunnel ------------------------------
(***************************************************************************)
(* The life of the hev-socks5-tunnel engine: the JNI entry points that     *)
(* start and stop its worker thread (hev-jni.c), the worker's way through  *)
(* hev_socks5_tunnel_main (hev-main.c), the tsync handshake by which a     *)
(* stop reaches a worker in any phase, and the cooperative tasks the       *)
(* worker schedules: the event task that reads the stop, the task that     *)
(* reads the TUN device, the lwIP timer and one task per session           *)
(* (hev-socks5-tunnel.c, hev-task-system).                                 *)
(*                                                                         *)
(* A task runs alone until it yields, so one action is what a task does    *)
(* between two yields; the threads of the app run between any two steps.   *)
(* max-session-count and mapped DNS are off in the configuration the app   *)
(* writes, so sessions are never evicted and every UDP flow is a session.  *)
(***************************************************************************)
EXTENDS Naturals, FiniteSets

CONSTANTS
  Callers,     \* threads of the app that call into the library
  Sessions,    \* sessions the tunnel may serve at the same time
  MaxStarts,   \* bound: workers created
  TunFails,    \* may a read of the TUN device fail other than by EAGAIN?
  None

ASSUME HevAssumption ==
  /\ MaxStarts \in Nat /\ TunFails \in BOOLEAN
  /\ None \notin Callers /\ Sessions \cap {"event", "io", "timer"} = {}

VARIABLES
  mutex, pc,                         \* the JNI mutex and the callers' places
  is_running, thread_joinable,       \* hev-jni.c's flags
  worker,                            \* where the worker thread is
  tsync,                             \* the bits set in the atomic word
  pair, bytes,                       \* event_fds, and the bytes in the pair
  run,                               \* the tasks' stop flag
  task, joining,                     \* state of each task; whom event joins
  live, cut,                         \* session_set; sessions with time-out 0
  aborted,                           \* a stopped task was woken: abort ()
  starts                             \* workers created

jniVars   == <<mutex, pc, is_running, thread_joinable, starts>>
syncVars  == <<tsync, pair, bytes>>
taskVars  == <<run, task, joining, live, cut, aborted>>
tunnelVars == <<jniVars, worker, syncVars, taskVars>>

Fixed == {"event", "io", "timer"}
Tasks == Fixed \cup Sessions

TunnelInit ==
  /\ mutex = None /\ pc = [c \in Callers |-> "idle"]
  /\ is_running = FALSE /\ thread_joinable = FALSE /\ starts = 0
  /\ worker = "none"
  /\ tsync = {} /\ pair = "closed" /\ bytes = 0
  /\ run = FALSE /\ task = [t \in Tasks |-> "stopped"] /\ joining = None
  /\ live = {} /\ cut = {} /\ aborted = FALSE

-----------------------------------------------------------------------------
(* native_start_service and native_stop_service *)

Goto(c, to) == pc' = [pc EXCEPT ![c] = to]
Return(c)   == Goto(c, "idle") /\ mutex' = None

Lock(c) ==
  /\ pc[c] = "idle" /\ mutex = None
  /\ mutex' = c
  /\ \/ Goto(c, "start") /\ starts < MaxStarts
     \/ Goto(c, "stop")
  /\ UNCHANGED <<is_running, thread_joinable, starts, worker, syncVars,
                 taskVars>>

StartCheck(c) ==
  /\ pc[c] = "start"
  /\ IF is_running THEN Return(c) ELSE Goto(c, "reap") /\ UNCHANGED mutex
  /\ UNCHANGED <<is_running, thread_joinable, starts, worker, syncVars,
                 taskVars>>

\* The last worker is joined; the new one is created, or that fails.
StartCreate(c) ==
  /\ pc[c] = "reap"
  /\ thread_joinable => worker = "dead"
  /\ Return(c)
  /\ \/ /\ worker' = "config"
        /\ is_running' = TRUE /\ thread_joinable' = TRUE
        /\ starts' = starts + 1
     \/ /\ worker' = "none"
        /\ is_running' = FALSE /\ thread_joinable' = FALSE
        /\ UNCHANGED starts
  /\ UNCHANGED <<syncVars, taskVars>>

StopCheck(c) ==
  /\ pc[c] = "stop"
  /\ IF ~thread_joinable THEN Return(c)
     ELSE /\ Goto(c, IF is_running THEN "quit" ELSE "join")
          /\ UNCHANGED mutex
  /\ UNCHANGED <<is_running, thread_joinable, starts, worker, syncVars,
                 taskVars>>

Mut_QuitNoWait(c) ==
  /\ pc[c] = "quit"
  /\ Goto(c, IF "SEND" \in tsync THEN "sent" ELSE "latch")
  /\ UNCHANGED <<mutex, is_running, thread_joinable, starts, worker, syncVars,
                 taskVars>>

\* hev_socks5_tunnel_stop: WAIT keeps the worker from closing the pair.
QuitWait(c) ==
  /\ pc[c] = "quit" /\ "WAIT" \notin tsync
  /\ tsync' = tsync \cup {"WAIT"}
  /\ Goto(c, IF "SEND" \in tsync THEN "sent" ELSE "latch")
  /\ UNCHANGED <<mutex, is_running, thread_joinable, starts, worker, pair,
                 bytes, taskVars>>

QuitSent(c) ==
  /\ pc[c] = "sent"
  /\ tsync' = tsync \cup {"SENT"}
  /\ Goto(c, IF "SENT" \in tsync THEN "unwait" ELSE "write")
  /\ UNCHANGED <<mutex, is_running, thread_joinable, starts, worker, pair,
                 bytes, taskVars>>

QuitWrite(c) ==
  /\ pc[c] = "write"
  /\ bytes' = bytes + 1
  /\ Goto(c, "unwait")
  /\ UNCHANGED <<mutex, is_running, thread_joinable, starts, worker, tsync,
                 pair, taskVars>>

\* The worker is not up yet: its run is to return at once.
QuitLatch(c) ==
  /\ pc[c] = "latch"
  /\ tsync' = tsync \cup {"STOP"}
  /\ Goto(c, "unwait")
  /\ UNCHANGED <<mutex, is_running, thread_joinable, starts, worker, pair,
                 bytes, taskVars>>

QuitUnwait(c) ==
  /\ pc[c] = "unwait"
  /\ tsync' = tsync \ {"WAIT"}
  /\ Goto(c, "join")
  /\ UNCHANGED <<mutex, is_running, thread_joinable, starts, worker, pair,
                 bytes, taskVars>>

StopJoin(c) ==
  /\ pc[c] = "join" /\ worker = "dead"
  /\ worker' = "none"
  /\ thread_joinable' = FALSE /\ is_running' = FALSE
  /\ Return(c)
  /\ UNCHANGED <<starts, syncVars, taskVars>>

Caller(c) ==
  \/ StartCheck(c) \/ StartCreate(c) \/ StopCheck(c)
  \/ QuitWait(c) \/ QuitSent(c) \/ QuitWrite(c) \/ QuitLatch(c)
  \/ QuitUnwait(c) \/ StopJoin(c)

-----------------------------------------------------------------------------
(* The worker: thread_handler and hev_socks5_tunnel_main *)

\* The configuration, the loggers and the task system, any of which can fail.
WorkerConfig ==
  /\ worker = "config"
  /\ worker' \in {"init", "exit"}
  /\ UNCHANGED <<jniVars, syncVars, taskVars>>

\* hev_socks5_tunnel_init; a failure, before or after the event pair is made,
\* runs hev_socks5_tunnel_fini.
WorkerInit ==
  /\ worker = "init"
  /\ \/ /\ worker' = "run"
        /\ pair' = "open" /\ bytes' = 0
        /\ tsync' = tsync \cup {"SEND"}
     \/ /\ worker' = "fini"
        /\ pair' \in {"closed", "open"}
        /\ UNCHANGED <<bytes, tsync>>
  /\ UNCHANGED <<jniVars, taskVars>>

\* hev_socks5_tunnel_run: a latched stop is consumed, else the tasks begin.
WorkerRun ==
  /\ worker = "run"
  /\ IF "STOP" \in tsync
       THEN /\ worker' = "fini"
            /\ tsync' = tsync \ {"STOP"}
            /\ UNCHANGED <<run, task>>
       ELSE /\ worker' = "sched"
            /\ run' = TRUE
            /\ task' = [t \in Tasks |-> IF t \in Fixed THEN "ready" ELSE task[t]]
            /\ UNCHANGED tsync
  /\ UNCHANGED <<jniVars, pair, bytes, joining, live, cut, aborted>>

\* hev_task_system_run returns when the last task is gone.
WorkerTasksGone ==
  /\ worker = "sched" /\ \A t \in Tasks : task[t] = "stopped"
  /\ worker' = "fini"
  /\ UNCHANGED <<jniVars, syncVars, taskVars>>

Mut_WorkerFiniOnce ==
  /\ worker = "fini"
  /\ tsync' = tsync \ {"SEND", "SENT"}
  /\ worker' = "close"
  /\ UNCHANGED <<jniVars, pair, bytes, taskVars>>

\* hev_socks5_tunnel_fini: no further stop will write, and it waits for the
\* one that may be about to.
WorkerFini ==
  /\ worker = "fini"
  /\ tsync' = tsync \ {"SEND", "SENT"}
  /\ worker' = IF "WAIT" \in tsync THEN "fini" ELSE "close"
  /\ UNCHANGED <<jniVars, pair, bytes, taskVars>>

WorkerClose ==
  /\ worker = "close"
  /\ pair' = "closed" /\ bytes' = 0 /\ joining' = None
  /\ worker' = "exit"
  /\ UNCHANGED <<jniVars, tsync, run, task, live, cut, aborted>>

WorkerExit ==
  /\ worker = "exit"
  /\ is_running' = FALSE
  /\ worker' = "dead"
  /\ UNCHANGED <<mutex, pc, thread_joinable, starts, syncVars, taskVars>>

Worker ==
  \/ WorkerConfig \/ WorkerInit \/ WorkerRun \/ WorkerTasksGone
  \/ WorkerFini \/ WorkerClose \/ WorkerExit

-----------------------------------------------------------------------------
(* The tasks *)

\* hev_task_system_wakeup_task: running tasks are skipped, a stopped one is
\* a bug that aborts the process.
Woken(f, S) == [t \in Tasks |-> IF t \in S THEN "ready" ELSE f[t]]
WakeAborts(S) == \E t \in S : task[t] = "stopped"

\* The scheduler runs one ready task; a task that spins lets none run.
Scheduled(t) ==
  /\ worker = "sched" /\ task[t] = "ready"
  /\ \A u \in Tasks : task[u] # "spin"

\* A task ends; hev_task_execute's caller wakes the one that joins it.
Finish(t) ==
  task' = [u \in Tasks |->
             IF u = t THEN "stopped"
             ELSE IF u = "event" /\ joining = t THEN "ready" ELSE task[u]]

\* hev_task_join with the wake-up before the look at the state.
Mut_JoinNext(t, f) ==
  [to |-> t, wakes |-> {t}, task |-> Woken([f EXCEPT !["event"] = "wait"], {t})]

\* hev_task_join: past the tasks that have stopped, the first other one is
\* woken and waited for.
JoinNext(t, f) ==
  LET left == {u \in {t, "timer"} : f[u] # "stopped"}
      u    == IF t \in left THEN t ELSE "timer"
  IN  IF left = {}
      THEN [to |-> None, wakes |-> {}, task |-> [f EXCEPT !["event"] = "stopped"]]
      ELSE [to |-> u, wakes |-> {u},
            task |-> Woken([f EXCEPT !["event"] = "wait"], {u})]

\* event_task_entry up to the yield in the read ...
EventWaits ==
  /\ Scheduled("event") /\ joining = None /\ bytes = 0
  /\ task' = [task EXCEPT !["event"] = "wait"]
  /\ UNCHANGED <<jniVars, worker, syncVars, run, joining, live, cut, aborted>>

\* The sessions are left to themselves.
Mut_EventStops ==
  /\ Scheduled("event") /\ joining = None /\ bytes > 0
  /\ bytes' = bytes - 1
  /\ run' = FALSE
  /\ tsync' = tsync \ {"SENT"}
  /\ LET j == JoinNext("io", task)
     IN  /\ joining' = j.to /\ task' = j.task
         /\ aborted' = (aborted \/ WakeAborts(j.wakes))
  /\ UNCHANGED <<jniVars, worker, pair, live, cut>>

\* ... and from the read to the first join: no task starts another pass, and
\* every session is terminated (hev_socks5_session_terminate).
EventStops ==
  /\ Scheduled("event") /\ joining = None /\ bytes > 0
  /\ bytes' = bytes - 1
  /\ run' = FALSE
  /\ tsync' = tsync \ {"SENT"}
  /\ cut' = cut \cup live
  /\ LET j == JoinNext("io", Woken(task, live))
     IN  /\ joining' = j.to /\ task' = j.task
         /\ aborted' = (aborted \/ WakeAborts(live \cup j.wakes))
  /\ UNCHANGED <<jniVars, worker, pair, live>>

EventJoins ==
  /\ Scheduled("event") /\ joining # None
  /\ LET j == JoinNext(joining, task)
     IN  /\ joining' = j.to /\ task' = j.task
         /\ aborted' = (aborted \/ WakeAborts(j.wakes))
  /\ UNCHANGED <<jniVars, worker, syncVars, run, live, cut>>

Mut_Accept(new) ==
  /\ live' = live \cup new
  /\ cut' = cut \ new
  /\ UNCHANGED aborted
  /\ task' = Woken([task EXCEPT !["io"] = "wait"], new)

\* lwip_io_task_entry: it reads packets until EAGAIN.  The packets may open
\* sessions: tcp_accept_handler and udp_recv_handler insert the session, run
\* its task and wake the timer.
Accept(new) ==
  /\ live' = live \cup new
  /\ cut' = cut \ new
  /\ aborted' = (aborted \/ (new # {} /\ WakeAborts({"timer"})))
  /\ task' = Woken([task EXCEPT !["io"] = "wait"],
                   new \cup (IF new = {} THEN {} ELSE {"timer"}))

IoRead ==
  /\ Scheduled("io") /\ run
  /\ \E new \in SUBSET {s \in Sessions \ live : task[s] = "stopped"} : Accept(new)
  /\ UNCHANGED <<jniVars, worker, syncVars, run, joining>>

\* A failed read yields to nobody: hev_tunnel_read returns NULL and the loop
\* reads again.
IoFails ==
  /\ TunFails
  /\ Scheduled("io") /\ run
  /\ task' = [task EXCEPT !["io"] = "spin"]
  /\ UNCHANGED <<jniVars, worker, syncVars, run, joining, live, cut, aborted>>

IoEnds ==
  /\ Scheduled("io") /\ ~run
  /\ Finish("io")
  /\ UNCHANGED <<jniVars, worker, syncVars, run, joining, live, cut, aborted>>

\* lwip_timer_task_entry: after tcp_tmr it sleeps while there are sessions,
\* and waits to be woken when there are none.
TimerPass ==
  /\ Scheduled("timer") /\ run
  /\ task' = [task EXCEPT !["timer"] = IF live = {} THEN "wait" ELSE "sleep"]
  /\ UNCHANGED <<jniVars, worker, syncVars, run, joining, live, cut, aborted>>

TimerEnds ==
  /\ Scheduled("timer") /\ ~run
  /\ Finish("timer")
  /\ UNCHANGED <<jniVars, worker, syncVars, run, joining, live, cut, aborted>>

\* hev_socks5_task_io_yielder: a session sleeps for its time-out or until its
\* descriptor is ready, unless the time-out is 0.
SessionWaits(s) ==
  /\ Scheduled(s) /\ s \notin cut
  /\ task' = [task EXCEPT ![s] = "sleep"]
  /\ UNCHANGED <<jniVars, worker, syncVars, run, joining, live, cut, aborted>>

\* hev_socks5_session_task_entry after the session has run.
SessionEnds(s) ==
  /\ Scheduled(s)
  /\ live' = live \ {s}
  /\ Finish(s)
  /\ UNCHANGED <<jniVars, worker, syncVars, run, joining, cut, aborted>>

\* The scheduler polls: descriptors become ready and sleeps end.
Poll(t) ==
  /\ worker = "sched" /\ \A u \in Tasks : task[u] # "spin"
  /\ \/ task[t] = "sleep"
     \/ t = "io" /\ task[t] = "wait" /\ run
     \/ t = "event" /\ task[t] = "wait" /\ joining = None /\ bytes > 0
  /\ task' = [task EXCEPT ![t] = "ready"]
  /\ UNCHANGED <<jniVars, worker, syncVars, run, joining, live, cut, aborted>>

Event == EventWaits \/ EventStops \/ EventJoins
Io    == IoRead \/ IoFails \/ IoEnds
Timer == TimerPass \/ TimerEnds

TunnelNext ==
  \/ \E c \in Callers : Lock(c) \/ Caller(c)
  \/ Worker
  \/ Event \/ Io \/ Timer
  \/ \E s \in Sessions : SessionWaits(s) \/ SessionEnds(s)
  \/ \E t \in Tasks : Poll(t)

\* Threads and tasks that can run do, the descriptors are polled, and a
\* session that cannot wait any more ends; nobody has to call the library.
TunnelFairness ==
  /\ \A c \in Callers : WF_tunnelVars(Caller(c))
  /\ WF_tunnelVars(Worker)
  /\ WF_tunnelVars(Event) /\ WF_tunnelVars(Io) /\ WF_tunnelVars(Timer)
  /\ \A s \in Sessions : WF_tunnelVars(SessionEnds(s) /\ s \in cut)
  /\ WF_tunnelVars(Poll("event"))

TunnelSpec == TunnelInit /\ [][TunnelNext]_tunnelVars

FairTunnelSpec == TunnelSpec /\ TunnelFairness

-----------------------------------------------------------------------------
\* The values of the flags and the tasks' states; the pair holds at most the
\* one byte a worker is ever sent, and none when it is closed.
TunnelTypeOK ==
  /\ mutex \in Callers \cup {None}
  /\ pc \in [Callers -> {"idle", "start", "reap", "stop", "quit", "sent",
                         "write", "latch", "unwait", "join"}]
  /\ is_running \in BOOLEAN /\ thread_joinable \in BOOLEAN
  /\ starts \in 0..MaxStarts
  /\ worker \in {"none", "config", "init", "run", "sched", "fini", "close",
                 "exit", "dead"}
  /\ tsync \subseteq {"SEND", "SENT", "WAIT", "STOP"}
  /\ pair \in {"closed", "open"} /\ bytes \in 0..1
  /\ pair = "closed" => bytes = 0
  /\ run \in BOOLEAN /\ aborted \in BOOLEAN
  /\ task \in [Tasks -> {"ready", "wait", "sleep", "spin", "stopped"}]
  /\ joining \in {"io", "timer", None}
  /\ live \subseteq Sessions /\ cut \subseteq Sessions

\* A stop writes to its own worker's event pair: the pair is open, and the
\* worker cannot close it before the byte is written.
WritesToOpenPair ==
  \A c \in Callers : pc[c] \in {"sent", "write"} => pair = "open"

\* No task is woken after it has stopped, which would abort the app.
NoWakeAborts == ~aborted

\* While the tunnel runs and has sessions, lwIP's timer is not parked: its
\* retransmissions and time-outs go on.
TimerServesSessions == run /\ live # {} => task["timer"] # "wait"

\* A stop that finds its worker up returns: the byte ends the event task, that
\* one ends the others, and the worker closes its pair and can be joined.  Only
\* a TUN device that fails keeps the tasks from running.
StopOfRunningReturns ==
  \A c \in Callers : pc[c] = "sent" ~> (pc[c] = "idle" \/ task["io"] = "spin")

\* "Stop the socks5 tunnel": a stop, whatever phase of the worker it meets,
\* ends it, so that the join in native_stop_service returns.
StopReturns == \A c \in Callers : pc[c] = "quit" ~> pc[c] = "idle"
=============================================================================
