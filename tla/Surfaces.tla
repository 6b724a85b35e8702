------------------------------ MODULE Surfaces ------------------------------
(***************************************************************************)
(* The two places that show the connection and let the user change it: the *)
(* app's status screen with its view model (VpnViewModel.kt,               *)
(* StatusScreen.kt) and the floating bubble (FloatingControlService.kt).   *)
(* Each polls the service through a binder, hears its broadcasts, binds    *)
(* again when the :vpn process dies, and sends start and stop commands.    *)
(*                                                                         *)
(* The service is what a snapshot of its state tells (SocksVpnService and  *)
(* IpCheck have the rest).  The surfaces share only the service; to each   *)
(* the other one is somebody else who starts and stops it, so a behaviour  *)
(* has one of them.  Handlers run alone on the main thread; the view       *)
(* model's syncState reads and writes on another one.                      *)
(***************************************************************************)
EXTENDS Naturals, Sequences

CONSTANTS
  AppEvents,     \* bound: what users ask for, and deaths of the process, in
  BubbleEvents,  \*        a behaviour of the app and in one of the bubble
  MaxCommands    \* bound: commands on their way to the service

ASSUME SurfaceAssumption == {AppEvents, BubbleEvents, MaxCommands} \subseteq Nat

VARIABLES
  surface,   \* which surface this is: app or bubble
  svc,       \* the service: what getState says, or dead
  commands,  \* intents on their way to it
  note,      \* a broadcast on its way to the surface
  granted,   \* VpnService.prepare returns null
  events,
  app,       \* the view model's flows and its binding
  syncs,     \* the snapshots that syncState has read and not yet written
  screen,    \* what the status screen has composed, and its time-out
  missed,    \* history: a message or a connect began and ended between frames
  bubble     \* the bubble's state and its binding

serverVars  == <<svc, commands, note>>
appVars     == <<app, syncs, screen, missed>>
surfaceVars == <<surface, serverVars, granted, events, appVars, bubble>>

\* What getState may tell: failing and failed have an error, failed no longer runs.
Snapshots == {"stopped", "running", "failing", "failed", "connected"}

\* The surface has just been made and has called bindService.  Nobody looks at
\* what the view model's first call returns: when it is refused nothing binds.
SurfacesFrom(s) ==
  /\ surface = s
  /\ svc \in (IF s = "none" THEN {"stopped"} ELSE {"stopped", "connected"})
  /\ commands = <<>> /\ note = "none"
  /\ granted \in (IF svc = "connected" \/ s = "none" THEN {TRUE} ELSE BOOLEAN)
  /\ events = IF svc = "connected" THEN 1 ELSE 0
  /\ \E bind \in (IF s = "app" THEN {"first", "refused"} ELSE {"first"}) :
       app = [isRunning |-> FALSE, isConnected |-> FALSE, requested |-> FALSE,
              pending |-> FALSE, error |-> "null", bound |-> FALSE, restart |-> FALSE,
              rebinding |-> FALSE, rebind |-> bind]
  /\ syncs = [w \in {"poll", "note"} |-> "none"]
  /\ screen = [error |-> "null", busy |-> FALSE, timer |-> "off"]
  /\ missed = FALSE
  /\ bubble = [state |-> "DISCONNECTED", pending |-> FALSE, restart |-> FALSE,
               bound |-> FALSE, attempts |-> FALSE, inFlight |-> FALSE]

-----------------------------------------------------------------------------
(* The service *)

IsRunning(s) == s \in {"running", "failing", "connected"}

Post(cmd) == commands' = Append(commands, cmd)
Event ==
  /\ events < (IF surface = "app" THEN AppEvents ELSE BubbleEvents)
  /\ events' = events + 1
Room == Len(commands) < MaxCommands

\* notifyStateChanged; a message with an error is not hidden by a later one.
Notify(kind) == note' = IF note = "error" THEN "error" ELSE kind

\* stopMe, as far as the surfaces see it.
Stops ==
  IF IsRunning(svc)
    THEN /\ svc' = IF svc = "failing" THEN "failed" ELSE "stopped"
         /\ Notify(IF svc = "failing" THEN "error" ELSE "plain")
    ELSE UNCHANGED <<svc, note>>

\* onStartCommand; it may refuse a start.
ServiceServes ==
  /\ commands # <<>> /\ svc \notin {"dead", "failed"}
  /\ commands' = Tail(commands)
  /\ IF Head(commands) = "start"
       THEN /\ svc' \in (IF svc = "stopped" THEN {"running", "stopped"} ELSE {svc})
            /\ UNCHANGED note
       ELSE Stops
  /\ UNCHANGED <<granted, events, appVars, bubble>>

\* The session is verified, loses verification, fails, or is stopped.
ServiceChanges ==
  /\ \/ svc = "running" /\ svc' = "connected" /\ Notify("plain")
     \/ svc = "connected" /\ svc' = "running" /\ Notify("plain")
     \/ svc = "running" /\ svc' = "failing" /\ UNCHANGED note
     \/ IsRunning(svc) /\ Stops
     \/ svc = "failed" /\ svc' = "stopped" /\ UNCHANGED note
  /\ UNCHANGED <<commands, granted, events, appVars, bubble>>

\* The :vpn process dies, and the system makes it again.
ServiceDies ==
  /\ \/ svc # "dead" /\ Event /\ svc' = "dead"
     \/ svc = "dead" /\ svc' = "stopped" /\ UNCHANGED events
  /\ UNCHANGED <<commands, note, granted, appVars, bubble>>

\* Somebody else starts it, or the user grants the permission.
Others ==
  /\ \/ Event /\ Room /\ Post("start") /\ UNCHANGED granted
     \/ /\ ~granted /\ (app.pending \/ bubble.pending)
        /\ granted' = TRUE
        /\ UNCHANGED <<commands, events>>
  /\ UNCHANGED <<svc, note, appVars, bubble>>

\* A surface's stop: the binder call if there is one, then the ordered intent.
StopService(bound) ==
  /\ Post("stop")
  /\ IF bound THEN Stops ELSE UNCHANGED <<svc, note>>

-----------------------------------------------------------------------------
(* The view model *)

IsConnecting(a) ==
  (a.isRunning /\ ~a.isConnected) \/ (a.requested /\ ~a.isRunning)

clearState(a) ==
  [a EXCEPT !.requested = FALSE, !.isRunning = FALSE, !.isConnected = FALSE]

\* What syncState makes of a snapshot; from a dead binder it catches an
\* exception.
Synced(a, s) ==
  IF s = "dead" THEN [clearState(a) EXCEPT !.error = "other"]
  ELSE [a EXCEPT !.isRunning = IsRunning(s), !.isConnected = s = "connected",
                 !.requested = @ /\ s = "stopped",
                 !.error = IF s \in {"failing", "failed"} THEN "service" ELSE "null"]

\* The screen's effect on errorMessage sees what there is at the next frame: a
\* message that is replaced, or that comes back, before it is not acted upon.
Overwrites(e) ==
  /\ e # app.error
  /\ app.error # screen.error
  /\ app.error # "null" \/ e = screen.error

Becomes(a) == app' = a /\ missed' = (missed \/ Overwrites(a.error))

\* One round of startPolling; syncState reads now and writes later.
PollRead ==
  /\ syncs["poll"] = "none"
  /\ IF app.bound
       THEN syncs' = [syncs EXCEPT !["poll"] = svc] /\ UNCHANGED <<app, missed>>
       ELSE Becomes(clearState(app)) /\ UNCHANGED syncs
  /\ UNCHANGED <<serverVars, granted, events, screen, bubble>>

PollWrite ==
  /\ syncs["poll"] # "none"
  /\ Becomes(Synced(app, syncs["poll"]))
  /\ syncs' = [syncs EXCEPT !["poll"] = "none"]
  /\ UNCHANGED <<serverVars, granted, events, screen, bubble>>

\* stateReceiver: a syncState of its own; then the broadcast's error is shown.
StateReceiver ==
  /\ note # "none" /\ syncs["note"] = "none"
  /\ note' = IF note = "error" /\ app.bound THEN "shown" ELSE "none"
  /\ IF app.bound
       THEN syncs' = [syncs EXCEPT !["note"] = svc] /\ UNCHANGED <<app, missed>>
     ELSE /\ Becomes([app EXCEPT !.error = IF note = "error" THEN "service" ELSE @])
          /\ UNCHANGED syncs
  /\ UNCHANGED <<svc, commands, granted, events, screen, bubble>>

NoteWrite ==
  /\ syncs["note"] # "none"
  /\ LET a == Synced(app, syncs["note"])
     IN  Becomes(IF note = "shown" THEN [a EXCEPT !.error = "service"] ELSE a)
  /\ note' = IF note = "shown" THEN "none" ELSE note
  /\ syncs' = [syncs EXCEPT !["note"] = "none"]
  /\ UNCHANGED <<svc, commands, granted, events, screen, bubble>>

Mut_scheduleRebind(a) ==
  IF a.rebinding THEN {a} ELSE {[a EXCEPT !.rebinding = TRUE]}

\* scheduleRebind: bindService succeeds, and a watchdog is armed, or it fails
\* and is tried again later.
scheduleRebind(a) ==
  IF a.rebinding THEN {a}
  ELSE {[a EXCEPT !.rebinding = TRUE, !.rebind = "watchdog"],
        [a EXCEPT !.rebinding = FALSE, !.rebind = "retry"]}

onServiceDisconnected ==
  /\ svc = "dead" /\ app.bound
  /\ app' \in scheduleRebind([app EXCEPT !.bound = FALSE,
                                         !.rebinding = FALSE])
  /\ UNCHANGED <<serverVars, granted, events, syncs, screen, missed, bubble>>

\* The binding in place comes up again by itself, too (BIND_AUTO_CREATE).
onServiceConnected ==
  /\ svc # "dead" /\ ~app.bound /\ app.rebind # "refused" /\ syncs["note"] = "none"
  /\ app' = [app EXCEPT !.bound = TRUE, !.rebinding = FALSE, !.rebind = "none"]
  /\ syncs' = [syncs EXCEPT !["note"] = svc]
  /\ UNCHANGED <<serverVars, granted, events, screen, missed, bubble>>

RebindRunnable ==
  /\ app.rebind \in {"retry", "watchdog"}
  /\ LET a == [app EXCEPT !.rebind = "none"]
     IN  app' \in (IF a.bound /\ app.rebind = "watchdog" THEN {a}
                   ELSE IF app.rebind = "watchdog"
                          THEN scheduleRebind([a EXCEPT !.rebinding = FALSE])
                          ELSE scheduleRebind(a))
  /\ UNCHANGED <<serverVars, granted, events, syncs, screen, missed, bubble>>

-----------------------------------------------------------------------------
(* The status screen *)

Busy == app.isConnected \/ IsConnecting(app)

\* cancelConnect
Cancelled(a) == [a EXCEPT !.requested = FALSE, !.pending = FALSE]

Mut_Compose ==
  /\ screen' = [error |-> app.error, busy |-> Busy,
                timer |-> IF ~IsConnecting(app) THEN "off"
                          ELSE IF screen.timer = "off" THEN "armed"
                          ELSE screen.timer]
  /\ UNCHANGED <<app, serverVars, granted, events, syncs, missed, bubble>>

\* A frame: the button follows, the connect time-out begins or ends with
\* isConnecting, and a new message ends a request.
Compose ==
  /\ screen' = [error |-> app.error, busy |-> Busy,
                timer |-> IF ~IsConnecting(app) THEN "off"
                          ELSE IF screen.timer = "off" THEN "armed"
                          ELSE screen.timer]
  /\ app' = IF app.error # screen.error /\ app.error # "null"
              THEN Cancelled(app) ELSE app
  /\ UNCHANGED <<serverVars, granted, events, syncs, missed, bubble>>

\* onConnectTimeout, once per connect.  The exit IP is known only when connected,
\* and not always then.
ConnectTimeout ==
  /\ screen.timer = "armed"
  /\ screen' = [screen EXCEPT !.timer = "fired"]
  /\ \E ip \in {FALSE, app.isConnected} :
       IF ~ip /\ app.error = "null"
         THEN Becomes([app EXCEPT !.error = "timeout"])
         ELSE /\ UNCHANGED app
              /\ missed' = (missed \/ ~IsConnecting(app))
  /\ UNCHANGED <<serverVars, granted, events, syncs, bubble>>

\* startVpn; the profile may be gone.
startVpn(a) ==
  \/ /\ Post("start")
     /\ app' = [a EXCEPT !.requested = TRUE, !.error = "null"]
     /\ missed' = (missed \/ Overwrites("null") \/ screen.timer = "fired")
  \/ /\ UNCHANGED commands
     /\ app' = [a EXCEPT !.requested = TRUE, !.error = "other"]
     /\ missed' = (missed \/ Overwrites("null") \/ screen.error = "other")

\* prepareAndStartVpn
TapConnect ==
  /\ Event /\ ~screen.busy /\ Room
  /\ IF granted THEN startVpn(app)
     ELSE /\ Becomes([app EXCEPT !.requested = TRUE, !.pending = TRUE,
                                 !.error = "null"])
          /\ UNCHANGED commands
  /\ UNCHANGED <<svc, note, granted, syncs, screen, bubble>>

\* The dialog's result: onVpnPermissionResult, or cancelConnect.
PermissionResult ==
  /\ app.pending /\ Room
  /\ IF granted THEN startVpn([app EXCEPT !.pending = FALSE])
     ELSE app' = Cancelled(app) /\ UNCHANGED <<commands, missed>>
  /\ UNCHANGED <<svc, note, granted, events, syncs, screen, bubble>>

\* stopVpn
TapStop ==
  /\ Event /\ screen.busy /\ Room
  /\ StopService(app.bound /\ svc # "dead")
  /\ Becomes([Cancelled(app) EXCEPT
                !.error = IF ~app.bound THEN @
                          ELSE IF svc = "dead" THEN "other" ELSE "null"])
  /\ UNCHANGED <<granted, syncs, screen, bubble>>

\* restartVpn after a change of the split-tunnel list: the binder call, and a
\* start once the service is seen stopped, or five seconds later all the same.
TapRestart ==
  /\ Event /\ app.isRunning /\ ~app.restart
  /\ IF app.bound THEN Stops ELSE UNCHANGED <<svc, note>>
  /\ app' = [app EXCEPT !.restart = TRUE]
  /\ UNCHANGED <<commands, granted, syncs, screen, missed, bubble>>

RestartVpn ==
  /\ app.restart /\ Room
  /\ startVpn([app EXCEPT !.restart = FALSE])
  /\ UNCHANGED <<svc, note, granted, events, syncs, screen, bubble>>

-----------------------------------------------------------------------------
(* The bubble *)

\* scheduleRebind keeps at most one attempt under way.
Rebinding(b) ==
  IF b.inFlight THEN b ELSE [b EXCEPT !.attempts = TRUE, !.inFlight = TRUE]

\* What pollState makes of a snapshot.
Polled(b, s) ==
  [b EXCEPT !.state = CASE s = "connected" -> "CONNECTED"
                        [] ~IsRunning(s)   -> "DISCONNECTED"
                        [] OTHER           -> IF @ = "DISCONNECTED"
                                                THEN "CONNECTING" ELSE @]

\* doStart; the profile may be gone.
doStart(b) ==
  \/ /\ Room /\ Post("start")
     /\ bubble' = [b EXCEPT !.pending = FALSE, !.state = "CONNECTING"]
  \/ /\ UNCHANGED commands
     /\ bubble' = [b EXCEPT !.pending = FALSE, !.state = "DISCONNECTED"]

\* pollState, by the poll or by a broadcast.
pollState ==
  /\ IF bubble.pending /\ granted THEN doStart(bubble)
     ELSE /\ bubble' =
               IF ~bubble.bound
                 THEN IF bubble.attempts THEN bubble ELSE Rebinding(bubble)
               ELSE IF svc = "dead"
                 THEN [Rebinding(bubble) EXCEPT !.bound = FALSE,
                         !.state = IF @ = "CONNECTED" THEN "DISCONNECTED" ELSE @]
               ELSE Polled(bubble, svc)
          /\ UNCHANGED commands
  /\ note' = "none"
  /\ UNCHANGED <<svc, granted, events, appVars>>

BubbleDisconnected ==
  /\ svc = "dead" /\ bubble.bound
  /\ bubble' = [Rebinding(bubble) EXCEPT !.bound = FALSE]
  /\ UNCHANGED <<serverVars, granted, events, appVars>>

BubbleConnected ==
  /\ svc # "dead" /\ ~bubble.bound
  /\ bubble' = [bubble EXCEPT !.bound = TRUE, !.attempts = FALSE]
  /\ UNCHANGED <<serverVars, granted, events, appVars>>

\* The runnable binds; onServiceConnected comes later, so it goes on trying.
BubbleRebinds ==
  /\ bubble.inFlight
  /\ bubble' = IF bubble.bound THEN [bubble EXCEPT !.inFlight = FALSE]
               ELSE Rebinding([bubble EXCEPT !.inFlight = FALSE])
  /\ UNCHANGED <<serverVars, granted, events, appVars>>

\* The connect time-out, armed on every way into CONNECTING.
BubbleTimeout ==
  /\ bubble.state = "CONNECTING"
  /\ bubble' = [bubble EXCEPT !.state = "DISCONNECTED"]
  /\ UNCHANGED <<serverVars, granted, events, appVars>>

\* startVpn: nothing if there is no profile or no app for the tunnel; doStart;
\* or the permission is asked for and waited for.
BubbleStarts(b) ==
  \/ bubble' = b /\ UNCHANGED commands
  \/ granted /\ doStart(b)
  \/ /\ ~granted
     /\ \E s \in {"CONNECTING", "DISCONNECTED"} :
          bubble' = [b EXCEPT !.pending = TRUE, !.state = s]
     /\ UNCHANGED commands

\* handleTap and the notification's actions; onBubbleCountrySelected, which when
\* connected starts again half a second after the stop.
BubbleTap ==
  /\ Event
  /\ \/ BubbleStarts(bubble) /\ UNCHANGED <<svc, note>>
     \/ /\ Room /\ StopService(bubble.bound /\ svc # "dead")
        /\ \E again \in {FALSE, bubble.state = "CONNECTED"} :
             bubble' = [bubble EXCEPT !.pending = FALSE, !.restart = @ \/ again,
                                      !.state = "DISCONNECTED"]
  /\ UNCHANGED <<granted, appVars>>

BubbleRestarts ==
  /\ bubble.restart
  /\ BubbleStarts([bubble EXCEPT !.restart = FALSE])
  /\ UNCHANGED <<svc, note, granted, events, appVars>>

-----------------------------------------------------------------------------
Server == ServiceServes \/ ServiceChanges \/ ServiceDies \/ Others

AppSyncs  == PollRead \/ PollWrite \/ StateReceiver \/ NoteWrite
AppBinds  == onServiceDisconnected \/ onServiceConnected \/ RebindRunnable
AppScreen == Compose \/ ConnectTimeout \/ TapConnect \/ PermissionResult \/ TapStop
             \/ TapRestart \/ RestartVpn

BubbleNext ==
  \/ pollState
  \/ BubbleDisconnected \/ BubbleConnected \/ BubbleRebinds
  \/ BubbleTimeout \/ BubbleTap \/ BubbleRestarts

SurfacesNext ==
  /\ UNCHANGED surface
  /\ \/ surface # "none" /\ Server
     \/ surface = "app" /\ (AppSyncs \/ AppBinds \/ AppScreen)
     \/ surface = "bubble" /\ BubbleNext

\* Loopers, pollers and the service's main thread go on, frames are drawn
\* while the screen shows, the binding comes up while there is a process, and
\* commands are served.  The user and the proxy need not do anything.
SurfacesFairness ==
  /\ WF_surfaceVars(surface # "none" /\ UNCHANGED surface /\ ServiceServes)
  /\ WF_surfaceVars(surface = "app" /\ UNCHANGED surface /\ PollRead)
  /\ WF_surfaceVars(surface = "app" /\ UNCHANGED surface /\ PollWrite)
  /\ WF_surfaceVars(surface = "app" /\ UNCHANGED surface /\ NoteWrite)
  /\ WF_surfaceVars(surface = "app" /\ UNCHANGED surface /\ StateReceiver)
  /\ WF_surfaceVars(surface = "app" /\ UNCHANGED surface /\ onServiceConnected)
  /\ WF_surfaceVars(surface = "app" /\ UNCHANGED surface /\ Compose)
  /\ WF_surfaceVars(surface = "app" /\ UNCHANGED surface /\ ConnectTimeout)
  /\ WF_surfaceVars(surface = "app" /\ UNCHANGED surface /\ RestartVpn)
  /\ WF_surfaceVars(surface = "bubble" /\ UNCHANGED surface /\ pollState)
  /\ WF_surfaceVars(surface = "bubble" /\ UNCHANGED surface /\ BubbleConnected)
  /\ WF_surfaceVars(surface = "bubble" /\ UNCHANGED surface /\ BubbleRestarts)

-----------------------------------------------------------------------------
\* The values of the fields.
SurfacesTypeOK ==
  /\ svc \in Snapshots \cup {"dead"}
  /\ Len(commands) <= MaxCommands
  /\ note \in {"none", "plain", "error", "shown"}
  /\ app.error \in {"null", "service", "timeout", "other"}
  /\ app.rebind \in {"none", "first", "refused", "retry", "watchdog"}
  /\ \A w \in DOMAIN syncs : syncs[w] \in Snapshots \cup {"dead", "none"}
  /\ screen.timer \in {"off", "armed", "fired"}
  /\ bubble.state \in {"CONNECTING", "CONNECTED", "DISCONNECTED"}

\* A surface that has lost the service has an attempt to bind again under way,
\* or will begin one at its next poll: neither is left unbound for ever, but
\* for a view model whose first bindService was refused, which never binds.
RebindPending ==
  /\ ~app.bound => app.rebind # "none"
  /\ bubble.attempts /\ ~bubble.bound => bubble.inFlight

\* When the service stays stopped, or stays connected, each surface comes to
\* show that and goes on showing it, whatever was tapped, asked for, timed out
\* or lost before; on the app's screen, if no message was overwritten unseen,
\* and, to show connected, if its first bindService was not refused.
SurfacesSettle ==
  /\ <>[](svc = "stopped") =>
       <>[](missed \/ (~Busy /\ bubble.state = "DISCONNECTED"))
  /\ <>[](surface # "none" /\ svc = "connected") =>
       <>[](IF surface = "app"
              THEN app.rebind = "refused" \/ (app.isConnected /\ ~IsConnecting(app))
            ELSE bubble.state = "CONNECTED")
=============================================================================
