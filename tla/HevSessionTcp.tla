---------------------------- MODULE HevSessionTcp ----------------------------
(***************************************************************************)
(* A TCP session of the hev engine: its task connects to the proxy, shakes *)
(* hands and then splices an lwIP connection and a SOCKS socket            *)
(* (hev-socks5-session.c, hev-socks5-session-tcp.c, hev-socks5-client.c).  *)
(* lwIP calls the session's handlers from another task, between any two    *)
(* yields of this one; the socket's peer is the proxy.                     *)
(*                                                                         *)
(* Data are counted, not kept.  One unit is a segment, Window what lwIP's  *)
(* receive window admits, Ring the size of the session's ring buffer.      *)
(***************************************************************************)
EXTENDS Integers

CONSTANTS
  Window, Ring,  \* TCP_WND and tcp-buffer-size, in units
  MaxUp, MaxDown \* bounds: units the client and the proxy send

ASSUME TcpSessionAssumption == {Window, Ring, MaxUp, MaxDown} \subseteq Nat

VARIABLES
  phase,           \* how far hev_socks5_session_run is
  sleeping,        \* the task waits in hev_socks5_task_io_yielder
  timeout,         \* FALSE: HevSocks5.timeout is 0
  res,             \* res_f and res_b
  queue, pcb_eof,  \* what tcp_recv_handler has left for the task
  used,            \* units in the ring: written to lwIP, not acknowledged
  pcb,             \* the connection's state; "null" when the session lost it
  inbox, hangup,   \* units waiting in the socket; the proxy's end of stream
  writable,        \* the socket's send buffer has room
  shut,            \* shutdown (SHUT_WR) was called
  up, down,        \* history: units <<accepted, delivered>> each way
  fault            \* history: an error, a time-out or a terminate cut it short

tcpTaskVars == <<phase, sleeping, timeout, res>>
lwipVars == <<queue, pcb_eof, pcb>>
sockVars == <<inbox, hangup, writable, shut>>
tcpVars  == <<tcpTaskVars, lwipVars, used, sockVars, up, down, fault>>

\* A session in phase p; tcp_accept_handler has made it and run its task.
TcpFrom(p) ==
  /\ phase = p /\ sleeping = FALSE /\ timeout = TRUE
  /\ res = [f |-> 1, b |-> 1]
  /\ queue = 0 /\ pcb_eof = FALSE /\ pcb = "established" /\ used = 0
  /\ inbox = 0 /\ hangup = FALSE /\ writable = TRUE /\ shut = FALSE
  /\ up = <<0, 0>> /\ down = <<0, 0>> /\ fault = FALSE

TcpInit == TcpFrom("connect")

HasPcb == pcb # "null"
Alive == phase \notin {"none", "gone"}
Running == Alive /\ ~sleeping

-----------------------------------------------------------------------------
(* The task *)

Place(p, wait) == phase' = p /\ sleeping' = wait

\* hev_socks5_task_io_yielder, waiting for I/O: with time-out 0 it fails at
\* once, and so do the waits after it.
WaitIn(p) == IF timeout THEN Place(p, TRUE) ELSE Place("gone", FALSE)

Mut_Drain(p, n) == Place("gone", FALSE)

\* The second loop of hev_socks5_session_tcp_splice: the client must have
\* acknowledged the n units in the ring before hev_socks5_session_tcp_destruct
\* aborts the connection p.
Drain(p, n) ==
  IF p = "null" \/ n = 0 THEN Place("gone", FALSE) ELSE WaitIn("drain")

Mut_SetTimeout == timeout' = TRUE

\* hev_socks5_set_timeout, to the next phase's time-out: only a time-out that
\* is not 0 is replaced, so a terminated session stays terminated.
SetTimeout == timeout' = (IF timeout THEN TRUE ELSE timeout)

\* hev_socks5_client_connect, then hev_socks5_client_handshake: each waits
\* for the proxy until it is done, fails or has waited too long.  The splice
\* does not begin without a connection.
Establish ==
  /\ Running /\ phase \in {"connect", "handshake"}
  /\ \/ WaitIn(phase) /\ UNCHANGED <<timeout, fault>>
     \/ Place("gone", FALSE) /\ fault' = TRUE /\ UNCHANGED timeout
     \/ /\ Place(CASE phase = "connect" -> "handshake"
                   [] phase = "handshake" /\ HasPcb -> "splice"
                   [] OTHER -> "gone", FALSE)
        /\ SetTimeout
        /\ UNCHANGED fault
  /\ UNCHANGED <<res, lwipVars, used, sockVars, up, down>>

\* tcp_splice_f: k units of the queue go to the socket, or the write fails.
SpliceF(k, failed) ==
  /\ k > 0 <=> res.f >= 0 /\ queue > 0 /\ writable /\ ~failed
  /\ k <= queue
  /\ failed => res.f >= 0 /\ queue > 0
ResF(k, failed) ==
  IF res.f < 0 \/ failed \/ (queue = 0 /\ pcb_eof) THEN -1
  ELSE IF k > 0 THEN 1 ELSE 0

\* tcp_splice_b: n units are read into the ring and handed to lwIP, which may
\* refuse them; the end of the stream is seen once all before it is read.
SpliceB(n, failed) ==
  /\ n > 0 <=> res.b >= 0 /\ inbox > 0 /\ used < Ring
  /\ n <= inbox /\ n <= Ring - used
  /\ failed => n > 0 /\ HasPcb

ResB(n, failed) ==
  IF res.b < 0 \/ failed \/ ~HasPcb \/ (hangup /\ inbox = 0 /\ used < Ring) THEN -1
  ELSE IF n > 0 THEN 1 ELSE 0

\* tcp_shutdown (pcb, 0, 1) sends our FIN.
AfterFin(p) ==
  CASE p = "established" -> "finwait"
    [] p = "closewait"   -> "lastack"
    [] OTHER             -> p

\* One pass of the splice loop, to the next yield.
Pass(k, failF, n, failB) ==
  LET rf == ResF(k, failF)
      rb == ResB(n, failB)
      p  == IF res.b >= 0 /\ rb < 0 /\ ~failB THEN AfterFin(pcb) ELSE pcb
  IN  /\ Running /\ phase = "splice"
      /\ SpliceF(k, failF) /\ SpliceB(n, failB)
      /\ res' = [f |-> rf, b |-> rb]
      /\ queue' = queue - k /\ up' = [up EXCEPT ![2] = @ + k]
      /\ writable' \in (IF k > 0 THEN {k = queue, FALSE} ELSE {writable})
      /\ shut' = (shut \/ (rf < 0 /\ res.f >= 0 /\ ~failF))
      /\ inbox' = inbox - n /\ used' = used + n
      /\ pcb' = p
      /\ fault' = (fault \/ failF \/ failB)
      /\ \/ (rf > 0 \/ rb > 0) /\ Place("splice", FALSE)
         \/ rf < 0 /\ rb < 0 /\ Drain(p, used + n)
         \/ rf <= 0 /\ rb <= 0 /\ (rf = 0 \/ rb = 0) /\ WaitIn("splice")
      /\ UNCHANGED <<timeout, pcb_eof, hangup, down>>

DrainPass ==
  /\ Running /\ phase = "drain"
  /\ Drain(pcb, used)
  /\ UNCHANGED <<timeout, res, lwipVars, used, sockVars, up, down, fault>>

\* The wait has lasted for the whole time-out.
TimeExpires ==
  /\ sleeping
  /\ fault' = TRUE
  /\ IF phase = "splice" THEN Drain(pcb, used) ELSE Place("gone", FALSE)
  /\ UNCHANGED <<timeout, res, lwipVars, used, sockVars, up, down>>

Task ==
  \/ Establish
  \/ \E k \in 0..Window, n \in 0..Ring, failF, failB \in BOOLEAN :
       Pass(k, failF, n, failB)
  \/ DrainPass

-----------------------------------------------------------------------------
(* lwIP's calls.  Each handler wakes the task. *)

Wake == sleeping' = FALSE /\ UNCHANGED phase

Mut_tcp_recv_handler(n, eof) ==
  /\ queue' = queue + n /\ pcb_eof' = (pcb_eof \/ eof)
  /\ UNCHANGED <<phase, sleeping>>

tcp_recv_handler(n, eof) ==
  /\ queue' = queue + n /\ pcb_eof' = (pcb_eof \/ eof)
  /\ Wake

ClientSends ==
  /\ Alive /\ pcb \in {"established", "finwait"}
  /\ queue < Window /\ up[1] < MaxUp
  /\ tcp_recv_handler(1, FALSE)
  /\ up' = [up EXCEPT ![1] = @ + 1]
  /\ UNCHANGED <<timeout, res, pcb, used, sockVars, down, fault>>

ClientFins ==
  /\ Alive /\ pcb \in {"established", "finwait"}
  /\ pcb' = IF pcb = "established" THEN "closewait" ELSE "timewait"
  /\ tcp_recv_handler(0, TRUE)
  /\ UNCHANGED <<timeout, res, used, sockVars, up, down, fault>>

Mut_tcp_sent_handler(n) == used' = used - n /\ UNCHANGED <<phase, sleeping>>

tcp_sent_handler(n) == used' = used - n /\ Wake

ClientAcks(n) ==
  /\ Alive /\ HasPcb /\ n <= used
  /\ tcp_sent_handler(n)
  /\ down' = [down EXCEPT ![2] = @ + n]
  /\ UNCHANGED <<timeout, res, lwipVars, sockVars, up, fault>>

\* hev_socks5_session_terminate
terminate == timeout' = FALSE /\ Wake

\* tcp_err_handler: lwIP has freed the connection, because the client or a
\* retransmission limit ended it, or because our FIN was the last one.
tcp_err_handler ==
  /\ Alive /\ HasPcb
  /\ \/ pcb = "lastack" /\ used = 0 /\ UNCHANGED fault
     \/ fault' = TRUE
  /\ pcb' = "null"
  /\ terminate
  /\ UNCHANGED <<res, queue, pcb_eof, used, sockVars, up, down>>

\* The event task of the tunnel stops it.
TunnelStops ==
  /\ Alive
  /\ terminate
  /\ fault' = TRUE
  /\ UNCHANGED <<res, lwipVars, used, sockVars, up, down>>

-----------------------------------------------------------------------------
(* The proxy's end of the socket.  The descriptor wakes the task. *)

ProxySends ==
  /\ phase \in {"splice", "drain"} /\ ~hangup /\ down[1] < MaxDown
  /\ inbox' = inbox + 1 /\ down' = [down EXCEPT ![1] = @ + 1]
  /\ Wake
  /\ UNCHANGED <<timeout, res, lwipVars, used, hangup, writable, shut, up, fault>>

\* An orderly end, or a reset that loses what was not read.
ProxyHangs ==
  /\ phase \in {"splice", "drain"} /\ ~hangup
  /\ hangup' = TRUE
  /\ \/ UNCHANGED <<inbox, fault>>
     \/ inbox' = 0 /\ fault' = TRUE
  /\ Wake
  /\ UNCHANGED <<timeout, res, lwipVars, used, writable, shut, up, down>>

ProxyReads ==
  /\ Alive /\ ~writable
  /\ writable' = TRUE
  /\ Wake
  /\ UNCHANGED <<timeout, res, lwipVars, used, inbox, hangup, shut, up, down,
                 fault>>

TcpNext ==
  \/ Task
  \/ TimeExpires
  \/ ClientSends \/ ClientFins \/ \E n \in 1..Ring : ClientAcks(n)
  \/ tcp_err_handler \/ TunnelStops
  \/ ProxySends \/ ProxyHangs \/ ProxyReads

\* A task that can run does; a client and a proxy that are there acknowledge
\* and read, but nobody has to send, to close or to wait for a time-out.
TcpFairness ==
  /\ WF_tcpVars(Task)
  /\ WF_tcpVars(\E n \in 1..Ring : ClientAcks(n))
  /\ WF_tcpVars(ProxyReads)

TcpSpec == TcpInit /\ [][TcpNext]_tcpVars

FairTcpSpec == TcpSpec /\ TcpFairness

-----------------------------------------------------------------------------
\* The counters stay within the receive window and the ring: tcp_recv_handler
\* never queues more than lwIP's window admits.
TcpTypeOK ==
  /\ phase \in {"none", "connect", "handshake", "splice", "drain", "gone"}
  /\ {sleeping, timeout, pcb_eof, hangup, writable, shut, fault} \subseteq BOOLEAN
  /\ res \in [f : -1..1, b : -1..1]
  /\ pcb \in {"established", "closewait", "lastack", "finwait", "timewait", "null"}
  /\ queue \in 0..Window /\ used \in 0..Ring /\ inbox \in 0..MaxDown
  /\ up \in (0..MaxUp) \X (0..MaxUp) /\ down \in (0..MaxDown) \X (0..MaxDown)

\* No wake-up is lost: while the task sleeps in its splice there is nothing
\* it could move in either direction, and while it drains there are units the
\* client has yet to acknowledge.
SleepsOnlyWhenIdle ==
  /\ sleeping /\ phase = "splice" =>
       /\ res.f < 0 \/ (IF queue > 0 THEN ~writable ELSE ~pcb_eof)
       /\ res.b < 0 \/ used = Ring \/ (inbox = 0 /\ ~hangup)
  /\ sleeping /\ phase = "drain" => used > 0 /\ HasPcb

\* A session that ended by itself has carried everything: all the proxy sent
\* is acknowledged by the client, and all the client sent was written to the
\* proxy, unless lwIP saw the client acknowledge our FIN first (LAST_ACK), at
\* which tcp_err_handler drops what is queued.
OrderlyEndIsComplete ==
  phase = "gone" /\ ~fault =>
    /\ down[1] = down[2]
    /\ timeout => up[1] = up[2] /\ shut

\* A terminated session ends without any help of the client, the proxy or the
\* clock: that is what lets the tunnel stop.
TerminatedEnds == ~timeout ~> phase = "gone"

\* Once both sides have closed, the session ends without a time-out.
ClosedEnds == (pcb_eof /\ hangup) ~> phase = "gone"
=============================================================================
