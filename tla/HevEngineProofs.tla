--------------------------- MODULE HevEngineProofs ---------------------------
(***************************************************************************)
(* The sessions of the hev engine, for any window, ring, pool and batch: a *)
(* task that sleeps has nothing to do, a TCP session that ended by itself  *)
(* has carried everything, and a UDP session keeps the order of datagrams. *)
(***************************************************************************)
EXTENDS HevEngine, HevTunnelProofs, SequenceTheorems

-----------------------------------------------------------------------------
(* The TCP session *)

(***************************************************************************)
(* What was accepted is delivered or still held: from the client it is in  *)
(* the queue, from the proxy in the socket or in the ring; a reset of the  *)
(* proxy, which is a fault, loses what is in the socket.                   *)
(***************************************************************************)
BalanceInv ==
  /\ up[1] = up[2] + queue
  /\ inbox + used + down[2] <= down[1]
  /\ ~fault => down[1] = inbox + used + down[2]

PhasesInv ==
  /\ sleeping => Alive
  /\ phase \in {"connect", "handshake"} => res.f >= 0 /\ res.b >= 0
  /\ phase = "drain" => fault \/ (res.f < 0 /\ res.b < 0)
  /\ pcb_eof => pcb \notin {"established", "finwait"}

(***************************************************************************)
(* A direction is done, while nothing has gone wrong, only when its sender *)
(* has closed and all it sent was moved on.  lwIP drops the connection     *)
(* then only after our FIN and the acknowledgement of the whole ring, and  *)
(* nothing else sets the time-out to 0.                                    *)
(***************************************************************************)
OrderlyInv ==
  ~fault =>
    /\ res.b < 0 => hangup /\ inbox = 0
    /\ res.f < 0 => queue = 0 /\ pcb_eof /\ shut
    /\ pcb \in {"lastack", "finwait", "timewait", "null"} => res.b < 0
    /\ pcb = "null" => used = 0
    /\ ~timeout => pcb = "null"

HevTcpInv ==
  /\ TcpTypeOK /\ BalanceInv /\ PhasesInv /\ OrderlyInv
  /\ SleepsOnlyWhenIdle /\ OrderlyEndIsComplete

-----------------------------------------------------------------------------
(* The UDP session *)

(***************************************************************************)
(* A batch is part of the list, and some of it is still to be sent while   *)
(* the task is in the send.                                                *)
(***************************************************************************)
BatchInv ==
  /\ frames \in Seq(Nat) /\ wire \in Seq(Nat) /\ taken \in Seq(Nat)
  /\ \/ uphase = "send" /\ handed < batch /\ batch <= Len(frames) /\ ures.f >= 0
     \/ uphase # "send" /\ handed = 0 /\ batch = 0 /\ ~outPart

(***************************************************************************)
(* Replies are no more than the proxy has sent, and a task that waits in   *)
(* the middle of a frame has the frame's beginning or, later, all of it.   *)
(***************************************************************************)
ReplyInv ==
  /\ count \in [up : Nat, down : 0..MaxReplies] /\ replies <= count.down
  /\ inPart => replies < count.down /\ utype = "UDP_IN_TCP"
  /\ uphase = "recv" => utype = "UDP_IN_TCP" /\ (inPart \/ replies > 0)

NumberedInv == \A i \in 1..Len(Left) : Left[i] <= count.up

HevUdpInv ==
  /\ UdpTypeOK /\ BatchInv /\ ReplyInv /\ NumberedInv
  /\ FramesKeepOrder /\ UdpSleepsOnlyWhenIdle

USE DEF tcpTaskVars, lwipVars, sockVars

\* The connect and the handshake move nothing, and a session that ends in them has
\* met a fault.
LEMMA EstablishTcp ==
  ASSUME HevTcpInv, Establish
  PROVE  HevTcpInv'
<1>0. TcpTypeOK /\ BalanceInv /\ PhasesInv /\ OrderlyInv
      /\ SleepsOnlyWhenIdle /\ OrderlyEndIsComplete
  BY DEF HevTcpInv
<1>a. {Window, Ring, MaxUp, MaxDown} \subseteq Nat
  BY TcpSessionAssumption
<1>1. TcpTypeOK'
  BY <1>0, <1>a DEF TcpTypeOK, BalanceInv, Establish, WaitIn, Place, SetTimeout, Running, Alive, HasPcb
<1>2. BalanceInv'
  BY <1>0, <1>a DEF TcpTypeOK, BalanceInv, Establish, WaitIn, Place, SetTimeout, Running, Alive, HasPcb
<1>3. PhasesInv'
  BY <1>0, <1>a DEF TcpTypeOK, PhasesInv, Establish, WaitIn, Place, SetTimeout, Running, Alive, HasPcb
<1>4. OrderlyInv'
  BY <1>0, <1>a DEF TcpTypeOK, PhasesInv, OrderlyInv, Establish, WaitIn, Place, SetTimeout, Running, Alive, HasPcb
<1>5. SleepsOnlyWhenIdle'
  BY <1>0, <1>a DEF TcpTypeOK, SleepsOnlyWhenIdle, Establish, WaitIn, Place, SetTimeout, Running, Alive, HasPcb
<1>6. OrderlyEndIsComplete'
  <2> SUFFICES ASSUME phase' = "gone", ~fault'
               PROVE  FALSE
    BY DEF OrderlyEndIsComplete
  <2>1. phase \in {"connect", "handshake"} /\ ~fault /\ (~timeout \/ pcb = "null")
    BY <1>0 DEF TcpTypeOK, Establish, WaitIn, Place, HasPcb
  <2>2. res.b < 0 /\ res.b >= 0
    BY <1>0, <2>1 DEF OrderlyInv, PhasesInv
  <2> QED BY <1>0, <2>2 DEF TcpTypeOK
<1> QED BY <1>1, <1>2, <1>3, <1>4, <1>5, <1>6 DEF HevTcpInv

\* The drain ends when the client has acknowledged the ring.
LEMMA DrainPassTcp ==
  ASSUME HevTcpInv, DrainPass
  PROVE  HevTcpInv'
<1>0. TcpTypeOK /\ BalanceInv /\ PhasesInv /\ OrderlyInv
      /\ SleepsOnlyWhenIdle /\ OrderlyEndIsComplete
  BY DEF HevTcpInv
<1>a. {Window, Ring, MaxUp, MaxDown} \subseteq Nat
  BY TcpSessionAssumption
<1>1. TcpTypeOK'
  BY <1>0, <1>a DEF TcpTypeOK, BalanceInv, DrainPass, Drain, WaitIn, Place, Running, Alive, HasPcb
<1>2. BalanceInv'
  BY <1>0, <1>a DEF TcpTypeOK, BalanceInv, DrainPass, Drain, WaitIn, Place, Running, Alive, HasPcb
<1>3. PhasesInv'
  BY <1>0, <1>a DEF TcpTypeOK, PhasesInv, DrainPass, Drain, WaitIn, Place, Running, Alive, HasPcb
<1>4. OrderlyInv'
  BY <1>0, <1>a DEF TcpTypeOK, PhasesInv, OrderlyInv, DrainPass, Drain, WaitIn, Place, Running, Alive, HasPcb
<1>5. SleepsOnlyWhenIdle'
  BY <1>0, <1>a DEF TcpTypeOK, SleepsOnlyWhenIdle, DrainPass, Drain, WaitIn, Place, Running, Alive, HasPcb
<1>6. OrderlyEndIsComplete'
  BY <1>0, <1>a DEF TcpTypeOK, BalanceInv, PhasesInv, OrderlyInv, OrderlyEndIsComplete,
                    DrainPass, Drain, WaitIn, Place, Running, Alive, HasPcb
<1> QED BY <1>1, <1>2, <1>3, <1>4, <1>5, <1>6 DEF HevTcpInv

\* A time-out is a fault.
LEMMA TimeExpiresTcp ==
  ASSUME HevTcpInv, TimeExpires
  PROVE  HevTcpInv'
<1>0. TcpTypeOK /\ BalanceInv /\ PhasesInv /\ OrderlyInv
      /\ SleepsOnlyWhenIdle /\ OrderlyEndIsComplete
  BY DEF HevTcpInv
<1>a. {Window, Ring, MaxUp, MaxDown} \subseteq Nat
  BY TcpSessionAssumption
<1>1. TcpTypeOK'
  BY <1>0, <1>a DEF TcpTypeOK, BalanceInv, TimeExpires, Drain, WaitIn, Place, Alive, HasPcb
<1>2. BalanceInv'
  BY <1>0, <1>a DEF TcpTypeOK, BalanceInv, TimeExpires, Drain, WaitIn, Place, Alive, HasPcb
<1>3. PhasesInv'
  BY <1>0, <1>a DEF TcpTypeOK, PhasesInv, TimeExpires, Drain, WaitIn, Place, Alive, HasPcb
<1>4. OrderlyInv'
  BY <1>0, <1>a DEF TcpTypeOK, PhasesInv, OrderlyInv, TimeExpires, Drain, WaitIn, Place, Alive, HasPcb
<1>5. SleepsOnlyWhenIdle'
  BY <1>0, <1>a DEF TcpTypeOK, SleepsOnlyWhenIdle, TimeExpires, Drain, WaitIn, Place, Alive, HasPcb
<1>6. OrderlyEndIsComplete'
  BY <1>0, <1>a DEF TcpTypeOK, BalanceInv, PhasesInv, OrderlyInv, OrderlyEndIsComplete,
                    TimeExpires, Drain, WaitIn, Place, Alive, HasPcb
<1> QED BY <1>1, <1>2, <1>3, <1>4, <1>5, <1>6 DEF HevTcpInv

\* lwIP queues a segment of the client.
LEMMA ClientSendsTcp ==
  ASSUME HevTcpInv, ClientSends
  PROVE  HevTcpInv'
<1>0. TcpTypeOK /\ BalanceInv /\ PhasesInv /\ OrderlyInv
      /\ SleepsOnlyWhenIdle /\ OrderlyEndIsComplete
  BY DEF HevTcpInv
<1>a. {Window, Ring, MaxUp, MaxDown} \subseteq Nat
  BY TcpSessionAssumption
<1>1. TcpTypeOK'
  <2>1. up' = <<up[1] + 1, up[2]>> /\ up[1] + 1 \in 0..MaxUp /\ up[2] \in 0..MaxUp
    BY <1>0, <1>a DEF TcpTypeOK, ClientSends
  <2>2. queue' \in 0..Window /\ pcb_eof' \in BOOLEAN
    BY <1>0, <1>a DEF TcpTypeOK, ClientSends, tcp_recv_handler
  <2>3. up' \in (0..MaxUp) \X (0..MaxUp)
    BY <2>1
  <2> QED BY <1>0, <2>2, <2>3 DEF TcpTypeOK, ClientSends, tcp_recv_handler, Wake
<1>2. BalanceInv'
  BY <1>0, <1>a DEF TcpTypeOK, BalanceInv, ClientSends, tcp_recv_handler, Wake, Alive
<1>3. PhasesInv'
  BY <1>0, <1>a DEF TcpTypeOK, PhasesInv, ClientSends, tcp_recv_handler, Wake, Alive
<1>4. OrderlyInv'
  BY <1>0, <1>a DEF TcpTypeOK, PhasesInv, OrderlyInv, ClientSends, tcp_recv_handler, Wake, Alive
<1>5. SleepsOnlyWhenIdle'
  BY <1>0, <1>a DEF TcpTypeOK, SleepsOnlyWhenIdle, ClientSends, tcp_recv_handler, Wake, Alive
<1>6. OrderlyEndIsComplete'
  BY <1>0, <1>a DEF TcpTypeOK, BalanceInv, PhasesInv, OrderlyInv, OrderlyEndIsComplete,
                    ClientSends, tcp_recv_handler, Wake, Alive
<1> QED BY <1>1, <1>2, <1>3, <1>4, <1>5, <1>6 DEF HevTcpInv

\* The client closes its side.
LEMMA ClientFinsTcp ==
  ASSUME HevTcpInv, ClientFins
  PROVE  HevTcpInv'
<1>0. TcpTypeOK /\ BalanceInv /\ PhasesInv /\ OrderlyInv
      /\ SleepsOnlyWhenIdle /\ OrderlyEndIsComplete
  BY DEF HevTcpInv
<1>a. {Window, Ring, MaxUp, MaxDown} \subseteq Nat
  BY TcpSessionAssumption
<1>1. TcpTypeOK'
  <2>1. queue' = queue /\ pcb_eof' \in BOOLEAN
    BY <1>0, <1>a DEF TcpTypeOK, ClientFins, tcp_recv_handler
  <2> QED BY <1>0, <2>1 DEF TcpTypeOK, ClientFins, tcp_recv_handler, Wake
<1>2. BalanceInv'
  BY <1>0, <1>a DEF TcpTypeOK, BalanceInv, ClientFins, tcp_recv_handler, Wake, Alive
<1>3. PhasesInv'
  BY <1>0, <1>a DEF TcpTypeOK, PhasesInv, ClientFins, tcp_recv_handler, Wake, Alive
<1>4. OrderlyInv'
  BY <1>0, <1>a DEF TcpTypeOK, PhasesInv, OrderlyInv, ClientFins, tcp_recv_handler, Wake, Alive
<1>5. SleepsOnlyWhenIdle'
  BY <1>0, <1>a DEF TcpTypeOK, SleepsOnlyWhenIdle, ClientFins, tcp_recv_handler, Wake, Alive
<1>6. OrderlyEndIsComplete'
  BY <1>0, <1>a DEF TcpTypeOK, BalanceInv, PhasesInv, OrderlyInv, OrderlyEndIsComplete,
                    ClientFins, tcp_recv_handler, Wake, Alive
<1> QED BY <1>1, <1>2, <1>3, <1>4, <1>5, <1>6 DEF HevTcpInv

\* The client acknowledges what is in the ring.
LEMMA ClientAcksTcp ==
  ASSUME HevTcpInv, NEW n \in 1..Ring, ClientAcks(n)
  PROVE  HevTcpInv'
<1>0. TcpTypeOK /\ BalanceInv /\ PhasesInv /\ OrderlyInv
      /\ SleepsOnlyWhenIdle /\ OrderlyEndIsComplete
  BY DEF HevTcpInv
<1>a. {Window, Ring, MaxUp, MaxDown} \subseteq Nat
  BY TcpSessionAssumption
<1>1. TcpTypeOK'
  <2>1. /\ down' = <<down[1], down[2] + n>> /\ down[1] \in 0..MaxDown
        /\ down[2] + n \in 0..MaxDown
    BY <1>0, <1>a DEF TcpTypeOK, BalanceInv, ClientAcks
  <2>2. used' \in 0..Ring
    BY <1>0, <1>a DEF TcpTypeOK, ClientAcks, tcp_sent_handler
  <2>3. down' \in (0..MaxDown) \X (0..MaxDown)
    BY <2>1
  <2> QED BY <1>0, <2>2, <2>3 DEF TcpTypeOK, ClientAcks, tcp_sent_handler, Wake
<1>2. BalanceInv'
  BY <1>0, <1>a DEF TcpTypeOK, BalanceInv, ClientAcks, tcp_sent_handler, Wake, Alive, HasPcb
<1>3. PhasesInv'
  BY <1>0, <1>a DEF TcpTypeOK, PhasesInv, ClientAcks, tcp_sent_handler, Wake, Alive, HasPcb
<1>4. OrderlyInv'
  BY <1>0, <1>a DEF TcpTypeOK, PhasesInv, OrderlyInv, ClientAcks, tcp_sent_handler, Wake, Alive, HasPcb
<1>5. SleepsOnlyWhenIdle'
  BY <1>0, <1>a DEF TcpTypeOK, SleepsOnlyWhenIdle, ClientAcks, tcp_sent_handler, Wake, Alive, HasPcb
<1>6. OrderlyEndIsComplete'
  BY <1>0, <1>a DEF TcpTypeOK, BalanceInv, PhasesInv, OrderlyInv, OrderlyEndIsComplete,
                    ClientAcks, tcp_sent_handler, Wake, Alive, HasPcb
<1> QED BY <1>1, <1>2, <1>3, <1>4, <1>5, <1>6 DEF HevTcpInv

\* lwIP drops the connection.
LEMMA ErrTcp ==
  ASSUME HevTcpInv, tcp_err_handler
  PROVE  HevTcpInv'
<1>0. TcpTypeOK /\ BalanceInv /\ PhasesInv /\ OrderlyInv
      /\ SleepsOnlyWhenIdle /\ OrderlyEndIsComplete
  BY DEF HevTcpInv
<1>a. {Window, Ring, MaxUp, MaxDown} \subseteq Nat
  BY TcpSessionAssumption
<1>1. TcpTypeOK'
  BY <1>0, <1>a DEF TcpTypeOK, BalanceInv, tcp_err_handler, terminate, Wake, Alive, HasPcb
<1>2. BalanceInv'
  BY <1>0, <1>a DEF TcpTypeOK, BalanceInv, tcp_err_handler, terminate, Wake, Alive, HasPcb
<1>3. PhasesInv'
  BY <1>0, <1>a DEF TcpTypeOK, PhasesInv, tcp_err_handler, terminate, Wake, Alive, HasPcb
<1>4. OrderlyInv'
  BY <1>0, <1>a DEF TcpTypeOK, PhasesInv, OrderlyInv, tcp_err_handler, terminate, Wake, Alive, HasPcb
<1>5. SleepsOnlyWhenIdle'
  BY <1>0, <1>a DEF TcpTypeOK, SleepsOnlyWhenIdle, tcp_err_handler, terminate, Wake, Alive, HasPcb
<1>6. OrderlyEndIsComplete'
  BY <1>0, <1>a DEF TcpTypeOK, BalanceInv, PhasesInv, OrderlyInv, OrderlyEndIsComplete,
                    tcp_err_handler, terminate, Wake, Alive, HasPcb
<1> QED BY <1>1, <1>2, <1>3, <1>4, <1>5, <1>6 DEF HevTcpInv

\* The tunnel terminates the session.
LEMMA TunnelStopsTcp ==
  ASSUME HevTcpInv, TunnelStops
  PROVE  HevTcpInv'
<1>0. TcpTypeOK /\ BalanceInv /\ PhasesInv /\ OrderlyInv
      /\ SleepsOnlyWhenIdle /\ OrderlyEndIsComplete
  BY DEF HevTcpInv
<1>a. {Window, Ring, MaxUp, MaxDown} \subseteq Nat
  BY TcpSessionAssumption
<1>1. TcpTypeOK'
  BY <1>0, <1>a DEF TcpTypeOK, BalanceInv, TunnelStops, terminate, Wake, Alive
<1>2. BalanceInv'
  BY <1>0, <1>a DEF TcpTypeOK, BalanceInv, TunnelStops, terminate, Wake, Alive
<1>3. PhasesInv'
  BY <1>0, <1>a DEF TcpTypeOK, PhasesInv, TunnelStops, terminate, Wake, Alive
<1>4. OrderlyInv'
  BY <1>0, <1>a DEF TcpTypeOK, PhasesInv, OrderlyInv, TunnelStops, terminate, Wake, Alive
<1>5. SleepsOnlyWhenIdle'
  BY <1>0, <1>a DEF TcpTypeOK, SleepsOnlyWhenIdle, TunnelStops, terminate, Wake, Alive
<1>6. OrderlyEndIsComplete'
  BY <1>0, <1>a DEF TcpTypeOK, BalanceInv, PhasesInv, OrderlyInv, OrderlyEndIsComplete,
                    TunnelStops, terminate, Wake, Alive
<1> QED BY <1>1, <1>2, <1>3, <1>4, <1>5, <1>6 DEF HevTcpInv

\* The proxy sends.
LEMMA ProxySendsTcp ==
  ASSUME HevTcpInv, ProxySends
  PROVE  HevTcpInv'
<1>0. TcpTypeOK /\ BalanceInv /\ PhasesInv /\ OrderlyInv
      /\ SleepsOnlyWhenIdle /\ OrderlyEndIsComplete
  BY DEF HevTcpInv
<1>a. {Window, Ring, MaxUp, MaxDown} \subseteq Nat
  BY TcpSessionAssumption
<1>1. TcpTypeOK'
  <2>1. /\ down' = <<down[1] + 1, down[2]>> /\ down[2] \in 0..MaxDown
        /\ down[1] + 1 \in 0..MaxDown
    BY <1>0, <1>a DEF TcpTypeOK, ProxySends
  <2>2. inbox' \in 0..MaxDown
    BY <1>0, <1>a DEF TcpTypeOK, BalanceInv, ProxySends
  <2>3. down' \in (0..MaxDown) \X (0..MaxDown)
    BY <2>1
  <2> QED BY <1>0, <2>2, <2>3 DEF TcpTypeOK, ProxySends, Wake
<1>2. BalanceInv'
  BY <1>0, <1>a DEF TcpTypeOK, BalanceInv, ProxySends, Wake, Alive
<1>3. PhasesInv'
  BY <1>0, <1>a DEF TcpTypeOK, PhasesInv, ProxySends, Wake, Alive
<1>4. OrderlyInv'
  BY <1>0, <1>a DEF TcpTypeOK, PhasesInv, OrderlyInv, ProxySends, Wake, Alive
<1>5. SleepsOnlyWhenIdle'
  BY <1>0, <1>a DEF TcpTypeOK, SleepsOnlyWhenIdle, ProxySends, Wake, Alive
<1>6. OrderlyEndIsComplete'
  BY <1>0, <1>a DEF TcpTypeOK, BalanceInv, PhasesInv, OrderlyInv, OrderlyEndIsComplete,
                    ProxySends, Wake, Alive
<1> QED BY <1>1, <1>2, <1>3, <1>4, <1>5, <1>6 DEF HevTcpInv

\* The proxy closes its side.
LEMMA ProxyHangsTcp ==
  ASSUME HevTcpInv, ProxyHangs
  PROVE  HevTcpInv'
<1>0. TcpTypeOK /\ BalanceInv /\ PhasesInv /\ OrderlyInv
      /\ SleepsOnlyWhenIdle /\ OrderlyEndIsComplete
  BY DEF HevTcpInv
<1>a. {Window, Ring, MaxUp, MaxDown} \subseteq Nat
  BY TcpSessionAssumption
<1>1. TcpTypeOK'
  <2>1. inbox' \in {inbox, 0} /\ (fault' = fault \/ fault' = TRUE)
    BY DEF ProxyHangs
  <2>2. inbox' \in 0..MaxDown
    BY <1>0, <1>a, <2>1 DEF TcpTypeOK
  <2> QED BY <1>0, <2>1, <2>2 DEF TcpTypeOK, ProxyHangs, Wake
<1>2. BalanceInv'
  BY <1>0, <1>a DEF TcpTypeOK, BalanceInv, ProxyHangs, Wake, Alive
<1>3. PhasesInv'
  BY <1>0, <1>a DEF TcpTypeOK, PhasesInv, ProxyHangs, Wake, Alive
<1>4. OrderlyInv'
  BY <1>0, <1>a DEF TcpTypeOK, PhasesInv, OrderlyInv, ProxyHangs, Wake, Alive
<1>5. SleepsOnlyWhenIdle'
  BY <1>0, <1>a DEF TcpTypeOK, SleepsOnlyWhenIdle, ProxyHangs, Wake, Alive
<1>6. OrderlyEndIsComplete'
  BY <1>0, <1>a DEF TcpTypeOK, BalanceInv, PhasesInv, OrderlyInv, OrderlyEndIsComplete,
                    ProxyHangs, Wake, Alive
<1> QED BY <1>1, <1>2, <1>3, <1>4, <1>5, <1>6 DEF HevTcpInv

\* The proxy reads.
LEMMA ProxyReadsTcp ==
  ASSUME HevTcpInv, ProxyReads
  PROVE  HevTcpInv'
<1>0. TcpTypeOK /\ BalanceInv /\ PhasesInv /\ OrderlyInv
      /\ SleepsOnlyWhenIdle /\ OrderlyEndIsComplete
  BY DEF HevTcpInv
<1>a. {Window, Ring, MaxUp, MaxDown} \subseteq Nat
  BY TcpSessionAssumption
<1>1. TcpTypeOK'
  BY <1>0, <1>a DEF TcpTypeOK, BalanceInv, ProxyReads, Wake, Alive
<1>2. BalanceInv'
  BY <1>0, <1>a DEF TcpTypeOK, BalanceInv, ProxyReads, Wake, Alive
<1>3. PhasesInv'
  BY <1>0, <1>a DEF TcpTypeOK, PhasesInv, ProxyReads, Wake, Alive
<1>4. OrderlyInv'
  BY <1>0, <1>a DEF TcpTypeOK, PhasesInv, OrderlyInv, ProxyReads, Wake, Alive
<1>5. SleepsOnlyWhenIdle'
  BY <1>0, <1>a DEF TcpTypeOK, SleepsOnlyWhenIdle, ProxyReads, Wake, Alive
<1>6. OrderlyEndIsComplete'
  BY <1>0, <1>a DEF TcpTypeOK, BalanceInv, PhasesInv, OrderlyInv, OrderlyEndIsComplete,
                    ProxyReads, Wake, Alive
<1> QED BY <1>1, <1>2, <1>3, <1>4, <1>5, <1>6 DEF HevTcpInv

\* A pass moves what it can both ways, and sleeps only if that was nothing.
LEMMA PassTcp ==
  ASSUME HevTcpInv, NEW k \in 0..Window, NEW n \in 0..Ring,
         NEW failF \in BOOLEAN, NEW failB \in BOOLEAN, Pass(k, failF, n, failB)
  PROVE  HevTcpInv'
<1> DEFINE rf == ResF(k, failF)
           rb == ResB(n, failB)
           p  == IF res.b >= 0 /\ rb < 0 /\ ~failB THEN AfterFin(pcb) ELSE pcb
           States == {"established", "closewait", "lastack", "finwait", "timewait", "null"}
<1>0. TcpTypeOK /\ BalanceInv /\ PhasesInv /\ OrderlyInv
      /\ SleepsOnlyWhenIdle /\ OrderlyEndIsComplete
  BY DEF HevTcpInv
<1>a. Window \in Nat /\ Ring \in Nat /\ MaxUp \in Nat /\ MaxDown \in Nat
  BY TcpSessionAssumption
<1>b. /\ res.f \in -1..1 /\ res.b \in -1..1 /\ queue \in 0..Window /\ used \in 0..Ring
      /\ inbox \in 0..MaxDown /\ pcb \in States
      /\ up = <<up[1], up[2]>> /\ up[1] \in 0..MaxUp /\ up[2] \in 0..MaxUp
      /\ down[1] \in 0..MaxDown /\ down[2] \in 0..MaxDown
  BY <1>0 DEF TcpTypeOK
\* What the pass does, in terms of its two results.
<1>c. /\ rf \in -1..1 /\ rb \in -1..1
      /\ rf < 0 <=> res.f < 0 \/ failF \/ (queue = 0 /\ pcb_eof)
      /\ rf > 0 => k > 0
      /\ rb < 0 <=> res.b < 0 \/ failB \/ pcb = "null" \/ (hangup /\ inbox = 0 /\ used < Ring)
      /\ rb > 0 => n > 0
      /\ rf = 0 => ~(k > 0)
      /\ rb = 0 => ~(n > 0)
  BY <1>b DEF ResF, ResB, HasPcb
<1>d. /\ k > 0 <=> res.f >= 0 /\ queue > 0 /\ writable /\ ~failF
      /\ k <= queue
      /\ n > 0 <=> res.b >= 0 /\ inbox > 0 /\ used < Ring
      /\ n <= inbox /\ n <= Ring - used
  BY DEF Pass, SpliceF, SpliceB
<1>e. /\ p \in States
      /\ p = "null" <=> pcb = "null"
      /\ p \in {"established", "finwait"} => pcb \in {"established", "finwait"}
      /\ p = pcb \/ (res.b >= 0 /\ rb < 0)
  BY <1>b DEF AfterFin
<1>f. /\ res' = [f |-> rf, b |-> rb] /\ queue' = queue - k
      /\ up' = [up EXCEPT ![2] = up[2] + k]
      /\ inbox' = inbox - n /\ used' = used + n /\ down' = down
  BY DEF Pass
<1>j. /\ ~sleeping /\ phase = "splice" /\ pcb' = p
      /\ writable' \in (IF k > 0 THEN {k = queue, FALSE} ELSE {writable})
      /\ shut' = (shut \/ (rf < 0 /\ res.f >= 0 /\ ~failF))
      /\ fault' = (fault \/ failF \/ failB)
      /\ timeout' = timeout /\ pcb_eof' = pcb_eof /\ hangup' = hangup
  BY DEF Pass, Running
<1>g. \/ (rf > 0 \/ rb > 0) /\ Place("splice", FALSE)
      \/ rf < 0 /\ rb < 0 /\ Drain(p, used + n)
      \/ rf <= 0 /\ rb <= 0 /\ (rf = 0 \/ rb = 0) /\ WaitIn("splice")
  BY DEF Pass
<1> HIDE DEF rf, rb, p
<1>h. \/ phase' = "splice" /\ ~sleeping'
      \/ /\ rf < 0 /\ rb < 0 /\ phase' = "drain" /\ sleeping' = TRUE
         /\ p # "null" /\ used + n # 0
      \/ /\ rf < 0 /\ rb < 0 /\ phase' = "gone" /\ ~sleeping'
         /\ p = "null" \/ used + n = 0 \/ ~timeout
      \/ rf <= 0 /\ rb <= 0 /\ timeout /\ phase' = "splice" /\ sleeping' = TRUE
      \/ rf <= 0 /\ rb <= 0 /\ ~timeout /\ phase' = "gone" /\ ~sleeping'
  BY <1>c, <1>g DEF Place, Drain, WaitIn
<1>i. res'.f = rf /\ res'.b = rb
  BY <1>f
<1>1. TcpTypeOK'
  <2>1. up[2] + k \in 0..MaxUp
    BY <1>0, <1>a, <1>b, <1>d DEF BalanceInv
  <2>2. up' \in (0..MaxUp) \X (0..MaxUp)
    <3>1. up' = <<up[1], up[2] + k>>
      BY <1>0, <1>f DEF TcpTypeOK
    <3> QED BY <1>b, <2>1, <3>1
  <2>3. queue - k \in 0..Window /\ used + n \in 0..Ring /\ inbox - n \in 0..MaxDown
    BY <1>a, <1>b, <1>d
  <2>4. res' \in [f : -1..1, b : -1..1]
    BY <1>c, <1>f
  <2>5. writable' \in BOOLEAN /\ shut' \in BOOLEAN /\ fault' \in BOOLEAN
    BY <1>0, <1>j DEF TcpTypeOK
  <2>6. phase' \in {"splice", "drain", "gone"} /\ sleeping' \in BOOLEAN
    BY <1>h, <1>g DEF Place, Drain, WaitIn
  <2> QED BY <1>0, <1>e, <1>f, <1>j, <2>2, <2>3, <2>4, <2>5, <2>6 DEF TcpTypeOK
<1>2. BalanceInv'
  <2>1. up'[1] = up[1] /\ up'[2] = up[2] + k
    BY <1>b, <1>f
  <2>2. ~fault' => ~fault
    BY <1>j
  <2>3. queue' = queue - k /\ inbox' + used' = inbox + used
    BY <1>b, <1>f
  <2> QED BY <1>0, <1>b, <1>f, <2>1, <2>2, <2>3 DEF BalanceInv
<1>3. PhasesInv'
  BY <1>0, <1>e, <1>h, <1>i, <1>j DEF PhasesInv, Alive
<1>4. OrderlyInv'
  <2> SUFFICES ASSUME ~fault'
               PROVE  /\ rb < 0 => hangup /\ inbox' = 0
                      /\ rf < 0 => queue' = 0 /\ pcb_eof /\ shut'
                      /\ p \in {"lastack", "finwait", "timewait", "null"} => rb < 0
                      /\ p = "null" => used' = 0
                      /\ ~timeout => p = "null"
    BY <1>i, <1>j DEF OrderlyInv
  <2>1. ~fault /\ ~failF /\ ~failB
    BY <1>j
  <2>2. /\ res.b < 0 => hangup /\ inbox = 0
        /\ res.f < 0 => queue = 0 /\ pcb_eof /\ shut
        /\ pcb \in {"lastack", "finwait", "timewait", "null"} => res.b < 0
        /\ pcb = "null" => used = 0
        /\ ~timeout => pcb = "null"
    BY <1>0, <2>1 DEF OrderlyInv
  <2>3. rb < 0 => hangup /\ inbox' = 0
    BY <1>b, <1>c, <1>d, <1>f, <2>1, <2>2
  <2>4. rf < 0 => queue' = 0 /\ pcb_eof /\ shut'
    <3>1. rf < 0 => queue = 0 /\ pcb_eof
      BY <1>c, <2>1, <2>2
    <3>2. rf < 0 => shut'
      <4>1. CASE res.f < 0
        BY <1>j, <2>2, <4>1
      <4>2. CASE res.f >= 0
        BY <1>j, <2>1, <4>2
      <4> QED BY <1>b, <4>1, <4>2
    <3>3. queue = 0 => queue' = 0
      BY <1>b, <1>d, <1>f
    <3> QED BY <3>1, <3>2, <3>3
  <2>5. p \in {"lastack", "finwait", "timewait", "null"} => rb < 0
    BY <1>b, <1>c, <1>e, <2>2
  <2>6. p = "null" => used' = 0
    BY <1>b, <1>d, <1>e, <1>f, <2>2
  <2> QED BY <1>e, <2>2, <2>3, <2>4, <2>5, <2>6
<1>5. SleepsOnlyWhenIdle'
  <2>1. ASSUME sleeping', phase' = "splice"
        PROVE  /\ rf < 0 \/ (IF queue' > 0 THEN ~writable' ELSE ~pcb_eof')
               /\ rb < 0 \/ used' = Ring \/ (inbox' = 0 /\ ~hangup')
    <3>1. rf <= 0 /\ rb <= 0
      BY <1>h, <2>1
    <3>2. rf < 0 \/ (IF queue' > 0 THEN ~writable' ELSE ~pcb_eof')
      <4> SUFFICES ASSUME rf = 0
                   PROVE  IF queue' > 0 THEN ~writable' ELSE ~pcb_eof'
        BY <1>c, <3>1
      <4>1. k = 0 /\ queue' = queue /\ ~(res.f < 0) /\ ~failF /\ ~(queue = 0 /\ pcb_eof)
        BY <1>b, <1>c, <1>f
      <4>2. queue > 0 => ~writable
        BY <1>b, <1>d, <4>1
      <4> QED BY <1>b, <1>j, <4>1, <4>2
    <3>3. rb < 0 \/ used' = Ring \/ (inbox' = 0 /\ ~hangup')
      BY <1>a, <1>b, <1>c, <1>d, <1>f, <1>j, <3>1
    <3> QED BY <3>2, <3>3
  <2>2. ASSUME sleeping', phase' = "drain"
        PROVE  used' > 0 /\ pcb' # "null"
    BY <1>b, <1>f, <1>h, <1>j, <2>2
  <2> QED BY <1>i, <2>1, <2>2 DEF SleepsOnlyWhenIdle, HasPcb
<1>6. OrderlyEndIsComplete'
  <2> SUFFICES ASSUME phase' = "gone", ~fault'
               PROVE  down'[1] = down'[2] /\ (timeout' => up'[1] = up'[2] /\ shut')
    BY DEF OrderlyEndIsComplete
  <2>1. /\ rb < 0 => inbox' = 0
        /\ rf < 0 => queue' = 0 /\ shut'
        /\ p = "null" => used' = 0 /\ rb < 0
        /\ ~timeout => p = "null"
    BY <1>4, <1>i, <1>j DEF OrderlyInv
  <2>2. inbox' = 0 /\ used' = 0 /\ (timeout => queue' = 0 /\ shut')
    BY <1>f, <1>h, <1>j, <2>1
  <2>3. /\ down'[1] = inbox' + used' + down'[2] /\ up'[1] = up'[2] + queue'
        /\ up'[2] \in 0..MaxUp /\ down'[2] \in 0..MaxDown
    BY <1>1, <1>2 DEF BalanceInv, TcpTypeOK
  <2> QED BY <1>a, <1>j, <2>2, <2>3
<1> QED BY <1>1, <1>2, <1>3, <1>4, <1>5, <1>6 DEF HevTcpInv

\* A step that leaves the session alone.
LEMMA TcpSame ==
  ASSUME HevTcpInv, UNCHANGED tcpVars
  PROVE  HevTcpInv'
BY DEF HevTcpInv, tcpVars, TcpTypeOK, BalanceInv, PhasesInv, OrderlyInv, Alive, HasPcb,
       SleepsOnlyWhenIdle, OrderlyEndIsComplete

\* Every step of the task, of lwIP and of the proxy keeps the invariant.
LEMMA TcpStep ==
  ASSUME HevTcpInv, TcpNext
  PROVE  HevTcpInv'
BY EstablishTcp, PassTcp, DrainPassTcp, TimeExpiresTcp, ClientSendsTcp, ClientFinsTcp,
   ClientAcksTcp, ErrTcp, TunnelStopsTcp, ProxySendsTcp, ProxyHangsTcp, ProxyReadsTcp
   DEF TcpNext, Task

\* A new session, or none.
LEMMA TcpInitial ==
  ASSUME NEW ph \in {"none", "connect"}, TcpFrom(ph)
  PROVE  HevTcpInv
<1>1. 0 \in 0..Window /\ 0 \in 0..Ring /\ 0 \in 0..MaxUp /\ 0 \in 0..MaxDown
  BY TcpSessionAssumption
<1>2. <<0, 0>> \in (0..MaxUp) \X (0..MaxUp) /\ <<0, 0>> \in (0..MaxDown) \X (0..MaxDown)
  BY <1>1
<1>3. TcpTypeOK
  <2>1. [f |-> 1, b |-> 1] \in [f : -1..1, b : -1..1]
    OBVIOUS
  <2> QED BY <1>1, <1>2, <2>1 DEF TcpFrom, TcpTypeOK
<1>4. BalanceInv /\ PhasesInv /\ OrderlyInv
  BY DEF TcpFrom, BalanceInv, PhasesInv, OrderlyInv
<1>5. SleepsOnlyWhenIdle /\ OrderlyEndIsComplete
  BY DEF TcpFrom, SleepsOnlyWhenIdle, OrderlyEndIsComplete
<1> QED BY <1>3, <1>4, <1>5 DEF HevTcpInv

-----------------------------------------------------------------------------
(* Sequences of datagrams *)

\* Lists of datagrams may be put together in any grouping.
LEMMA Regroup ==
  ASSUME NEW s \in Seq(Nat), NEW t \in Seq(Nat), NEW u \in Seq(Nat)
  PROVE  (s \o t) \o u = s \o (t \o u)
BY SMTT(20)

\* The part of a list before and after a cut makes up the list.
LEMMA CutConcat ==
  ASSUME NEW s \in Seq(Nat), NEW a \in Nat, NEW b \in Nat, a <= b, b <= Len(s)
  PROVE  SubSeq(s, a + 1, b) \o SubSeq(s, b + 1, Len(s)) = SubSeq(s, a + 1, Len(s))
<1>1. Len(s) \in Nat
  BY LenProperties
<1>2. a + 1 \in 1..Len(s) + 1 /\ b \in (a + 1) - 1..Len(s) /\ Len(s) \in b..Len(s)
  BY <1>1
<1> QED BY <1>2, ConcatAdjacentSubSeq

\* A part of a list of datagrams is one.
LEMMA PartOfList ==
  ASSUME NEW s \in Seq(Nat), NEW a \in Nat, NEW b \in Nat, b <= Len(s)
  PROVE  /\ SubSeq(s, a + 1, b) \in Seq(Nat)
         /\ Len(SubSeq(s, a + 1, b)) = IF a <= b THEN b - a ELSE 0
<1>1. Len(s) \in Nat
  BY LenProperties
<1>2. \A i \in a + 1..b : s[i] \in Nat
  BY <1>1, ElementOfSeq
<1>3. /\ SubSeq(s, a + 1, b) \in Seq(Nat)
      /\ Len(SubSeq(s, a + 1, b)) = IF a + 1 <= b THEN b - (a + 1) + 1 ELSE 0
  <2>1. a + 1 \in Int /\ b \in Int
    OBVIOUS
  <2> QED BY <1>2, <2>1, SubSeqProperties
<1> QED BY <1>3

\* What is added to a list is added to the part after a cut.
LEMMA PartOfAppend ==
  ASSUME NEW s \in Seq(Nat), NEW e \in Nat, NEW a \in Nat, a <= Len(s)
  PROVE  SubSeq(Append(s, e), a + 1, Len(s) + 1) = Append(SubSeq(s, a + 1, Len(s)), e)
<1> DEFINE t == Append(s, e)
           x == SubSeq(t, a + 1, Len(s) + 1)
           y == SubSeq(s, a + 1, Len(s))
           m == Len(s) - a
<1>1. /\ Len(s) \in Nat /\ m \in Nat /\ t \in Seq(Nat) /\ Len(t) = Len(s) + 1
      /\ \A i \in 1..Len(s) : t[i] = s[i]
      /\ t[Len(s) + 1] = e
  BY AppendProperties, LenProperties
<1>2. /\ x \in Seq(Nat) /\ Len(x) = m + 1 /\ \A i \in 1..m + 1 : x[i] = t[a + i]
  <2>1. \A i \in a + 1..Len(s) + 1 : t[i] \in Nat
    BY <1>1, ElementOfSeq
  <2> HIDE DEF t
  <2>2. /\ x \in Seq(Nat)
        /\ Len(x) = IF a + 1 <= Len(s) + 1 THEN (Len(s) + 1) - (a + 1) + 1 ELSE 0
        /\ \A i \in 1..(Len(s) + 1) - (a + 1) + 1 : x[i] = t[(a + 1) + i - 1]
    BY <1>1, <2>1, SubSeqProperties
  <2> HIDE DEF x
  <2> QED BY <1>1, <2>2
<1>3. /\ y \in Seq(Nat) /\ Len(y) = m /\ \A i \in 1..m : y[i] = s[a + i]
  <2>1. \A i \in a + 1..Len(s) : s[i] \in Nat
    BY <1>1, ElementOfSeq
  <2>2. /\ y \in Seq(Nat)
        /\ Len(y) = IF a + 1 <= Len(s) THEN Len(s) - (a + 1) + 1 ELSE 0
        /\ \A i \in 1..Len(s) - (a + 1) + 1 : y[i] = s[(a + 1) + i - 1]
    BY <1>1, <2>1, SubSeqProperties
  <2> HIDE DEF y
  <2> QED BY <1>1, <2>2
<1> HIDE DEF x, y, t
<1>4. /\ Append(y, e) \in Seq(Nat) /\ Len(Append(y, e)) = m + 1
      /\ \A i \in 1..m : Append(y, e)[i] = y[i]
      /\ Append(y, e)[m + 1] = e
  BY <1>3, AppendProperties
<1>5. \A i \in 1..m + 1 : x[i] = Append(y, e)[i]
  <2> SUFFICES ASSUME NEW i \in 1..m + 1
               PROVE  x[i] = Append(y, e)[i]
    OBVIOUS
  <2>1. CASE i = m + 1
    <3>1. a + i = Len(s) + 1
      BY <1>1, <2>1
    <3> QED BY <1>1, <1>2, <1>4, <2>1, <3>1
  <2>2. CASE i # m + 1
    <3>1. i \in Nat /\ 1 <= i /\ i <= m
      <4> HIDE DEF m
      <4> QED BY <1>1, <2>2
    <3>2. i \in 1..m /\ a + i \in 1..Len(s)
      BY <1>1, <3>1
    <3> HIDE DEF m
    <3> QED BY <1>1, <1>2, <1>3, <1>4, <3>2
  <2> QED BY <2>1, <2>2
<1>6. x = Append(y, e)
  BY <1>2, <1>4, <1>5, SeqEqual
<1> QED BY <1>6 DEF x, y, t

\* The part of a list after a cut, and its elements.
LEMMA ListAfterCut ==
  ASSUME NEW s \in Seq(Nat), NEW a \in Nat, a <= Len(s)
  PROVE  /\ SubSeq(s, a + 1, Len(s)) \in Seq(Nat)
         /\ Len(SubSeq(s, a + 1, Len(s))) = Len(s) - a
         /\ Len(SubSeq(s, a + 1, Len(s))) \in Nat
         /\ \A i \in 1..Len(s) - a : SubSeq(s, a + 1, Len(s))[i] = s[a + i]
<1> DEFINE y == SubSeq(s, a + 1, Len(s))
<1>1. Len(s) \in Nat
  BY LenProperties
<1>2. \A i \in a + 1..Len(s) : s[i] \in Nat
  BY <1>1, ElementOfSeq
<1>3. /\ y \in Seq(Nat)
      /\ Len(y) = IF a + 1 <= Len(s) THEN Len(s) - (a + 1) + 1 ELSE 0
      /\ \A i \in 1..Len(s) - (a + 1) + 1 : y[i] = s[(a + 1) + i - 1]
  BY <1>1, <1>2, SubSeqProperties
<1> HIDE DEF y
<1>4. /\ y \in Seq(Nat) /\ Len(y) = Len(s) - a /\ Len(y) \in Nat
      /\ \A i \in 1..Len(s) - a : y[i] = s[a + i]
  BY <1>1, <1>3
<1> QED BY <1>4 DEF y

\* What is on the wire and what still waits make up one list.
LEMMA LeftIsList ==
  ASSUME frames \in Seq(Nat), wire \in Seq(Nat), handed \in Nat, handed <= Len(frames)
  PROVE  Left \in Seq(Nat)
BY ListAfterCut, ConcatProperties DEF Left

\* Leaving out the first frames after a cut keeps the order of what is left,
\* and its bound.
LEMMA SkipKeepsOrder ==
  ASSUME NEW s \in Seq(Nat), NEW t \in Seq(Nat), NEW a \in Nat, NEW b \in Nat,
         a <= b, b <= Len(t), NEW c \in Nat,
         Ascending(s \o SubSeq(t, a + 1, Len(t))),
         \A i \in 1..Len(s \o SubSeq(t, a + 1, Len(t))) :
            (s \o SubSeq(t, a + 1, Len(t)))[i] <= c
  PROVE  /\ Ascending(s \o SubSeq(t, b + 1, Len(t)))
         /\ \A i \in 1..Len(s \o SubSeq(t, b + 1, Len(t))) :
               (s \o SubSeq(t, b + 1, Len(t)))[i] <= c
<1> DEFINE p == SubSeq(t, a + 1, Len(t))
           q == SubSeq(t, b + 1, Len(t))
           x == s \o p
           y == s \o q
           k == Len(s)
           l == Len(t)
           At(i) == IF i <= k THEN i ELSE i + (b - a)
<1>1. k \in Nat /\ l \in Nat /\ a <= l
  BY LenProperties
<1>2. /\ p \in Seq(Nat) /\ Len(p) = l - a /\ \A i \in 1..l - a : p[i] = t[a + i]
  BY <1>1, ListAfterCut
<1>3. /\ q \in Seq(Nat) /\ Len(q) = l - b /\ \A i \in 1..l - b : q[i] = t[b + i]
  BY <1>1, ListAfterCut
<1> HIDE DEF p, q
<1>4. /\ x \in Seq(Nat) /\ Len(x) = k + (l - a)
      /\ \A i \in 1..k + (l - a) : x[i] = IF i <= k THEN s[i] ELSE p[i - k]
  <2>1. /\ x \in Seq(Nat) /\ Len(x) = Len(s) + Len(p)
        /\ \A i \in 1..Len(s) + Len(p) : x[i] = IF i <= Len(s) THEN s[i] ELSE p[i - Len(s)]
    BY <1>2, ConcatProperties
  <2> HIDE DEF x
  <2> QED BY <1>2, <2>1
<1>5. /\ y \in Seq(Nat) /\ Len(y) = k + (l - b)
      /\ \A i \in 1..k + (l - b) : y[i] = IF i <= k THEN s[i] ELSE q[i - k]
  <2>1. /\ y \in Seq(Nat) /\ Len(y) = Len(s) + Len(q)
        /\ \A i \in 1..Len(s) + Len(q) : y[i] = IF i <= Len(s) THEN s[i] ELSE q[i - Len(s)]
    BY <1>3, ConcatProperties
  <2> HIDE DEF y
  <2> QED BY <1>3, <2>1
<1> HIDE DEF x, y, k, l
<1>6. ASSUME NEW i \in 1..Len(y)
      PROVE  At(i) \in 1..Len(x) /\ y[i] = x[At(i)]
  <2>0. Len(y) = k + (l - b) /\ Len(x) = k + (l - a)
    BY <1>4, <1>5
  <2>1. i \in Nat /\ 1 <= i /\ i <= k + (l - b)
    BY <1>1, <2>0
  <2>2. CASE i <= k
    BY <1>1, <1>4, <1>5, <2>0, <2>1, <2>2
  <2>3. CASE ~(i <= k)
    <3>1. At(i) = i + (b - a) /\ At(i) \in 1..k + (l - a) /\ ~(At(i) <= k)
      BY <1>1, <2>1, <2>3
    <3>2. At(i) - k \in 1..l - a /\ a + (At(i) - k) = b + (i - k) /\ i - k \in 1..l - b
      BY <1>1, <2>1, <2>3, <3>1
    <3> HIDE DEF At
    <3>3. y[i] = q[i - k] /\ q[i - k] = t[b + (i - k)]
      BY <1>1, <1>3, <1>5, <2>1, <2>3, <3>2
    <3>4. x[At(i)] = p[At(i) - k] /\ p[At(i) - k] = t[a + (At(i) - k)]
      BY <1>2, <1>4, <3>1, <3>2
    <3> QED BY <2>0, <3>1, <3>2, <3>3, <3>4
  <2> QED BY <2>2, <2>3
<1>7. \A i, j \in 1..Len(y) : i < j => At(i) < At(j)
  BY <1>1, <1>5
<1> HIDE DEF At
<1>8. Ascending(x) /\ \A i \in 1..Len(x) : x[i] <= c
  BY DEF x, p
<1>9. Ascending(y) /\ \A i \in 1..Len(y) : y[i] <= c
  BY <1>6, <1>7, <1>8 DEF Ascending
<1> QED BY <1>9 DEF y, q

\* A number above all others may be added at the end of a list in order.
LEMMA AppendKeepsOrder ==
  ASSUME NEW s \in Seq(Nat), NEW c \in Nat, Ascending(s),
         \A i \in 1..Len(s) : s[i] <= c
  PROVE  /\ Ascending(Append(s, c + 1))
         /\ \A i \in 1..Len(Append(s, c + 1)) : Append(s, c + 1)[i] <= c + 1
<1> DEFINE t == Append(s, c + 1)
<1>1. /\ t \in Seq(Nat) /\ Len(t) = Len(s) + 1 /\ Len(s) \in Nat
      /\ \A i \in 1..Len(s) : t[i] = s[i]
      /\ t[Len(s) + 1] = c + 1
  BY AppendProperties, LenProperties
<1>2. \A i \in 1..Len(s) : s[i] \in Nat
  BY ElementOfSeq
<1> HIDE DEF t
<1>3. \A i \in 1..Len(t) : i \in 1..Len(s) \/ i = Len(s) + 1
  BY <1>1
<1>4. ASSUME NEW i \in 1..Len(t)
      PROVE  t[i] <= c + 1
  <2>1. CASE i = Len(s) + 1
    BY <1>1, <2>1
  <2>2. CASE i \in 1..Len(s)
    <3>1. t[i] = s[i] /\ s[i] \in Nat /\ s[i] <= c
      BY <1>1, <1>2, <2>2
    <3> QED BY <3>1
  <2> QED BY <1>3, <2>1, <2>2
<1>5. ASSUME NEW i \in 1..Len(t), NEW j \in 1..Len(t), i < j
      PROVE  t[i] < t[j]
  <2>1. i \in 1..Len(s)
    BY <1>1, <1>5
  <2>2. CASE j = Len(s) + 1
    BY <1>1, <1>2, <2>1, <2>2
  <2>3. CASE j \in 1..Len(s)
    BY <1>1, <1>5, <2>1, <2>3 DEF Ascending
  <2> QED BY <1>3, <2>2, <2>3
<1>6. Ascending(t)
  BY <1>5 DEF Ascending
<1> QED BY <1>4, <1>6 DEF t

-----------------------------------------------------------------------------
(* Steps of the UDP session *)

\* The numbers of the session, from its invariant.
LEMMA UdpNumbers ==
  ASSUME HevUdpInv
  PROVE  /\ PoolSize \in Nat /\ CopyNums \in Nat /\ CopyNums > 0 /\ MaxReplies \in Nat
         /\ frames \in Seq(Nat) /\ wire \in Seq(Nat) /\ taken \in Seq(Nat)
         /\ Len(frames) \in Nat /\ handed \in Nat /\ Batch \in 0..CopyNums
         /\ handed <= Batch /\ Batch <= Len(frames)
         /\ ures.f \in -1..1 /\ ures.b \in -1..1
         /\ replies \in 0..MaxReplies /\ replies <= count.down
         /\ count.up \in Nat /\ count.down \in 0..MaxReplies
<1>1. UdpTypeOK /\ BatchInv /\ ReplyInv
  BY DEF HevUdpInv
<1>2. /\ PoolSize \in Nat /\ CopyNums \in Nat /\ CopyNums > 0 /\ MaxReplies \in Nat
  BY UdpSessionAssumption
<1>3. /\ frames \in Seq(Nat) /\ wire \in Seq(Nat) /\ taken \in Seq(Nat)
      /\ Len(frames) \in Nat
  BY <1>1, LenProperties DEF BatchInv
<1>4. /\ handed \in Nat /\ ures.f \in -1..1 /\ ures.b \in -1..1
      /\ replies \in 0..MaxReplies /\ replies <= count.down
      /\ count.up \in Nat /\ count.down \in 0..MaxReplies
  BY <1>1, <1>2 DEF UdpTypeOK, ReplyInv
<1>5. Batch \in 0..CopyNums /\ handed <= Batch /\ Batch <= Len(frames)
  <2>1. CASE uphase = "send"
    BY <1>1, <1>2, <1>3, <2>1 DEF UdpTypeOK, BatchInv, Batch
  <2>2. CASE uphase # "send"
    BY <1>1, <1>2, <1>3, <2>2 DEF UdpTypeOK, BatchInv, Batch
  <2> QED BY <2>1, <2>2
<1> QED BY <1>2, <1>3, <1>4, <1>5

\* The end of a pass sleeps only when both directions had nothing to do.
LEMMA EndOfPassResult ==
  ASSUME NEW rf \in -1..1, NEW rb \in -1..1, EndOfPass(rf, rb)
  PROVE  /\ ures' = [f |-> rf, b |-> rb] /\ ures'.f = rf /\ ures'.b = rb
         /\ ures' \in [f : -1..1, b : -1..1]
         /\ uphase' \in {"gone", "loop"} /\ usleeping' \in BOOLEAN
         /\ usleeping' => rf <= 0 /\ rb <= 0
<1>1. ures' = [f |-> rf, b |-> rb] /\ ures'.f = rf /\ ures'.b = rb
  BY DEF EndOfPass
<1>2. /\ uphase' \in {"gone", "loop"} /\ usleeping' \in BOOLEAN
      /\ usleeping' => rf <= 0 /\ rb <= 0
  BY DEF EndOfPass, UdpYield
<1> QED BY <1>1, <1>2

\* What a receive leaves behind: it sleeps in the loop only with nothing to
\* read, and after a wait in the middle of a frame only when that failed.
LEMMA ReceiveResult ==
  ASSUME HevUdpInv, NEW rf \in -1..1, Receive(rf) \/ RecvBroken(rf)
  PROVE  /\ uphase' \in {"gone", "loop", "recv"} /\ usleeping' \in BOOLEAN
         /\ ures' \in [f : -1..1, b : -1..1]
         /\ uphase' = "loop" => ures'.f = rf
         /\ replies' \in Nat /\ replies' <= replies
         /\ inPart' \in BOOLEAN /\ missed' \in BOOLEAN
         /\ inPart' => inPart
         /\ uphase' = "recv" => inPart'
         /\ usleeping' /\ uphase' = "loop" =>
              /\ rf <= 0
              /\ ures'.b < 0 \/ (replies' = 0 /\ ~inPart')
              /\ uphase = "recv" => missed'
<1>0. /\ ures \in [f : -1..1, b : -1..1] /\ {inPart, missed} \subseteq BOOLEAN
      /\ inPart => utype = "UDP_IN_TCP"
      /\ uphase = "recv" => utype = "UDP_IN_TCP" /\ (inPart \/ replies > 0)
  BY DEF HevUdpInv, UdpTypeOK, ReplyInv
<1>1. CopyNums \in Nat /\ CopyNums > 0 /\ replies \in Nat
  BY UdpNumbers
<1>2. CASE /\ EndOfPass(rf, -1) /\ missed' = (uphase = "recv")
           /\ UNCHANGED <<replies, inPart>>
  <2>1. -1 \in -1..1
    OBVIOUS
  <2>2. /\ ures'.f = rf /\ ures'.b = -1 /\ ures' \in [f : -1..1, b : -1..1]
        /\ uphase' \in {"gone", "loop"} /\ usleeping' \in BOOLEAN
        /\ usleeping' => rf <= 0
    BY <1>2, <2>1, EndOfPassResult
  <2> QED BY <1>0, <1>1, <1>2, <2>2
<1>3. CASE /\ ures.b >= 0 /\ ~MidFrame
           /\ EndOfPass(rf, IF replies > 0 THEN 1 ELSE 0)
           /\ replies' = IF replies > CopyNums THEN replies - CopyNums ELSE 0
           /\ missed' = FALSE
           /\ UNCHANGED inPart
  <2> DEFINE rb == IF replies > 0 THEN 1 ELSE 0
  <2>1. rb \in -1..1
    BY <1>1
  <2>2. /\ ures'.f = rf /\ ures'.b = rb /\ ures' \in [f : -1..1, b : -1..1]
        /\ uphase' \in {"gone", "loop"} /\ usleeping' \in BOOLEAN
        /\ usleeping' => rf <= 0 /\ rb <= 0
    BY <1>3, <2>1, EndOfPassResult
  <2>3. replies' \in Nat /\ replies' <= replies
    BY <1>1, <1>3
  <2>4. ASSUME usleeping'
        PROVE  replies' = 0 /\ ~inPart /\ uphase # "recv"
    <3>1. replies = 0 /\ replies' = 0
      BY <1>1, <1>3, <2>2, <2>4
    <3>2. ~inPart
      BY <1>0, <1>1, <1>3, <3>1 DEF MidFrame
    <3> QED BY <1>0, <1>1, <3>1, <3>2
  <2> QED BY <1>0, <1>3, <2>2, <2>3, <2>4
<1>4. CASE /\ MidFrame /\ uphase' = "recv" /\ usleeping' = TRUE
           /\ ures' = [ures EXCEPT !.f = rf]
           /\ UNCHANGED <<replies, inPart, missed>>
  <2>1. ures' \in [f : -1..1, b : -1..1]
    BY <1>0, <1>4
  <2> QED BY <1>0, <1>1, <1>4, <2>1 DEF MidFrame
<1>5. CASE RecvBroken(rf)
  <2>1. replies' = 0 /\ ~inPart' /\ missed' /\ inPart' \in BOOLEAN /\ missed' \in BOOLEAN
    BY <1>5 DEF RecvBroken
  <2>0. replies' \in Nat /\ replies' <= replies
    BY <1>1, <2>1
  <2>2. CASE \E rb \in -1..1 : EndOfPass(rf, rb)
    <3>1. PICK rb \in -1..1 : EndOfPass(rf, rb)
      BY <2>2
    <3>2. /\ ures'.f = rf /\ ures' \in [f : -1..1, b : -1..1]
          /\ uphase' \in {"gone", "loop"} /\ usleeping' \in BOOLEAN
          /\ usleeping' => rf <= 0
      BY <3>1, EndOfPassResult
    <3> QED BY <2>0, <2>1, <3>2
  <2>3. CASE uphase' = "gone" /\ usleeping' = FALSE /\ UNCHANGED ures
    BY <1>0, <2>0, <2>1, <2>3
  <2> QED BY <1>5, <2>2, <2>3 DEF RecvBroken
<1> QED BY <1>2, <1>3, <1>4, <1>5 DEF Receive

\* What a send takes from the list and puts on the wire is the next of it.
LEMMA Sent ==
  ASSUME HevUdpInv, NEW m \in Nat, handed <= m, m <= Batch
  PROVE  /\ wire \o SubSeq(frames, handed + 1, m) \in Seq(Nat)
         /\ (wire \o SubSeq(frames, handed + 1, m)) \o SubSeq(frames, m + 1, Len(frames))
              = Left
<1>1. /\ frames \in Seq(Nat) /\ wire \in Seq(Nat) /\ Len(frames) \in Nat
      /\ handed \in Nat /\ Batch \in 0..CopyNums /\ Batch <= Len(frames)
      /\ CopyNums \in Nat
  BY UdpNumbers
<1>2. m <= Len(frames) /\ Len(frames) <= Len(frames)
  BY <1>1
<1>3. SubSeq(frames, handed + 1, m) \o SubSeq(frames, m + 1, Len(frames))
        = SubSeq(frames, handed + 1, Len(frames))
  BY <1>1, <1>2, CutConcat
<1>4. /\ SubSeq(frames, handed + 1, m) \in Seq(Nat)
      /\ SubSeq(frames, m + 1, Len(frames)) \in Seq(Nat)
  BY <1>1, <1>2, PartOfList
<1> DEFINE p == SubSeq(frames, handed + 1, m)
           q == SubSeq(frames, m + 1, Len(frames))
<1>5. (wire \o p) \o q = wire \o (p \o q) /\ wire \o p \in Seq(Nat)
  <2>1. wire \in Seq(Nat) /\ p \in Seq(Nat) /\ q \in Seq(Nat)
    BY <1>1, <1>4
  <2> HIDE DEF p, q
  <2>2. (wire \o p) \o q = wire \o (p \o q)
    BY <2>1, Regroup, Zenon
  <2>3. wire \o p \in Seq(Nat)
    BY <2>1, ConcatProperties
  <2> QED BY <2>2, <2>3
<1> QED BY <1>3, <1>5 DEF Left

\* A send that put the first m frames on the wire, some of them earlier, takes
\* them off the list; in the stream, if it gave up midway, the rest of the
\* batch as well.
LEMMA EndOfSendSafe ==
  ASSUME HevUdpInv, NEW m \in Nat, handed <= m, m <= Batch,
         NEW pt \in BOOLEAN, EndOfSend(m, pt),
         ures.f < 0 => m = 0 /\ ~pt,
         pt => m < Batch,
         wire' = wire \o SubSeq(frames, handed + 1, m),
         UNCHANGED <<utype, taken, control, count>>,
         utimeout' \in BOOLEAN, canSend' \in BOOLEAN
  PROVE  HevUdpInv'
<1> DEFINE d  == IF ures.f < 0 THEN 0 ELSE Delivered(m, pt)
           rf == IF ures.f < 0 \/ (frames # <<>> /\ d = 0) THEN -1
                 ELSE IF d > 0 THEN 1 ELSE 0
<1>0. /\ UdpTypeOK /\ BatchInv /\ ReplyInv /\ NumberedInv
      /\ FramesKeepOrder /\ UdpSleepsOnlyWhenIdle
  BY DEF HevUdpInv
<1>1. /\ PoolSize \in Nat /\ CopyNums \in Nat /\ MaxReplies \in Nat
      /\ frames \in Seq(Nat) /\ wire \in Seq(Nat) /\ taken \in Seq(Nat)
      /\ Len(frames) \in Nat /\ handed \in Nat /\ Batch \in 0..CopyNums
      /\ Batch <= Len(frames) /\ ures.f \in -1..1
      /\ replies \in 0..MaxReplies /\ replies <= count.down
      /\ count.up \in Nat /\ count.down \in 0..MaxReplies
  BY UdpNumbers
<1>2. d \in Nat /\ m <= d /\ d <= Len(frames)
  BY <1>1 DEF Delivered
<1>3. d # m => utype = "UDP_IN_TCP" /\ m < Batch /\ (m > 0 \/ pt)
  <2> SUFFICES ASSUME d # m
               PROVE  utype = "UDP_IN_TCP" /\ m < Batch /\ (m > 0 \/ pt)
    OBVIOUS
  <2>1. ~(ures.f < 0) /\ d = Delivered(m, pt)
    BY <1>1
  <2>2. utype = "UDP_IN_TCP"
    BY <1>0, <2>1 DEF Delivered, UdpTypeOK
  <2>3. m > 0 \/ pt
    BY <2>1, <2>2 DEF Delivered
  <2>4. d = Batch
    BY <2>1, <2>2, <2>3 DEF Delivered
  <2> HIDE DEF d
  <2>5. m < Batch
    BY <1>1, <2>4
  <2> QED BY <2>2, <2>3, <2>5
<1>4. /\ frames' = SubSeq(frames, d + 1, Len(frames))
      /\ batch' = 0 /\ handed' = 0 /\ outPart' = FALSE
      /\ torn' = (torn \/ (utype = "UDP_IN_TCP" /\ m < Batch /\ (m > 0 \/ pt)))
      /\ Receive(rf)
  BY DEF EndOfSend
<1>5. rf \in -1..1 /\ (rf = 0 => frames = <<>>)
  BY <1>2
<1> HIDE DEF d, rf
<1>6. /\ uphase' \in {"gone", "loop", "recv"} /\ usleeping' \in BOOLEAN
      /\ ures' \in [f : -1..1, b : -1..1]
      /\ uphase' = "loop" => ures'.f = rf
      /\ replies' \in Nat /\ replies' <= replies
      /\ inPart' \in BOOLEAN /\ missed' \in BOOLEAN
      /\ inPart' => inPart
      /\ uphase' = "recv" => inPart'
      /\ usleeping' /\ uphase' = "loop" =>
           rf <= 0 /\ (ures'.b < 0 \/ (replies' = 0 /\ ~inPart'))
  BY <1>4, <1>5, ReceiveResult
<1>7. frames' \in Seq(Nat) /\ Len(frames') = Len(frames) - d /\ Len(frames') \in Nat
  BY <1>1, <1>2, <1>4, ListAfterCut
<1>8. /\ wire' \in Seq(Nat)
      /\ wire' \o SubSeq(frames, m + 1, Len(frames)) = Left
  BY Sent
<1>9. torn' \in BOOLEAN /\ (~torn' => ~torn /\ d = m)
  BY <1>0, <1>3, <1>4 DEF UdpTypeOK
<1>10. UdpTypeOK'
  <2>1. Len(frames') <= PoolSize + 1
    BY <1>0, <1>1, <1>2, <1>7 DEF UdpTypeOK
  <2>2. 0 \in 0..CopyNums /\ replies' \in 0..MaxReplies
    BY <1>1, <1>6
  <2>3. {usleeping', utimeout', outPart', canSend', inPart', control', torn', missed'}
          \subseteq BOOLEAN
    BY <1>0, <1>4, <1>6, <1>9 DEF UdpTypeOK
  <2> QED BY <1>0, <1>4, <1>6, <2>1, <2>2, <2>3 DEF UdpTypeOK
<1>11. BatchInv'
  BY <1>0, <1>4, <1>6, <1>7, <1>8 DEF BatchInv
<1>12. ReplyInv'
  <2>1. count' = count /\ utype' = utype
    OBVIOUS
  <2>2. /\ count \in [up : Nat, down : 0..MaxReplies] /\ replies <= count.down
        /\ inPart => replies < count.down /\ utype = "UDP_IN_TCP"
    BY <1>0 DEF ReplyInv
  <2> QED BY <1>1, <1>6, <2>1, <2>2 DEF ReplyInv
<1>13. Left' = wire' \o SubSeq(frames, d + 1, Len(frames))
  <2>1. SubSeq(frames', 1, Len(frames')) = frames'
    BY <1>7, SubSeqFull
  <2>2. handed' + 1 = 1
    BY <1>4
  <2> QED BY <1>4, <2>1, <2>2 DEF Left
<1>14. /\ Ascending(Left')
       /\ \A i \in 1..Len(Left') : Left'[i] <= count.up
  <2>1. /\ Ascending(wire' \o SubSeq(frames, m + 1, Len(frames)))
        /\ \A i \in 1..Len(wire' \o SubSeq(frames, m + 1, Len(frames))) :
             (wire' \o SubSeq(frames, m + 1, Len(frames)))[i] <= count.up
    BY <1>0, <1>8 DEF FramesKeepOrder, NumberedInv
  <2> DEFINE w == wire'
  <2>2. w \in Seq(Nat)
    BY <1>8
  <2>3. /\ Ascending(w \o SubSeq(frames, m + 1, Len(frames)))
        /\ \A i \in 1..Len(w \o SubSeq(frames, m + 1, Len(frames))) :
             (w \o SubSeq(frames, m + 1, Len(frames)))[i] <= count.up
    BY <2>1
  <2> HIDE DEF w
  <2>4. /\ Ascending(w \o SubSeq(frames, d + 1, Len(frames)))
        /\ \A i \in 1..Len(w \o SubSeq(frames, d + 1, Len(frames))) :
             (w \o SubSeq(frames, d + 1, Len(frames)))[i] <= count.up
    BY <1>1, <1>2, <2>2, <2>3, SkipKeepsOrder
  <2> QED BY <1>13, <2>4 DEF w
<1>15. NumberedInv' /\ FramesKeepOrder'
  <2>1. ~torn' => Left' = taken'
    BY <1>0, <1>8, <1>9, <1>13 DEF FramesKeepOrder
  <2> QED BY <1>14, <2>1 DEF NumberedInv, FramesKeepOrder, Ascending
<1>16. UdpSleepsOnlyWhenIdle'
  <2>1. ASSUME rf = 0
        PROVE  frames' = <<>>
    <3>1. Len(frames) = 0
      BY <1>5, <2>1
    <3>2. Len(frames') = 0
      BY <1>1, <1>2, <1>7, <3>1
    <3> QED BY <1>7, <3>2, EmptySeq
  <2>2. rf < 0 \/ rf = 0 \/ rf > 0
    BY <1>5
  <2> QED BY <1>5, <1>6, <2>1, <2>2 DEF UdpSleepsOnlyWhenIdle
<1> QED BY <1>10, <1>11, <1>12, <1>15, <1>16 DEF HevUdpInv

\* The connection and the handshake leave the list alone.
LEMMA UdpEstablishSafe ==
  ASSUME HevUdpInv, UdpEstablish
  PROVE  HevUdpInv'
<1>0. UdpTypeOK /\ BatchInv /\ ReplyInv /\ NumberedInv /\ FramesKeepOrder
  BY DEF HevUdpInv
<1>1. /\ uphase = "connect"
      /\ uphase' \in {"connect", "loop", "gone"} /\ usleeping' \in BOOLEAN
      /\ uphase' = "loop" => ~usleeping'
  <2>1. usleeping \in BOOLEAN
    BY <1>0 DEF UdpTypeOK
  <2>2. uphase = "connect" /\ ~usleeping
    BY DEF UdpEstablish, AtWork
  <2>3. CASE UdpYield("connect", TRUE)
    BY <2>2, <2>3 DEF UdpYield
  <2>4. CASE uphase' \in {"loop", "gone"} /\ UNCHANGED usleeping
    BY <2>1, <2>2, <2>4
  <2> QED BY <2>3, <2>4 DEF UdpEstablish, AtWork
<1>2. UNCHANGED <<utype, utimeout, ures, frames, batch, handed, outPart, canSend,
                  replies, inPart, control, wire, taken, torn, missed, count>>
  BY DEF UdpEstablish
<1>3. UdpTypeOK' /\ BatchInv' /\ ReplyInv'
  BY <1>0, <1>1, <1>2 DEF UdpTypeOK, BatchInv, ReplyInv
<1>4. NumberedInv' /\ FramesKeepOrder' /\ UdpSleepsOnlyWhenIdle'
  BY <1>0, <1>1, <1>2 DEF NumberedInv, FramesKeepOrder, Left, Ascending, UdpSleepsOnlyWhenIdle
<1> QED BY <1>3, <1>4 DEF HevUdpInv

\* A send puts frames of the batch on the wire and ends, or it waits in the
\* middle of the batch.
LEMMA SendFramesSafe ==
  ASSUME HevUdpInv, NEW n \in 0..CopyNums, NEW pt \in BOOLEAN, SendFrames(n, pt)
  PROVE  HevUdpInv'
<1> DEFINE m == handed + n
           p == pt \/ (outPart /\ n = 0)
<1>0. UdpTypeOK /\ BatchInv /\ ReplyInv /\ NumberedInv /\ FramesKeepOrder
  BY DEF HevUdpInv
<1>1. /\ frames \in Seq(Nat) /\ wire \in Seq(Nat) /\ Len(frames) \in Nat
      /\ handed \in Nat /\ Batch \in 0..CopyNums /\ Batch <= Len(frames)
      /\ CopyNums \in Nat /\ ures.f \in -1..1
  BY UdpNumbers
<1>2. m \in Nat /\ handed <= m
  BY <1>1
<1>3. m <= Batch /\ wire' = wire \o SubSeq(frames, handed + 1, m)
  BY DEF SendFrames
<1>4. UNCHANGED <<utype, control, taken, count>>
  BY DEF SendFrames
<1>5. \/ EndOfSend(m, FALSE) /\ UNCHANGED <<canSend, utimeout>>
      \/ EndOfSend(m, p) /\ canSend' = FALSE /\ utimeout' = FALSE
           /\ m # Batch /\ ~(ures.f < 0)
      \/ /\ m # Batch /\ canSend' = FALSE /\ ~(ures.f < 0)
         /\ uphase' = "send" /\ usleeping' = TRUE /\ batch' = Batch /\ handed' = m
         /\ outPart' = p
         /\ UNCHANGED <<utimeout, ures, frames, replies, inPart, torn, missed>>
  BY DEF SendFrames
<1>6. ures.f < 0 => m = 0
  <2>1. n > 0 => ures.f >= 0
    BY DEF SendFrames
  <2>2. ures.f < 0 => handed = 0
    BY <1>0, <1>1 DEF BatchInv
  <2> QED BY <1>1, <2>1, <2>2
<1>7. p \in BOOLEAN
  BY <1>0 DEF UdpTypeOK
<1> HIDE DEF m, p
<1>8. /\ wire' \in Seq(Nat)
      /\ wire' \o SubSeq(frames, m + 1, Len(frames)) = Left
  BY <1>2, <1>3, Sent
<1>9. CASE EndOfSend(m, FALSE) /\ UNCHANGED <<canSend, utimeout>>
  <2>1. utimeout' \in BOOLEAN /\ canSend' \in BOOLEAN /\ FALSE \in BOOLEAN
    BY <1>0, <1>9 DEF UdpTypeOK
  <2> QED BY <1>2, <1>3, <1>4, <1>6, <1>9, <2>1, EndOfSendSafe
<1>10. CASE EndOfSend(m, p) /\ canSend' = FALSE /\ utimeout' = FALSE
              /\ m # Batch /\ ~(ures.f < 0)
  <2>1. utimeout' \in BOOLEAN /\ canSend' \in BOOLEAN
    BY <1>10
  <2>2. m < Batch
    BY <1>1, <1>2, <1>3, <1>10
  <2> QED BY <1>2, <1>3, <1>4, <1>7, <1>10, <2>1, <2>2, EndOfSendSafe
<1>11. CASE /\ m # Batch /\ canSend' = FALSE /\ ~(ures.f < 0)
            /\ uphase' = "send" /\ usleeping' = TRUE /\ batch' = Batch /\ handed' = m
            /\ outPart' = p
            /\ UNCHANGED <<utimeout, ures, frames, replies, inPart, torn, missed>>
  <2>1. m < Batch /\ m \in 0..CopyNums /\ ures.f >= 0
    BY <1>1, <1>2, <1>3, <1>11
  <2>2. UdpTypeOK'
    BY <1>0, <1>1, <1>4, <1>7, <1>11, <2>1 DEF UdpTypeOK
  <2>3. BatchInv' /\ ReplyInv'
    BY <1>0, <1>1, <1>4, <1>8, <1>11, <2>1 DEF BatchInv, ReplyInv
  <2>4. Left' = Left
    BY <1>8, <1>11 DEF Left
  <2>5. NumberedInv' /\ FramesKeepOrder' /\ UdpSleepsOnlyWhenIdle'
    BY <1>0, <1>4, <1>11, <2>4 DEF NumberedInv, FramesKeepOrder, Ascending, UdpSleepsOnlyWhenIdle
  <2> QED BY <2>2, <2>3, <2>5 DEF HevUdpInv
<1> QED BY <1>5, <1>9, <1>10, <1>11

\* A send that ends with no more on the wire than before.
LEMMA EndOfSendAsIs ==
  ASSUME HevUdpInv, EndOfSend(handed, outPart), ures.f >= 0,
         UNCHANGED <<utype, utimeout, canSend, control, wire, taken, count>>
  PROVE  HevUdpInv'
<1>1. /\ frames \in Seq(Nat) /\ wire \in Seq(Nat) /\ Len(frames) \in Nat
      /\ handed \in Nat /\ handed <= Batch /\ Batch <= Len(frames)
      /\ Batch \in 0..CopyNums /\ CopyNums \in Nat /\ ures.f \in -1..1
  BY UdpNumbers
<1>2. wire' = wire \o SubSeq(frames, handed + 1, handed)
  <2> DEFINE p == SubSeq(frames, handed + 1, handed)
  <2>1. p \in Seq(Nat) /\ Len(p) = 0
    <3>1. handed <= Len(frames)
      BY <1>1
    <3>2. /\ SubSeq(frames, handed + 1, handed) \in Seq(Nat)
          /\ Len(SubSeq(frames, handed + 1, handed))
               = IF handed <= handed THEN handed - handed ELSE 0
      BY <1>1, <3>1, PartOfList
    <3> QED BY <1>1, <3>2
  <2> HIDE DEF p
  <2>2. p = <<>>
    BY <2>1, EmptySeq
  <2>3. wire \o <<>> = wire
    BY <1>1, ConcatEmptySeq
  <2> QED BY <2>2, <2>3 DEF p
<1>3. {utimeout', canSend', outPart} \subseteq BOOLEAN
  BY DEF HevUdpInv, UdpTypeOK
<1>4. outPart => handed < Batch
  BY DEF HevUdpInv, BatchInv, Batch
<1>5. handed <= handed /\ ~(ures.f < 0)
  BY <1>1
<1> QED BY <1>1, <1>2, <1>3, <1>4, <1>5, EndOfSendSafe

\* A receive that goes on, or fails, after a wait in the middle of a frame.
LEMMA ReceiveOnSafe ==
  ASSUME HevUdpInv, uphase = "recv", Receive(ures.f) \/ RecvBroken(ures.f),
         UNCHANGED <<utype, utimeout, frames, batch, handed, outPart, canSend,
                     control, wire, taken, torn, count>>
  PROVE  HevUdpInv'
<1>0. UdpTypeOK /\ BatchInv /\ ReplyInv /\ NumberedInv /\ FramesKeepOrder
  BY DEF HevUdpInv
<1>1. /\ ures.f \in -1..1 /\ replies \in 0..MaxReplies /\ MaxReplies \in Nat
      /\ count.down \in 0..MaxReplies
  BY UdpNumbers
<1>2. /\ uphase' \in {"gone", "loop", "recv"} /\ usleeping' \in BOOLEAN
      /\ ures' \in [f : -1..1, b : -1..1]
      /\ replies' \in Nat /\ replies' <= replies
      /\ inPart' \in BOOLEAN /\ missed' \in BOOLEAN
      /\ inPart' => inPart
      /\ uphase' = "recv" => inPart'
      /\ usleeping' /\ uphase' = "loop" =>
           (ures'.b < 0 \/ (replies' = 0 /\ ~inPart')) /\ missed'
  BY <1>1, ReceiveResult
<1>3. UdpTypeOK'
  <2>1. replies' \in 0..MaxReplies
    BY <1>1, <1>2
  <2> QED BY <1>0, <1>2, <2>1 DEF UdpTypeOK
<1>4. BatchInv'
  BY <1>0, <1>2 DEF BatchInv
<1>5. ReplyInv'
  <2>1. /\ count \in [up : Nat, down : 0..MaxReplies] /\ replies <= count.down
        /\ inPart => replies < count.down /\ utype = "UDP_IN_TCP"
    BY <1>0 DEF ReplyInv
  <2> QED BY <1>1, <1>2, <2>1 DEF ReplyInv
<1>6. NumberedInv' /\ FramesKeepOrder'
  BY <1>0 DEF NumberedInv, FramesKeepOrder, Left, Ascending
<1>7. UdpSleepsOnlyWhenIdle'
  BY <1>2 DEF UdpSleepsOnlyWhenIdle
<1> QED BY <1>3, <1>4, <1>5, <1>6, <1>7 DEF HevUdpInv

\* The send fails, or a wait lasts for the whole time-out.
LEMMA SendFailsSafe ==
  ASSUME HevUdpInv, SendFails \/ UdpTimeExpires
  PROVE  HevUdpInv'
<1>1. UNCHANGED <<utype, utimeout, canSend, control, wire, taken, count>>
  BY DEF SendFails, UdpTimeExpires
<1>2. CASE EndOfSend(handed, outPart) /\ (uphase = "send" \/ ures.f >= 0)
  <2>1. ures.f >= 0
    BY <1>2 DEF HevUdpInv, BatchInv
  <2> QED BY <1>1, <1>2, <2>1, EndOfSendAsIs
<1>3. CASE /\ uphase = "recv" /\ RecvBroken(ures.f)
           /\ UNCHANGED <<frames, batch, handed, outPart, torn>>
  BY <1>1, <1>3, ReceiveOnSafe
<1>4. CASE /\ uphase \in {"connect", "loop"} /\ uphase' = "gone" /\ usleeping' = FALSE
           /\ UNCHANGED <<ures, frames, batch, handed, outPart, replies, inPart, torn, missed>>
  <2>0. UdpTypeOK /\ BatchInv /\ ReplyInv /\ NumberedInv /\ FramesKeepOrder
    BY DEF HevUdpInv
  <2>1. UdpTypeOK' /\ BatchInv' /\ ReplyInv'
    BY <1>1, <1>4, <2>0 DEF UdpTypeOK, BatchInv, ReplyInv
  <2>2. NumberedInv' /\ FramesKeepOrder' /\ UdpSleepsOnlyWhenIdle'
    BY <1>1, <1>4, <2>0 DEF NumberedInv, FramesKeepOrder, Left, Ascending, UdpSleepsOnlyWhenIdle
  <2> QED BY <2>1, <2>2 DEF HevUdpInv
<1> QED BY <1>2, <1>3, <1>4 DEF SendFails, UdpTimeExpires

\* A datagram of the client goes to the end of the list, also when a batch of
\* the list is being sent.
LEMMA UdpClientSendsSafe ==
  ASSUME HevUdpInv, UdpClientSends
  PROVE  HevUdpInv'
<1>0. /\ UdpTypeOK /\ BatchInv /\ ReplyInv /\ NumberedInv
      /\ FramesKeepOrder /\ UdpSleepsOnlyWhenIdle
  BY DEF HevUdpInv
<1>1. /\ PoolSize \in Nat /\ CopyNums \in Nat
      /\ frames \in Seq(Nat) /\ wire \in Seq(Nat) /\ taken \in Seq(Nat)
      /\ Len(frames) \in Nat /\ handed \in Nat /\ handed <= Batch
      /\ Batch <= Len(frames) /\ Batch \in 0..CopyNums /\ count.up \in Nat
  BY UdpNumbers
<1>2. UNCHANGED <<utype, utimeout, ures, batch, handed, outPart, canSend, replies,
                  inPart, control, wire, torn, missed>>
  BY DEF UdpClientSends
<1> DEFINE e == count.up + 1
<1>3. /\ e \in Nat /\ count' \in [up : Nat, down : 0..MaxReplies]
      /\ count'.down = count.down /\ count'.up = e
  <2>1. count \in [up : Nat, down : 0..MaxReplies]
    BY <1>0 DEF ReplyInv
  <2>2. count' = [count EXCEPT !.up = @ + 1]
    BY DEF UdpClientSends
  <2> QED BY <2>1, <2>2
<1>4. CASE UNCHANGED <<frames, taken, uphase, usleeping>>
  <2>1. UdpTypeOK' /\ BatchInv' /\ ReplyInv'
    BY <1>0, <1>2, <1>3, <1>4 DEF UdpTypeOK, BatchInv, ReplyInv
  <2>2. Left' = Left
    BY <1>2, <1>4 DEF Left
  <2>3. NumberedInv'
    <3>1. \A i \in 1..Len(Left) : Left[i] \in Nat
      <4>1. Left \in Seq(Nat)
        BY <1>1, LeftIsList
      <4> QED BY <4>1, ElementOfSeq
    <3> QED BY <1>0, <1>1, <1>3, <2>2, <3>1 DEF NumberedInv
  <2>4. FramesKeepOrder' /\ UdpSleepsOnlyWhenIdle'
    BY <1>0, <1>2, <1>4, <2>2 DEF FramesKeepOrder, Ascending, UdpSleepsOnlyWhenIdle
  <2> QED BY <2>1, <2>3, <2>4 DEF HevUdpInv
<1>5. CASE /\ ~(Len(frames) > PoolSize)
           /\ frames' = Append(frames, e) /\ taken' = Append(taken, e) /\ UdpWake
  <2> HIDE DEF e
  <2>1. /\ frames' \in Seq(Nat) /\ Len(frames') = Len(frames) + 1
        /\ taken' \in Seq(Nat)
    BY <1>1, <1>3, <1>5, AppendProperties
  <2>2. Len(frames') <= PoolSize + 1
    BY <1>1, <1>5, <2>1
  <2>3. UdpTypeOK'
    BY <1>0, <1>2, <1>5, <2>2 DEF UdpTypeOK, UdpWake
  <2>4. BatchInv' /\ ReplyInv'
    <3>1. uphase' = uphase /\ batch' = batch /\ handed' = handed /\ wire' = wire
      BY <1>2, <1>5 DEF UdpWake
    <3>2. uphase = "send" => batch <= Len(frames) + 1
      BY <1>0, <1>1 DEF BatchInv, UdpTypeOK
    <3> QED BY <1>0, <1>2, <1>3, <2>1, <3>1, <3>2 DEF BatchInv, ReplyInv
  <2>5. Left' = Append(Left, e)
    <3> DEFINE q == SubSeq(frames, handed + 1, Len(frames))
    <3>1. handed <= Len(frames) /\ Len(frames) <= Len(frames)
      BY <1>1
    <3>2. SubSeq(frames', handed + 1, Len(frames')) = Append(q, e)
      <4>1. SubSeq(Append(frames, e), handed + 1, Len(frames) + 1) = Append(q, e)
        BY <1>1, <1>3, <3>1, PartOfAppend
      <4> QED BY <1>5, <2>1, <4>1
    <3>3. q \in Seq(Nat)
      BY <1>1, <3>1, PartOfList
    <3>4. wire \o q = Left /\ Left' = wire \o Append(q, e)
      BY <1>2, <3>2 DEF Left
    <3> HIDE DEF q
    <3>5. wire \o q \in Seq(Nat)
      BY <1>1, <3>3, ConcatProperties
    <3>6. Append(q, e) = q \o <<e>> /\ Append(wire \o q, e) = (wire \o q) \o <<e>>
      BY <1>3, <3>3, <3>5, AppendIsConcat
    <3>7. (wire \o q) \o <<e>> = wire \o (q \o <<e>>)
      <4>1. <<e>> \in Seq(Nat)
        BY <1>3
      <4> QED BY <1>1, <3>3, <4>1, Regroup, Zenon
    <3> QED BY <3>4, <3>6, <3>7
  <2>6. /\ Ascending(Append(Left, e))
        /\ \A i \in 1..Len(Append(Left, e)) : Append(Left, e)[i] <= e
    <3>1. Left \in Seq(Nat)
      BY <1>1, LeftIsList
    <3>2. Ascending(Left) /\ \A i \in 1..Len(Left) : Left[i] <= count.up
      BY <1>0 DEF FramesKeepOrder, NumberedInv
    <3> QED BY <1>1, <3>1, <3>2, AppendKeepsOrder DEF e
  <2>7. NumberedInv'
    BY <1>3, <2>5, <2>6 DEF NumberedInv
  <2>8. FramesKeepOrder'
    BY <1>0, <1>2, <1>5, <2>5, <2>6 DEF FramesKeepOrder, Ascending
  <2>9. UdpSleepsOnlyWhenIdle'
    BY <1>5 DEF UdpSleepsOnlyWhenIdle, UdpWake
  <2> QED BY <2>3, <2>4, <2>7, <2>8, <2>9 DEF HevUdpInv
<1> QED BY <1>4, <1>5 DEF UdpClientSends, udp_recv_handler

\* The proxy's datagrams, its reads, the end of the control connection and the
\* order to terminate wake the task and leave the list alone.
LEMMA UdpWakesSafe ==
  ASSUME HevUdpInv,
         \/ UdpProxySends \/ UdpProxySendsPart \/ UdpProxyReads
         \/ ControlCloses \/ UdpTerminate
  PROVE  HevUdpInv'
<1>0. UdpTypeOK /\ BatchInv /\ ReplyInv /\ NumberedInv /\ FramesKeepOrder
  BY DEF HevUdpInv
<1>1. UNCHANGED <<utype, ures, frames, batch, handed, outPart, wire, taken, torn,
                  missed, uphase>>
      /\ usleeping' = FALSE
  BY DEF UdpProxySends, UdpProxySendsPart, UdpProxyReads, ControlCloses, UdpTerminate, UdpWake
<1>2. {utimeout', canSend', control', inPart'} \subseteq BOOLEAN
  BY <1>0 DEF UdpTypeOK, UdpProxySends, UdpProxySendsPart, UdpProxyReads, ControlCloses,
              UdpTerminate
<1>3. ReplyInv' /\ replies' \in 0..MaxReplies /\ count'.up = count.up
  <2>1. /\ count \in [up : Nat, down : 0..MaxReplies]
        /\ replies \in 0..MaxReplies /\ replies <= count.down /\ MaxReplies \in Nat
        /\ inPart => replies < count.down /\ utype = "UDP_IN_TCP"
        /\ uphase = "recv" => utype = "UDP_IN_TCP" /\ (inPart \/ replies > 0)
    BY <1>0, UdpSessionAssumption DEF ReplyInv, UdpTypeOK
  <2>2. CASE UNCHANGED <<count, replies, inPart>>
    BY <1>0, <1>1, <2>1, <2>2 DEF ReplyInv
  <2>3. CASE UdpProxySends
    <3>1. /\ replies' = replies + 1 /\ inPart' = FALSE
          /\ \/ inPart /\ count' = count
             \/ count.down < MaxReplies /\ count' = [count EXCEPT !.down = @ + 1]
      BY <2>3 DEF UdpProxySends
    <3>2. /\ count' \in [up : Nat, down : 0..MaxReplies] /\ count'.up = count.up
          /\ replies' <= count'.down
      BY <2>1, <3>1
    <3>3. replies' \in 0..MaxReplies /\ replies' > 0
      BY <2>1, <3>1, <3>2
    <3> QED BY <1>1, <2>1, <3>1, <3>2, <3>3 DEF ReplyInv
  <2>4. CASE UdpProxySendsPart
    <3>1. /\ replies' = replies /\ inPart' = TRUE /\ utype = "UDP_IN_TCP"
          /\ count.down < MaxReplies /\ count' = [count EXCEPT !.down = @ + 1]
      BY <2>4 DEF UdpProxySendsPart
    <3>2. /\ count' \in [up : Nat, down : 0..MaxReplies] /\ count'.up = count.up
          /\ replies' < count'.down
      BY <2>1, <3>1
    <3> QED BY <1>1, <2>1, <3>1, <3>2 DEF ReplyInv
  <2> QED BY <2>2, <2>3, <2>4 DEF UdpProxyReads, ControlCloses, UdpTerminate
<1>4. UdpTypeOK' /\ BatchInv'
  BY <1>0, <1>1, <1>2, <1>3 DEF UdpTypeOK, BatchInv
<1>5. NumberedInv' /\ FramesKeepOrder' /\ UdpSleepsOnlyWhenIdle'
  BY <1>0, <1>1, <1>3 DEF NumberedInv, FramesKeepOrder, Left, Ascending, UdpSleepsOnlyWhenIdle
<1> QED BY <1>3, <1>4, <1>5 DEF HevUdpInv

\* A step that leaves the session alone keeps its invariant.
LEMMA UdpSame ==
  ASSUME HevUdpInv, UNCHANGED udpVars
  PROVE  HevUdpInv'
BY DEF HevUdpInv, udpVars, UdpTypeOK, BatchInv, ReplyInv, NumberedInv, Left, Ascending,
       FramesKeepOrder, UdpSleepsOnlyWhenIdle

\* Every step of the session keeps the invariant.
LEMMA UdpStep ==
  ASSUME HevUdpInv, [UdpNext]_udpVars
  PROVE  HevUdpInv'
<1>1. CASE ReceiveOn
  <2>1. /\ uphase = "recv" /\ Receive(ures.f)
        /\ UNCHANGED <<utype, utimeout, frames, batch, handed, outPart, canSend,
                       control, wire, taken, torn, count>>
    BY <1>1 DEF ReceiveOn
  <2> QED BY <2>1, ReceiveOnSafe
<1>2. CASE ~ReceiveOn
  BY <1>2, UdpEstablishSafe, SendFramesSafe, SendFailsSafe, UdpClientSendsSafe,
     UdpWakesSafe, UdpSame DEF UdpNext, UdpTask
<1> QED BY <1>1, <1>2

\* A session begins with an empty list.
LEMMA UdpInitial ==
  ASSUME NEW p \in {"none", "connect"}, UdpFrom(p)
  PROVE  HevUdpInv
<1>1. /\ PoolSize \in Nat /\ CopyNums \in Nat /\ MaxReplies \in Nat
  BY UdpSessionAssumption
<1>2. /\ 0 \in 0..CopyNums /\ 0 \in 0..MaxReplies
      /\ [f |-> 1, b |-> 1] \in [f : -1..1, b : -1..1]
      /\ [up |-> 0, down |-> 0] \in [up : Nat, down : 0..MaxReplies]
  BY <1>1
<1>3. /\ <<>> \in Seq(Nat) /\ Len(<<>>) = 0
      /\ <<>> \o SubSeq(<<>>, 0 + 1, Len(<<>>)) = <<>>
  <2>1. <<>> \in Seq(Nat) /\ Len(<<>>) = 0
    BY EmptySeq
  <2>2. SubSeq(<<>>, 1, Len(<<>>)) = <<>>
    BY <2>1, SubSeqFull
  <2> QED BY <2>1, <2>2, ConcatEmptySeq
<1>4. UdpTypeOK
  <2>1. /\ Len(frames) <= PoolSize + 1
        /\ batch \in 0..CopyNums /\ handed \in 0..CopyNums /\ replies \in 0..MaxReplies
    BY <1>1, <1>2, <1>3 DEF UdpFrom
  <2>2. uphase \in {"none", "connect", "send", "recv", "loop", "gone"}
        /\ utype \in {"UDP_IN_TCP", "UDP_IN_UDP"}
    BY DEF UdpFrom
  <2>3. {usleeping, utimeout, outPart, canSend, inPart, control, torn, missed}
          \subseteq BOOLEAN
    BY DEF UdpFrom
  <2>4. ures \in [f : -1..1, b : -1..1]
    BY <1>2 DEF UdpFrom
  <2> QED BY <2>1, <2>2, <2>3, <2>4 DEF UdpTypeOK
<1>5. BatchInv /\ ReplyInv
  BY <1>1, <1>2, <1>3 DEF UdpFrom, BatchInv, ReplyInv
<1>6. Left = <<>>
  BY <1>3 DEF UdpFrom, Left
<1>7. NumberedInv /\ FramesKeepOrder
  <2>1. Len(Left) = 0 /\ taken = <<>>
    BY <1>3, <1>6 DEF UdpFrom
  <2> QED BY <1>6, <2>1 DEF NumberedInv, FramesKeepOrder, Ascending
<1>8. UdpSleepsOnlyWhenIdle
  BY DEF UdpFrom, UdpSleepsOnlyWhenIdle
<1> QED BY <1>4, <1>5, <1>7, <1>8 DEF HevUdpInv

-----------------------------------------------------------------------------
(* The engine *)

EngineInv == TunnelInv /\ HevTcpInv /\ HevUdpInv

\* The tunnel starts stopped, and the sessions, if there are any, new.
LEMMA EngineInitial == EngineInit => EngineInv
<1> SUFFICES ASSUME EngineInit
             PROVE  EngineInv
  OBVIOUS
<1>1. TunnelInv
  BY TunnelInvInit DEF EngineInit
<1>2. HevTcpInv
  BY TcpInitial DEF EngineInit
<1>3. HevUdpInv
  BY UdpInitial DEF EngineInit
<1> QED BY <1>1, <1>2, <1>3 DEF EngineInv

\* A step of one part leaves the others alone.
LEMMA EngineStep == EngineInv /\ [EngineNext]_engineVars => EngineInv'
<1> SUFFICES ASSUME EngineInv, [EngineNext]_engineVars
             PROVE  EngineInv'
  OBVIOUS
<1>1. [TunnelNext]_tunnelVars /\ [TcpNext]_tcpVars /\ [UdpNext]_udpVars
  BY DEF EngineNext, engineVars
<1>2. TunnelInv'
  BY <1>1, TunnelInvNext DEF EngineInv
<1>3. HevTcpInv'
  BY <1>1, TcpStep, TcpSame DEF EngineInv
<1>4. HevUdpInv'
  BY <1>1, UdpStep DEF EngineInv
<1> QED BY <1>2, <1>3, <1>4 DEF EngineInv

\* The engine's invariant holds in every reachable state.
LEMMA EngineInvHolds == EngineSpec => []EngineInv
BY EngineInitial, EngineStep, PTL DEF EngineSpec

\* Flags, counters, windows, rings and lists of the tunnel and of its sessions
\* keep their ranges and limits, for any window, ring, pool and batch
\* (hev-main.c, hev-socks5-session-tcp.c, hev-socks5-session-udp.c).
THEOREM EngineTypeCorrect == EngineSpec => []EngineTypeOK
<1>1. EngineInv => EngineTypeOK
  BY DEF EngineInv, TunnelInv, HevTcpInv, HevUdpInv, EngineTypeOK
<1> QED BY <1>1, EngineInvHolds, PTL

\* A session's task that sleeps in the yielder of its splice loop has no work
\* it could do, whatever the callbacks of lwIP and the sockets bring and when.
THEOREM NoSleepCorrect == EngineSpec => []NoSleepOverWork
<1>1. EngineInv => NoSleepOverWork
  BY DEF EngineInv, HevTcpInv, HevUdpInv, NoSleepOverWork
<1> QED BY <1>1, EngineInvHolds, PTL

\* A TCP session that ended with no fault has carried both directions to the
\* end (hev_socks5_session_tcp_splice and its half-closes).
THEOREM OrderlyEndCorrect == EngineSpec => []OrderlyEndIsComplete
<1>1. EngineInv => OrderlyEndIsComplete
  BY DEF EngineInv, HevTcpInv
<1> QED BY <1>1, EngineInvHolds, PTL

\* The datagrams of a UDP session leave in the order they came and none twice,
\* although hev_socks5_session_udp_fwd_f waits in the middle of a batch while
\* udp_recv_handler goes on adding to the list; and none is left out until a
\* send in the TCP connection gives up with its batch partly in the stream,
\* which hev_socks5_udp_sendmmsg_tcp reports as a batch sent.
THEOREM FramesCorrect == EngineSpec => []FramesKeepOrder
<1>1. EngineInv => FramesKeepOrder
  BY DEF EngineInv, HevUdpInv
<1> QED BY <1>1, EngineInvHolds, PTL
=============================================================================
