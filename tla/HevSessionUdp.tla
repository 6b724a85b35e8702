---------------------------- MODULE HevSessionUdp ----------------------------
(***************************************************************************)
(* A UDP session of the hev engine (hev-socks5-session-udp.c): datagrams   *)
(* of one client socket wait in frame_list for the session's task, which   *)
(* relays them in batches, over a UDP socket with a TCP control connection *)
(* (UDP_IN_UDP) or inside the TCP connection (UDP_IN_TCP).  The send of a  *)
(* batch may wait, and lwIP goes on adding frames meanwhile; in the stream *)
(* a frame may be sent or received in part, and the receive waits too.     *)
(***************************************************************************)
EXTENDS Integers, Sequences

CONSTANTS
  PoolSize,   \* UDP_POOL_SIZE
  CopyNums,   \* udp-copy-buffer-nums: frames in a batch
  MaxFrames,  \* bound: datagrams the client sends
  MaxReplies  \* bound: datagrams the proxy sends

ASSUME UdpSessionAssumption ==
  {PoolSize, MaxFrames, MaxReplies} \subseteq Nat /\ CopyNums \in Nat \ {0}

VARIABLES
  utype,     \* HevSocks5.type, from the configuration
  uphase,    \* connect (with the handshake), send (in sendmmsg), recv (in
             \* recvmmsg, in the middle of a frame), loop or gone
  usleeping, \* the task waits in the yielder
  utimeout,  \* FALSE: HevSocks5.timeout is 0
  ures,      \* res_f and res_b
  frames,    \* frame_list; a frame is the number of its datagram
  batch,     \* frames in the batch whose send waits
  handed,    \* frames of that batch that are on the wire
  outPart,   \* the stream holds the beginning of the next frame of that batch
  canSend,   \* the socket's send buffer has room
  replies,   \* datagrams waiting in the socket
  inPart,    \* behind them the stream holds the beginning of one more
  control,   \* is the control connection up?
  wire,      \* history: the datagrams sent
  taken,     \* history: the datagrams accepted, in order
  torn,      \* history: a send gave up with its batch partly in the stream
  missed,    \* history: the last receive waited in the middle of a frame and failed
  count      \* bounds' counters: datagrams of the client and of the proxy

udpVars == <<utype, uphase, usleeping, utimeout, ures, frames, batch,
             handed, outPart, canSend, replies, inPart, control, wire, taken,
             torn, missed, count>>

\* A session in phase p; udp_recv_handler of the tunnel has made it.
UdpFrom(p) ==
  /\ utype \in {"UDP_IN_TCP"} \cup (IF p = "none" THEN {} ELSE {"UDP_IN_UDP"})
  /\ uphase = p /\ usleeping = FALSE /\ utimeout = TRUE
  /\ ures = [f |-> 1, b |-> 1]
  /\ frames = <<>> /\ batch = 0 /\ handed = 0 /\ outPart = FALSE
  /\ canSend = TRUE /\ replies = 0 /\ inPart = FALSE /\ control = TRUE
  /\ wire = <<>> /\ taken = <<>> /\ torn = FALSE /\ missed = FALSE
  /\ count = [up |-> 0, down |-> 0]

UdpInit == UdpFrom("connect")

UdpAlive == uphase \notin {"none", "gone"}
AtWork == UdpAlive /\ ~usleeping

\* The yielder of hev-socks5-udp.c and of the session: it first looks at the
\* control connection, even where it only lets others run.
ControlLost == utype = "UDP_IN_UDP" /\ ~control
UdpYield(p, waitio) ==
  IF ControlLost \/ (waitio /\ ~utimeout)
    THEN uphase' = "gone" /\ usleeping' = FALSE
    ELSE uphase' = p /\ usleeping' = waitio

\* hev_socks5_client_connect and hev_socks5_client_handshake
UdpEstablish ==
  /\ AtWork /\ uphase = "connect"
  /\ \/ UdpYield("connect", TRUE)
     \/ uphase' \in {"loop", "gone"} /\ UNCHANGED usleeping
  /\ UNCHANGED <<utype, utimeout, ures, frames, batch, handed, outPart,
                 canSend, replies, inPart, control, wire, taken, torn, missed, count>>

\* The frames of a batch are fixed before the send that may wait.
Batch ==
  IF uphase = "send" THEN batch
  ELSE IF Len(frames) > CopyNums THEN CopyNums ELSE Len(frames)

Mut_Delivered(n, part) == IF n > 0 \/ part THEN Batch ELSE 0

\* What the send reports of n frames on the wire, and part of another: the
\* datagram socket how many it took, the stream its whole batch as soon as any
\* byte of it is out, even if the rest never follows.
Delivered(n, part) ==
  IF utype = "UDP_IN_UDP" THEN n ELSE IF n > 0 \/ part THEN Batch ELSE 0

\* The end of a pass of the loop of hev_socks5_session_udp_splice
EndOfPass(rf, rb) ==
  /\ ures' = [f |-> rf, b |-> rb]
  /\ IF rf < 0 /\ rb < 0
       THEN uphase' = "gone" /\ usleeping' = FALSE
       ELSE UdpYield("loop", rf <= 0 /\ rb <= 0)

\* A wait in the middle of a frame fails.  What has been read of the frame is
\* gone, and recvmmsg returns a number of bytes where a number of messages is
\* due: a failure, "nothing there", or messages that were never filled in,
\* whose use is undefined and may end the process.
RecvBroken(rf) ==
  /\ replies' = 0 /\ inPart' = FALSE /\ missed' = TRUE
  /\ \/ \E rb \in -1..1 : EndOfPass(rf, rb)
     \/ uphase' = "gone" /\ usleeping' = FALSE /\ UNCHANGED ures

MidFrame == utype = "UDP_IN_TCP" /\ inPart /\ replies < CopyNums

\* hev_socks5_session_udp_fwd_b reads what is there, waits for the rest of a
\* frame of which the stream holds the beginning, or fails.
Receive(rf) ==
  \/ /\ EndOfPass(rf, -1)
     /\ missed' = (uphase = "recv")
     /\ UNCHANGED <<replies, inPart>>
  \/ /\ ures.b >= 0 /\ ~MidFrame
     /\ EndOfPass(rf, IF replies > 0 THEN 1 ELSE 0)
     /\ replies' = IF replies > CopyNums THEN replies - CopyNums ELSE 0
     /\ missed' = FALSE
     /\ UNCHANGED inPart
  \/ /\ ures.b >= 0 /\ MidFrame
     /\ IF utimeout
          THEN /\ uphase' = "recv" /\ usleeping' = TRUE
               /\ ures' = [ures EXCEPT !.f = rf]
               /\ UNCHANGED <<replies, inPart, missed>>
          ELSE RecvBroken(rf)

ReceiveOn ==
  /\ AtWork /\ uphase = "recv"
  /\ Receive(ures.f)
  /\ UNCHANGED <<utype, utimeout, frames, batch, handed, outPart, canSend,
                 control, wire, taken, torn, count>>

\* The send of fwd_f is over, with n frames of the batch on the wire and maybe
\* part of another; fwd_f removes what was reported, and fwd_b follows.
EndOfSend(n, part) ==
  LET d  == IF ures.f < 0 THEN 0 ELSE Delivered(n, part)
      rf == IF ures.f < 0 \/ (frames # <<>> /\ d = 0) THEN -1
            ELSE IF d > 0 THEN 1 ELSE 0
  IN  /\ frames' = SubSeq(frames, d + 1, Len(frames))
      /\ batch' = 0 /\ handed' = 0 /\ outPart' = FALSE
      /\ torn' = (torn \/ (utype = "UDP_IN_TCP" /\ n < Batch /\ (n > 0 \/ part)))
      /\ Receive(rf)

\* hev_socks5_session_udp_fwd_f: n more frames are sent, and in the stream
\* maybe part of the next.  With frames left over the socket is full: the task
\* waits for it, or gives up.
SendFrames(n, part) ==
  LET m == handed + n
      p == part \/ (outPart /\ n = 0)
  IN
  /\ AtWork /\ uphase \in {"loop", "send"}
  /\ m <= Batch
  /\ part => utype = "UDP_IN_TCP" /\ m < Batch
  /\ n > 0 \/ part => canSend /\ ures.f >= 0
  /\ ures.f >= 0 => (n > 0 \/ part \/ Batch = 0 \/ ~canSend)
  /\ wire' = wire \o SubSeq(frames, handed + 1, m)
  /\ IF ures.f < 0 \/ m = Batch
       THEN EndOfSend(m, FALSE) /\ UNCHANGED <<canSend, utimeout>>
     ELSE /\ canSend' = FALSE
          /\ IF ControlLost \/ ~utimeout
               THEN /\ utimeout' = FALSE
                    /\ EndOfSend(m, p)
               ELSE /\ uphase' = "send" /\ usleeping' = TRUE
                    /\ batch' = Batch /\ handed' = m /\ outPart' = p
                    /\ UNCHANGED <<utimeout, ures, frames, replies, inPart, torn, missed>>
  /\ UNCHANGED <<utype, control, taken, count>>

\* The send fails for good: what was sent before counts.
SendFails ==
  /\ AtWork /\ uphase \in {"loop", "send"} /\ ures.f >= 0 /\ Batch > 0
  /\ EndOfSend(handed, outPart)
  /\ UNCHANGED <<utype, utimeout, canSend, control, wire, taken, count>>

UdpTask ==
  \/ UdpEstablish
  \/ \E n \in 0..CopyNums, part \in BOOLEAN : SendFrames(n, part)
  \/ SendFails
  \/ ReceiveOn

\* A wait lasts for the whole time-out.
UdpTimeExpires ==
  /\ usleeping
  /\ \/ uphase = "send" /\ EndOfSend(handed, outPart)
     \/ /\ uphase = "recv" /\ RecvBroken(ures.f)
        /\ UNCHANGED <<frames, batch, handed, outPart, torn>>
     \/ /\ uphase \in {"connect", "loop"}
        /\ uphase' = "gone" /\ usleeping' = FALSE
        /\ UNCHANGED <<ures, frames, batch, handed, outPart, replies, inPart, torn, missed>>
  /\ UNCHANGED <<utype, utimeout, canSend, control, wire, taken, count>>

-----------------------------------------------------------------------------
UdpWake == usleeping' = FALSE /\ UNCHANGED uphase

\* The client's datagram d: dropped when more than UDP_POOL_SIZE wait.
udp_recv_handler(d) ==
  IF Len(frames) > PoolSize THEN UNCHANGED <<frames, taken, uphase, usleeping>>
  ELSE /\ frames' = Append(frames, d) /\ taken' = Append(taken, d)
       /\ UdpWake

UdpClientSends ==
  /\ UdpAlive /\ count.up < MaxFrames
  /\ count' = [count EXCEPT !.up = @ + 1]
  /\ udp_recv_handler(count.up + 1)
  /\ UNCHANGED <<utype, utimeout, ures, batch, handed, outPart, canSend,
                 replies, inPart, control, wire, torn, missed>>

\* The proxy's datagrams, whole or at first in part, its reads, and the end of
\* the control connection: the descriptors wake the task.
UdpProxySends ==
  /\ uphase \in {"loop", "send", "recv"}
  /\ \/ inPart /\ UNCHANGED count
     \/ /\ ~inPart /\ count.down < MaxReplies
        /\ count' = [count EXCEPT !.down = @ + 1]
  /\ replies' = replies + 1 /\ inPart' = FALSE
  /\ UdpWake
  /\ UNCHANGED <<utype, utimeout, ures, frames, batch, handed, outPart,
                 canSend, control, wire, taken, torn, missed>>

UdpProxySendsPart ==
  /\ uphase \in {"loop", "send", "recv"} /\ utype = "UDP_IN_TCP"
  /\ ~inPart /\ count.down < MaxReplies
  /\ count' = [count EXCEPT !.down = @ + 1]
  /\ inPart' = TRUE
  /\ UdpWake
  /\ UNCHANGED <<utype, utimeout, ures, frames, batch, handed, outPart,
                 canSend, replies, control, wire, taken, torn, missed>>

UdpProxyReads ==
  /\ UdpAlive /\ ~canSend
  /\ canSend' = TRUE
  /\ UdpWake
  /\ UNCHANGED <<utype, utimeout, ures, frames, batch, handed, outPart,
                 replies, inPart, control, wire, taken, torn, missed, count>>

ControlCloses ==
  /\ uphase \in {"loop", "send", "recv"} /\ control
  /\ control' = FALSE
  /\ UdpWake
  /\ UNCHANGED <<utype, utimeout, ures, frames, batch, handed, outPart,
                 canSend, replies, inPart, wire, taken, torn, missed, count>>

\* hev_socks5_session_terminate
UdpTerminate ==
  /\ UdpAlive
  /\ utimeout' = FALSE
  /\ UdpWake
  /\ UNCHANGED <<utype, ures, frames, batch, handed, outPart, canSend,
                 replies, inPart, control, wire, taken, torn, missed, count>>

UdpNext ==
  \/ UdpTask \/ UdpTimeExpires
  \/ UdpClientSends \/ UdpProxySends \/ UdpProxySendsPart \/ UdpProxyReads
  \/ ControlCloses \/ UdpTerminate

UdpSpec == UdpInit /\ [][UdpNext]_udpVars

\* A task that can run does.
UdpFairness == WF_udpVars(UdpTask)

FairUdpSpec == UdpSpec /\ UdpFairness

-----------------------------------------------------------------------------
\* The values of the session's fields; one frame more than UDP_POOL_SIZE can
\* wait, since the handler refuses only above it.
UdpTypeOK ==
  /\ uphase \in {"none", "connect", "send", "recv", "loop", "gone"}
  /\ {usleeping, utimeout, outPart, canSend, inPart, control, torn, missed} \subseteq BOOLEAN
  /\ ures \in [f : -1..1, b : -1..1]
  /\ utype \in {"UDP_IN_TCP", "UDP_IN_UDP"}
  /\ Len(frames) <= PoolSize + 1
  /\ batch \in 0..CopyNums /\ handed \in 0..CopyNums
  /\ replies \in 0..MaxReplies

Left == wire \o SubSeq(frames, handed + 1, Len(frames))
Ascending(s) == \A i, j \in 1..Len(s) : i < j => s[i] < s[j]

\* Datagrams leave in the order they came and none twice, although the batch
\* is sent across waits while frames are added; and none is left out, unless a
\* send inside the TCP connection gave up with its batch partly in the stream
\* (the code then drops the rest of the batch): what is on the wire and what
\* still waits is what was accepted.
FramesKeepOrder == Ascending(Left) /\ (~torn => Left = taken)

\* The task sleeps in its loop only when there is nothing it could read and no
\* frame it could send; only where a receive in the stream failed in the middle
\* of a frame may frames wait that came meanwhile, since their wake-up went to
\* the wait inside that receive.
UdpSleepsOnlyWhenIdle ==
  usleeping /\ uphase = "loop" =>
    /\ ures.f < 0 \/ frames = <<>> \/ missed
    /\ ures.b < 0 \/ (replies = 0 /\ ~inPart)

\* A terminated session, and one whose control connection is gone, ends
\* without any help of the client or the clock.
UdpTerminatedEnds ==
  (~utimeout \/ ControlLost) ~> uphase = "gone"
=============================================================================
