------------------------------ MODULE HevEngine ------------------------------
(***************************************************************************)
(* The hev engine in one run: the tunnel's life, or one TCP or one UDP     *)
(* session seen from inside.  The tunnel sees of a session only that it    *)
(* waits, ends, and ends by itself once it is terminated; the sessions     *)
(* show that they do.  They share nothing else, so the run takes one part  *)
(* at a time and does not multiply their states.                           *)
(***************************************************************************)
EXTENDS HevTunnel, HevSessionTcp, HevSessionUdp

VARIABLE part

engineVars == <<part, tunnelVars, tcpVars, udpVars>>

EngineInit ==
  /\ part \in {"tunnel", "tcp", "udp"}
  /\ TunnelInit
  /\ TcpFrom(IF part = "tcp" THEN "connect" ELSE "none")
  /\ UdpFrom(IF part = "udp" THEN "connect" ELSE "none")

EngineNext ==
  /\ UNCHANGED part
  /\ \/ part = "tunnel" /\ TunnelNext /\ UNCHANGED <<tcpVars, udpVars>>
     \/ TcpNext /\ UNCHANGED <<tunnelVars, udpVars>>
     \/ UdpNext /\ UNCHANGED <<tunnelVars, tcpVars>>

EngineSpec ==
  /\ EngineInit /\ [][EngineNext]_engineVars
  /\ TunnelFairness /\ TcpFairness /\ UdpFairness

\* Flags, counters and buffers of the tunnel and of the sessions stay within
\* their ranges and limits.
EngineTypeOK == TunnelTypeOK /\ TcpTypeOK /\ UdpTypeOK

\* A session's task never sleeps on work it could do: a pass that found nothing
\* to do is followed by another if a callback of lwIP has brought something.
NoSleepOverWork == SleepsOnlyWhenIdle /\ UdpSleepsOnlyWhenIdle

\* A session that is told to terminate ends, whatever it is at.
TerminatedSessionsEnd == TerminatedEnds /\ UdpTerminatedEnds
=============================================================================
