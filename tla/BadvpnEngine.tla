---------------------------- MODULE BadvpnEngine ----------------------------
(***************************************************************************)
(* The badvpn engine in one run: a TCP client of tun2socks, its udpgw      *)
(* client, its DNS gateway, or pdnsd.  tun2socks is one reactor, whose     *)
(* handlers for these share only the device they read from, and pdnsd is a *)
(* process of its own, so the run takes one part at a time and does not    *)
(* multiply their states.                                                  *)
(***************************************************************************)
EXTENDS TcpRelay, Tun2socksUdp, Pdnsd

VARIABLE part

badvpnVars == <<part, relayVars, t2uVars, pdnsdVars>>

BadvpnInit ==
  /\ part \in {"tcp", "udpgw", "dns", "pdnsd"}
  /\ RelayInit /\ UdpGwInit /\ PdnsdInit

BadvpnNext ==
  /\ UNCHANGED part
  /\ \/ part = "tcp" /\ RelayNext /\ UNCHANGED <<t2uVars, pdnsdVars>>
     \/ part = "udpgw" /\ UdpGwNext /\ UNCHANGED <<relayVars, pdnsdVars>>
     \/ part = "dns" /\ DnsNext /\ UNCHANGED <<relayVars, pdnsdVars>>
     \/ part = "pdnsd" /\ PdnsdNext /\ UNCHANGED <<relayVars, t2uVars>>

BadvpnSpec ==
  BadvpnInit /\ [][BadvpnNext]_badvpnVars /\ RelayFairness /\ PdnsdFairness

\* Flags, counters and buffers stay within their ranges and limits; pdnsd's
\* counters are the threads there are; and the udpgw link is up, being set up,
\* or waiting for the timer that sets it up again.
BadvpnTypeOK == RelayTypeOK /\ UdpGwTypeOK /\ PdnsdTypeOK
=============================================================================
