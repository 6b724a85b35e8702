---------------------------- MODULE Tun2socksUdp ----------------------------
(***************************************************************************)
(* UDP in badvpn's tun2socks: packets read from the TUN device go to the   *)
(* DNS gateway (tun2socks.c), which turns queries around to pdnsd and      *)
(* replies back to who asked, or to the udpgw client (UdpGwClient.c),      *)
(* which carries them over one SOCKS connection (SocksUdpGwClient.c).      *)
(*                                                                         *)
(* The program is one reactor: a handler runs alone, and what it leaves    *)
(* pending (BPending.c) runs before the next event.  An address pair is    *)
(* all that is modelled of a packet.  pdnsd, the device and the proxy      *)
(* (external to this program) may lose any packet.                         *)
(***************************************************************************)
EXTENDS Naturals, Sequences, SequencesExt

CONSTANTS
  Locals, Remotes,   \* local addresses and the remote ones they send to
  MaxConnections,    \* UdpGwClient's max_connections
  BufferSize,        \* packets a connection buffers
  MaxQueries,        \* bound: queries per port, remembered or to be answered
  Nothing

ASSUME UdpAssumption ==
  /\ MaxConnections \in Nat \ {0} /\ BufferSize \in Nat /\ MaxQueries \in Nat
  /\ Nothing \notin [local : Locals, remote : Remotes]

VARIABLES
  device,            \* the packet in the device's read buffer
  jobs,              \* the pending jobs, the first of which runs next
  connections,       \* conids in use, least recently used first
  conaddr,           \* their addresses
  next_conid, buffered, keepalive_sending,
  have_socks, socks_up, reconnect, have_server,
  dns,               \* the gateway's table: a server and a count per port
  asked,             \* history: the servers of the queries pdnsd may still answer
  mixed,             \* history: ports that asked while another was remembered
  strayed            \* history: ports a stray datagram was turned around to

gateVars  == <<dns, asked, mixed, strayed>>
linkVars  == <<have_socks, socks_up, reconnect, have_server>>
tableVars == <<connections, conaddr, next_conid>>
flowVars  == <<buffered, keepalive_sending>>
t2uVars   == <<device, jobs, tableVars, flowVars, linkVars, gateVars>>

Conids    == 0..MaxConnections - 1
Addresses == [local : Locals, remote : Remotes]
InUse     == ToSet(connections)

\* SocksUdpGwClient_Init ends with try_connect.
UdpGwInit ==
  /\ device = Nothing /\ jobs = <<>>
  /\ connections = <<>> /\ conaddr = [k \in Conids |-> Nothing] /\ next_conid = 0
  /\ buffered = [k \in Conids |-> 0] /\ keepalive_sending = FALSE
  /\ socks_up = FALSE /\ have_server = FALSE
  /\ have_socks \in BOOLEAN /\ reconnect = ~have_socks
  /\ dns = [p \in Locals |-> [server |-> Nothing, count |-> 0]]
  /\ asked = [p \in Locals |-> <<>>] /\ mixed = {} /\ strayed = {}

-----------------------------------------------------------------------------
(* Pending jobs *)

Mut_Pend(queue, job) == Append(queue, job)

\* BPending_Set puts a job in front of those that are pending.
Pend(queue, job) == <<job>> \o queue

\* device_read_handler_send: the device's buffer holds packet a until the done
\* job, which is pending before the packet is looked at.
Reads(a) == device = Nothing /\ device' = a
Accepting == Pend(jobs, <<"done">>)

\* PacketPassInterface's done job: the device reads into its buffer again.
DeviceDone ==
  /\ jobs # <<>> /\ Head(jobs) = <<"done">>
  /\ jobs' = Tail(jobs)
  /\ device' = Nothing
  /\ UNCHANGED <<tableVars, flowVars, linkVars, gateVars>>

-----------------------------------------------------------------------------
(* The udpgw client's connections *)

\* connection_send drops what its buffer has no room for.
connection_send(k) ==
  buffered' = [buffered EXCEPT ![k] = IF @ < BufferSize THEN @ + 1 ELSE @]

find_connection_by_conaddr(a) == {k \in InUse : conaddr[k] = a}

\* The list's node is taken out and appended.
ToTail(k) ==
  LET i == CHOOSE i \in DOMAIN connections : connections[i] = k
  IN  Append(RemoveAt(connections, i), k)

\* From next_conid upwards, around the end, the first that is not in use.
find_unused_conid ==
  LET after == {k \in Conids \ InUse : k >= next_conid}
      S     == IF after = {} THEN Conids \ InUse ELSE after
  IN  CHOOSE k \in S : \A m \in S : k <= m

\* An existing connection carries the packet and goes to the end of the list.
SendOn(k, a) ==
  /\ jobs' = Accepting
  /\ connections' = ToTail(k)
  /\ conaddr' = [conaddr EXCEPT ![k] = a]
  /\ connection_send(k)
  /\ UNCHANGED next_conid

\* The least recently used connection becomes one of this address.
reuse_connection(a) == SendOn(Head(connections), a)

\* A new connection, whose first job will send the packet; or no memory for
\* it, before or after a conid was looked for.
connection_init(a) ==
  LET k == find_unused_conid
  IN  \/ /\ jobs' = Pend(Accepting, <<"first", k>>)
         /\ connections' = Append(connections, k)
         /\ conaddr' = [conaddr EXCEPT ![k] = a]
         /\ next_conid' = k
         /\ UNCHANGED buffered
      \/ /\ jobs' = Accepting
         /\ next_conid' \in {next_conid, k}
         /\ UNCHANGED <<connections, conaddr, buffered>>

\* Without the lookup.
Mut_UdpGwClient_SubmitPacket(a) ==
  \/ Len(connections) = MaxConnections /\ reuse_connection(a)
  \/ Len(connections) # MaxConnections /\ connection_init(a)

UdpGwClient_SubmitPacket(a) ==
  LET found == find_connection_by_conaddr(a)
      full  == Len(connections) = MaxConnections
  IN  \/ \E k \in found : SendOn(k, a)
      \/ found = {} /\ full /\ reuse_connection(a)
      \/ found = {} /\ ~full /\ connection_init(a)

process_device_udp_packet(a) ==
  /\ Reads(a)
  /\ UdpGwClient_SubmitPacket(a)
  /\ UNCHANGED <<keepalive_sending, linkVars, gateVars>>

connection_first_job_handler ==
  /\ jobs # <<>> /\ Head(jobs) # <<"done">>
  /\ jobs' = Tail(jobs)
  /\ connection_send(Head(jobs)[2])
  /\ UNCHANGED <<device, tableVars, keepalive_sending, linkVars, gateVars>>

\* The fair queue passes a connection's packet to the server.
Transmit(k) ==
  /\ jobs = <<>> /\ have_server /\ buffered[k] > 0
  /\ buffered' = [buffered EXCEPT ![k] = @ - 1]
  /\ UNCHANGED <<device, jobs, tableVars, keepalive_sending, linkVars, gateVars>>

\* recv_interface_handler_send: packets with an unknown conid or another
\* remote address than the connection's are dropped.
Receive(k, remote) ==
  /\ jobs = <<>> /\ have_server
  /\ k \in InUse /\ conaddr[k].remote = remote
  /\ connections' = ToTail(k)
  /\ UNCHANGED <<device, jobs, conaddr, next_conid, flowVars, linkVars, gateVars>>

\* send_monitor_handler, and keepalive_if_handler_done.
KeepAlive ==
  /\ jobs = <<>>
  /\ keepalive_sending => have_server
  /\ keepalive_sending' = ~keepalive_sending
  /\ UNCHANGED <<device, jobs, tableVars, buffered, linkVars, gateVars>>

-----------------------------------------------------------------------------
(* The SOCKS connection to the udpgw server *)

\* try_connect: BSocksClient_Init, or the timer.
try_connect ==
  /\ have_socks' \in BOOLEAN /\ reconnect' = ~have_socks'
  /\ socks_up' = IF have_socks' THEN FALSE ELSE socks_up
  /\ UNCHANGED have_server

reconnect_timer_handler ==
  /\ jobs = <<>> /\ reconnect
  /\ try_connect
  /\ UNCHANGED <<device, jobs, tableVars, flowVars, gateVars>>

UdpGwClient_ConnectServer    == have_server' = TRUE
UdpGwClient_DisconnectServer == have_server' = FALSE

\* free_socks, and the timer is set.
free_socks ==
  /\ IF socks_up THEN UdpGwClient_DisconnectServer ELSE UNCHANGED have_server
  /\ have_socks' = FALSE /\ reconnect' = TRUE
  /\ UNCHANGED socks_up

\* socks_client_handler: UP, unless UdpGwClient_ConnectServer fails ...
GwUp ==
  /\ jobs = <<>> /\ have_socks /\ ~socks_up
  /\ \/ socks_up' = TRUE /\ UdpGwClient_ConnectServer /\ UNCHANGED <<have_socks, reconnect>>
     \/ free_socks
  /\ UNCHANGED <<device, jobs, tableVars, flowVars, gateVars>>

\* ... and the errors, with the decoder's (udpgw_handler_servererror).
GwFails ==
  /\ jobs = <<>> /\ have_socks
  /\ free_socks
  /\ UNCHANGED <<device, jobs, tableVars, flowVars, gateVars>>

-----------------------------------------------------------------------------
(* process_device_dns_packet *)

insert_connection(e, s) ==
  IF e.count > 0 THEN [e EXCEPT !.count = @ + 1] ELSE [server |-> s, count |-> 1]

\* A query of p to s turns around to pdnsd.
DnsQuery(p, s) ==
  /\ dns[p].count < MaxQueries /\ Len(asked[p]) < MaxQueries
  /\ Reads([local |-> p, remote |-> s]) /\ jobs' = Accepting
  /\ dns' = [dns EXCEPT ![p] = insert_connection(@, s)]
  /\ asked' = [asked EXCEPT ![p] = Append(@, s)]
  /\ mixed' = IF dns[p].count = 0 THEN mixed \ {p}
              ELSE IF dns[p].server = s THEN mixed ELSE mixed \cup {p}
  /\ UNCHANGED <<strayed, tableVars, flowVars, linkVars>>

Mut_remove_connection(e) == [server |-> Nothing, count |-> 0]

remove_connection(e) ==
  IF e.count <= 1 THEN [server |-> Nothing, count |-> 0]
                  ELSE [e EXCEPT !.count = @ - 1]

\* A packet from the gateway's port to p turns around to p, which is remembered.
TurnAround(p, s) ==
  /\ dns[p].count > 0
  /\ Reads([local |-> p, remote |-> s]) /\ jobs' = Accepting
  /\ dns' = [dns EXCEPT ![p] = remove_connection(@)]
  /\ UNCHANGED <<mixed, tableVars, flowVars, linkVars>>

\* pdnsd's reply to a query of p, in any order.
DnsReply(p, i) ==
  /\ TurnAround(p, asked[p][i])
  /\ asked' = [asked EXCEPT ![p] = RemoveAt(@, i)]
  /\ UNCHANGED strayed

\* Only the port a packet comes from is looked at, so that a datagram of any
\* other program that uses the gateway's port number is taken for a reply.
DnsStray(p, s) ==
  /\ TurnAround(p, s)
  /\ strayed' = strayed \cup {p}
  /\ UNCHANGED asked

\* A query or its reply is lost; or the reply finds p forgotten, and goes on to
\* process_device_udp_packet as any packet of UdpGwNext does.
DnsLost(p, i) ==
  /\ asked' = [asked EXCEPT ![p] = RemoveAt(@, i)]
  /\ UNCHANGED <<device, jobs, dns, mixed, strayed, tableVars, flowVars, linkVars>>

-----------------------------------------------------------------------------
UdpGwNext ==
  \/ DeviceDone
  \/ \E a \in Addresses : process_device_udp_packet(a)
  \/ connection_first_job_handler
  \/ \E k \in Conids : Transmit(k)
  \/ \E k \in Conids, s \in Remotes : Receive(k, s)
  \/ KeepAlive
  \/ reconnect_timer_handler \/ GwUp \/ GwFails

DnsNext ==
  \/ DeviceDone
  \/ \E p \in Locals, s \in Remotes : DnsQuery(p, s) \/ DnsStray(p, s)
  \/ \E p \in Locals : \E i \in DOMAIN asked[p] : DnsReply(p, i) \/ DnsLost(p, i)

UdpGwSpec == UdpGwInit /\ [][UdpGwNext \/ DnsNext]_t2uVars

-----------------------------------------------------------------------------
\* The values of the fields; and while there is no SOCKS connection the timer
\* runs, and the udpgw client has a server exactly while the connection is up.
UdpGwTypeOK ==
  /\ device \in Addresses \cup {Nothing}
  /\ InUse \subseteq Conids /\ next_conid \in Conids
  /\ \A k \in InUse : conaddr[k] \in Addresses
  /\ buffered \in [Conids -> 0..BufferSize]
  /\ \A p \in Locals : dns[p].count \in 0..MaxQueries
  /\ reconnect = ~have_socks
  /\ have_server = (have_socks /\ socks_up)

\* No two connections carry the same address pair and none is listed twice, so
\* a packet has one way out and a reply one way back.
ConnectionsDistinct ==
  /\ IsInjective(connections)
  /\ \A k, m \in InUse : conaddr[k] = conaddr[m] => k = m

\* The packet a new connection's first job will send, to which it keeps only a
\* pointer, is still in the device's buffer when the job runs.
FirstPacketIsOwn ==
  \A i \in DOMAIN jobs : jobs[i] # <<"done">> => device = conaddr[jobs[i][2]]

\* Every reply that can still come finds who asked, unless a stray datagram
\* came to that port; and it is presented as from the server asked, unless
\* that port asked a second server while the first was remembered.
RepliesFindEntry ==
  \A p \in Locals \ strayed :
    /\ Len(asked[p]) <= dns[p].count
    /\ p \notin mixed => \A i \in DOMAIN asked[p] : asked[p][i] = dns[p].server
=============================================================================
