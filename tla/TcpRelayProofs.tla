--------------------------- MODULE TcpRelayProofs ---------------------------
(***************************************************************************)
(* tun2socks' TCP relay, for any window and any buffer sizes: the window   *)
(* lwIP advertises is the room in client->buf, neither direction stalls,   *)
(* and a relay that one side closed has delivered all it had taken.        *)
(***************************************************************************)
EXTENDS TcpRelay, TLAPS

-----------------------------------------------------------------------------
SocksStates ==
  {"CONNECTING", "SENDING_HELLO", "SENT_HELLO", "SENDING_PASSWORD",
   "SENT_PASSWORD", "SENDING_REQUEST", "SENT_REQUEST", "RECEIVED_REPLY_HEADER",
   "UP"}

Clients ==
  [client_closed : BOOLEAN, socks_up : BOOLEAN, socks_closed : BOOLEAN,
   buf_used : 0..Wnd, recv_used : -1..RecvBuf, recv_sent : 0..RecvBuf,
   recv_waiting : BOOLEAN, tcp_pending : 0..SndBuf]
Sockets == [state : SocksStates, sending : 0..Wnd, receiving : BOOLEAN]
Pcbs == [recv : BOOLEAN, sent : BOOLEAN, wnd : 0..Wnd, refused : BOOLEAN]
Tallies == [appIn : Nat, proxyOut : Nat, proxyIn : Nat, appOut : Nat]

Fields ==
  /\ entry \in {"none", "listed", "freed"}
  /\ c \in Clients
  /\ lwip \in Pcbs /\ socks \in Sockets /\ tally \in Tallies
  /\ ended \in {"no", "app", "proxy", "error", "failed"}

(***************************************************************************)
(* From the app to the proxy.  What was taken is sent or in the buffer; a  *)
(* send never covers more than the buffer, and covers something of it once *)
(* the proxy is up.                                                        *)
(***************************************************************************)
UploadInv ==
  /\ tally.appIn = tally.proxyOut + c.buf_used
  /\ ~lwip.refused
  /\ ~c.client_closed /\ lwip.recv => lwip.wnd = Wnd - c.buf_used
  /\ ~c.client_closed => (lwip.recv <=> ~c.socks_closed)
  /\ socks.sending <= c.buf_used
  /\ socks.sending > 0 => c.socks_up /\ ~c.socks_closed
  /\ c.socks_up /\ ~c.socks_closed /\ c.buf_used > 0 => socks.sending > 0

(***************************************************************************)
(* From the proxy to the app.  What was received is acknowledged, pending  *)
(* in lwIP, or not yet written; what is not yet written waits for an       *)
(* acknowledgement that is still to come, and keeps the next receive.      *)
(***************************************************************************)
Unwritten == IF c.recv_used > 0 THEN c.recv_used - c.recv_sent ELSE 0

DownloadInv ==
  /\ c.socks_up <=> socks.state = "UP"
  /\ lwip.sent => c.socks_up
  /\ socks.receiving => c.socks_up /\ ~c.socks_closed
  /\ c.recv_used # 0
  /\ c.recv_used > 0 => c.recv_sent < c.recv_used
  /\ ~c.socks_up => c.recv_used = -1 /\ ~c.recv_waiting /\ c.tcp_pending = 0
  /\ tally.proxyIn = tally.appOut + c.tcp_pending + Unwritten
  /\ c.socks_up /\ ~c.client_closed =>
       IF c.recv_used > 0
         THEN c.recv_waiting /\ c.tcp_pending > 0 /\ ~socks.receiving
         ELSE ~c.recv_waiting /\ (socks.receiving <=> ~c.socks_closed)

(***************************************************************************)
(* The end.  A relay that only the app has closed is there for its upload, *)
(* and one that only the proxy has closed for its download.                *)
(***************************************************************************)
EndInv ==
  /\ entry = "freed" => c.client_closed /\ c.socks_closed
  /\ ended = "no" => ~c.client_closed /\ ~c.socks_closed
  /\ ended = "app" => IF entry = "freed" THEN c.buf_used = 0
                      ELSE ~c.socks_closed
  /\ ended = "proxy" =>
       IF entry = "freed" THEN c.recv_used = -1 /\ c.tcp_pending = 0
       ELSE /\ ~c.client_closed /\ c.socks_closed
            /\ c.recv_used > 0 \/ c.tcp_pending > 0

RelayInv == Fields /\ UploadInv /\ DownloadInv /\ EndInv

-----------------------------------------------------------------------------
\* The relay starts with the invariant.
LEMMA RelayInvInit == RelayInit => RelayInv
<1>. SUFFICES ASSUME RelayInit PROVE RelayInv OBVIOUS
<1>. USE RelayAssumption DEF RelayInit
<1>1. Fields BY DEF Fields, Clients, Pcbs, Sockets, Tallies, SocksStates
<1>2. UploadInv BY DEF UploadInv
<1>3. DownloadInv BY DEF DownloadInv, Unwritten
<1>4. EndInv BY DEF EndInv
<1>. QED BY <1>1, <1>2, <1>3, <1>4 DEF RelayInv

\* The sizes of the window and of the two buffers are naturals.
LEMMA SizesNat == Wnd \in Nat /\ SndBuf \in Nat /\ RecvBuf \in Nat
BY RelayAssumption

\* The buffers are left as x has them.
Kept(x) ==
  /\ c'.socks_up = x.socks_up /\ c'.buf_used = x.buf_used
  /\ c'.recv_used = x.recv_used /\ c'.recv_sent = x.recv_sent
  /\ c'.recv_waiting = x.recv_waiting /\ c'.tcp_pending = x.tcp_pending

Silent == socks'.state = socks.state /\ socks'.sending = 0 /\ ~socks'.receiving

\* Ending both operations of the socket leaves it a socket.
LEMMA SilentFacts ==
  ASSUME socks \in Sockets, socks' = [socks EXCEPT !.sending = 0, !.receiving = FALSE]
  PROVE  socks' \in Sockets /\ Silent
<1>1. socks' \in Sockets
  <2>1. 0 \in 0..Wnd /\ FALSE \in BOOLEAN BY SizesNat
  <2>. QED BY <2>1 DEF Sockets
<1>2. Silent BY DEF Sockets, Silent
<1>. QED BY <1>1, <1>2

\* client_dealloc frees the entry with nothing under way.
LEMMA DeallocFacts ==
  ASSUME NEW x \in Clients, socks \in Sockets, client_dealloc(x)
  PROVE  /\ entry' = "freed"
         /\ c' \in Clients /\ Kept(x) /\ c'.client_closed /\ c'.socks_closed
         /\ socks' \in Sockets /\ Silent
<1>1. c' \in Clients /\ Kept(x) /\ c'.client_closed /\ c'.socks_closed
  BY DEF client_dealloc, Clients, Kept
<1>2. socks' \in Sockets /\ Silent BY SilentFacts DEF client_dealloc
<1>. QED BY <1>1, <1>2 DEF client_dealloc

\* client_handle_freed_client keeps the entry for an upload that can go on.
LEMMA FreedClientFacts ==
  ASSUME NEW x \in Clients, socks \in Sockets, client_handle_freed_client(x)
  PROVE  /\ c' \in Clients /\ Kept(x) /\ c'.client_closed /\ socks' \in Sockets
         /\ IF x.buf_used > 0 /\ ~x.socks_closed
              THEN /\ ~c'.socks_closed
                   /\ UNCHANGED <<entry, socks>>
              ELSE entry' = "freed" /\ c'.socks_closed /\ Silent
<1>1. CASE x.buf_used > 0 /\ ~x.socks_closed
  BY <1>1 DEF client_handle_freed_client, Clients, Kept
<1>2. CASE ~(x.buf_used > 0 /\ ~x.socks_closed)
  BY <1>2, DeallocFacts DEF client_handle_freed_client
<1>. QED BY <1>1, <1>2

\* client_free_socks keeps the entry for a download that can go on.
LEMMA FreeSocksFacts ==
  ASSUME NEW x \in Clients, socks \in Sockets, lwip \in Pcbs, client_free_socks(x)
  PROVE  /\ c' \in Clients /\ Kept(x) /\ c'.socks_closed
         /\ socks' \in Sockets /\ Silent
         /\ IF x.socks_up /\ ~x.client_closed /\ (x.recv_used >= 0 \/ x.tcp_pending > 0)
              THEN /\ ~c'.client_closed /\ UNCHANGED entry
                   /\ lwip' \in Pcbs /\ ~lwip'.recv
                   /\ lwip'.sent = lwip.sent /\ lwip'.wnd = lwip.wnd
                   /\ lwip'.refused = lwip.refused
              ELSE entry' = "freed" /\ c'.client_closed /\ UNCHANGED lwip
<1>1. CASE x.socks_up /\ ~x.client_closed /\ (x.recv_used >= 0 \/ x.tcp_pending > 0)
  <2>1. c' \in Clients /\ Kept(x) /\ c'.socks_closed /\ ~c'.client_closed
    BY <1>1 DEF client_free_socks, Clients, Kept
  <2>2. socks' \in Sockets /\ Silent
    BY <1>1, SilentFacts DEF client_free_socks
  <2>3. /\ lwip' \in Pcbs /\ ~lwip'.recv
        /\ lwip'.sent = lwip.sent /\ lwip'.wnd = lwip.wnd
        /\ lwip'.refused = lwip.refused
    BY <1>1 DEF client_free_socks, Pcbs
  <2>. QED BY <1>1, <2>1, <2>2, <2>3 DEF client_free_socks
<1>2. CASE ~(x.socks_up /\ ~x.client_closed /\ (x.recv_used >= 0 \/ x.tcp_pending > 0))
  BY <1>2, DeallocFacts DEF client_free_socks
<1>. QED BY <1>1, <1>2

-----------------------------------------------------------------------------
(* Steps that free a side *)

\* A step that has been through client_handle_freed_client, with the fields as
\* they are, keeps the invariant.
LEMMA ClientGone ==
  ASSUME RelayInv, Listed, ~c.client_closed,
         client_handle_freed_client(c), UNCHANGED <<lwip, tally>>,
         ended' \in {"app", "error", "failed"},
         ended' = "app" => ended = "no"
  PROVE  RelayInv'
<1>. USE FreedClientFacts, SizesNat DEF RelayInv
<1>0. c \in Clients /\ socks \in Sockets BY DEF Fields
<1>1. Fields' BY <1>0 DEF Fields
<1>2. UploadInv' BY <1>0 DEF UploadInv, Kept, Silent, Fields, Clients
<1>3. DownloadInv' BY <1>0 DEF DownloadInv, Unwritten, Kept, Silent
<1>4. EndInv' BY <1>0 DEF EndInv, Kept, Silent, Listed, Fields, Clients
<1>. QED BY <1>1, <1>2, <1>3, <1>4

\* The same for the proxy's side.
LEMMA ProxyGone ==
  ASSUME RelayInv, Listed, ~c.socks_closed,
         client_free_socks(c), UNCHANGED tally,
         ended' \in {"proxy", "error", "failed"},
         ended' = "proxy" => ended = "no" /\ c.socks_up
  PROVE  RelayInv'
<1>. USE FreeSocksFacts, SizesNat DEF RelayInv
<1>0. c \in Clients /\ socks \in Sockets /\ lwip \in Pcbs BY DEF Fields
<1>1. Fields' BY <1>0 DEF Fields
<1>2. UploadInv' BY <1>0 DEF UploadInv, Kept, Silent, Clients
<1>3. DownloadInv' BY <1>0 DEF DownloadInv, Unwritten, Kept, Silent
<1>4. EndInv' BY <1>0 DEF EndInv, Kept, Silent, Listed, DownloadInv, Clients
<1>. QED BY <1>1, <1>2, <1>3, <1>4

\* AppCloses, AppErrs, SocksEnds and client_murder.
LEMMA EndStep ==
  ASSUME RelayInv,
         \/ AppCloses \/ AppErrs \/ client_murder
         \/ \E why \in {"proxy", "error"} : SocksEnds(why)
  PROVE  RelayInv'
<1>1. CASE AppCloses \/ AppErrs
  BY <1>1, ClientGone DEF AppCloses, AppErrs, Because
<1>2. CASE \E why \in {"proxy", "error"} : SocksEnds(why)
  BY <1>2, ProxyGone DEF SocksEnds, Because
<1>3. CASE client_murder
  <2>. USE <1>3, DeallocFacts, SizesNat DEF client_murder, Failed, RelayInv
  <2>0. c \in Clients /\ socks \in Sockets BY DEF Fields
  <2>1. Fields' BY <2>0 DEF Fields
  <2>2. UploadInv' BY <2>0 DEF UploadInv, Kept, Silent, Clients
  <2>3. DownloadInv' BY <2>0 DEF DownloadInv, Unwritten, Kept, Silent
  <2>4. EndInv' BY <2>0 DEF EndInv
  <2>. QED BY <2>1, <2>2, <2>3, <2>4
<1>. QED BY <1>1, <1>2, <1>3

-----------------------------------------------------------------------------
(* From the app to the proxy *)

\* The app sends no more than the window, so the buffer has room.
LEMMA AppSendsStep ==
  ASSUME RelayInv, NEW n \in 1..Wnd, AppSends(n)
  PROVE  RelayInv'
<1>. USE SizesNat DEF RelayInv
<1>0. /\ c \in Clients /\ socks \in Sockets /\ lwip \in Pcbs /\ tally \in Tallies
      /\ Listed /\ ~c.client_closed /\ lwip.recv /\ n <= lwip.wnd
  BY DEF Fields, AppSends
<1>1. n <= Wnd - c.buf_used /\ lwip.wnd = Wnd - c.buf_used
  BY <1>0 DEF UploadInv
<1>2. /\ lwip' = [lwip EXCEPT !.wnd = @ - n]
      /\ c' = [c EXCEPT !.buf_used = @ + n]
      /\ tally' = [tally EXCEPT !.appIn = @ + n]
      /\ IF c.buf_used = 0 /\ c.socks_up THEN client_send_to_socks(n)
                                         ELSE UNCHANGED socks
      /\ UNCHANGED <<entry, ended>>
  BY <1>0, <1>1 DEF Clients, AppSends
<1>3. /\ c' \in Clients /\ c'.buf_used = c.buf_used + n
      /\ c'.client_closed = c.client_closed /\ c'.socks_up = c.socks_up
      /\ c'.socks_closed = c.socks_closed /\ c'.recv_used = c.recv_used
      /\ c'.recv_sent = c.recv_sent /\ c'.recv_waiting = c.recv_waiting
      /\ c'.tcp_pending = c.tcp_pending
  BY <1>0, <1>1, <1>2 DEF Clients
<1>4. /\ lwip' \in Pcbs /\ lwip'.wnd = lwip.wnd - n /\ lwip'.recv = lwip.recv
      /\ lwip'.sent = lwip.sent /\ lwip'.refused = lwip.refused
  <2>1. lwip.wnd - n \in 0..Wnd BY <1>0 DEF Pcbs
  <2>2. lwip' = [lwip EXCEPT !.wnd = lwip.wnd - n] BY <1>2
  <2>. QED BY <1>0, <2>1, <2>2 DEF Pcbs
<1>5. /\ tally' \in Tallies /\ tally'.appIn = tally.appIn + n
      /\ tally'.proxyOut = tally.proxyOut /\ tally'.proxyIn = tally.proxyIn
      /\ tally'.appOut = tally.appOut
  BY <1>0, <1>2 DEF Tallies
<1>6. /\ socks' \in Sockets /\ socks'.state = socks.state
      /\ socks'.receiving = socks.receiving
      /\ socks'.sending = IF c.buf_used = 0 /\ c.socks_up THEN n ELSE socks.sending
  BY <1>0, <1>2 DEF client_send_to_socks, Sockets
<1>7. Fields' BY <1>2, <1>3, <1>4, <1>5, <1>6 DEF Fields
<1>8. UploadInv'
  BY <1>0, <1>1, <1>3, <1>4, <1>5, <1>6 DEF UploadInv, Clients, Sockets, Tallies
<1>9. DownloadInv' BY <1>3, <1>4, <1>5, <1>6 DEF DownloadInv, Unwritten
<1>10. EndInv' BY <1>0, <1>2, <1>3 DEF EndInv, Listed
<1>. QED BY <1>7, <1>8, <1>9, <1>10

\* client_socks_send_handler_done: what the proxy took leaves the buffer, and
\* the window opens by as much.
LEMMA SocksSentStep ==
  ASSUME RelayInv, NEW n \in 1..Wnd, SocksSent(n)
  PROVE  RelayInv'
<1>. USE SizesNat DEF RelayInv
<1>. DEFINE x == [c EXCEPT !.buf_used = @ - n]
<1>0. /\ c \in Clients /\ socks \in Sockets /\ lwip \in Pcbs /\ tally \in Tallies
      /\ Listed /\ n <= socks.sending /\ UNCHANGED ended
      /\ tally' = [tally EXCEPT !.proxyOut = @ + n]
  BY DEF Fields, SocksSent
<1>1. socks.sending <= c.buf_used /\ c.socks_up /\ ~c.socks_closed
  BY <1>0 DEF UploadInv, Sockets
<1>2. /\ tally' \in Tallies /\ tally'.proxyOut = tally.proxyOut + n
      /\ tally'.appIn = tally.appIn /\ tally'.proxyIn = tally.proxyIn
      /\ tally'.appOut = tally.appOut
  BY <1>0 DEF Tallies
<1>3. /\ x \in Clients /\ x.buf_used = c.buf_used - n
      /\ x.client_closed = c.client_closed /\ x.socks_up = c.socks_up
      /\ x.socks_closed = c.socks_closed /\ x.recv_used = c.recv_used
      /\ x.recv_sent = c.recv_sent /\ x.recv_waiting = c.recv_waiting
      /\ x.tcp_pending = c.tcp_pending
  <2>1. c.buf_used - n \in 0..Wnd BY <1>0, <1>1 DEF Clients, Sockets
  <2>. QED BY <1>0, <2>1 DEF Clients
<1>4. CASE x.buf_used > 0 \/ ~c.client_closed
  <2>1. /\ c' = x /\ lwip' = Recved(n) /\ UNCHANGED entry
        /\ socks' = [socks EXCEPT !.sending = x.buf_used]
    BY <1>3, <1>4 DEF SocksSent, client_send_to_socks, Clients
  <2>2. /\ socks' \in Sockets /\ socks'.state = socks.state
        /\ socks'.receiving = socks.receiving /\ socks'.sending = x.buf_used
    <3>1. x.buf_used \in 0..Wnd BY <1>3 DEF Clients
    <3>. HIDE DEF x
    <3>. QED BY <2>1, <3>1, <1>0 DEF Sockets
  <2>3. /\ lwip' \in Pcbs
        /\ lwip'.wnd = IF c.client_closed THEN lwip.wnd ELSE lwip.wnd + n
        /\ lwip'.recv = lwip.recv /\ lwip'.sent = lwip.sent
        /\ lwip'.refused = lwip.refused
    <3>1. CASE c.client_closed BY <2>1, <3>1, <1>0 DEF Recved
    <3>2. CASE ~c.client_closed
      <4>1. lwip.wnd + n \in 0..Wnd
        BY <1>0, <1>1, <3>2 DEF UploadInv, Clients, Sockets, Pcbs
      <4>2. lwip' = [lwip EXCEPT !.wnd = lwip.wnd + n] BY <2>1, <3>2 DEF Recved
      <4>. QED BY <3>2, <4>1, <4>2, <1>0 DEF Pcbs
    <3>. QED BY <3>1, <3>2
  <2>4. c' = x BY <2>1
  <2>. HIDE DEF x
  <2>5. Fields' BY <1>0, <1>2, <1>3, <2>1, <2>2, <2>3 DEF Fields
  <2>6. UploadInv'
    <3>1. /\ c.buf_used \in 0..Wnd /\ lwip.wnd \in 0..Wnd
          /\ tally.appIn \in Nat /\ tally.proxyOut \in Nat
      BY <1>0 DEF Clients, Pcbs, Tallies
    <3>2. c'.client_closed = c.client_closed /\ c'.socks_up = c.socks_up
          /\ c'.socks_closed = c.socks_closed /\ c'.buf_used = c.buf_used - n
      BY <1>3, <2>4
    <3>3. (tally.appIn = tally.proxyOut + c.buf_used)'
      BY <1>2, <3>1, <3>2 DEF UploadInv
    <3>4. (~c.client_closed /\ lwip.recv => lwip.wnd = Wnd - c.buf_used)'
      BY <2>3, <3>1, <3>2 DEF UploadInv
    <3>5. (~c.client_closed => (lwip.recv <=> ~c.socks_closed))' /\ ~lwip'.refused
      BY <2>3, <3>2 DEF UploadInv
    <3>6. socks'.sending = c'.buf_used BY <2>2, <2>4
    <3>. QED BY <1>1, <3>1, <3>2, <3>3, <3>4, <3>5, <3>6 DEF UploadInv
  <2>7. DownloadInv'
    BY <1>2, <1>3, <2>2, <2>3, <2>4 DEF DownloadInv, Unwritten
  <2>8. EndInv' BY <1>0, <1>3, <2>1, <2>4 DEF EndInv, Listed
  <2>. QED BY <2>5, <2>6, <2>7, <2>8
<1>5. CASE ~(x.buf_used > 0 \/ ~c.client_closed)
  <2>1. x.buf_used = 0 /\ x.client_closed /\ client_free_socks(x)
    BY <1>3, <1>5 DEF SocksSent, Clients
  <2>. HIDE DEF x
  <2>2. /\ entry' = "freed" /\ c' \in Clients /\ Kept(x) /\ c'.client_closed
        /\ c'.socks_closed /\ socks' \in Sockets /\ Silent /\ UNCHANGED lwip
    BY <2>1, <1>0, <1>3, FreeSocksFacts
  <2>3. Fields' BY <1>0, <1>2, <2>2 DEF Fields
  <2>4. UploadInv'
    BY <1>0, <1>2, <1>3, <2>1, <2>2 DEF UploadInv, Kept, Silent, Clients, Tallies
  <2>5. DownloadInv'
    BY <1>2, <1>3, <2>2 DEF DownloadInv, Unwritten, Kept, Silent
  <2>6. EndInv'
    BY <1>0, <1>3, <2>1, <2>2 DEF EndInv, Kept, Listed
  <2>. QED BY <2>3, <2>4, <2>5, <2>6
<1>. QED BY <1>4, <1>5

-----------------------------------------------------------------------------
(* The SOCKS connection *)

\* The handshake goes on without touching the buffers; when it is done, what
\* the app sent meanwhile is sent on.
LEMMA HandshakeStep ==
  ASSUME RelayInv, SocksHandshakes \/ SocksUp
  PROVE  RelayInv'
<1>. USE SizesNat DEF RelayInv
<1>0. /\ c \in Clients /\ socks \in Sockets /\ lwip \in Pcbs
      /\ Listed /\ ~c.socks_closed /\ UNCHANGED <<entry, tally, ended>>
  BY DEF Fields, SocksHandshakes, SocksUp
<1>1. CASE SocksHandshakes
  <2>1. PICK s \in Handshake(socks.state) : socks' = [socks EXCEPT !.state = s]
    BY <1>1 DEF SocksHandshakes
  <2>2. socks.state # "UP" /\ s \in SocksStates /\ s # "UP"
    BY DEF Handshake, connector_handler, send_handler_done, recv_handler_done,
           auth_finished, SocksStates
  <2>3. /\ socks' \in Sockets /\ socks'.state = s /\ socks'.sending = socks.sending
        /\ socks'.receiving = socks.receiving
    BY <2>1, <2>2, <1>0 DEF Sockets
  <2>4. UNCHANGED <<c, lwip>> BY <1>1 DEF SocksHandshakes
  <2>5. Fields' BY <1>0, <2>3, <2>4 DEF Fields
  <2>6. UploadInv' BY <1>0, <2>3, <2>4 DEF UploadInv
  <2>7. DownloadInv' BY <1>0, <2>2, <2>3, <2>4 DEF DownloadInv, Unwritten
  <2>8. EndInv' BY <1>0, <2>4 DEF EndInv
  <2>. QED BY <2>5, <2>6, <2>7, <2>8
<1>2. CASE SocksUp
  <2>1. /\ socks.state = "RECEIVED_REPLY_HEADER"
        /\ c' = [c EXCEPT !.socks_up = TRUE]
        /\ lwip' = [lwip EXCEPT !.sent = ~c.client_closed]
        /\ socks' = [state |-> "UP", sending |-> c.buf_used,
                     receiving |-> ~c.client_closed]
    BY <1>2 DEF SocksUp
  <2>2. /\ c' \in Clients /\ c'.socks_up /\ c'.buf_used = c.buf_used
        /\ c'.client_closed = c.client_closed /\ c'.socks_closed = c.socks_closed
        /\ c'.recv_used = c.recv_used /\ c'.recv_sent = c.recv_sent
        /\ c'.recv_waiting = c.recv_waiting /\ c'.tcp_pending = c.tcp_pending
    BY <1>0, <2>1 DEF Clients
  <2>3. /\ lwip' \in Pcbs /\ lwip'.wnd = lwip.wnd
        /\ lwip'.recv = lwip.recv /\ lwip'.refused = lwip.refused
    BY <1>0, <2>1 DEF Pcbs
  <2>4. /\ socks' \in Sockets /\ socks'.state = "UP"
        /\ socks'.sending = c.buf_used
        /\ socks'.receiving <=> ~c.client_closed
    BY <1>0, <2>1 DEF Sockets, Clients, SocksStates
  <2>5. Fields' BY <1>0, <2>2, <2>3, <2>4 DEF Fields
  <2>6. UploadInv'
    BY <1>0, <2>2, <2>3, <2>4 DEF UploadInv, Clients
  <2>7. DownloadInv' BY <1>0, <2>1, <2>2, <2>4 DEF DownloadInv, Unwritten
  <2>8. EndInv' BY <1>0, <2>2 DEF EndInv
  <2>. QED BY <2>5, <2>6, <2>7, <2>8
<1>. QED BY <1>1, <1>2

-----------------------------------------------------------------------------
(* From the proxy to the app *)

\* client_socks_recv_send_out, on fields x that have something to write: it
\* waits only with something pending, and otherwise receives again or, having
\* nothing pending to wait for, aborts.
LEMMA SendOutStep ==
  ASSUME RelayInv, Listed, NEW x \in Clients, NEW w \in 0..SndBuf, NEW why,
         w \in Writes(x), SendOut(x, w, why), UNCHANGED lwip,
         ~c.client_closed, c.socks_up,
         x.client_closed = c.client_closed, x.socks_up = c.socks_up,
         x.socks_closed = c.socks_closed, x.buf_used = c.buf_used,
         x.recv_used > 0, x.recv_sent < x.recv_used,
         tally' \in Tallies, tally'.appIn = tally.appIn,
         tally'.proxyOut = tally.proxyOut,
         tally'.proxyIn =
           tally'.appOut + x.tcp_pending + (x.recv_used - x.recv_sent)
  PROVE  RelayInv'
<1>. USE SizesNat DEF RelayInv
<1>. DEFINE y == [x EXCEPT !.recv_sent = @ + w, !.tcp_pending = @ + w,
                           !.recv_waiting = FALSE]
            more == y.recv_sent < y.recv_used
<1>0. c \in Clients /\ socks \in Sockets /\ lwip \in Pcbs BY DEF Fields
<1>1. /\ x.recv_used \in Int /\ x.recv_sent \in Nat /\ x.tcp_pending \in 0..SndBuf
      /\ x.recv_used <= RecvBuf
      /\ x.recv_sent + w <= x.recv_used /\ x.tcp_pending + w <= SndBuf
  BY DEF Writes, Least, Clients
<1>2. /\ y \in Clients /\ y.recv_sent = x.recv_sent + w
      /\ y.tcp_pending = x.tcp_pending + w /\ ~y.recv_waiting
      /\ y.client_closed = x.client_closed /\ y.socks_up = x.socks_up
      /\ y.socks_closed = x.socks_closed /\ y.buf_used = x.buf_used
      /\ y.recv_used = x.recv_used
  <2>1. x.recv_sent + w \in 0..RecvBuf /\ x.tcp_pending + w \in 0..SndBuf
    BY <1>1
  <2>. QED BY <2>1 DEF Clients
<1>3. CASE why = "abort" \/ (more /\ y.tcp_pending = 0)
  <2>1. client_handle_freed_client(x) /\ ended' = "failed"
    BY <1>3 DEF SendOut, Failed
  <2>. HIDE DEF y
  <2>2. /\ c' \in Clients /\ Kept(x) /\ c'.client_closed /\ socks' \in Sockets
        /\ IF x.buf_used > 0 /\ ~x.socks_closed
             THEN ~c'.socks_closed /\ UNCHANGED <<entry, socks>>
             ELSE entry' = "freed" /\ c'.socks_closed /\ Silent
    BY <2>1, <1>0, FreedClientFacts
  <2>3. Fields' BY <1>0, <2>1, <2>2 DEF Fields
  <2>4. UploadInv' BY <1>0, <2>2 DEF UploadInv, Kept, Silent, Clients
  <2>5. DownloadInv'
    BY <1>0, <2>2 DEF DownloadInv, Unwritten, Kept, Silent
  <2>6. EndInv' BY <2>1, <2>2 DEF EndInv
  <2>. QED BY <2>3, <2>4, <2>5, <2>6
<1>4. CASE ~(why = "abort" \/ (more /\ y.tcp_pending = 0))
  <2>1. /\ c' = IF more THEN [y EXCEPT !.recv_waiting = TRUE]
                ELSE [y EXCEPT !.recv_used = -1]
        /\ socks' = [socks EXCEPT !.receiving = ~more /\ ~x.socks_closed]
        /\ UNCHANGED <<entry, ended>>
    BY <1>4 DEF SendOut
  <2>2. /\ socks' \in Sockets /\ socks'.state = socks.state
        /\ socks'.sending = socks.sending
        /\ socks'.receiving <=> ~more /\ ~x.socks_closed
    <3>. HIDE DEF more
    <3>. QED BY <2>1, <1>0 DEF Sockets
  <2>. HIDE DEF y
  <2>3. /\ c' \in Clients /\ c'.recv_sent = y.recv_sent
        /\ c'.tcp_pending = y.tcp_pending
        /\ c'.client_closed = y.client_closed /\ c'.socks_up = y.socks_up
        /\ c'.socks_closed = y.socks_closed /\ c'.buf_used = y.buf_used
    <3>. HIDE DEF more
    <3>1. CASE more BY <3>1, <1>2, <2>1 DEF Clients
    <3>2. CASE ~more
      <4>1. -1 \in -1..RecvBuf OBVIOUS
      <4>. QED BY <3>2, <4>1, <1>2, <2>1 DEF Clients
    <3>. QED BY <3>1, <3>2
  <2>4. IF more THEN c'.recv_waiting /\ c'.recv_used = y.recv_used
        ELSE ~c'.recv_waiting /\ c'.recv_used = -1
    BY <1>2, <2>1 DEF Clients
  <2>5. y.tcp_pending \in Nat /\ (more => y.tcp_pending > 0)
        /\ (~more => y.recv_sent = y.recv_used /\ w > 0 /\ y.tcp_pending > 0)
    BY <1>1, <1>2, <1>4 DEF Clients
  <2>6. Fields' BY <1>0, <2>1, <2>2, <2>3 DEF Fields
  <2>7. UploadInv' BY <1>0, <1>2, <2>2, <2>3 DEF UploadInv
  <2>8. DownloadInv'
    <3>1. (tally.proxyIn = tally.appOut + c.tcp_pending + Unwritten)'
      <4>1. tally'.appOut \in Nat BY DEF Tallies
      <4>2. Unwritten' = IF more THEN y.recv_used - y.recv_sent ELSE 0
        BY <1>1, <1>2, <2>3, <2>4 DEF Unwritten
      <4>. QED BY <4>1, <4>2, <1>1, <1>2, <2>3, <2>5
    <3>2. (c.recv_used # 0 /\ (c.recv_used > 0 => c.recv_sent < c.recv_used))'
      BY <1>1, <1>2, <2>3, <2>4
    <3>3. (IF c.recv_used > 0
             THEN c.recv_waiting /\ c.tcp_pending > 0 /\ ~socks.receiving
             ELSE ~c.recv_waiting /\ (socks.receiving <=> ~c.socks_closed))'
      BY <1>1, <1>2, <2>2, <2>3, <2>4, <2>5
    <3>. QED BY <1>0, <1>2, <2>2, <2>3, <3>1, <3>2, <3>3 DEF DownloadInv
  <2>9. EndInv'
    BY <1>1, <1>2, <2>1, <2>3, <2>4, <2>5 DEF EndInv, Listed
  <2>. QED BY <2>6, <2>7, <2>8, <2>9
<1>. QED BY <1>3, <1>4

\* client_socks_recv_handler_done: a receive is under way only with nothing
\* left from the one before, unless the client is gone.
LEMMA SocksReceivesStep ==
  ASSUME RelayInv, NEW n \in 1..RecvBuf, NEW w \in 0..SndBuf, NEW why \in Outcomes,
         SocksReceives(n, w, why)
  PROVE  RelayInv'
<1>. USE SizesNat DEF RelayInv
<1>0. /\ c \in Clients /\ socks \in Sockets /\ lwip \in Pcbs /\ tally \in Tallies
      /\ Listed /\ socks.receiving /\ UNCHANGED lwip
  BY DEF Fields, SocksReceives
<1>1. CASE c.client_closed
  <2>1. socks' = [socks EXCEPT !.receiving = FALSE] /\ UNCHANGED <<entry, c, tally, ended>>
    BY <1>1 DEF SocksReceives
  <2>2. /\ socks' \in Sockets /\ socks'.state = socks.state
        /\ socks'.sending = socks.sending /\ ~socks'.receiving
    BY <2>1, <1>0 DEF Sockets
  <2>3. Fields' BY <1>0, <2>1, <2>2 DEF Fields
  <2>4. UploadInv' BY <1>0, <2>1, <2>2 DEF UploadInv
  <2>5. DownloadInv' BY <1>0, <1>1, <2>1, <2>2 DEF DownloadInv, Unwritten
  <2>6. EndInv' BY <2>1 DEF EndInv
  <2>. QED BY <2>3, <2>4, <2>5, <2>6
<1>2. CASE ~c.client_closed
  <2>. DEFINE x == [c EXCEPT !.recv_used = n, !.recv_sent = 0]
  <2>1. /\ w \in Writes(x) /\ SendOut(x, w, why)
        /\ tally' = [tally EXCEPT !.proxyIn = @ + n]
    BY <1>2 DEF SocksReceives
  <2>2. /\ x \in Clients /\ x.recv_used = n /\ x.recv_sent = 0
        /\ x.client_closed = c.client_closed /\ x.socks_up = c.socks_up
        /\ x.socks_closed = c.socks_closed /\ x.buf_used = c.buf_used
        /\ x.tcp_pending = c.tcp_pending
    <3>1. n \in -1..RecvBuf /\ 0 \in 0..RecvBuf OBVIOUS
    <3>. QED BY <3>1, <1>0 DEF Clients
  <2>3. /\ tally' \in Tallies /\ tally'.proxyIn = tally.proxyIn + n
        /\ tally'.appIn = tally.appIn /\ tally'.proxyOut = tally.proxyOut
        /\ tally'.appOut = tally.appOut
    BY <2>1, <1>0 DEF Tallies
  <2>4. c.socks_up /\ tally.proxyIn = tally.appOut + c.tcp_pending
    <3>1. tally.appOut \in Nat /\ c.tcp_pending \in Nat BY <1>0 DEF Tallies, Clients
    <3>. QED BY <3>1, <1>0, <1>2 DEF DownloadInv, Unwritten
  <2>5. tally'.proxyIn =
          tally'.appOut + x.tcp_pending + (x.recv_used - x.recv_sent)
    BY <1>0, <2>2, <2>3, <2>4 DEF Tallies, Clients
  <2>6. x.recv_used > 0 /\ x.recv_sent < x.recv_used BY <2>2
  <2>. HIDE DEF x
  <2>. QED BY <1>0, <1>2, <2>1, <2>2, <2>3, <2>4, <2>5, <2>6, SendOutStep
<1>. QED BY <1>1, <1>2

\* client_sent_func: what is acknowledged is no longer pending, and what waits
\* is written or the entry is freed with nothing left.
LEMMA AppAcksStep ==
  ASSUME RelayInv, NEW n \in 1..SndBuf, NEW w \in 0..SndBuf, NEW why \in Outcomes,
         AppAcks(n, w, why)
  PROVE  RelayInv'
<1>. USE SizesNat DEF RelayInv
<1>. DEFINE x == [c EXCEPT !.tcp_pending = @ - n]
<1>0. /\ c \in Clients /\ socks \in Sockets /\ lwip \in Pcbs /\ tally \in Tallies
      /\ Listed /\ ~c.client_closed /\ lwip.sent /\ n <= c.tcp_pending /\ UNCHANGED lwip
      /\ tally' = [tally EXCEPT !.appOut = @ + n]
  BY DEF Fields, AppAcks
<1>1. /\ x \in Clients /\ x.tcp_pending = c.tcp_pending - n
      /\ x.client_closed = c.client_closed /\ x.socks_up = c.socks_up
      /\ x.socks_closed = c.socks_closed /\ x.buf_used = c.buf_used
      /\ x.recv_used = c.recv_used /\ x.recv_sent = c.recv_sent
      /\ x.recv_waiting = c.recv_waiting
  <2>1. c.tcp_pending - n \in 0..SndBuf BY <1>0 DEF Clients
  <2>. QED BY <1>0, <2>1 DEF Clients
<1>2. /\ tally' \in Tallies /\ tally'.appOut = tally.appOut + n
      /\ tally'.appIn = tally.appIn /\ tally'.proxyOut = tally.proxyOut
      /\ tally'.proxyIn = tally.proxyIn
  BY <1>0 DEF Tallies
<1>3. /\ c.socks_up
      /\ tally'.proxyIn = tally'.appOut + x.tcp_pending + Unwritten
  <2>1. tally.appOut \in Nat /\ c.tcp_pending \in Nat /\ Unwritten \in Int
    BY <1>0 DEF Tallies, Clients, Unwritten
  <2>. QED BY <2>1, <1>0, <1>1, <1>2 DEF DownloadInv
<1>4. CASE x.recv_used > 0
  <2>1. w \in Writes(x) /\ SendOut(x, w, why) BY <1>4 DEF AppAcks
  <2>. HIDE DEF x
  <2>2. x.recv_sent < x.recv_used /\ Unwritten = x.recv_used - x.recv_sent
    BY <1>1, <1>4 DEF DownloadInv, Unwritten
  <2>. QED BY <1>0, <1>1, <1>2, <1>3, <1>4, <2>1, <2>2, SendOutStep
<1>5. CASE ~(x.recv_used > 0)
  <2>0. c.recv_used = -1 /\ Unwritten = 0
    BY <1>0, <1>1, <1>5 DEF DownloadInv, Unwritten, Clients
  <2>1. /\ UNCHANGED ended
        /\ IF x.socks_closed /\ x.tcp_pending = 0 THEN client_dealloc(x)
           ELSE c' = x /\ UNCHANGED <<entry, socks>>
    BY <1>5 DEF AppAcks
  <2>. HIDE DEF x
  <2>2. CASE x.socks_closed /\ x.tcp_pending = 0
    <3>1. /\ entry' = "freed" /\ c' \in Clients /\ Kept(x) /\ c'.client_closed
          /\ c'.socks_closed /\ socks' \in Sockets /\ Silent
      BY <2>1, <2>2, <1>0, <1>1, DeallocFacts
    <3>2. Fields' BY <1>0, <1>2, <2>1, <3>1 DEF Fields
    <3>3. UploadInv'
      BY <1>0, <1>1, <1>2, <3>1 DEF UploadInv, Kept, Silent, Clients
    <3>4. DownloadInv'
      BY <1>0, <1>1, <1>2, <1>3, <2>0, <3>1 DEF DownloadInv, Unwritten, Kept, Silent
    <3>5. EndInv'
      BY <1>0, <1>1, <2>0, <2>1, <2>2, <3>1 DEF EndInv, Kept, Listed
    <3>. QED BY <3>2, <3>3, <3>4, <3>5
  <2>3. CASE ~(x.socks_closed /\ x.tcp_pending = 0)
    <3>1. c' = x /\ UNCHANGED <<entry, socks, ended>> BY <2>1, <2>3
    <3>2. Fields' BY <1>0, <1>1, <1>2, <3>1 DEF Fields
    <3>3. UploadInv' BY <1>0, <1>1, <1>2, <3>1 DEF UploadInv
    <3>4. DownloadInv'
      <4>1. (tally.proxyIn = tally.appOut + c.tcp_pending + Unwritten)'
        BY <1>1, <1>3, <2>0, <3>1 DEF Unwritten
      <4>2. c'.recv_used = -1 BY <1>1, <2>0, <3>1
      <4>3. ~(c'.recv_used > 0) BY <4>2
      <4>4. c'.socks_up BY <1>1, <1>3, <3>1
      <4>5. ~c.recv_waiting /\ (socks.receiving <=> ~c.socks_closed)
        BY <1>0, <1>3, <2>0 DEF DownloadInv
      <4>6. ~c'.recv_waiting /\ (socks'.receiving <=> ~c'.socks_closed)
        BY <4>5, <1>1, <3>1
      <4>. QED BY <4>1, <4>2, <4>3, <4>4, <4>6, <1>0, <1>3, <3>1 DEF DownloadInv
    <3>5. EndInv'
      BY <1>0, <1>1, <2>0, <2>3, <3>1 DEF EndInv, Listed, Clients
    <3>. QED BY <3>2, <3>3, <3>4, <3>5
  <2>. QED BY <2>2, <2>3
<1>. QED BY <1>4, <1>5

-----------------------------------------------------------------------------
\* Every step keeps the invariant.
LEMMA RelayStep == RelayInv /\ [RelayNext]_relayVars => RelayInv'
<1>. SUFFICES ASSUME RelayInv, [RelayNext]_relayVars PROVE RelayInv' OBVIOUS
<1>1. CASE Accepted
  BY <1>1 DEF Accepted, RelayInv, Fields, UploadInv, DownloadInv, Unwritten, EndInv
<1>2. CASE UNCHANGED relayVars
  BY <1>2 DEF relayVars, RelayInv, Fields, UploadInv, DownloadInv, Unwritten, EndInv
<1>. QED
  BY <1>1, <1>2, EndStep, AppSendsStep, SocksSentStep, HandshakeStep,
     SocksReceivesStep, AppAcksStep DEF RelayNext, Reactor, Acks

\* The invariant gives the fields' ranges and the relay's three properties.
LEMMA RelayInvImplies ==
  RelayInv => RelayTypeOK /\ WindowIsRoom /\ RelayUnderWay /\ ClosedInOrder
<1>. SUFFICES ASSUME RelayInv
              PROVE  RelayTypeOK /\ WindowIsRoom /\ RelayUnderWay /\ ClosedInOrder
  OBVIOUS
<1>. USE SizesNat DEF RelayInv
<1>1. RelayTypeOK BY DEF RelayTypeOK, Fields, Clients, Sockets, Pcbs
<1>2. WindowIsRoom BY DEF WindowIsRoom, UploadInv
<1>3. RelayUnderWay
  <2>1. socks.sending > 0 => c.buf_used > 0
    BY DEF UploadInv, Fields, Clients, Sockets
  <2>. QED BY <2>1 DEF RelayUnderWay, UploadInv, DownloadInv
<1>4. ClosedInOrder
  BY DEF ClosedInOrder, UploadInv, DownloadInv, EndInv, Unwritten, Fields, Tallies
<1>. QED BY <1>1, <1>2, <1>3, <1>4

\* The invariant holds in every state of the relay.
LEMMA RelayInvHolds == RelaySpec => []RelayInv
BY RelayInvInit, RelayStep, PTL DEF RelaySpec

\* The counters of a TCP client stay within client->buf, socks_recv_buf and the
\* send buffer, as the asserts of tun2socks.c say.
THEOREM RelayTypeCorrect == RelaySpec => []RelayTypeOK
BY RelayInvHolds, RelayInvImplies, PTL

\* client_recv_func always finds room for what lwIP delivers, since tcp_recved
\* opens the window by exactly what has left the buffer.
THEOREM WindowCorrect == RelaySpec => []WindowIsRoom
BY RelayInvHolds, RelayInvImplies, PTL

\* The two directions of the relay never stall: a send, a receive or an
\* acknowledgement is always under way for what there is to carry.
THEOREM UnderWayCorrect == RelaySpec => []RelayUnderWay
BY RelayInvHolds, RelayInvImplies, PTL

\* client_free_client and client_free_socks deliver what was taken before they
\* free the entry, unless something else than the one close has happened.
THEOREM ClosesCorrect == RelaySpec => []ClosedInOrder
BY RelayInvHolds, RelayInvImplies, PTL
=============================================================================
