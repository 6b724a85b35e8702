------------------------------ MODULE TcpRelay ------------------------------
(***************************************************************************)
(* One TCP client of badvpn's tun2socks (tun2socks.c): the lwIP connection *)
(* of an app on the device, its SOCKS connection (BSocksClient.c), and the *)
(* two buffers between them.  Each action is one callback of lwIP or of    *)
(* the reactor.  A job that SYNC_COMMIT runs before a callback returns is  *)
(* the next action.  lwIP (vendored, but not part of this module) is what  *)
(* calls the handlers: it delivers no more than its receive window, and    *)
(* takes no more than its send buffer.                                     *)
(*                                                                         *)
(* Data are counted in units.  The asserts of the code, compiled out of    *)
(* the app, are among the invariants.                                      *)
(***************************************************************************)
EXTENDS Integers

CONSTANTS
  Wnd,          \* TCP_WND, which is also the size of client->buf
  SndBuf,       \* TCP_SND_BUF
  RecvBuf,      \* CLIENT_SOCKS_RECV_BUF_SIZE
  Password,     \* is a user name configured?
  MaxSent, MaxReceived  \* bounds: units the app and the proxy send

ASSUME RelayAssumption ==
  /\ {Wnd, SndBuf, RecvBuf, MaxSent, MaxReceived} \subseteq Nat
  /\ Password \in BOOLEAN

VARIABLES
  entry,     \* the struct tcp_client: none, listed or freed
  c,         \* its fields
  lwip,      \* its pcb: wnd, the receive window; sent and recv, the callbacks
  socks,     \* BSocksClient's state; the send and the receive under way
  tally,     \* history: units in and out, each way
  ended      \* history: how the relay began to end

relayVars == <<entry, c, lwip, socks, tally, ended>>

RelayInit ==
  /\ entry = "none"
  /\ c = [client_closed |-> FALSE, socks_up |-> FALSE, socks_closed |-> FALSE,
          buf_used |-> 0, recv_used |-> -1, recv_sent |-> 0,
          recv_waiting |-> FALSE, tcp_pending |-> 0]
  /\ lwip = [recv |-> TRUE, sent |-> FALSE, wnd |-> Wnd, refused |-> FALSE]
  /\ socks = [state |-> "CONNECTING", sending |-> 0, receiving |-> FALSE]
  /\ tally = [appIn |-> 0, proxyOut |-> 0, proxyIn |-> 0, appOut |-> 0]
  /\ ended = "no"

Listed == entry = "listed"
Because(why) == ended' = IF ended = "no" THEN why ELSE "failed"
Failed == ended' = "failed"

\* listener_accept_func
Accepted ==
  /\ entry = "none"
  /\ entry' = "listed"
  /\ UNCHANGED <<c, lwip, socks, tally, ended>>

-----------------------------------------------------------------------------
(* Freeing one side, the other, and then the entry.  x is the client's     *)
(* fields after the callback's own changes.                                *)

client_dealloc(x) ==
  /\ entry' = "freed"
  /\ c' = [x EXCEPT !.client_closed = TRUE, !.socks_closed = TRUE]
  /\ socks' = [socks EXCEPT !.sending = 0, !.receiving = FALSE]

\* The client's side is gone: what is buffered for the proxy is still sent.
client_handle_freed_client(x) ==
  IF x.buf_used > 0 /\ ~x.socks_closed
    THEN /\ c' = [x EXCEPT !.client_closed = TRUE]
         /\ UNCHANGED <<entry, socks>>
    ELSE client_dealloc(x)

Mut_client_free_socks(x) ==
  IF x.socks_up /\ ~x.client_closed /\ x.recv_used >= 0
    THEN /\ c' = [x EXCEPT !.socks_closed = TRUE]
         /\ socks' = [socks EXCEPT !.sending = 0, !.receiving = FALSE]
         /\ lwip' = [lwip EXCEPT !.recv = FALSE]
         /\ UNCHANGED entry
    ELSE client_dealloc(x) /\ UNCHANGED lwip

\* The proxy's side is gone: what it sent is still given to the client, from
\* whom nothing more is received.
client_free_socks(x) ==
  IF /\ x.socks_up /\ ~x.client_closed
     /\ x.recv_used >= 0 \/ x.tcp_pending > 0
    THEN /\ c' = [x EXCEPT !.socks_closed = TRUE]
         /\ socks' = [socks EXCEPT !.sending = 0, !.receiving = FALSE]
         /\ lwip' = [lwip EXCEPT !.recv = FALSE]
         /\ UNCHANGED entry
    ELSE client_dealloc(x) /\ UNCHANGED lwip

\* terminate and the end of main: every client is murdered.
client_murder ==
  /\ Listed
  /\ client_dealloc(c)
  /\ Failed
  /\ UNCHANGED <<lwip, tally>>

-----------------------------------------------------------------------------
(* From the app to the proxy *)

client_send_to_socks(n) == socks' = [socks EXCEPT !.sending = n]

\* client_recv_func: n units, or more than the buffer can take.
AppSends(n) ==
  /\ Listed /\ ~c.client_closed /\ lwip.recv /\ ~lwip.refused
  /\ n <= lwip.wnd /\ tally.appIn + n <= MaxSent
  /\ IF n > Wnd - c.buf_used
       THEN /\ lwip' = [lwip EXCEPT !.wnd = @ - n, !.refused = TRUE]
            /\ UNCHANGED <<c, socks, tally>>
       ELSE /\ lwip' = [lwip EXCEPT !.wnd = @ - n]
            /\ c' = [c EXCEPT !.buf_used = @ + n]
            /\ tally' = [tally EXCEPT !.appIn = @ + n]
            /\ IF c.buf_used = 0 /\ c.socks_up THEN client_send_to_socks(n)
                                               ELSE UNCHANGED socks
  /\ UNCHANGED <<entry, ended>>

\* client_recv_func without a buffer: the app has closed its side, and
\* client_free_client closes the connection.
AppCloses ==
  /\ Listed /\ ~c.client_closed /\ lwip.recv
  /\ client_handle_freed_client(c)
  /\ Because("app")
  /\ UNCHANGED <<lwip, tally>>

\* client_err_func: lwIP has freed the connection.
AppErrs ==
  /\ Listed /\ ~c.client_closed
  /\ client_handle_freed_client(c)
  /\ Because("error")
  /\ UNCHANGED <<lwip, tally>>

Mut_Recved(n) == [lwip EXCEPT !.wnd = Wnd]

\* tcp_recved opens the window again.
Recved(n) ==
  IF c.client_closed THEN lwip ELSE [lwip EXCEPT !.wnd = @ + n]

Mut_SocksSent(n) ==
  /\ Listed /\ n <= socks.sending
  /\ tally' = [tally EXCEPT !.proxyOut = @ + n]
  /\ c' = [c EXCEPT !.buf_used = @ - n]
  /\ lwip' = Recved(n)
  /\ socks' = [socks EXCEPT !.sending = @ - n]
  /\ UNCHANGED <<entry, ended>>

\* client_socks_send_handler_done: the proxy's connection took n units.
SocksSent(n) ==
  /\ Listed /\ n <= socks.sending
  /\ tally' = [tally EXCEPT !.proxyOut = @ + n]
  /\ LET x == [c EXCEPT !.buf_used = @ - n]
     IN  CASE x.buf_used > 0 ->
                /\ c' = x /\ lwip' = Recved(n)
                /\ client_send_to_socks(x.buf_used) /\ UNCHANGED entry
           [] x.buf_used = 0 /\ ~c.client_closed ->
                /\ c' = x /\ lwip' = Recved(n)
                /\ socks' = [socks EXCEPT !.sending = 0] /\ UNCHANGED entry
           [] OTHER -> client_free_socks(x)
  /\ UNCHANGED ended

-----------------------------------------------------------------------------
(* The SOCKS connection *)

\* BSocksClient's states after s, by its handlers.
connector_handler(s) == IF s = "CONNECTING" THEN {"SENDING_HELLO"} ELSE {}

send_handler_done(s) ==
  CASE s = "SENDING_HELLO"    -> {"SENT_HELLO"}
    [] s = "SENDING_PASSWORD" -> {"SENT_PASSWORD"}
    [] s = "SENDING_REQUEST"  -> {"SENT_REQUEST"}
    [] OTHER                  -> {}

auth_finished == {"SENDING_REQUEST"}

\* The proxy chooses among the methods it was offered.
recv_handler_done(s) ==
  CASE s = "SENT_HELLO"    -> auth_finished \cup
                              (IF Password THEN {"SENDING_PASSWORD"} ELSE {})
    [] s = "SENT_PASSWORD" -> auth_finished
    [] s = "SENT_REQUEST"  -> {"RECEIVED_REPLY_HEADER"}
    [] OTHER               -> {}

Handshake(s) ==
  connector_handler(s) \cup send_handler_done(s) \cup recv_handler_done(s)

SocksHandshakes ==
  /\ Listed /\ ~c.socks_closed
  /\ \E s \in Handshake(socks.state) : socks' = [socks EXCEPT !.state = s]
  /\ UNCHANGED <<entry, c, lwip, tally, ended>>

Mut_SocksUp ==
  /\ Listed /\ ~c.socks_closed /\ socks.state = "RECEIVED_REPLY_HEADER"
  /\ c' = [c EXCEPT !.socks_up = TRUE]
  /\ lwip' = [lwip EXCEPT !.sent = ~c.client_closed]
  /\ socks' = [state |-> "UP", sending |-> 0, receiving |-> ~c.client_closed]
  /\ UNCHANGED <<entry, tally, ended>>

\* client_socks_handler, BSOCKSCLIENT_EVENT_UP: what the app sent meanwhile
\* is sent on, and receiving begins unless the app is gone.
SocksUp ==
  /\ Listed /\ ~c.socks_closed /\ socks.state = "RECEIVED_REPLY_HEADER"
  /\ c' = [c EXCEPT !.socks_up = TRUE]
  /\ lwip' = [lwip EXCEPT !.sent = ~c.client_closed]
  /\ socks' = [state |-> "UP", sending |-> c.buf_used,
               receiving |-> ~c.client_closed]
  /\ UNCHANGED <<entry, tally, ended>>

\* The same, BSOCKSCLIENT_EVENT_ERROR and _ERROR_CLOSED: the latter only when
\* up, by a receive that finds the proxy's end of stream.
SocksEnds(why) ==
  /\ Listed /\ ~c.socks_closed
  /\ why = "proxy" => c.socks_up /\ socks.receiving
  /\ client_free_socks(c)
  /\ Because(why)
  /\ UNCHANGED tally

-----------------------------------------------------------------------------
(* From the proxy to the app *)

\* client_socks_recv_send_out: w units are written, or the client is aborted.
SendOut(x, w, why) ==
  LET y == [x EXCEPT !.recv_sent = @ + w, !.tcp_pending = @ + w,
                     !.recv_waiting = FALSE]
      more == y.recv_sent < y.recv_used
  IN  IF why = "abort" \/ (more /\ y.tcp_pending = 0)
        THEN /\ client_handle_freed_client(x)
             /\ Failed
        ELSE /\ c' = IF more THEN [y EXCEPT !.recv_waiting = TRUE]
                     ELSE [y EXCEPT !.recv_used = -1]
             /\ socks' = [socks EXCEPT !.receiving = ~more /\ ~x.socks_closed]
             /\ UNCHANGED <<entry, ended>>

Least(m, n) == IF m < n THEN m ELSE n

\* The units the write loop queues: what the send buffer takes, or none when
\* lwIP is out of memory (ERR_MEM).
Writes(x) == {0, Least(x.recv_used - x.recv_sent, SndBuf - x.tcp_pending)}

\* client_socks_recv_handler_done: the proxy sent n units.
SocksReceives(n, w, why) ==
  /\ Listed /\ socks.receiving /\ n <= RecvBuf
  /\ tally.proxyIn + n <= MaxReceived
  /\ IF c.client_closed
       THEN /\ w = 0 /\ why = "ok"
            /\ socks' = [socks EXCEPT !.receiving = FALSE]
            /\ UNCHANGED <<entry, c, tally, ended>>
       ELSE LET x == [c EXCEPT !.recv_used = n, !.recv_sent = 0]
            IN  /\ w \in Writes(x)
                /\ tally' = [tally EXCEPT !.proxyIn = @ + n]
                /\ SendOut(x, w, why)
  /\ UNCHANGED lwip

\* client_sent_func: the app acknowledged n units.  More is queued, or the
\* connection is closed when the proxy is gone and this was the last of it.
AppAcks(n, w, why) ==
  /\ Listed /\ ~c.client_closed /\ lwip.sent /\ n <= c.tcp_pending
  /\ tally' = [tally EXCEPT !.appOut = @ + n]
  /\ LET x == [c EXCEPT !.tcp_pending = @ - n]
     IN  IF x.recv_used > 0
           THEN w \in Writes(x) /\ SendOut(x, w, why)
           ELSE /\ w = 0 /\ why = "ok"
                /\ IF x.socks_closed /\ x.tcp_pending = 0 THEN client_dealloc(x)
                   ELSE c' = x /\ UNCHANGED <<entry, socks>>
                /\ UNCHANGED ended
  /\ UNCHANGED lwip

-----------------------------------------------------------------------------
Outcomes == {"ok", "abort"}

Acks == \E n \in 1..SndBuf, w \in 0..SndBuf, why \in Outcomes : AppAcks(n, w, why)
Reactor ==
  \/ SocksHandshakes \/ SocksUp
  \/ \E n \in 1..Wnd : SocksSent(n)

RelayNext ==
  \/ Accepted
  \/ \E n \in 1..Wnd : AppSends(n)
  \/ AppCloses \/ AppErrs
  \/ Reactor
  \/ \E why \in {"proxy", "error"} : SocksEnds(why)
  \/ \E n \in 1..RecvBuf, w \in 0..SndBuf, why \in Outcomes : SocksReceives(n, w, why)
  \/ Acks
  \/ client_murder

\* The proxy goes on with the handshake and takes what is sent, or that
\* fails; the app acknowledges what it is sent, or lwIP gives it up.
RelayFairness ==
  /\ WF_relayVars(Reactor \/ (/\ socks.state # "UP" \/ socks.sending > 0
                             /\ SocksEnds("error")))
  /\ WF_relayVars(Acks \/ (c.tcp_pending > 0 /\ AppErrs))

RelaySpec == RelayInit /\ [][RelayNext]_relayVars

FairRelaySpec == RelaySpec /\ RelayFairness

-----------------------------------------------------------------------------
\* The values of the client's fields, and the asserts on its receive buffer.
RelayTypeOK ==
  /\ entry \in {"none", "listed", "freed"}
  /\ {c.client_closed, c.socks_up, c.socks_closed, c.recv_waiting} \subseteq BOOLEAN
  /\ c.buf_used \in 0..Wnd /\ c.recv_used \in -1..RecvBuf
  /\ c.recv_sent \in 0..RecvBuf /\ c.tcp_pending \in 0..SndBuf
  /\ lwip.wnd \in 0..Wnd
  /\ socks.sending \in 0..Wnd
  /\ ended \in {"no", "app", "proxy", "error", "failed"}

\* The window lwIP advertises is the room left in client->buf, so "no buffer
\* for data !?!" cannot happen and no data is ever refused.
WindowIsRoom ==
  /\ ~lwip.refused
  /\ Listed /\ ~c.client_closed /\ lwip.recv => lwip.wnd = Wnd - c.buf_used

\* Neither direction stalls: while units wait for a proxy that is up a send is
\* under way; and a receive is under way, or what was received waits for
\* acknowledgements that are still to come.
RelayUnderWay ==
  /\ Listed /\ c.socks_up /\ ~c.socks_closed => (c.buf_used > 0 <=> socks.sending > 0)
  /\ Listed /\ c.socks_up /\ ~c.client_closed =>
       IF c.recv_used > 0 THEN c.recv_waiting /\ c.tcp_pending > 0
       ELSE ~c.recv_waiting /\ (socks.receiving <=> ~c.socks_closed)

\* A relay that ends because one side closed, and nothing else happened, has
\* given the other side all it had taken: the app's close waits for the
\* upload, the proxy's for the acknowledgement of the download.
ClosedInOrder ==
  /\ entry = "freed" /\ ended = "app" => tally.proxyOut = tally.appIn
  /\ entry = "freed" /\ ended = "proxy" => tally.appOut = tally.proxyIn

\* Once one side is gone the entry is freed.
HalfClosedIsFreed ==
  (Listed /\ (c.client_closed \/ c.socks_closed)) ~> entry = "freed"
=============================================================================
