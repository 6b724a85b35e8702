------------------------------ MODULE VpnSession ------------------------------
(***************************************************************************)
(* What SocksVpnService promises: sessions follow one another; each is     *)
(* connecting first, may go up once, and goes down for good.  The tunnel   *)
(* is brought up only on behalf of the session that is connecting.         *)
(***************************************************************************)
EXTENDS Naturals

VARIABLES
  phase,    \* "down", "connecting" or "up"
  session,  \* the number of the latest session
  by        \* the session that brought the tunnel up, 0 while it is not up

vars == <<phase, session, by>>

Init == phase = "down" /\ session = 0 /\ by = 0

Connect ==
  /\ phase = "down"
  /\ phase' = "connecting"
  /\ session' = session + 1
  /\ UNCHANGED by

Establish ==
  /\ phase = "connecting"
  /\ phase' = "up"
  /\ by' = session
  /\ UNCHANGED session

Disconnect ==
  /\ phase # "down"
  /\ phase' = "down"
  /\ by' = 0
  /\ UNCHANGED session

Next == Connect \/ Establish \/ Disconnect

Spec == Init /\ [][Next]_vars
=============================================================================
