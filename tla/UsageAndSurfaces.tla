--------------------------- MODULE UsageAndSurfaces ---------------------------
(***************************************************************************)
(* What the user is shown, in one run: the usage counters inside the       *)
(* service, or one surface, the app's screen or the bubble, outside it.    *)
(* A surface takes only the service's state from it, so the run has one of *)
(* the three at a time and does not multiply their states.                 *)
(***************************************************************************)
EXTENDS UsageStats, Surfaces

shownVars == <<vars, surfaceVars>>

ShownInit ==
  /\ Init
  /\ \E s \in {"none", "app", "bubble"} : SurfacesFrom(s)

ShownNext ==
  \/ surface = "none" /\ Next /\ UNCHANGED surfaceVars
  \/ SurfacesNext /\ UNCHANGED vars

ShownSpec == ShownInit /\ [][ShownNext]_shownVars /\ SurfacesFairness

\* The counters and the flows, states and messages of the surfaces have the
\* values the code gives them.
ShownTypeOK == TypeOK /\ SurfacesTypeOK
=============================================================================
