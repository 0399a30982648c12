----------------------------- MODULE Dashboard ------------------------------
(***************************************************************************)
(* The dashboard: the bot processes it starts and stops, the decision trail *)
(* it reads from the database and the log it streams.  The three share no   *)
(* state of the dashboard's; a behaviour is one of them, chosen at the      *)
(* start.                                                                  *)
(***************************************************************************)
EXTENDS ProcessManager, DecisionTrail, LogStream

VARIABLE page

dashboardVars == <<page, vars, trailVars, logVars>>

Pages == {"bots", "trail", "log"}

DashboardInit == page \in Pages /\ Init /\ TrailInit /\ LogInit

Bots  == page = "bots"  /\ Next      /\ UNCHANGED <<page, trailVars, logVars>>
Trail == page = "trail" /\ TrailNext /\ UNCHANGED <<page, vars, logVars>>
Log   == page = "log"   /\ LogNext   /\ UNCHANGED <<page, vars, trailVars>>

DashboardSpec == DashboardInit /\ [][Bots \/ Trail \/ Log]_dashboardVars
=============================================================================
