-------------------------- MODULE MCDashboardShell --------------------------
(* Two seasons, one job in each. *)
EXTENDS DashboardShell

CONSTANTS y1, y2

MCYears == {y1, y2}
==============================================================================
