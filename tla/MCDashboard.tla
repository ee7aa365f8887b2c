---------------------------- MODULE MCDashboard -----------------------------
(***************************************************************************)
(* Instances of DashboardProperties for TLC.                                *)
(***************************************************************************)
EXTENDS DashboardProperties
CONSTANTS c, d
=============================================================================
