------------------------------ MODULE MCAlerts ------------------------------
(***************************************************************************)
(* Small instances of Alerts: a line that holds 3, has a reorder point of  *)
(* 1, and moves between 3, 1 and 0.                                        *)
(***************************************************************************)
EXTENDS Alerts
=============================================================================
