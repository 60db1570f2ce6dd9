------------------------------ MODULE MCDashboard ------------------------------
(***************************************************************************)
(* Dashboard for TLC: the browser connects at most twice.                  *)
(***************************************************************************)
EXTENDS Dashboard

CONSTANTS c1, c2
=============================================================================
