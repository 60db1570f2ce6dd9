---------------------------- MODULE MCMetricsHistory ----------------------------
(***************************************************************************)
(* MetricsHistory for TLC: one labelled job, created in the first hour, on *)
(* a server whose local time is ahead of UTC.                              *)
(***************************************************************************)
EXTENDS MetricsHistory

CONSTANTS j1, linux

MCCreatedAt == [j \in Jobs |-> 0]
MCLabel == [j \in Jobs |-> linux]
MCOffset == 1
=============================================================================
