---------------------------- MODULE MCEventOrdering ----------------------------
(***************************************************************************)
(* EventOrdering for TLC: up to three deliveries, replayed in the order    *)
(* d1, d2, d3.                                                             *)
(***************************************************************************)
EXTENDS EventOrdering, TLC

CONSTANTS d1, d2, d3

MCRank == [d \in Deliveries |-> CASE d = d1 -> 1 [] d = d2 -> 2 [] d = d3 -> 3]
=============================================================================
