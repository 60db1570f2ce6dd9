-------------------------------- MODULE MCSSE --------------------------------
(***************************************************************************)
(* Instances of SSE for TLC.                                               *)
(***************************************************************************)
EXTENDS SSE

CONSTANTS workflow, metrics, fast, slow

MCMaxUpdates == [t \in Types |-> IF t = workflow THEN 2 ELSE 1]
================================================================================
