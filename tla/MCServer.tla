------------------------------- MODULE MCServer -------------------------------
(***************************************************************************)
(* Server for TLC: a delivery that is processed and one of a type without  *)
(* a handler, which Ingest answers at once.                                *)
(***************************************************************************)
EXTENDS Server

CONSTANTS good, unhandled

MCPayload ==
    [d \in Deliveries |->
        [event |-> IF d = unhandled THEN "other" ELSE "workflow_job",
         id |-> TRUE, body |-> "form", typed |-> TRUE]]

MCRank == [d \in Deliveries |-> IF d = good THEN 1 ELSE 2]
===============================================================================
