--------------------------- MODULE MCWebhookPipeline ---------------------------
(***************************************************************************)
(* WebhookPipeline for TLC: the in_progress and the completed event of one *)
(* job, replayed in that order.                                            *)
(***************************************************************************)
EXTENDS WebhookPipeline, TLC

CONSTANTS job1, dp, dc

MCEvent ==
    [d \in Deliveries |->
        [id |-> job1, status |-> IF d = dp THEN "in_progress" ELSE "completed",
         started |-> TRUE, conclusion |-> d = dc]]

MCRank == [d \in Deliveries |-> IF d = dp THEN 1 ELSE 2]
=============================================================================
