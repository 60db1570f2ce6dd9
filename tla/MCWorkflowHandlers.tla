-------------------------- MODULE MCWorkflowHandlers --------------------------
(***************************************************************************)
(* WorkflowHandlers for TLC: one job and one run, two workers, events of   *)
(* every stage of both lifecycles, an unknown action and a replay.         *)
(***************************************************************************)
EXTENDS WorkflowHandlers, TLC

CONSTANTS job1, run1, dq, dp, dc, dc2, dx, ds, de, du

Payload(id, status) ==
    [id |-> id, status |-> status, started |-> status \in {"in_progress", "completed"},
     conclusion |-> status = "completed"]

\* A job's queued, in_progress, completed (twice) and cancelled events, a run's
\* in_progress and completed events, and one of unknown action.
MCEvent ==
    [d \in Deliveries |->
        CASE d = dq -> Payload(job1, "queued")
          [] d = dp -> Payload(job1, "in_progress")
          [] d = dc -> Payload(job1, "completed")
          [] d = dc2 -> Payload(job1, "completed")
          [] d = dx -> Payload(job1, "cancelled")
          [] d = ds -> Payload(run1, "in_progress")
          [] d = de -> Payload(run1, "completed")
          [] d = du -> Payload(run1, "unknown")]
=============================================================================
