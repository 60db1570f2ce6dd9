-------------------------------- MODULE Ingest --------------------------------
(***************************************************************************)
(* What Ingest (handlers/webhook_handler.go) does with a delivery before   *)
(* it queues it, and the lookup processOrderedEvent makes later for the    *)
(* event that was queued.                                                  *)
(*                                                                         *)
(* A delivery is abstracted to what these checks tell apart: its event     *)
(* type, whether it has an id, how its body is wrapped, and whether the    *)
(* body decodes into the struct of its event type.                         *)
(***************************************************************************)

NoType == "none"
Payloads == [event : {"workflow_job", "workflow_run", "other", NoType},
             id : BOOLEAN,
             body : {"json", "form", "badForm", "garbage"},
             typed : BOOLEAN]

\* RegisterHandler, called for the two handlers by NewWebhookHandler.
Handled == {"workflow_job", "workflow_run"}

\* The body is JSON, or a form whose payload= field unescapes to JSON.
Decodes(p) == p.body \in {"json", "form"}

\* ExtractEventTimestamp, ExtractOrderingKey and GetStatusPriority decode the
\* body into the struct of the event type; an unknown action is let through
\* with the lowest priority.
Extractable(p) == p.typed

\* The three ways out of Ingest before AddEvent: 400, 200 and none.
Malformed(p) ==
    \/ p.event = NoType \/ ~p.id \/ ~Decodes(p)
    \/ p.event \in Handled /\ ~Extractable(p)

Ignored(p) == ~Malformed(p) /\ p.event \notin Handled

\* Ingest goes on to AddEvent.
Queued(p) == ~Malformed(p) /\ ~Ignored(p)

\* processOrderedEvent finds no handler in the same map (ErrPermanent).
Unhandled(p) == p.event \notin Handled
===============================================================================
