---------------------------- MODULE WebhookPipeline ----------------------------
(***************************************************************************)
(* The whole path of a webhook from AddEvent to the typed tables:          *)
(* EventOrdering with the handlers of WorkflowHandlers in the place of the *)
(* abstract verdicts.  The ingest worker and the flush worker are the two  *)
(* goroutines that run HandleEvent (webhook_handler.go:284-313).           *)
(***************************************************************************)
EXTENDS Naturals, Sequences, FiniteSets

CONSTANTS
    Jobs, Runs, Expirable, Overdue, Deliveries, NoDelivery, Event, MaxHandled,
    Rank, ChannelSize, IngestBatch, FlushBatch, FinalBatch, Faults, MaxFaults,
    MaxOffers, MayStop, MaxCrashes,
    ingest, flush     \* the two workers

VARIABLES
    jobs, runs, at, current, previous, concluded, queueTimed, handled, seen,
    unannounced,
    caller, ctxDone, ingestCh, ingestAt, ingestEv, draining, spill, table, flushAt,
    batch, flushEv, fullBatch, final, accepted, fate, cutShort, offers,
    faults, crashes

handlerVars == <<jobs, runs, at, current, previous, concluded, queueTimed, handled,
                 seen, unannounced>>
pipelineVars == <<caller, ctxDone, ingestCh, ingestAt, ingestEv, draining, spill, table,
                  flushAt, batch, flushEv, fullBatch, final, accepted, fate,
                  cutShort, offers, faults, crashes>>
vars == <<handlerVars, pipelineVars>>

Workers == {ingest, flush}

\* Every event Ingest lets through has a handler: it looks the event type up
\* in the same map as processOrderedEvent, so no delivery is permanent.
P == INSTANCE EventOrdering WITH Permanent <- {}
H == INSTANCE WorkflowHandlers WITH DBFaults <- "handler" \in Faults

ASSUME PipelineAssumption ==
    /\ P!OrderingAssumption
    /\ H!TablesAssumption /\ H!HandlersAssumption
    /\ ingest # flush

Init == P!Init /\ H!Init

\* Worker w calls processOrderedEvent for the event it holds.
Call(w, d) ==
    /\ \/ w = ingest /\ ingestAt = "process" /\ ingestEv = {d}
       \/ w = flush /\ flushAt = "handle" /\ flushEv = {d}
    /\ H!Receive(w, d)
    /\ UNCHANGED pipelineVars

\* A step inside HandleEvent.
Handle(w) ==
    /\ H!HandlerStep(w)
    /\ UNCHANGED pipelineVars

\* HandleEvent returns and its worker goes on with the verdict.
IngestVerdict(d) ==
    /\ \/ at[ingest] = "ok" /\ P!IngestHandled(d)
       \/ at[ingest] = "error" /\ P!IngestSpills(d)
    /\ H!Return(ingest)

FlushVerdict(d) ==
    /\ \/ at[flush] = "ok" /\ P!FlushHandled(d)
       \/ at[flush] = "error" /\ P!FlushHandlerFails(d)
    /\ H!Return(flush)

\* The steps of the workers outside the handlers.
IngestOther ==
    /\ \/ P!IngestTake \/ P!IngestTick \/ P!IngestDrain \/ P!IngestLast
       \/ P!StoreSpill \/ P!StoreSpillFails
    /\ UNCHANGED handlerVars

FlushOther ==
    /\ \/ P!FlushTick \/ P!FlushStops \/ P!FlushAllFetch \/ P!FlushAllGivesUp
       \/ P!FlushBatchDone
       \/ \E d \in Deliveries :
            P!FlushNext(d) \/ P!MarkProcessed(d) \/ P!MarkFailed(d) \/ P!MarkFails(d)
    /\ UNCHANGED handlerVars

\* The failures of the handlers and of the pipeline share the bound on faults.
WithinFaultBound ==
    faults' + Cardinality({w \in Workers : at'[w] = "error"}) =< MaxFaults

Worker(w) ==
    /\ \/ \E d \in Deliveries : Call(w, d)
       \/ Handle(w)
       \/ w = ingest /\ ((\E d \in Deliveries : IngestVerdict(d)) \/ IngestOther)
       \/ w = flush /\ ((\E d \in Deliveries : FlushVerdict(d)) \/ FlushOther)
    /\ WithinFaultBound

Environment ==
    /\ \/ \E d \in Deliveries :
            P!AddEvent(d) \/ P!AddEventSends(d) \/ P!AddEventGivesUp(d) \/ P!RowRipens(d)
       \/ P!Stop
    /\ UNCHANGED handlerVars

Cleanup ==
    /\ H!CleanupStaleJobs \/ H!CleanupOldData
    /\ UNCHANGED pipelineVars

\* A handler's committed write survives the process; its place in HandleEvent
\* and the in-memory metrics do not.
Crash ==
    /\ P!Crash
    /\ at' = [w \in Workers |-> "idle"]
    /\ current' = [w \in Workers |-> NoDelivery]
    /\ previous' = [w \in Workers |-> "absent"]
    /\ concluded' = [j \in Jobs |-> 0] /\ queueTimed' = [j \in Jobs |-> 0]
    /\ unannounced' = {}
    /\ UNCHANGED <<jobs, runs, handled, seen>>

Next ==
    \/ \E w \in Workers : Worker(w)
    \/ Environment
    \/ Cleanup
    \/ Crash

Spec == Init /\ [][Next]_vars

\* Both goroutines run, and time passes.  Weak fairness is enough: each worker
\* is one sequential goroutine, and its select cannot prefer one case for ever
\* while finitely many events arrive.
Fairness ==
    /\ \A w \in Workers : WF_vars(Worker(w))
    /\ WF_vars((\E d \in Deliveries : P!RowRipens(d)) /\ UNCHANGED handlerVars)

FairSpec == Spec /\ Fairness

-----------------------------------------------------------------------------
Subject(d) == Event[d].id

\* The row of d's job or run is at least as far as d took it.
Reflected(d) ==
    IF Subject(d) \in Jobs
    THEN /\ jobs[Subject(d)] \in H!JobStatuses
         /\ H!JobStatusPriority[Event[d].status] =< H!JobStatusPriority[jobs[Subject(d)]]
    ELSE /\ runs[Subject(d)] \in H!RunStatuses
         /\ H!RunStatusPriority[Event[d].status] =< H!RunStatusPriority[runs[Subject(d)]]

\* Once the pipeline considers an event handled, its effect is in the typed
\* table and stays there, whatever is replayed, redelivered, retried by the
\* other worker or lost in a crash afterwards.
HandledIsReflected ==
    \A d \in Deliveries :
        fate[d] = "handled" /\ H!Known(d) /\ Subject(d) \notin Expirable => Reflected(d)

\* An accepted event reaches its row unless the pipeline gave it up on record
\* or is being stopped: no event waits for ever in the channel, the spill
\* buffer or webhook_events, and a job whose completed event was accepted does
\* not stay in progress for ever.
AcceptedIsReflected ==
    \A d \in Deliveries : H!Known(d) /\ Subject(d) \notin Expirable =>
        (d \in accepted ~>
            Reflected(d) \/ fate[d] \in {"failed", "dropped", "lost"} \/ ctxDone)

\* At any moment, also after Stop and after a crash, each accepted event is
\* reflected in its row, still on its way, or its loss is on record.
AcceptedAccounted ==
    \A d \in accepted : H!Known(d) /\ Subject(d) \notin Expirable =>
        \/ Reflected(d)
        \/ d \in P!InMemory \cup P!InTable
        \/ fate[d] \in {"failed", "dropped", "lost"}
=============================================================================
