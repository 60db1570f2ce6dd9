---------------------------- MODULE EventOrdering ----------------------------
(***************************************************************************)
(* EventOrderingService (internal/services/event_ordering_service.go): the *)
(* in-memory ingest channel, the ingest worker with its spill buffer, the  *)
(* webhook_events table and the flush worker that replays it; Stop, and    *)
(* the death and restart of the process at any point.                      *)
(*                                                                         *)
(* The service is generic in processFunc; here processFunc is what         *)
(* webhook_handler.go makes it, processOrderedEvent: it calls a handler    *)
(* and, for an event read from the table, marks the row.  The handler      *)
(* itself is abstracted to its verdict: nil, a permanent error or another  *)
(* error.                                                                  *)
(***************************************************************************)
EXTENDS Naturals, Sequences, FiniteSets

CONSTANTS
    Deliveries,    \* delivery ids
    Permanent,     \* those no handler will ever take (ErrPermanent)
    Rank,          \* Rank[d]: place of d in the replay order of the queries
    ChannelSize,   \* capacity of ingestCh
    IngestBatch,   \* ingestBatchSize: spills stored at once
    FlushBatch,    \* batchSize of flushReadyEvents
    FinalBatch,    \* the limit 1000 of flushAll
    Faults,        \* kinds of calls that may fail, see FaultKinds
    MaxFaults,     \* bound: failing calls in a behaviour
    MaxOffers,     \* bound: how often one delivery is sent to the server
    MayStop,       \* BOOLEAN: Stop may be called
    MaxCrashes     \* bound: how often the process dies

\* handler: HandleEvent returns an error; store, mark, fetch: the statement of
\* StoreWebhookEvents, MarkEvent*, GetPendingEvents* fails; deadline: the time
\* of the last passes is up, the 5s ingestDrainWait of the ingest worker or the
\* 30s of flushAll.
FaultKinds == {"handler", "store", "mark", "fetch", "deadline"}

ASSUME OrderingAssumption ==
    /\ IsFiniteSet(Deliveries)
    /\ Permanent \subseteq Deliveries
    /\ Rank \in [Deliveries -> Nat]
    /\ \A d, e \in Deliveries : Rank[d] = Rank[e] => d = e
    /\ ChannelSize \in Nat /\ IngestBatch \in Nat \ {0}
    /\ FlushBatch \in Nat \ {0} /\ FinalBatch \in Nat \ {0}
    /\ Faults \subseteq FaultKinds
    /\ MaxFaults \in Nat /\ MaxOffers \in Nat /\ MaxCrashes \in Nat
    /\ MayStop \in BOOLEAN

VARIABLES
    caller,      \* caller[d]: the goroutine in AddEvent for d, if any
    ctxDone,     \* s.ctx is cancelled: Stop was called
    ingestCh,    \* the buffered channel
    ingestAt,    \* where the ingest worker is
    ingestEv,    \* the delivery it processes ({} or a singleton)
    draining,    \* it has seen ctx.Done and drains the channel
    spill,       \* its buffer of events to store for a retry
    table,       \* webhook_events: status of the row of d
    flushAt,     \* where the flush worker is
    batch,       \* rows it fetched and has not yet replayed
    flushEv,     \* the row it is replaying ({} or a singleton)
    fullBatch,   \* the fetch returned as many rows as its limit
    final,       \* it runs flushAll
    accepted,    \* history: deliveries AddEvent returned nil for
    fate,        \* history: how a delivery was settled, as in DeliveryLedger
    cutShort,    \* history: a query, a mark or the deadline of flushAll failed
    offers, faults, crashes   \* counters for the bounds

ingestVars == <<ingestAt, ingestEv, draining, spill>>
flushVars == <<flushAt, batch, flushEv, fullBatch, final>>
boundVars == <<offers, faults, cutShort, crashes>>
vars == <<caller, ctxDone, ingestCh, ingestVars, table, flushVars, accepted, fate,
          boundVars>>

\* A row is ripe when it is pending and older than maxAge.
RowStates == {"none", "pending", "ripe", "processed", "failed"}

TypeOK ==
    /\ caller \in [Deliveries -> {"idle", "blocked"}]
    /\ ctxDone \in BOOLEAN /\ draining \in BOOLEAN
    /\ ingestCh \in Seq(Deliveries) /\ Len(ingestCh) =< ChannelSize
    /\ ingestAt \in {"select", "process", "store", "storeLast", "done"}
    /\ ingestEv \in SUBSET Deliveries
    /\ spill \in Seq(Deliveries) /\ Len(spill) =< IngestBatch
    /\ table \in [Deliveries -> RowStates]
    /\ flushAt \in {"select", "replay", "handle", "markProcessed", "markFailed",
                  "fetchAll", "done"}
    /\ batch \in SUBSET Deliveries /\ flushEv \in SUBSET Deliveries
    /\ fullBatch \in BOOLEAN /\ final \in BOOLEAN
    /\ accepted \in SUBSET Deliveries
    /\ fate \in [Deliveries ->
                   {"none", "handled", "permanent", "failed", "dropped", "lost"}]
    /\ cutShort \in BOOLEAN
    /\ offers \in [Deliveries -> Nat] /\ faults \in Nat /\ crashes \in Nat

\* The process as NewEventOrderingService and Start leave it, on a new database.
Init ==
    /\ caller = [d \in Deliveries |-> "idle"]
    /\ ctxDone = FALSE
    /\ ingestCh = <<>>
    /\ ingestAt = "select" /\ ingestEv = {} /\ draining = FALSE /\ spill = <<>>
    /\ flushAt = "select" /\ batch = {} /\ flushEv = {} /\ fullBatch = FALSE /\ final = FALSE
    /\ table = [d \in Deliveries |-> "none"]
    /\ accepted = {}
    /\ fate = [d \in Deliveries |-> "none"]
    /\ cutShort = FALSE
    /\ offers = [d \in Deliveries |-> 0] /\ faults = 0 /\ crashes = 0

-----------------------------------------------------------------------------
\* A call of the given kind fails, or finds its deadline passed, within the bound.
Fails(kind) ==
    /\ kind \in Faults
    /\ faults < MaxFaults
    /\ faults' = faults + 1
    /\ cutShort' = (cutShort \/ (final /\ kind # "handler"))

Pending(d) == table[d] \in {"pending", "ripe"}
Elements(seq) == {seq[i] : i \in DOMAIN seq}
InMemory == Elements(ingestCh) \cup ingestEv \cup Elements(spill)
InTable == {d \in Deliveries : Pending(d)}

\* A delivery that was handled stays handled, whatever becomes of a replay.
Outcome(d, how) == IF fate[d] = "handled" THEN "handled" ELSE how
Settle(d, how) == fate' = [fate EXCEPT ![d] = Outcome(d, how)]

-----------------------------------------------------------------------------
(* AddEvent, called by the goroutine of an HTTP request or by the relay.   *)

\* Mutant of Enqueue: the send ignores the capacity of the channel.
EnqueueUnbounded(d) ==
    /\ ingestCh' = Append(ingestCh, d)
    /\ accepted' = accepted \cup {d}
    /\ Settle(d, "none")

\* ingestCh <- event succeeds and AddEvent returns nil.
Enqueue(d) ==
    /\ Len(ingestCh) < ChannelSize
    /\ ingestCh' = Append(ingestCh, d)
    /\ accepted' = accepted \cup {d}
    /\ Settle(d, "none")

\* Delivery d arrives (again): the fast path sends without blocking, whether
\* or not the service is stopping; otherwise the caller waits.
AddEvent(d) ==
    /\ caller[d] = "idle"
    /\ offers[d] < MaxOffers
    /\ offers' = [offers EXCEPT ![d] = @ + 1]
    /\ \/ Enqueue(d) /\ UNCHANGED caller
       \/ /\ Len(ingestCh) >= ChannelSize
          /\ caller' = [caller EXCEPT ![d] = "blocked"]
          /\ UNCHANGED <<ingestCh, accepted, fate>>
    /\ UNCHANGED <<ctxDone, ingestVars, table, flushVars, faults, cutShort, crashes>>

\* The blocked caller gets a slot in the channel ...
AddEventSends(d) ==
    /\ caller[d] = "blocked"
    /\ Enqueue(d)
    /\ caller' = [caller EXCEPT ![d] = "idle"]
    /\ UNCHANGED <<ctxDone, ingestVars, table, flushVars, boundVars>>

\* ... or gives up: after enqueueTimeout (ErrIngestQueueFull, answered 503) or
\* because ctx is done (context.Canceled, answered 500).
AddEventGivesUp(d) ==
    /\ caller[d] = "blocked"
    /\ caller' = [caller EXCEPT ![d] = "idle"]
    /\ UNCHANGED <<ctxDone, ingestCh, ingestVars, table, flushVars, accepted, fate,
                   boundVars>>

-----------------------------------------------------------------------------
(* ingestWorker *)

\* Receive from the channel, in the main select or in the drain loop.
IngestTake ==
    /\ ingestAt = "select"
    /\ ingestCh # <<>>
    /\ ingestEv' = {Head(ingestCh)}
    /\ ingestCh' = Tail(ingestCh)
    /\ ingestAt' = "process"
    /\ UNCHANGED <<caller, ctxDone, draining, spill, table, flushVars, accepted, fate,
                   boundVars>>

\* process returns after a nil or permanent verdict: the event is done with.
IngestSettles(d, how) ==
    /\ ingestAt = "process" /\ ingestEv = {d}
    /\ Settle(d, how)
    /\ ingestEv' = {}
    /\ ingestAt' = "select"
    /\ UNCHANGED <<caller, ctxDone, ingestCh, draining, spill, table, flushVars,
                   accepted, boundVars>>

IngestHandled(d) == d \notin Permanent /\ IngestSettles(d, "handled")
IngestPermanent(d) == d \in Permanent /\ IngestSettles(d, "permanent")

\* Mutant of IngestSpills: permanent errors are spilled like any other.
IngestSpillsAll(d) ==
    /\ ingestAt = "process" /\ ingestEv = {d}
    /\ Fails("handler")
    /\ spill' = Append(spill, d)
    /\ ingestEv' = {}
    /\ ingestAt' = IF Len(spill') >= IngestBatch THEN "store" ELSE "select"
    /\ UNCHANGED <<caller, ctxDone, ingestCh, draining, table, flushVars, accepted,
                   fate, offers, crashes>>

\* Any other error: the event joins the spill buffer; a full buffer is stored.
IngestSpills(d) ==
    /\ ingestAt = "process" /\ ingestEv = {d}
    /\ d \notin Permanent /\ Fails("handler")
    /\ spill' = Append(spill, d)
    /\ ingestEv' = {}
    /\ ingestAt' = IF Len(spill') >= IngestBatch THEN "store" ELSE "select"
    /\ UNCHANGED <<caller, ctxDone, ingestCh, draining, table, flushVars, accepted,
                   fate, offers, crashes>>

\* Mutant of IngestTick: the ticker waits for a full buffer.
IngestTickFull ==
    /\ ingestAt = "select" /\ ~draining
    /\ Len(spill) >= IngestBatch
    /\ ingestAt' = "store"
    /\ UNCHANGED <<caller, ctxDone, ingestCh, ingestEv, draining, spill, table,
                   flushVars, accepted, fate, boundVars>>

\* The batch ticker fires; the select may choose it although ctx is done.
IngestTick ==
    /\ ingestAt = "select" /\ ~draining
    /\ spill # <<>>
    /\ ingestAt' = "store"
    /\ UNCHANGED <<caller, ctxDone, ingestCh, ingestEv, draining, spill, table,
                   flushVars, accepted, fate, boundVars>>

\* The select chooses ctx.Done: drain the channel under a fresh context.
IngestDrain ==
    /\ ingestAt = "select" /\ ~draining
    /\ ctxDone
    /\ draining' = TRUE
    /\ UNCHANGED <<caller, ctxDone, ingestCh, ingestAt, ingestEv, spill, table,
                   flushVars, accepted, fate, boundVars>>

\* The drain loop finds the channel empty: store what is left and return,
\* which closes ingestDoneCh; the channel is not looked at again.
IngestLast ==
    /\ ingestAt = "select" /\ draining
    /\ ingestCh = <<>>
    /\ ingestAt' = IF spill = <<>> THEN "done" ELSE "storeLast"
    /\ UNCHANGED <<caller, ctxDone, ingestCh, ingestEv, draining, spill, table,
                   flushVars, accepted, fate, boundVars>>

\* flushSpill passes the context of its caller: the service's own, or the
\* drain context once the worker is draining.
SpillContextOK == draining \/ ~ctxDone

AfterStore == IF ingestAt = "store" THEN "select" ELSE "done"

\* Mutant of StoreSpill: only the first event of the buffer is stored.
StoreSpillFirst ==
    /\ ingestAt \in {"store", "storeLast"}
    /\ SpillContextOK
    /\ table' = [table EXCEPT ![Head(spill)] = "pending"]
    /\ spill' = <<>>
    /\ ingestAt' = AfterStore
    /\ UNCHANGED <<caller, ctxDone, ingestCh, ingestEv, draining, flushVars, accepted,
                   fate, boundVars>>

\* StoreWebhookEvents commits: one upsert per event, each back to pending with
\* the time it was received.
StoreSpill ==
    /\ ingestAt \in {"store", "storeLast"}
    /\ SpillContextOK
    /\ table' = [d \in Deliveries |-> IF d \in Elements(spill) THEN "pending" ELSE table[d]]
    /\ spill' = <<>>
    /\ ingestAt' = AfterStore
    /\ UNCHANGED <<caller, ctxDone, ingestCh, ingestEv, draining, flushVars, accepted,
                   fate, boundVars>>

\* StoreWebhookEvents fails, under a cancelled context always and under the
\* drain context once its time is up: the events are logged as dropped and the
\* buffer is emptied all the same.
StoreSpillFails ==
    /\ ingestAt \in {"store", "storeLast"}
    /\ \/ ~SpillContextOK /\ UNCHANGED <<faults, cutShort>>
       \/ SpillContextOK /\ Fails("store")
       \/ draining /\ Fails("deadline")
    /\ fate' = [d \in Deliveries |->
                  IF d \in Elements(spill) THEN Outcome(d, "dropped") ELSE fate[d]]
    /\ spill' = <<>>
    /\ ingestAt' = AfterStore
    /\ UNCHANGED <<caller, ctxDone, ingestCh, ingestEv, draining, table, flushVars,
                   accepted, offers, crashes>>

-----------------------------------------------------------------------------
(* flushWorker *)

\* The first limit rows of a set in the order of the queries.
FirstRows(rows, limit) ==
    {d \in rows : Cardinality({e \in rows : Rank[e] < Rank[d]}) < limit}

\* Time passes: received_at of a pending row falls behind the cutoff.
RowRipens(d) ==
    /\ table[d] = "pending"
    /\ table' = [table EXCEPT ![d] = "ripe"]
    /\ UNCHANGED <<caller, ctxDone, ingestCh, ingestVars, flushVars, accepted, fate,
                   boundVars>>

\* One iteration of flushReadyEvents fetches a batch.  Returning to the select
\* and iterating are the same here: maxDrainIterations and drainBudget only
\* decide which of them happens.  An empty or failed fetch changes nothing.
FlushTick ==
    LET ripe == {d \in Deliveries : table[d] = "ripe"}
    IN  /\ flushAt = "select"
        /\ ~ctxDone
        /\ ripe # {}
        /\ batch' = FirstRows(ripe, FlushBatch)
        /\ flushAt' = "replay"
        /\ UNCHANGED <<caller, ctxDone, ingestCh, ingestVars, table, flushEv, fullBatch,
                       final, accepted, fate, boundVars>>

\* Mutant of FlushStops: the flush worker does not wait for ingestDoneCh.
FlushStopsAtOnce ==
    /\ flushAt = "select"
    /\ ctxDone
    /\ flushAt' = "fetchAll"
    /\ final' = TRUE
    /\ UNCHANGED <<caller, ctxDone, ingestCh, ingestVars, table, batch, flushEv,
                   fullBatch, accepted, fate, boundVars>>

\* ctx.Done: wait for ingestDoneCh, then flushAll under a fresh context.
FlushStops ==
    /\ flushAt = "select"
    /\ ctxDone
    /\ ingestAt = "done"
    /\ flushAt' = "fetchAll"
    /\ final' = TRUE
    /\ UNCHANGED <<caller, ctxDone, ingestCh, ingestVars, table, batch, flushEv,
                   fullBatch, accepted, fate, boundVars>>

\* flushAll fetches pending rows of any age; it returns when there are none.
FlushAllFetch ==
    /\ flushAt = "fetchAll"
    /\ batch' = FirstRows(InTable, FinalBatch)
    /\ fullBatch' = (Cardinality(batch') >= FinalBatch)
    /\ flushAt' = IF InTable = {} THEN "done" ELSE "replay"
    /\ UNCHANGED <<caller, ctxDone, ingestCh, ingestVars, table, flushEv, final,
                   accepted, fate, boundVars>>

\* The query fails, or the time of flushAll is up: it returns, and what is
\* still pending is left to the next start.
FlushAllGivesUp ==
    /\ flushAt = "fetchAll"
    /\ Fails("fetch") \/ Fails("deadline")
    /\ flushAt' = "done"
    /\ UNCHANGED <<caller, ctxDone, ingestCh, ingestVars, table, batch, flushEv,
                   fullBatch, final, accepted, fate, offers, crashes>>

\* Mutant of FlushNext: the row is marked processed before it is replayed.
FlushNextMarksFirst(d) ==
    /\ flushAt = "replay"
    /\ d \in batch /\ \A e \in batch : Rank[d] =< Rank[e]
    /\ table' = [table EXCEPT ![d] = "processed"]
    /\ batch' = batch \ {d}
    /\ flushEv' = {d}
    /\ flushAt' = "handle"
    /\ UNCHANGED <<caller, ctxDone, ingestCh, ingestVars, fullBatch, final, accepted,
                   fate, boundVars>>

\* processEvents takes the rows of the batch in the order of the query ...
FlushNext(d) ==
    /\ flushAt = "replay"
    /\ d \in batch /\ \A e \in batch : Rank[d] =< Rank[e]
    /\ batch' = batch \ {d}
    /\ flushEv' = {d}
    /\ flushAt' = "handle"
    /\ UNCHANGED <<caller, ctxDone, ingestCh, ingestVars, table, fullBatch, final,
                   accepted, fate, boundVars>>

\* ... and after the last one flushReadyEvents returns (or fetches again), and
\* flushAll goes on while it got full batches.
FlushBatchDone ==
    /\ flushAt = "replay"
    /\ batch = {}
    /\ flushAt' = IF ~final THEN "select" ELSE IF fullBatch THEN "fetchAll" ELSE "done"
    /\ UNCHANGED <<caller, ctxDone, ingestCh, ingestVars, table, batch, flushEv,
                   fullBatch, final, accepted, fate, boundVars>>

\* processOrderedEvent, first half: the handler's verdict on a stored event.
FlushHandled(d) ==
    /\ flushAt = "handle" /\ flushEv = {d}
    /\ d \notin Permanent
    /\ Settle(d, "handled")
    /\ flushAt' = "markProcessed"
    /\ UNCHANGED <<caller, ctxDone, ingestCh, ingestVars, table, batch, flushEv,
                   fullBatch, final, accepted, boundVars>>

\* Mutant of FlushHandlerFails: the row is marked processed although the
\* handler failed.
FlushHandlerFailsUnseen(d) ==
    /\ flushAt = "handle" /\ flushEv = {d}
    /\ d \notin Permanent /\ Fails("handler")
    /\ flushAt' = "markProcessed"
    /\ UNCHANGED <<caller, ctxDone, ingestCh, ingestVars, table, batch, flushEv,
                   fullBatch, final, accepted, fate, offers, crashes>>

FlushHandlerFails(d) ==
    /\ flushAt = "handle" /\ flushEv = {d}
    /\ d \notin Permanent /\ Fails("handler")
    /\ flushAt' = "markFailed"
    /\ UNCHANGED <<caller, ctxDone, ingestCh, ingestVars, table, batch, flushEv,
                   fullBatch, final, accepted, fate, offers, crashes>>

\* Second half: MarkEventProcessed or MarkEventFailed.
MarkProcessed(d) ==
    /\ flushAt = "markProcessed" /\ flushEv = {d}
    /\ table' = [table EXCEPT ![d] = "processed"]
    /\ flushEv' = {}
    /\ flushAt' = "replay"
    /\ UNCHANGED <<caller, ctxDone, ingestCh, ingestVars, batch, fullBatch, final,
                   accepted, fate, boundVars>>

MarkFailed(d) ==
    /\ flushAt = "markFailed" /\ flushEv = {d}
    /\ table' = [table EXCEPT ![d] = "failed"]
    /\ Settle(d, "failed")
    /\ flushEv' = {}
    /\ flushAt' = "replay"
    /\ UNCHANGED <<caller, ctxDone, ingestCh, ingestVars, batch, fullBatch, final,
                   accepted, boundVars>>

\* The UPDATE fails: the row stays pending and is replayed again; the error of
\* MarkEventFailed is ignored, that of MarkEventProcessed only logged.
MarkFails(d) ==
    /\ flushAt \in {"markProcessed", "markFailed"} /\ flushEv = {d}
    /\ Fails("mark")
    /\ flushEv' = {}
    /\ flushAt' = "replay"
    /\ UNCHANGED <<caller, ctxDone, ingestCh, ingestVars, table, batch, fullBatch,
                   final, accepted, fate, offers, crashes>>

-----------------------------------------------------------------------------
\* Stop cancels the context; its wait for the workers is their reaching "done".
Stop ==
    /\ MayStop /\ ~ctxDone
    /\ ctxDone' = TRUE
    /\ UNCHANGED <<caller, ingestCh, ingestVars, table, flushVars, accepted, fate,
                   boundVars>>

\* The process dies, or exits after Stop, and is started again: memory is
\* gone, the table is not.
Crash ==
    /\ crashes < MaxCrashes
    /\ crashes' = crashes + 1
    /\ caller' = [d \in Deliveries |-> "idle"]
    /\ ctxDone' = FALSE
    /\ ingestCh' = <<>>
    /\ ingestAt' = "select" /\ ingestEv' = {} /\ draining' = FALSE /\ spill' = <<>>
    /\ flushAt' = "select" /\ batch' = {} /\ flushEv' = {} /\ fullBatch' = FALSE /\ final' = FALSE
    /\ fate' = [d \in Deliveries |->
                  IF d \in InMemory \ InTable /\ fate[d] = "none" THEN "lost" ELSE fate[d]]
    /\ cutShort' = FALSE
    /\ UNCHANGED <<table, accepted, offers, faults>>

IngestStep ==
    \/ IngestTake \/ IngestTick \/ IngestDrain \/ IngestLast
    \/ StoreSpill \/ StoreSpillFails
    \/ \E d \in Deliveries : IngestHandled(d) \/ IngestPermanent(d) \/ IngestSpills(d)

FlushStep ==
    \/ FlushTick \/ FlushStops \/ FlushAllFetch \/ FlushAllGivesUp \/ FlushBatchDone
    \/ \E d \in Deliveries :
          \/ FlushNext(d) \/ FlushHandled(d) \/ FlushHandlerFails(d)
          \/ MarkProcessed(d) \/ MarkFailed(d) \/ MarkFails(d)

Next ==
    \/ \E d \in Deliveries : AddEvent(d) \/ AddEventSends(d) \/ AddEventGivesUp(d)
    \/ IngestStep
    \/ FlushStep
    \/ \E d \in Deliveries : RowRipens(d)
    \/ Stop
    \/ Crash

Spec == Init /\ [][Next]_vars

-----------------------------------------------------------------------------
\* Every delivery answered 202 is in memory, pending in webhook_events, or has
\* a fate on record; no interleaving of the two workers, of redeliveries, of
\* failing statements, of passed deadlines and of crashes makes the service
\* forget one silently
\* ("an event silently dropped is much worse than one extra cold-path retry",
\* event_ordering_service.go:31-33).
NothingForgotten ==
    \A d \in accepted : fate[d] = "none" => d \in InMemory \cup InTable

\* A row is marked processed only when its event was handled, also when the
\* event is spilled anew between the replay and the mark.
ProcessedWasHandled ==
    \A d \in Deliveries : table[d] = "processed" => fate[d] = "handled"

\* Events that fail with ErrPermanent are not stored for a retry
\* (event_ordering_service.go:22-24).
PermanentNotRetried ==
    \A d \in Permanent : table[d] = "none" /\ d \notin Elements(spill)

\* The service implements the ledger.
Ledger == INSTANCE DeliveryLedger WITH memory <- InMemory, stored <- InTable
LedgerSpec == Ledger!Spec

\* "... so events queued at shutdown are not lost between layers"
\* (event_ordering_service.go:115-118): without a failing database, no
\* delivery is dropped.  The code does not guarantee it: a spill the ingest
\* worker stores after Stop but before it drains uses the cancelled context.
NothingDropped == \A d \in Deliveries : fate[d] # "dropped"
=============================================================================
