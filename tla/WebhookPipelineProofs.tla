------------------------- MODULE WebhookPipelineProofs -------------------------
(***************************************************************************)
(* Theorems about WebhookPipeline, for any jobs, runs and events, any      *)
(* sizes of the buffers, any failing calls, redeliveries, crashes and      *)
(* restarts.  What the ordering service and the handlers do on their own   *)
(* is taken from EventOrderingProofs and WorkflowHandlersProofs: each step *)
(* of the pipeline is one of either or of both, but for the crash.         *)
(***************************************************************************)
EXTENDS WebhookPipeline, TLAPS

\* The theorems about the two components, for the constants of the pipeline.
OP == INSTANCE EventOrderingProofs WITH Permanent <- {}
HP == INSTANCE WorkflowHandlersProofs WITH DBFaults <- "handler" \in Faults

-----------------------------------------------------------------------------
(* The pipeline runs the ordering service.                                 *)

\* The constants fit the ordering service ...
LEMMA OrderingConstants == OP!OrderingAssumption
  BY PipelineAssumption
     DEF PipelineAssumption, P!OrderingAssumption, OP!OrderingAssumption, P!FaultKinds,
         OP!FaultKinds, P!IsFiniteSet, OP!IsFiniteSet

\* ... and the handlers.
LEMMA HandlerConstants == HP!TablesAssumption /\ HP!HandlersAssumption
  BY PipelineAssumption
     DEF PipelineAssumption, H!TablesAssumption, HP!TablesAssumption, H!HandlersAssumption,
         HP!HandlersAssumption, H!Events, HP!Events, H!Ids, HP!Ids, H!JobStatuses,
         HP!JobStatuses, H!JobStatusPriority, HP!JobStatusPriority

\* Both instances have the same initial states ...
LEMMA SameInit == P!Init <=> OP!Init
  BY DEF P!Init, OP!Init

\* ... the same steps of AddEvent ...
LEMMA SameCalls ==
    ASSUME NEW d
    PROVE  /\ P!AddEvent(d) <=> OP!AddEvent(d)
           /\ P!AddEventSends(d) <=> OP!AddEventSends(d)
           /\ P!AddEventGivesUp(d) <=> OP!AddEventGivesUp(d)
<1> USE DEF P!Enqueue, OP!Enqueue, P!Settle, OP!Settle, P!Outcome, OP!Outcome,
            P!ingestVars, OP!ingestVars, P!flushVars, OP!flushVars, P!boundVars, OP!boundVars
<1>1. P!AddEvent(d) <=> OP!AddEvent(d)
  BY DEF P!AddEvent, OP!AddEvent
<1>2. P!AddEventSends(d) <=> OP!AddEventSends(d)
  BY DEF P!AddEventSends, OP!AddEventSends
<1>3. P!AddEventGivesUp(d) <=> OP!AddEventGivesUp(d)
  BY DEF P!AddEventGivesUp, OP!AddEventGivesUp
<1> QED
  BY <1>1, <1>2, <1>3

\* ... of the ingest worker ...
LEMMA SameIngestStep == P!IngestStep <=> OP!IngestStep
<1> USE DEF P!Settle, OP!Settle, P!Outcome, OP!Outcome, P!Fails, OP!Fails,
            P!flushVars, OP!flushVars, P!boundVars, OP!boundVars
<1>1. P!IngestTake <=> OP!IngestTake
  BY DEF P!IngestTake, OP!IngestTake
<1>2. P!IngestTick <=> OP!IngestTick
  BY DEF P!IngestTick, OP!IngestTick
<1>3. P!IngestDrain <=> OP!IngestDrain
  BY DEF P!IngestDrain, OP!IngestDrain
<1>4. P!IngestLast <=> OP!IngestLast
  BY DEF P!IngestLast, OP!IngestLast
<1>5. P!StoreSpill <=> OP!StoreSpill
  BY DEF P!StoreSpill, OP!StoreSpill, P!SpillContextOK, OP!SpillContextOK, P!Elements,
         OP!Elements, P!AfterStore, OP!AfterStore
<1>6. P!StoreSpillFails <=> OP!StoreSpillFails
  BY DEF P!StoreSpillFails, OP!StoreSpillFails, P!SpillContextOK, OP!SpillContextOK,
         P!Elements, OP!Elements, P!AfterStore, OP!AfterStore
<1>7. ASSUME NEW d \in Deliveries
      PROVE  /\ P!IngestHandled(d) <=> OP!IngestHandled(d)
             /\ P!IngestPermanent(d) <=> OP!IngestPermanent(d)
             /\ P!IngestSpills(d) <=> OP!IngestSpills(d)
  BY DEF P!IngestHandled, OP!IngestHandled, P!IngestPermanent, OP!IngestPermanent,
         P!IngestSettles, OP!IngestSettles, P!IngestSpills, OP!IngestSpills
<1> QED
  BY <1>1, <1>2, <1>3, <1>4, <1>5, <1>6, <1>7 DEF P!IngestStep, OP!IngestStep

\* ... of the flush worker ...
LEMMA SameFlushStep == P!FlushStep <=> OP!FlushStep
<1> USE DEF P!Settle, OP!Settle, P!Outcome, OP!Outcome, P!Fails, OP!Fails, P!FirstRows,
            OP!FirstRows, P!Cardinality, OP!Cardinality, P!InTable, OP!InTable, P!Pending,
            OP!Pending, P!ingestVars, OP!ingestVars, P!boundVars, OP!boundVars
<1>1. P!FlushTick <=> OP!FlushTick
  BY DEF P!FlushTick, OP!FlushTick
<1>2. P!FlushStops <=> OP!FlushStops
  BY DEF P!FlushStops, OP!FlushStops
<1>3. P!FlushAllFetch <=> OP!FlushAllFetch
  BY DEF P!FlushAllFetch, OP!FlushAllFetch
<1>4. P!FlushAllGivesUp <=> OP!FlushAllGivesUp
  BY DEF P!FlushAllGivesUp, OP!FlushAllGivesUp
<1>5. P!FlushBatchDone <=> OP!FlushBatchDone
  BY DEF P!FlushBatchDone, OP!FlushBatchDone
<1>6. ASSUME NEW d \in Deliveries
      PROVE  /\ P!FlushNext(d) <=> OP!FlushNext(d)
             /\ P!FlushHandled(d) <=> OP!FlushHandled(d)
             /\ P!FlushHandlerFails(d) <=> OP!FlushHandlerFails(d)
             /\ P!MarkProcessed(d) <=> OP!MarkProcessed(d)
             /\ P!MarkFailed(d) <=> OP!MarkFailed(d)
             /\ P!MarkFails(d) <=> OP!MarkFails(d)
  BY DEF P!FlushNext, OP!FlushNext, P!FlushHandled, OP!FlushHandled, P!FlushHandlerFails,
         OP!FlushHandlerFails, P!MarkProcessed, OP!MarkProcessed, P!MarkFailed,
         OP!MarkFailed, P!MarkFails, OP!MarkFails
<1> QED
  BY <1>1, <1>2, <1>3, <1>4, <1>5, <1>6 DEF P!FlushStep, OP!FlushStep

\* ... and the others.
LEMMA SameNext == (P!Next <=> OP!Next) /\ (UNCHANGED P!vars <=> UNCHANGED OP!vars)
<1> USE DEF P!ingestVars, OP!ingestVars, P!flushVars, OP!flushVars, P!boundVars, OP!boundVars
<1>1. ASSUME NEW d \in Deliveries PROVE P!RowRipens(d) <=> OP!RowRipens(d)
  BY DEF P!RowRipens, OP!RowRipens
<1>2. P!Stop <=> OP!Stop
  BY DEF P!Stop, OP!Stop
<1>3. P!Crash <=> OP!Crash
  BY DEF P!Crash, OP!Crash, P!InMemory, OP!InMemory, P!InTable, OP!InTable, P!Pending,
         OP!Pending, P!Elements, OP!Elements
<1>4. UNCHANGED P!vars <=> UNCHANGED OP!vars
  BY DEF P!vars, OP!vars
<1> QED
  BY <1>1, <1>2, <1>3, <1>4, SameCalls, SameIngestStep, SameFlushStep DEF P!Next, OP!Next

\* Each step of the pipeline is one of the ordering service or leaves it alone.
LEMMA OrderingStep ==
    ASSUME [Next]_vars
    PROVE  [P!Next]_(P!vars)
<1>1. CASE UNCHANGED pipelineVars
  BY <1>1 DEF pipelineVars, P!vars, P!ingestVars, P!flushVars, P!boundVars
<1>2. ASSUME NEW d \in Deliveries, IngestVerdict(d) \/ FlushVerdict(d)
      PROVE  P!Next
  BY <1>2 DEF IngestVerdict, FlushVerdict, P!Next, P!IngestStep, P!FlushStep
<1>3. CASE IngestOther \/ FlushOther
  BY <1>3 DEF IngestOther, FlushOther, P!Next, P!IngestStep, P!FlushStep
<1>4. CASE Environment
  BY <1>4 DEF Environment, P!Next
<1>5. CASE Crash
  BY <1>5 DEF Crash, P!Next
<1> QED
  BY <1>1, <1>2, <1>3, <1>4, <1>5 DEF Next, Worker, Call, Handle, Cleanup, vars

\* The pipeline implements the ordering service with its abstract verdicts: the
\* handlers decide which verdict a step takes and add no step of their own.
THEOREM PipelineRunsOrdering == Spec => P!Spec
<1>1. Init => P!Init
  BY DEF Init
<1>2. [Next]_vars => [P!Next]_(P!vars)
  BY OrderingStep
<1> QED
  BY <1>1, <1>2, PTL DEF Spec, P!Spec

\* So the theorems about the service hold of it in the pipeline.
LEMMA PipelineOrdering == Spec => []OP!OrderingInv /\ []OP!NothingInvented
<1>1. P!Init => OP!Init
  BY SameInit
<1>2. [P!Next]_(P!vars) => [OP!Next]_(OP!vars)
  BY SameNext
<1>3. Spec => OP!Spec
  BY <1>1, <1>2, PipelineRunsOrdering, PTL DEF P!Spec, OP!Spec
<1> QED
  BY <1>3, OrderingConstants, OP!OrderingInvariant, OP!OnlyAccepted, PTL

-----------------------------------------------------------------------------
(* The workers run the handlers.                                           *)

\* Both instances have the same steps of HandleEvent and of the clean-up.
LEMMA SameHandlerSteps ==
    /\ \A w, d : H!Receive(w, d) <=> HP!Receive(w, d)
    /\ \A w : H!HandlerStep(w) <=> HP!HandlerStep(w)
    /\ \A w : H!Return(w) <=> HP!Return(w)
    /\ H!CleanupStaleJobs <=> HP!CleanupStaleJobs
    /\ H!CleanupOldData <=> HP!CleanupOldData
<1> USE DEF H!Goto, HP!Goto, H!Subject, HP!Subject, H!Incoming, HP!Incoming, H!Acknowledge,
            HP!Acknowledge, H!Admits, HP!Admits, H!JobStatusPriority, HP!JobStatusPriority,
            H!RunStatusPriority, HP!RunStatusPriority, H!TerminalJobStatuses,
            HP!TerminalJobStatuses, H!TerminalRunStatuses, HP!TerminalRunStatuses,
            H!JobStatuses, HP!JobStatuses, H!RunStatuses, HP!RunStatuses, H!Absent,
            HP!Absent, H!Ids, HP!Ids, H!Known, HP!Known
<1>1. \A w, d : H!Receive(w, d) <=> HP!Receive(w, d)
  BY DEF H!Receive, HP!Receive
<1>2. ASSUME NEW w PROVE H!HandlerStep(w) <=> HP!HandlerStep(w)
  <2>1. H!ReadPrevious(w) <=> HP!ReadPrevious(w)
    BY DEF H!ReadPrevious, HP!ReadPrevious
  <2>2. H!UpsertJob(w) <=> HP!UpsertJob(w)
    BY DEF H!UpsertJob, HP!UpsertJob, H!AddOrUpdateJob, HP!AddOrUpdateJob, H!JobAdmits,
           HP!JobAdmits
  <2>3. H!UpsertRun(w) <=> HP!UpsertRun(w)
    BY DEF H!UpsertRun, HP!UpsertRun, H!AddOrUpdateRun, HP!AddOrUpdateRun, H!RunAdmits,
           HP!RunAdmits
  <2>4. H!UpsertFails(w) <=> HP!UpsertFails(w)
    BY DEF H!UpsertFails, HP!UpsertFails
  <2>5. H!CountTransition(w) <=> HP!CountTransition(w)
    BY DEF H!CountTransition, HP!CountTransition
  <2>6. H!Announce(w) <=> HP!Announce(w)
    BY DEF H!Announce, HP!Announce
  <2> QED
    BY <2>1, <2>2, <2>3, <2>4, <2>5, <2>6 DEF H!HandlerStep, HP!HandlerStep
<1>3. \A w : H!Return(w) <=> HP!Return(w)
  BY DEF H!Return, HP!Return
<1>4. H!CleanupStaleJobs <=> HP!CleanupStaleJobs
  BY DEF H!CleanupStaleJobs, HP!CleanupStaleJobs, H!MarkStale, HP!MarkStale
<1>5. H!CleanupOldData <=> HP!CleanupOldData
  BY DEF H!CleanupOldData, HP!CleanupOldData, H!DeleteOld, HP!DeleteOld
<1> QED
  BY <1>1, <1>2, <1>3, <1>4, <1>5

\* Each step of the pipeline but the crash is one of the handlers or leaves
\* them alone.
LEMMA HandlersStep ==
    ASSUME [Next]_vars, ~Crash
    PROVE  [HP!Next]_(HP!vars)
<1>1. CASE UNCHANGED handlerVars
  BY <1>1 DEF handlerVars, HP!vars, HP!handlerVars
<1>2. ASSUME NEW w \in Workers, NEW d \in Deliveries, Call(w, d) PROVE HP!Next
  BY <1>2, SameHandlerSteps DEF Call, HP!Next
<1>3. ASSUME NEW w \in Workers, Handle(w) PROVE HP!Next
  BY <1>3, SameHandlerSteps DEF Handle, HP!Next
<1>4. ASSUME NEW d \in Deliveries, IngestVerdict(d) \/ FlushVerdict(d) PROVE HP!Next
  BY <1>4, SameHandlerSteps DEF IngestVerdict, FlushVerdict, HP!Next, Workers
<1>5. CASE Cleanup
  BY <1>5, SameHandlerSteps DEF Cleanup, HP!Next
<1> QED
  BY <1>1, <1>2, <1>3, <1>4, <1>5
     DEF Next, Worker, IngestOther, FlushOther, Environment, vars

\* What holds of the handlers survives the crash: the tables, and with them
\* the statuses the rows were sent.
HandlersInv == HP!ConvergeInv /\ HP!Acknowledged

LEMMA CrashKeepsHandlers ==
    ASSUME HandlersInv, Crash
    PROVE  HandlersInv'
<1>1. /\ UNCHANGED <<jobs, runs, handled, seen>>
      /\ \A w \in Workers : at'[w] = "idle" /\ current'[w] = NoDelivery
      /\ at' \in [Workers -> {"idle"}] /\ current' \in [Workers -> {NoDelivery}]
      /\ previous' \in [Workers -> {"absent"}]
      /\ concluded' \in [Jobs -> Nat] /\ queueTimed' \in [Jobs -> Nat]
      /\ unannounced' = {}
  BY DEF Crash
<1>2. HP!TypeInv'
  BY <1>1, HandlerConstants
     DEF HandlersInv, HP!ConvergeInv, HP!TypeInv, HP!TypeOK, HP!TablesTypeOK, HP!Places,
         HP!Absent, HP!Control
<1>3. HP!RowsConverge' /\ HP!RunsSeen'
  BY <1>1 DEF HandlersInv, HP!ConvergeInv, HP!RowsConverge, HP!RunsSeen
<1>4. HP!Acknowledged'
  BY <1>1 DEF HP!Acknowledged
<1> QED
  BY <1>2, <1>3, <1>4 DEF HandlersInv, HP!ConvergeInv

LEMMA HandlersInvariant == Spec => []HandlersInv
<1>1. Init => HandlersInv
  <2>1. Init => HP!Init
    BY DEF Init, H!Init, HP!Init, H!TablesInit, HP!TablesInit, H!HandlersInit,
           HP!HandlersInit, H!Absent, HP!Absent, H!Ids, HP!Ids
  <2>2. HP!Init => HP!TypeInv
    BY HandlerConstants, HP!InitType
  <2>3. HP!Init => HP!RowsConverge /\ HP!RunsSeen /\ HP!Acknowledged
    BY HandlerConstants
       DEF HP!Init, HP!TablesInit, HP!HandlersInit, HP!RowsConverge, HP!RunsSeen,
           HP!Settles, HP!Acknowledged, HP!Ids
  <2> QED
    BY <2>1, <2>2, <2>3 DEF HandlersInv, HP!ConvergeInv
<1>2. HandlersInv /\ [Next]_vars => HandlersInv'
  <2> SUFFICES ASSUME HandlersInv, [Next]_vars, ~Crash PROVE HandlersInv'
    BY CrashKeepsHandlers
  <2>1. HP!ConvergeInv /\ HP!TypeInv /\ HP!Acknowledged /\ [HP!Next]_(HP!vars)
    BY HandlersStep DEF HandlersInv, HP!ConvergeInv
  <2>2. HP!TypeInv'
    BY <2>1, HandlerConstants, HP!StepType
  <2>3. HP!RowsConverge' /\ HP!RunsSeen'
    BY <2>1, HandlerConstants, HP!StepConverges
  <2>4. HP!Acknowledged'
    BY <2>1, HandlerConstants, HP!StepAcknowledges
  <2> QED
    BY <2>2, <2>3, <2>4 DEF HandlersInv, HP!ConvergeInv
<1> QED
  BY <1>1, <1>2, PTL DEF Spec

\* The tables stay order-independent in the whole pipeline: whatever is
\* replayed by either worker, also after a crash, each row holds the most
\* advanced status it was sent (models/status_priority.go:10-12).
THEOREM PipelineConverges == Spec => []H!RowsConverge
<1>1. HandlersInv => H!RowsConverge
  BY DEF HandlersInv, HP!ConvergeInv, H!RowsConverge, HP!RowsConverge, H!Settles, HP!Settles,
         H!JobStatusPriority, HP!JobStatusPriority, H!RunStatusPriority,
         HP!RunStatusPriority, H!Absent, HP!Absent
<1> QED
  BY <1>1, HandlersInvariant, PTL

-----------------------------------------------------------------------------
(* Verdicts and tables.                                                    *)

\* A worker is in a handler only for the event it holds.
Handing ==
    /\ at[ingest] # "idle" => ingestAt = "process" /\ ingestEv = {current[ingest]}
    /\ at[flush] # "idle" => flushAt = "handle" /\ flushEv = {current[flush]}

\* The row of d was sent the status of d.
Sent(d) == Event[d].status \in seen[Subject(d)]

Lasting(d) == H!Known(d) /\ Subject(d) \notin Expirable

\* An event that counts as handled was acknowledged by its handler.
HandledWasSent == \A d \in Deliveries : fate[d] = "handled" /\ Lasting(d) => Sent(d)

\* Inside HandleEvent the worker keeps its delivery.
LEMMA HandlerKeepsDelivery ==
    ASSUME HP!TypeOK, NEW w \in Workers, H!HandlerStep(w)
    PROVE  /\ at[w] # "idle" /\ current' = current
           /\ \A v \in Workers : v # w => at'[v] = at[v]
<1>1. HP!HandlerStep(w)
  BY SameHandlerSteps
<1> QED
  BY <1>1 DEF HP!HandlerStep, HP!ReadPrevious, HP!UpsertJob, HP!UpsertRun, HP!UpsertFails,
              HP!CountTransition, HP!Announce, HP!Goto, HP!TypeOK

\* The steps of one worker and of the others do not touch what the other holds.
LEMMA WorkersApart ==
    /\ \A d : IngestVerdict(d) => UNCHANGED <<flushAt, flushEv>>
    /\ \A d : FlushVerdict(d) => UNCHANGED <<ingestAt, ingestEv>>
    /\ IngestOther => UNCHANGED <<flushAt, flushEv>> /\ ingestAt # "process"
    /\ FlushOther => UNCHANGED <<ingestAt, ingestEv>> /\ flushAt # "handle"
    /\ Environment => UNCHANGED <<ingestAt, ingestEv, flushAt, flushEv>>
<1> USE DEF P!ingestVars, P!flushVars
<1>1. \A d : IngestVerdict(d) => UNCHANGED <<flushAt, flushEv>>
  BY DEF IngestVerdict, P!IngestHandled, P!IngestSettles, P!IngestSpills
<1>2. \A d : FlushVerdict(d) => UNCHANGED <<ingestAt, ingestEv>>
  BY DEF FlushVerdict, P!FlushHandled, P!FlushHandlerFails
<1>3. IngestOther => UNCHANGED <<flushAt, flushEv>> /\ ingestAt # "process"
  BY DEF IngestOther, P!IngestTake, P!IngestTick, P!IngestDrain, P!IngestLast,
         P!StoreSpill, P!StoreSpillFails
<1>4. FlushOther => UNCHANGED <<ingestAt, ingestEv>> /\ flushAt # "handle"
  BY DEF FlushOther, P!FlushTick, P!FlushStops, P!FlushAllFetch, P!FlushAllGivesUp,
         P!FlushBatchDone, P!FlushNext, P!MarkProcessed, P!MarkFailed, P!MarkFails
<1>5. Environment => UNCHANGED <<ingestAt, ingestEv, flushAt, flushEv>>
  BY DEF Environment, P!AddEvent, P!AddEventSends, P!AddEventGivesUp, P!RowRipens, P!Stop
<1> QED
  BY <1>1, <1>2, <1>3, <1>4, <1>5

LEMMA HandingStep ==
    ASSUME HP!TypeOK, Handing, [Next]_vars
    PROVE  Handing'
<1>0. ingest # flush /\ ingest \in Workers /\ flush \in Workers
  BY PipelineAssumption DEF PipelineAssumption, Workers
<1>1. ASSUME NEW w \in Workers, NEW d \in Deliveries, Call(w, d) PROVE Handing'
  <2>1. /\ current' = [current EXCEPT ![w] = d] /\ UNCHANGED <<ingestAt, ingestEv, flushAt, flushEv>>
        /\ \A v \in Workers : v # w => at'[v] = at[v] /\ current'[v] = current[v]
        /\ current'[w] = d
    BY <1>1 DEF Call, H!Receive, H!Goto, HP!TypeOK, pipelineVars
  <2> QED
    BY <1>0, <1>1, <2>1 DEF Call, Handing
<1>2. ASSUME NEW w \in Workers, Handle(w) PROVE Handing'
  <2>1. UNCHANGED <<ingestAt, ingestEv, flushAt, flushEv>> /\ H!HandlerStep(w)
    BY <1>2 DEF Handle, pipelineVars
  <2> QED
    BY <1>0, <2>1, HandlerKeepsDelivery DEF Handing
<1>3. ASSUME NEW d \in Deliveries, IngestVerdict(d) PROVE Handing'
  <2>1. /\ at'[ingest] = "idle" /\ at'[flush] = at[flush] /\ current'[flush] = current[flush]
    BY <1>0, <1>3 DEF IngestVerdict, H!Return, H!Goto, HP!TypeOK
  <2> QED
    BY <1>3, <2>1, WorkersApart DEF Handing
<1>4. ASSUME NEW d \in Deliveries, FlushVerdict(d) PROVE Handing'
  <2>1. /\ at'[flush] = "idle" /\ at'[ingest] = at[ingest] /\ current'[ingest] = current[ingest]
    BY <1>0, <1>4 DEF FlushVerdict, H!Return, H!Goto, HP!TypeOK
  <2> QED
    BY <1>4, <2>1, WorkersApart DEF Handing
<1>5. CASE IngestOther \/ FlushOther \/ Environment
  BY <1>5, WorkersApart DEF IngestOther, FlushOther, Environment, handlerVars, Handing
<1>6. CASE Cleanup
  BY <1>6 DEF Cleanup, H!CleanupStaleJobs, H!CleanupOldData, pipelineVars, Handing
<1>7. CASE Crash
  BY <1>0, <1>7 DEF Crash, Handing
<1>8. CASE UNCHANGED vars
  BY <1>8 DEF vars, handlerVars, pipelineVars, Handing
<1> QED
  BY <1>1, <1>2, <1>3, <1>4, <1>5, <1>6, <1>7, <1>8 DEF Next, Worker

\* Only a verdict of a worker makes an event handled.
LEMMA BecomesHandled ==
    ASSUME P!TypeOK, [Next]_vars, NEW d \in Deliveries,
           fate'[d] = "handled", fate[d] # "handled"
    PROVE  \/ at[ingest] = "ok" /\ ingestEv = {d}
           \/ at[flush] = "ok" /\ flushEv = {d}
<1> USE DEF P!Settle, P!Outcome
<1>1. ASSUME NEW e \in Deliveries, IngestVerdict(e)
      PROVE  at[ingest] = "ok" /\ ingestEv = {d}
  BY <1>1 DEF IngestVerdict, P!IngestHandled, P!IngestSettles, P!IngestSpills, P!TypeOK
<1>2. ASSUME NEW e \in Deliveries, FlushVerdict(e)
      PROVE  at[flush] = "ok" /\ flushEv = {d}
  BY <1>2 DEF FlushVerdict, P!FlushHandled, P!FlushHandlerFails, P!TypeOK
<1>3. CASE IngestOther
  BY <1>3 DEF IngestOther, P!IngestTake, P!IngestTick, P!IngestDrain, P!IngestLast,
              P!StoreSpill, P!StoreSpillFails
<1>4. CASE FlushOther
  BY <1>4 DEF FlushOther, P!FlushTick, P!FlushStops, P!FlushAllFetch, P!FlushAllGivesUp,
              P!FlushBatchDone, P!FlushNext, P!MarkProcessed, P!MarkFailed, P!MarkFails,
              P!TypeOK
<1>5. CASE Environment
  BY <1>5 DEF Environment, P!AddEvent, P!AddEventSends, P!AddEventGivesUp, P!Enqueue,
              P!RowRipens, P!Stop, P!TypeOK
<1>6. CASE Crash
  BY <1>6 DEF Crash, P!Crash
<1>7. CASE UNCHANGED pipelineVars
  BY <1>7 DEF pipelineVars
<1> QED
  BY <1>1, <1>2, <1>3, <1>4, <1>5, <1>6, <1>7
     DEF Next, Worker, Call, Handle, Cleanup, vars

\* Verdicts and tables agree, whatever the other worker and the clean-up do.
LEMMA SentStep ==
    ASSUME P!TypeOK, HandlersInv, Handing, HandledWasSent, [Next]_vars
    PROVE  HandledWasSent'
<1> SUFFICES ASSUME NEW d \in Deliveries, fate'[d] = "handled", Lasting(d)
             PROVE  Event[d].status \in seen'[Subject(d)]
  BY DEF HandledWasSent, Lasting, Sent, Subject, H!Known
<1>1. Subject(d) \in HP!Ids \ Expirable
  BY HandlerConstants DEF HP!HandlersAssumption, HP!Events, Subject, Lasting
<1>2. seen[Subject(d)] \subseteq seen'[Subject(d)]
  <2>1. CASE Crash
    BY <2>1 DEF Crash
  <2>2. CASE ~Crash
    BY <1>1, <2>2, HandlersStep, HandlerConstants, HP!SeenGrows
       DEF HandlersInv, HP!ConvergeInv
  <2> QED
    BY <2>1, <2>2
<1>3. CASE fate[d] = "handled"
  BY <1>2, <1>3 DEF HandledWasSent, Sent
<1>4. CASE fate[d] # "handled"
  <2>1. PICK w \in Workers : at[w] = "ok" /\ current[w] = d
    BY <1>4, BecomesHandled DEF Handing, Workers
  <2>2. HP!Known(d)
    BY DEF Lasting, H!Known, HP!Known, H!JobStatuses, HP!JobStatuses, H!RunStatuses,
           HP!RunStatuses, H!JobStatusPriority, HP!JobStatusPriority,
           H!RunStatusPriority, HP!RunStatusPriority
  <2>3. Event[d].status \in seen[Subject(d)]
    BY <1>1, <2>1, <2>2
       DEF HandlersInv, HP!Acknowledged, HP!Subject, HP!Incoming, Subject
  <2> QED
    BY <1>2, <2>3
<1> QED
  BY <1>3, <1>4

\* What a row was sent, it is at least as far as.
LEMMA SentIsReflected ==
    ASSUME HandlersInv, NEW d \in Deliveries, Sent(d)
    PROVE  Reflected(d)
<1> DEFINE i == Subject(d)
           s == Event[d].status
<1>1. i \in Jobs \cup Runs
  BY HandlerConstants DEF HP!HandlersAssumption, HP!Events, HP!Ids, Subject
<1>2. s \in seen[i] /\ seen[i] \subseteq HP!JobStatuses
  BY <1>1 DEF Sent, HandlersInv, HP!ConvergeInv, HP!TypeInv, HP!TypeOK, HP!Ids
<1>3. CASE i \in Jobs
  <2>1. jobs[i] \in seen[i] /\ HP!JobStatusPriority[s] =< HP!JobStatusPriority[jobs[i]]
    BY <1>2, <1>3 DEF HandlersInv, HP!ConvergeInv, HP!RowsConverge, HP!Settles
  <2>2. HP!JobStatuses = H!JobStatuses /\ HP!JobStatusPriority = H!JobStatusPriority
    BY DEF HP!JobStatuses, H!JobStatuses, HP!JobStatusPriority, H!JobStatusPriority
  <2> QED
    BY <1>2, <1>3, <2>1, <2>2 DEF Reflected
<1>4. CASE i \in Runs /\ i \notin Jobs
  <2>1. runs[i] \in seen[i] /\ HP!RunStatusPriority[s] =< HP!RunStatusPriority[runs[i]]
    BY <1>2, <1>4 DEF HandlersInv, HP!ConvergeInv, HP!RowsConverge, HP!Settles
  <2>2. seen[i] \subseteq HP!RunStatuses
    BY <1>4 DEF HandlersInv, HP!ConvergeInv, HP!RunsSeen
  <2>3. HP!RunStatuses = H!RunStatuses /\ HP!RunStatusPriority = H!RunStatusPriority
    BY DEF HP!RunStatuses, H!RunStatuses, HP!RunStatusPriority, H!RunStatusPriority
  <2> QED
    BY <1>4, <2>1, <2>2, <2>3 DEF Reflected
<1> QED
  BY <1>1, <1>3, <1>4

\* What the theorems below rest on, all of it together.
LEMMA PipelineInvariant ==
    Spec => /\ []P!TypeOK /\ []HandlersInv
            /\ []Handing /\ []HandledWasSent
<1>1. Init => Handing /\ HandledWasSent
  BY DEF Init, P!Init, H!Init, H!HandlersInit, Handing, HandledWasSent, Workers
<1>2. OP!OrderingInv => P!TypeOK
  BY DEF OP!OrderingInv, OP!TypeInv, OP!TypeOK, P!TypeOK, OP!RowStates, P!RowStates
<1>3. HandlersInv => HP!TypeOK
  BY DEF HandlersInv, HP!ConvergeInv, HP!TypeInv
<1>4. P!TypeOK /\ HandlersInv /\ Handing /\ HandledWasSent /\ [Next]_vars
        => Handing' /\ HandledWasSent'
  BY <1>3, HandingStep, SentStep
<1> QED
  BY <1>1, <1>2, <1>4, PipelineOrdering, HandlersInvariant, PTL DEF Spec

\* The effect of a handled event is in its table and stays there, whatever is
\* replayed, redelivered, retried by the other worker or lost in a crash.
THEOREM HandledStaysReflected == Spec => []HandledIsReflected
<1>1. HandlersInv /\ HandledWasSent => HandledIsReflected
  BY SentIsReflected DEF HandledWasSent, HandledIsReflected, Lasting
<1> QED
  BY <1>1, PipelineInvariant, PTL

\* No verdict is permanent: every event has a handler.
LEMMA NeverPermanent == Spec => [](\A d \in Deliveries : fate[d] # "permanent")
<1> DEFINE Never == \A d \in Deliveries : fate[d] # "permanent"
<1>1. Init => Never
  BY DEF Init, P!Init
<1>2. P!TypeOK /\ Never /\ [Next]_vars => Never'
  <2> SUFFICES ASSUME P!TypeOK, Never, [Next]_vars PROVE Never'
    OBVIOUS
  <2> USE DEF P!Settle, P!Outcome
  <2>1. ASSUME NEW e \in Deliveries, IngestVerdict(e) \/ FlushVerdict(e) PROVE Never'
    BY <2>1 DEF IngestVerdict, FlushVerdict, P!IngestHandled, P!IngestSettles,
                P!IngestSpills, P!FlushHandled, P!FlushHandlerFails, P!TypeOK
  <2>2. CASE IngestOther
    BY <2>2 DEF IngestOther, P!IngestTake, P!IngestTick, P!IngestDrain, P!IngestLast,
                P!StoreSpill, P!StoreSpillFails
  <2>3. CASE FlushOther
    BY <2>3 DEF FlushOther, P!FlushTick, P!FlushStops, P!FlushAllFetch, P!FlushAllGivesUp,
                P!FlushBatchDone, P!FlushNext, P!MarkProcessed, P!MarkFailed, P!MarkFails,
                P!TypeOK
  <2>4. CASE Environment
    BY <2>4 DEF Environment, P!AddEvent, P!AddEventSends, P!AddEventGivesUp, P!Enqueue,
                P!RowRipens, P!Stop, P!TypeOK
  <2>5. CASE Crash
    BY <2>5 DEF Crash, P!Crash
  <2>6. CASE UNCHANGED pipelineVars
    BY <2>6 DEF pipelineVars
  <2> QED
    BY <2>1, <2>2, <2>3, <2>4, <2>5, <2>6 DEF Next, Worker, Call, Handle, Cleanup, vars
<1> HIDE DEF Never
<1>3. Spec => []Never
  BY <1>1, <1>2, PipelineInvariant, PTL DEF Spec
<1> QED
  BY <1>3 DEF Never

\* Each accepted event is reflected in its row, on its way or given up on
\* record, at any moment, also after Stop and after a crash.
THEOREM EveryEventAccounted == Spec => []AcceptedAccounted
<1> DEFINE Never == \A d \in Deliveries : fate[d] # "permanent"
<1>1. OP!OrderingInv /\ HandledIsReflected /\ Never => AcceptedAccounted
  <2> SUFFICES ASSUME OP!OrderingInv, HandledIsReflected, Never, NEW d \in accepted,
                      H!Known(d), Subject(d) \notin Expirable
               PROVE  \/ Reflected(d)
                      \/ d \in P!InMemory \cup P!InTable
                      \/ fate[d] \in {"failed", "dropped", "lost"}
    BY DEF AcceptedAccounted
  <2>1. d \in Deliveries /\ fate[d] \in {"none", "handled", "permanent", "failed", "dropped", "lost"}
    BY DEF OP!OrderingInv, OP!TypeInv, OP!TypeOK
  <2>2. CASE fate[d] = "none"
    <3>1. d \in OP!InMemory \cup OP!InTable
      BY <2>2 DEF OP!OrderingInv, OP!NothingForgotten
    <3>2. OP!InMemory = P!InMemory /\ OP!InTable = P!InTable
      BY DEF P!InMemory, OP!InMemory, P!Elements, OP!Elements, P!InTable, OP!InTable,
             P!Pending, OP!Pending
    <3> QED
      BY <3>1, <3>2
  <2>3. CASE fate[d] = "handled"
    BY <2>1, <2>3 DEF HandledIsReflected
  <2> QED
    BY <2>1, <2>2, <2>3
<1>2. Spec => []Never
  BY NeverPermanent
<1> HIDE DEF Never
<1> QED
  BY <1>1, <1>2, PipelineOrdering, HandledStaysReflected, PTL
==============================================================================
