--------------------------- MODULE WorkflowHandlers ---------------------------
(***************************************************************************)
(* WorkflowJobHandler.HandleEvent and WorkflowRunHandler.HandleEvent, run  *)
(* by several goroutines at once: the ingest worker hands over fresh       *)
(* deliveries while the flush worker replays spilled ones, and the clean-  *)
(* up service writes the same tables.  The handlers take no lock around    *)
(* their database calls; WorkflowJobHandler.mutex covers the metrics only. *)
(*                                                                         *)
(* A payload is the record Event[d]: the id of its job or run, its action  *)
(* (which HandleEvent copies over the status), whether started_at is set,  *)
(* and whether a conclusion is given.                                      *)
(***************************************************************************)
EXTENDS WorkflowTables

CONSTANTS
    Deliveries,    \* webhook deliveries
    NoDelivery,    \* no delivery: the worker is not in HandleEvent
    Event,         \* Event[d]: the payload of delivery d
    Workers,       \* the goroutines that call HandleEvent
    DBFaults,      \* BOOLEAN: database calls may return an error
    MaxHandled     \* bound: how often one delivery is handled

Ids == Jobs \cup Runs
Events == [id : Ids, status : JobStatuses \cup {"unknown"},
           started : BOOLEAN, conclusion : BOOLEAN]

ASSUME HandlersAssumption ==
    /\ NoDelivery \notin Deliveries
    /\ Event \in [Deliveries -> Events]
    /\ DBFaults \in BOOLEAN
    /\ MaxHandled \in Nat

VARIABLES
    at,          \* at[w]: where worker w is in HandleEvent
    current,     \* current[w]: the delivery w handles, or NoDelivery
    previous,    \* previous[w]: previousJob.Status as w read it
    concluded,   \* concluded[j]: calls of RecordJobConclusion for j
    queueTimed,  \* queueTimed[j]: calls of RecordQueueDuration for j
    handled,     \* handled[d]: how often d was handed to a handler
    seen,        \* history: seen[i], the statuses written or refused for i
                 \*   since its row was last deleted
    unannounced  \* history: runs whose row changed since the last
                 \*   SendWorkflowUpdate for them

handlerVars == <<at, current, previous, concluded, queueTimed, handled, seen,
                 unannounced>>
vars == <<jobs, runs, handlerVars>>

Places == {"idle", "read", "upsert", "count", "announce", "ok", "error"}

TypeOK ==
    /\ TablesTypeOK
    /\ at \in [Workers -> Places]
    /\ current \in [Workers -> Deliveries \cup {NoDelivery}]
    /\ previous \in [Workers -> JobStatuses \cup {Absent}]
    /\ concluded \in [Jobs -> Nat]
    /\ queueTimed \in [Jobs -> Nat]
    /\ handled \in [Deliveries -> Nat]
    /\ seen \in [Ids -> SUBSET JobStatuses]
    /\ unannounced \subseteq Runs
    /\ \A w \in Workers : current[w] = NoDelivery <=> at[w] = "idle"

HandlersInit ==
    /\ at = [w \in Workers |-> "idle"]
    /\ current = [w \in Workers |-> NoDelivery]
    /\ previous = [w \in Workers |-> Absent]
    /\ concluded = [j \in Jobs |-> 0]
    /\ queueTimed = [j \in Jobs |-> 0]
    /\ handled = [d \in Deliveries |-> 0]
    /\ seen = [i \in Ids |-> {}]
    /\ unannounced = {}

Init == TablesInit /\ HandlersInit

-----------------------------------------------------------------------------
\* The job or run, and the status, that worker w is handling.
Subject(w) == Event[current[w]].id
Incoming(w) == Event[current[w]].status

Goto(w, place) == at' = [at EXCEPT ![w] = place]

Known(d) ==
    IF Event[d].id \in Jobs THEN Event[d].status \in JobStatuses
                            ELSE Event[d].status \in RunStatuses

\* Mutant of Receive: the switch on the action lets unknown ones through.
ReceiveUnchecked(w, d) ==
    /\ at[w] = "idle"
    /\ handled[d] < MaxHandled
    /\ handled' = [handled EXCEPT ![d] = @ + 1]
    /\ current' = [current EXCEPT ![w] = d]
    /\ Goto(w, IF Event[d].id \in Jobs THEN "read" ELSE "upsert")
    /\ UNCHANGED <<jobs, runs, previous, concluded, queueTimed, seen, unannounced>>

\* HandleEvent is called.  An unknown action is acknowledged (nil) without a
\* write; a job handler goes on to read the previous state, a run handler to
\* the upsert.
Receive(w, d) ==
    /\ at[w] = "idle"
    /\ handled[d] < MaxHandled
    /\ handled' = [handled EXCEPT ![d] = @ + 1]
    /\ current' = [current EXCEPT ![w] = d]
    /\ Goto(w, IF ~Known(d) THEN "ok"
               ELSE IF Event[d].id \in Jobs THEN "read" ELSE "upsert")
    /\ UNCHANGED <<jobs, runs, previous, concluded, queueTimed, seen, unannounced>>

\* previousJob, err := GetWorkflowJobByID(...), outside any transaction; an
\* error is not fatal and leaves previousJob at its zero value.
ReadPrevious(w) ==
    /\ at[w] = "read"
    /\ \/ previous' = [previous EXCEPT ![w] = jobs[Subject(w)]]
       \/ DBFaults /\ previous' = [previous EXCEPT ![w] = Absent]
    /\ Goto(w, "upsert")
    /\ UNCHANGED <<jobs, runs, current, concluded, queueTimed, handled, seen,
                   unannounced>>

Acknowledge(w) == seen' = [seen EXCEPT ![Subject(w)] = @ \cup {Incoming(w)}]

\* AddOrUpdateJob: updated leads on to the metrics, not updated returns nil.
UpsertJob(w) ==
    /\ at[w] = "upsert"
    /\ Subject(w) \in Jobs
    /\ AddOrUpdateJob(Subject(w), Incoming(w))
    /\ Acknowledge(w)
    /\ Goto(w, IF JobAdmits(Subject(w), Incoming(w)) THEN "count" ELSE "ok")
    /\ UNCHANGED <<current, previous, concluded, queueTimed, handled, unannounced>>

\* Mutant of UpsertRun: the update is announced only for a terminal status.
UpsertRunTerminalOnly(w) ==
    /\ at[w] = "upsert"
    /\ Subject(w) \in Runs
    /\ AddOrUpdateRun(Subject(w), Incoming(w))
    /\ Acknowledge(w)
    /\ IF RunAdmits(Subject(w), Incoming(w))
       THEN /\ Goto(w, IF Incoming(w) \in TerminalRunStatuses THEN "announce" ELSE "ok")
            /\ unannounced' = unannounced \cup {Subject(w)}
       ELSE Goto(w, "ok") /\ UNCHANGED unannounced
    /\ UNCHANGED <<current, previous, concluded, queueTimed, handled>>

\* AddOrUpdateRun: updated leads on to SendWorkflowUpdate.
UpsertRun(w) ==
    /\ at[w] = "upsert"
    /\ Subject(w) \in Runs
    /\ AddOrUpdateRun(Subject(w), Incoming(w))
    /\ Acknowledge(w)
    /\ IF RunAdmits(Subject(w), Incoming(w))
       THEN /\ Goto(w, "announce")
            /\ unannounced' = unannounced \cup {Subject(w)}
       ELSE Goto(w, "ok") /\ UNCHANGED unannounced
    /\ UNCHANGED <<current, previous, concluded, queueTimed, handled>>

\* Mutant of UpsertFails: HandleEvent swallows the error.
UpsertFailsSwallowed(w) ==
    /\ DBFaults
    /\ at[w] = "upsert"
    /\ Goto(w, "ok")
    /\ UNCHANGED <<jobs, runs, current, previous, concluded, queueTimed, handled,
                   seen, unannounced>>

\* Begin, load, exec or commit fails inside AddOrUpdateJob/AddOrUpdateRun:
\* nothing is written and HandleEvent returns the error.
UpsertFails(w) ==
    /\ DBFaults
    /\ at[w] = "upsert"
    /\ Goto(w, "error")
    /\ UNCHANGED <<jobs, runs, current, previous, concluded, queueTimed, handled,
                   seen, unannounced>>

\* Mutant of CountTransition: the test that the status changed compares with
\* the queued status only, so a job with no known predecessor is skipped.
CountFromKnown(w) ==
    LET j == Subject(w)
        changed == previous[w] # Absent /\ previous[w] # Incoming(w)
        leftQueue == changed /\ previous[w] = "queued" /\ Event[current[w]].started
        ended == changed /\ Incoming(w) = "completed" /\ Event[current[w]].conclusion
    IN  /\ at[w] = "count"
        /\ queueTimed' = IF leftQueue THEN [queueTimed EXCEPT ![j] = @ + 1] ELSE queueTimed
        /\ concluded' = IF ended THEN [concluded EXCEPT ![j] = @ + 1] ELSE concluded
        /\ Goto(w, "ok")
        /\ UNCHANGED <<jobs, runs, current, previous, handled, seen, unannounced>>

\* handleJobStatusTransition, under the mutex: compares the status read
\* before the upsert with the incoming one.
CountTransition(w) ==
    LET j == Subject(w)
        changed == previous[w] # Incoming(w)
        leftQueue == changed /\ previous[w] = "queued" /\ Event[current[w]].started
        ended == changed /\ Incoming(w) = "completed" /\ Event[current[w]].conclusion
    IN  /\ at[w] = "count"
        /\ queueTimed' = IF leftQueue THEN [queueTimed EXCEPT ![j] = @ + 1] ELSE queueTimed
        /\ concluded' = IF ended THEN [concluded EXCEPT ![j] = @ + 1] ELSE concluded
        /\ Goto(w, "ok")
        /\ UNCHANGED <<jobs, runs, current, previous, handled, seen, unannounced>>

\* SendWorkflowUpdate.
Announce(w) ==
    /\ at[w] = "announce"
    /\ unannounced' = unannounced \ {Subject(w)}
    /\ Goto(w, "ok")
    /\ UNCHANGED <<jobs, runs, current, previous, concluded, queueTimed, handled, seen>>

\* HandleEvent returns nil ("ok") or an error to processOrderedEvent.
Return(w) ==
    /\ at[w] \in {"ok", "error"}
    /\ Goto(w, "idle")
    /\ current' = [current EXCEPT ![w] = NoDelivery]
    /\ previous' = [previous EXCEPT ![w] = Absent]
    /\ UNCHANGED <<jobs, runs, concluded, queueTimed, handled, seen,
                   unannounced>>

\* The two database steps of CleanupService.performCleanup.
CleanupStaleJobs ==
    \E stuck \in SUBSET Overdue :
        /\ MarkStale(stuck)
        /\ seen' = [i \in Ids |-> IF i \in Jobs /\ jobs'[i] # jobs[i]
                                  THEN seen[i] \cup {"stale"} ELSE seen[i]]
        /\ UNCHANGED <<at, current, previous, concluded, queueTimed, handled,
                       unannounced>>

CleanupOldData ==
    \E old \in SUBSET Expirable :
        /\ DeleteOld(old)
        /\ seen' = [i \in Ids |-> IF i \in old THEN {} ELSE seen[i]]
        /\ UNCHANGED <<at, current, previous, concluded, queueTimed, handled,
                       unannounced>>

HandlerStep(w) ==
    \/ ReadPrevious(w)
    \/ UpsertJob(w)
    \/ UpsertRun(w)
    \/ UpsertFails(w)
    \/ CountTransition(w)
    \/ Announce(w)

Next ==
    \/ \E w \in Workers : (\E d \in Deliveries : Receive(w, d))
                          \/ HandlerStep(w) \/ Return(w)
    \/ CleanupStaleJobs
    \/ CleanupOldData

Spec == Init /\ [][Next]_vars

-----------------------------------------------------------------------------
\* A row that only moves forward: it appears, it is deleted, or a
\* non-terminal status gives way to one of no lower priority.
Forward(priority, terminal, from, to) ==
    \/ to \in {from, Absent}
    \/ from = Absent
    \/ from \notin terminal /\ priority[to] >= priority[from]

\* A late or replayed event, a concurrent handler or the stale-job clean-up
\* never moves a row back in its lifecycle nor changes a terminal one: the
\* transition rules AddOrUpdateJob documents (workflow.go:40-58).
RowsMoveForward ==
    [][/\ \A j \in Jobs : Forward(JobStatusPriority, TerminalJobStatuses, jobs[j], jobs'[j])
       /\ \A r \in Runs : Forward(RunStatusPriority, TerminalRunStatuses, runs[r], runs'[r])]_vars

\* The row a set of acknowledged statuses leads to: one of them, and of the
\* highest priority among them.
Settles(priority, row, statuses) ==
    IF statuses = {} THEN row = Absent
    ELSE row \in statuses /\ \A s \in statuses : priority[s] =< priority[row]

\* Whatever order and interleaving the events of a job or run are handled in,
\* its row ends in the most advanced status it was sent: the writes are
\* order-independent (status_priority.go:10-12), no acknowledged event is lost
\* and none is undone.
RowsConverge ==
    /\ \A j \in Jobs : Settles(JobStatusPriority, jobs[j], seen[j])
    /\ \A r \in Runs : Settles(RunStatusPriority, runs[r], seen[r])

\* Worker w is about to record the transition of job j to completed.
Counting(w, j) == at[w] = "count" /\ Subject(w) = j /\ Incoming(w) = "completed"

\* All completed events of job j carry a conclusion, as GitHub sends them.
Concludes(j) ==
    \A d \in Deliveries :
        Event[d].id = j /\ Event[d].status = "completed" => Event[d].conclusion

\* The conclusion of a job is recorded exactly once, however often its
\* completed event is replayed and whichever goroutine handles it: as long as
\* the row is not deleted, a completed row whose handlers are through has been
\* counted once, any other row not at all (handleJobStatusTransition decides
\* by a status read outside the transaction that wrote the row).
ConclusionCountedOnce ==
    \A j \in Jobs \ Expirable : Concludes(j) =>
        concluded[j] = IF jobs[j] = "completed" /\ ~\E w \in Workers : Counting(w, j)
                       THEN 1 ELSE 0

\* A run row never changes without an announcement to the dashboard still to
\* come: SendWorkflowUpdate follows every upsert that changed the row.
RunChangesAnnounced ==
    \A r \in unannounced : \E w \in Workers : at[w] = "announce" /\ Subject(w) = r
=============================================================================
