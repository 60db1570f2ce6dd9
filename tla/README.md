# live-actions in TLA+

live-actions receives GitHub `workflow_job` and `workflow_run` webhooks, keeps
one row per job and run in SQLite, and shows them on a dashboard that is told of
changes by server-sent events. This directory holds TLA+ models of the server,
TLC configurations that check them on small instances, and TLAPS proofs for
instances of every size. Paths below are relative to `src/`.

## The system

| component | state | operations | what makes it hard |
|---|---|---|---|
| Status lifecycle `models/status_priority.go` | none | priorities, terminal statuses | three terminal statuses of equal priority |
| Typed tables `internal/database/workflow.go` | `workflow_jobs`, `workflow_runs` | `AddOrUpdateJob`, `AddOrUpdateRun`, `GetWorkflowJobByID`, `CleanupStaleJobs`, `CleanupOldData`, read queries | late and repeated events, clean-up between the steps of a handler |
| Event handlers `handlers/workflow_{job,run}_handler.go` | metrics counters | `HandleEvent` | run by two goroutines without a lock around their database calls |
| Ordering service `internal/services/event_ordering_service.go` | channel, spill buffer, context | `AddEvent`, ingest worker, flush worker, `Stop` | back-pressure, failing stores, replay, shutdown order |
| `webhook_events` `internal/database/event.go` | rows pending, processed, failed | `StoreWebhookEvents`, `GetPendingEvents*`, `MarkEvent*` | redelivery during a replay, failing marks, crash |
| Webhook handler `handlers/{webhook,event}_handler.go` | map of handlers | `Ingest`, `processOrderedEvent`, `Shutdown` | checks a delivery at one time and processes it at another |
| Cleanup service `internal/services/cleanup_service.go` | ticker | `performCleanup`, `Stop` | races the handlers; compares times of different formats as text |
| Server-sent events `handlers/sse_handler.go` | pending payload per type, subscribers, their buffers | `submit`, `flush`, `sendEventNow`, `subscribe`, `unsubscribe` | coalescing, slow clients, unsubscribe during a send |
| Relay subscriber `internal/services/ghws/subscriber.go` | hook, socket, backoff | `Run`, `runOnce`, hook create, activate, delete | failure between the steps, reconnection |
| Server `cmd/server/{server,shutdown}.go` | order of start and stop | `SetupAndRun`, `GracefulShutdown` | requests in flight while services stop |
| Metrics update `internal/services/metrics_update_service.go` | gauges, snapshots | `updateMetrics` | reads and publishes in separate steps |
| Database set-up `internal/database/db.go` | pools, schema version | `InitDB`, `RunMigrations` | a migration interrupted half-way |
| Read API, analytics, middleware, configuration, logging | none or per request | queries, checks | SQL, string handling |
| Frontend `frontend/src` | React state: buffered update, page, filter, rows shown | `useSSE`, `useThrottledLive`, loads of the table | lost connections, paused updates, answers out of order |

How they interact: an HTTP request or the relay calls `Ingest`, which checks the
payload and calls `AddEvent`. `AddEvent` puts the event into a buffered channel
and the delivery is answered 202. The ingest worker takes events from the
channel and calls `processOrderedEvent`, i.e. a handler, which reads and writes
the typed tables. An event whose handler fails is put into the spill buffer and
stored in `webhook_events`; the flush worker fetches such rows once they are old
enough, calls the same handlers and marks the row. The two workers, the clean-up
and the readers share the database: one connection writes, so every write
transaction is atomic and they are totally ordered, but a handler performs
several database calls with nothing held in between. A run handler announces
each change to the SSE handler. At shutdown `Stop` cancels the workers' context,
the ingest worker drains the channel, and the flush worker replays what is left.
The metrics service counts the jobs every few seconds, sets gauges and stores a
snapshot. The browser loads its table of runs when an update reaches it.

## What correctness means here

* Lifecycle: a row never moves back, a terminal row never changes, and the final
  row does not depend on the order, the number or the interleaving of the events.
* Side effects: a conclusion is counted once per job, a changed run row is
  announced.
* Custody: an event answered 202 reaches its row, or its loss is on record (it
  failed its replay, its spill could not be stored, the process died); nothing is
  forgotten silently, nothing is marked processed that was not handled, permanent
  failures are not retried.
* Updates: a connected client never sees an older update after a newer one, the
  last one is not forgotten, and a slow client does not hold up the others.
* Relay: GitHub keeps no active hook that nobody reads, the deletion of every
  hook with a URL is requested, and a delivery is acknowledged as accepted only if it was.
* Process: each migration is applied once whenever the process dies; a signal
  ends it, after everything the relay took is settled or kept for the next start,
  and with no goroutine of the server's own left to use the closed database.
* History: a snapshot is a demand there really was, retention deletes what its
  cutoffs say, gauges and peak come to agree with the jobs.
* Dashboard: an update announced to a connected browser gets onto the screen
  unless the connection breaks; on the way there it is never nowhere.
* Progress: no accepted event waits for ever; the relay subscriber comes back
  after an error and returns when it is cancelled.

`PROJECT.json` lists the hazards behind these properties with their lines.

## Modules

| module | models | extends / instantiates |
|---|---|---|
| `Lifecycle` | priority maps, terminal statuses, `Admits`, the rule of the upsert | |
| `WorkflowTables` | the two tables and their write transactions | `Lifecycle` |
| `WorkflowHandlers` | `HandleEvent` of both handlers, step by step, for any set of workers, and the clean-up | `WorkflowTables` |
| `DeliveryLedger` | abstract: custody and fate of a delivery | |
| `EventOrdering` | the ordering service with `webhook_events`, `Stop`, crash and restart | instantiates `DeliveryLedger` |
| `WebhookPipeline` | the service with the real handlers as its verdicts | instantiates `EventOrdering`, `WorkflowHandlers` |
| `SSE` | the SSE handler: coalescer, fan-out, one goroutine per client | |
| `RelaySubscriber` | `Run` and `runOnce` with the hook at GitHub and the connection | |
| `Ingest` | the checks of `Ingest` before `AddEvent` and those of `processOrderedEvent` after it | |
| `Server` | the process: migrations, start, the two transports, shutdown, death and restart | extends `Ingest`, instantiates `EventOrdering` |
| `Dashboard` | the table of runs in the browser, from the committed row to the screen | instantiates `SSE` |
| `MetricsHistory` | metrics update and clean-up service over hours and days, times as text | `Lifecycle` |
| `SSEProofs` | theorems about `SSE` | `SSE`, `TLAPS` |
| `RelaySubscriberProofs` | theorems about `RelaySubscriber` | `RelaySubscriber`, `TLAPS` |
| `WorkflowHandlersProofs` | theorems about `WorkflowHandlers` | `WorkflowHandlers`, `TLAPS` |
| `EventOrderingProofs` | theorems about `EventOrdering`, its refinement of `DeliveryLedger` | `EventOrdering`, `TLAPS` |
| `MetricsHistoryProofs` | theorems about `MetricsHistory`, lemmas about times as text | `MetricsHistory`, `TLAPS` |
| `ServerProofs` | theorems about `Server` | `Server`, `TLAPS`, instantiates `EventOrderingProofs` |
| `WebhookPipelineProofs` | theorems about `WebhookPipeline` | `WebhookPipeline`, `TLAPS`, instantiates `EventOrderingProofs`, `WorkflowHandlersProofs` |
| `DashboardProofs` | theorems about `Dashboard` | `Dashboard`, `TLAPS`, instantiates `SSEProofs` |
| `MC...` | payloads and the replay order for TLC | the module named |

### WorkflowTables and WorkflowHandlers

A row is its status or `Absent`. A write transaction is one action, because the
write pool has one connection (`db.go`, `SetMaxOpenConns(1)`). The clock is not
modelled: `Overdue` and `Expirable` name the rows whose `created_at` may pass a
cutoff, and a clean-up takes any subset of them.

A worker walks through `HandleEvent`: `Receive` (unknown actions are acknowledged
at once), `ReadPrevious` (jobs only; an error leaves the zero value),
`UpsertJob`/`UpsertRun`, then `CountTransition` (metrics, under the handler's
mutex, hence one step) or `Announce`, then `Return` with the verdict. Any
interleaving of the workers and of the two clean-up statements is possible
between these steps. `UpsertFails` stands for the error returns of the
transaction, all of which roll back.

`seen` and `unannounced` are history variables: the statuses the database
acknowledged for a row (written or rightly refused), and the runs whose row
changed since the last `SendWorkflowUpdate`.

### EventOrdering and DeliveryLedger

`AddEvent` has its fast path, its blocked caller and the two ways out of it
(a slot in the channel; timeout or cancelled context). The ingest worker is at
`select`, `process`, `store` (a full buffer or the ticker), `storeLast` or
`done`; the flush worker at `select`, `replay`, `handle`, `markProcessed`,
`markFailed`, `fetchAll` or `done`. Go's `select` picks any ready case, so an
expired ticker or a received event may still win after `Stop`. `flushSpill` uses
the context of its caller: `SpillContextOK` says when a store can succeed. The last
store and the final flush have deadlines of their own (5 s and 30 s); a deadline that
passes is the fault `deadline`, chosen call by call, so that a later call may succeed
again: more than the code can do, never less. The history variable `cutShort` says that
a query, a mark or the deadline of the final flush failed.
`Crash` loses the memory and keeps the table. Duplicates are modelled by calling
`AddEvent` again for a delivery; the table is keyed by delivery id.

A row is `pending` and becomes `ripe` when it is older than `maxAge`
(`RowRipens`). The replay order of the queries is the constant `Rank`. The
bounds `maxDrainIterations` and `drainBudget` only decide whether the worker
returns to its `select` before the next fetch, which is the same state here.

The history variable `fate` records how a delivery was settled; a delivery that
was handled stays handled. `DeliveryLedger` keeps only custody and fate:
`memory` is the channel, the event in process and the spill buffer, `stored` the
pending rows.

### WebhookPipeline

The two workers of `EventOrdering` are the `Workers` of `WorkflowHandlers`. A
worker that holds an event steps through the handler, and the handler's verdict
selects `IngestHandled` or `IngestSpills`, `FlushHandled` or `FlushHandlerFails`.
`Permanent` is empty in this composition: `Ingest` and `processOrderedEvent` look the
handler up in the same map and decode the body into the same struct, so what was
queued is not refused for good (see `Ingest` below; this is read off the code, not
derived). In `EventOrdering` alone `Permanent` is kept, since the service is generic in
its `processFunc`.

### SSE

Payloads are numbered per type in the order they are submitted (`latest`).
`Submit` is `SendEventCoalesced` under its lock; `Flush` is a tick that swaps the
map of pending payloads; `Broadcast` and `Send` are `sendEventNow`, which takes a
snapshot of the subscribers under a read lock (`audience`) and then sends to one
channel after the other with no lock held. So a client may subscribe, be written
to, break off or unsubscribe between any two sends. A send never waits: the
channel takes the event or the event is dropped for this client (`dropped`, a
history variable, with `since`). `Write` is the client's goroutine. A connection
is `broken` when the client is gone or the server's `WriteTimeout` has passed;
until the goroutine sees its cancelled context it may still take events, which
are lost. `SendEvent` and `stop` have no caller in the server and are left out,
as are the keep-alive pings. A reconnecting browser is a new client.

### RelaySubscriber

`at` is where `Run` or `runOnce` stands: `check`, `create`, `dial`, `activate`,
`read`, `ingest`, `ack`, `delete`, `decide`, `wait`, `returned`. Every call may
fail by itself (counted by `faults`) or because the context is cancelled
(`ctxDone`). A request that fails may still have had its effect at GitHub: a hook
may exist whose creation was answered badly or not at all (`answer`), or be
active although the subscriber saw an error. `createHook` asks for a `ws_url` only: a
hook answered without a `url` is dialled, its activation fails, and `deleteHook`
returns without a request; `HooksTidied` speaks of hooks that came with both. `Leave` is a return from `runOnce`
once a hook is held: the deferred calls close the socket, then `DeleteHook` asks
for its deletion under a context of its own and ignores the result. A connection
ends by a clean close, which ends `Run` with no error, or breaks and may lose
what is on the wire. `CloseOnCancel` is the goroutine that wakes a blocked read.
GitHub and the relay are external: they push deliveries to an active, connected
hook and push again what was not acknowledged as accepted.

### Ingest and Server

A delivery is abstracted to what the checks of `Ingest` tell apart: its event
type, whether it has an id, how its body is wrapped, and whether the body decodes
into the struct of its type. `Malformed`, `Ignored` and `Queued` are its ways out
(400, 200, `AddEvent`); `Unhandled` is the lookup of `processOrderedEvent`, in the same
map. That the second decode of a body gives what the first gave is built in: the
payload is a constant.

`main` walks through `SetupAndRun`: version of the schema, a transaction per
migration (`Apply`, `Record`, `Commit`), start of the goroutines, listening, and
from the signal on `wsCancel`, `<-wsDone`, `webhookHandler.Shutdown`,
`cleanupService.Stop`, `metricsService.Stop` and the deferred `Close`, each as a
call and a wait where the code has both. `signal` is the goroutine of
`GracefulShutdown`: it sends its token before it calls `Shutdown`, so `Wait` can
return while requests are in flight. `Request` and `Receive` begin a call of
`Ingest` from HTTP and from the relay, whose frames come one at a time and, since
`runOnce` does not look at its context between two reads, also after `wsCancel`, until
the other goroutine has closed the connection. `Die` is
the end of the process at any point, by `os.Exit(1)` or a kill; nothing deferred
runs. `EventOrdering` is the ordering service; every end of the process is its
`Crash`. `taken` is a history variable.

### Dashboard

`committed` numbers the contents of `workflow_runs`. `CommitRun` and `Announce` are
the two steps of the run handler, `Coalesce`, `Connect`, `Notice` and `Disconnect`
those of `SSE` with one type of event, a client of which is one of the browser's
connections. `buffered` says that `useThrottledLive` holds a value it has not
committed; `Tick` and `LetGo` commit it, which loads the page again. A load is
asked, read by the server or failed, and arrives; answers may arrive in any order
and the last is shown. `ChoosePage` and `ChooseFilter` load as well, the latter into
a new table that ignores the old one's answers. The interval runs every 30s; a load
that would be the third in flight waits for a slot, which is a bound of the model.

### MetricsHistory

Time goes in hours. A time in the database is a text, and `<`
compares texts, so a time is the triple of its date, its separator (a space sorts
before a `T`) and its hour: `DateTime` is `datetime('now')`, `RFC3339` is GitHub's
`created_at`, `Local` is the local time of the server. The two services step through
`updateMetrics` and `performCleanup`, and each statement may fail. The gauges of the
counts are set one after the other (`SetRunning`, `SetQueued`), those of the labels are
reset and set label by label (`ResetLabels`, `SetLabel`), so a scrape in between sees a
pair of counts there never was or misses a label. `demands` is a history variable: the counts there ever were. Rows of `workflow_runs` and
`webhook_events`, deleted in the same transaction with the same cutoff, are left out.

## Runs

| run | instance | shows |
|---|---|---|
| `handlers` | a job and a run, every kind of event, a second completed event and an unknown action, two workers, faults, stale marking of the job, retention of the run | `TypeOK`, `RowsConverge`, `ConclusionCountedOnce`, `RunChangesAnnounced`, `RowsMoveForward` |
| `ordering` | three deliveries (one permanent) sent up to twice, channel and batches of 2, two faults, passed deadlines, `Stop`, one crash | `TypeOK`, `NothingForgotten`, `ProcessedWasHandled`, `PermanentNotRetried`, and the refinement `LedgerSpec` |
| `pipeline` | a job's in_progress and completed events, three faults and passed deadlines, stale marking, `Stop`, one crash, with fairness | `HandledIsReflected`, `AcceptedAccounted`, `AcceptedIsReflected` |
| `server` | a delivery that is queued and one answered at once, each sent up to twice by both transports, two failing calls of any kind or passed deadlines, two migrations, two lives of the process, with fairness | `TypeOK`, `MigratedOnce`, `ClosedDBIsUnused`, `RelayedIsKept`, `RelayedIsSettled`, `SignalEnds` |
| `dashboard` | a connection with a buffer of one, two changes, two pages, two loads in flight, a failing one, two acts of the user, with fairness | `TypeOK`, `ChangeNotLost`, `UpdateReachesTable` |
| `history` | a job whose events come again after its deletion, five hours, a server one hour ahead of UTC, a failing statement, with fairness | `TypeOK`, `DemandWasReal`, `RetentionWindow`, `GaugesConverge`, `PeakIsUpToDate` |
| `sse` | two types with two updates and one, buffers of two, a client whose connection takes events and one that need not | `TypeOK`, `NewestLast`, `LastNotMissed`, `UpdatesArrive` |
| `relay` | two deliveries, three faults, four hooks, cancellation at any point, with fairness | `TypeOK`, `ActiveIsConnected`, `HooksTidied`, `AckedWasIngested`, `ComesBack`, `CancelReturns` |
| `stop_drops` | violation of `NothingDropped` | finding 1 |
| `server_late_accept` | violation of `NothingAcceptedAfterDrain` | finding 2 |
| `relay_hooks` | violation of `PreviousHookDeleted` | finding 3 |
| `dashboard_stale` | violation of `TableCatchesUp` | finding 4 |

Bounds. `MaxHandled` (calls of a handler per event), `MaxOffers` (times a delivery
is sent), `MaxFaults` (failing calls) and `MaxCrashes` are counters in guards; the
code has no such limits. Two workers are all there are. Two sends of a delivery are
enough for a copy in every place while another one is replayed; three deliveries
fill a channel of two with one event in process; batches of two give both a partial
and a full batch. Two faults let an event fail in the ingest worker and again in the
replay, its mark or its store. One job suffices for the rows, since no operation but
the clean-up touches two rows. Two updates of a type are one to be replaced in the
coalescer or to overtake, the update of the other type makes a flush broadcast
twice, and together they overflow a buffer of two. Three faults let `runOnce` fail
three times at places of TLC's choice, or one call, a connection and a deletion; a
hook more than that is created by the last `runOnce`. Two lives let the process die
in a migration and start again; two migrations give a first, a next and a last one.
There, two failures let a delivery fail in the ingest worker, so that it is spilled,
and the final flush fail as well. A buffer of one overflows at the second change,
two acts of the user hold the table and replace it, and two loads can arrive in
either order. Two days of two hours show a date and an hour pass; a snapshot of the
first day is deleted while one of the same hour in the second is not, and a
retention of three hours, one hour ahead of UTC, is the least that leaves the newest
snapshot alone. With the bounds used up a behaviour may end, so the configurations
switch the deadlock check off; the server itself idles in the same states. Where the
end matters, `SignalEnds` and `AcceptedIsReflected` check it.

Fairness. Each worker is a goroutine that is always scheduled again, hence weak
fairness of its next step; pending rows grow old, hence weak fairness of
`RowRipens`. Weak fairness of a worker's step as a whole does not say that its
`select` ever takes the ticker while the channel is kept non-empty; finitely many
events are sent, so the channel runs empty. The coalescer's goroutine has a
ticker and never waits for a client, hence weak fairness of its steps; only the
clients in `Fast` are assumed to take what is written, so `UpdatesArrive` holds
with another client that takes nothing. `Run` and the goroutine that closes its
connection are scheduled, and its HTTP calls end by their timeouts, hence weak
fairness of both. In `Server` every goroutine and every wait with a bound of its own
is scheduled. The relay may read a frame after it was cancelled instead of finding its
connection closed, but frames are finitely many and `conn.Close` is under way: strong
fairness of its end. So it is with a cancelled periodic service, whose `select` may
take a tick although the context is done, but ticks are seconds
apart and it does not do so for ever. In `Dashboard` the browser's timers fire, requests are
answered and it connects again; of the user it is assumed only that the table is let
go. In `MetricsHistory` both services tick. `GaugesConverge` and `PeakIsUpToDate` need
that jobs stop changing, which the bounds see to. Nothing is assumed of callers, faults,
`Stop`, crashes, broken connections, cancellation or the other side of a connection.

### Findings

1. `stop_drops`: after `Stop` cancelled the context, the ingest worker may still
   take the ticker case (`event_ordering_service.go:255`) or fill its buffer
   (`:253`) before it sees `ctx.Done`. `flushSpill(s.ctx)` then fails and the
   events are dropped, although `Stop` documents that none are lost (`:115-118`).
2. `server_late_accept`: the fast path of `AddEvent` (`:131`) does not look at the
   context, so deliveries are accepted after the ingest worker has exited; the
   comment (`:124-128`) promises an error. HTTP requests may be in flight then:
   `GracefulShutdown.Wait` returns when the shutdown begins (`shutdown.go:68`). What
   the relay takes is safe, since `main` waits for it first: `RelayedIsSettled` and
   `RelayedIsKept`.
3. `relay_hooks`: `createHook` rejects an answer without `ws_url`
   (`ghws/subscriber.go:363`) after GitHub created the hook, and `runOnce` returns
   before it defers the deletion. Each retry leaves one more hook behind, where
   `Run` says that the previous hook is deleted (`:170-171`). A lost answer leaves
   a hook behind as well, but there the subscriber has no URL to delete; it is not
   part of the finding.
4. `dashboard_stale`: a run changes while the browser is not connected, which
   `WriteTimeout` makes it every 30s. Connected again, `useSSE` loads nothing, and
   nothing polls the table (`WorkflowTable.tsx:192`, `App.tsx:106-109`), although the
   SSE handler says that clients "will catch up on the next REST poll"
   (`sse_handler.go:179-180`) and the README that no refresh is needed. The same
   happens after a load that failed, and an older answer that arrives last stays.

The properties above hold with these four behaviours in the model.

Seen while modelling, without a run:

* The previous status of a job is read outside the write transaction
  (`workflow_job_handler.go:60`): both workers may read `queued` and both record a queue
  time, one of them for a transition from `in_progress` (`:133`). `queueTimed` in
  `WorkflowHandlers` counts them.
* The cutoff of the retention is local RFC3339 while `metrics_snapshots.timestamp` is UTC
  with a space (`workflow.go:359,403`). Snapshots go with their whole date, up to a day
  early (`RetentionWindow`). With `DATA_RETENTION_DAYS=1` in a zone ahead of UTC the
  newest snapshots can go too; `history` with `Retention = 2` violates `PeakIsUpToDate`,
  which needs `Retention > Day + Offset`.
* A scrape between the two `Set` calls of `UpdateCurrentJobCounts`
  (`pkg/metrics/metrics.go:122-123`) sees the new count of running and the old one of
  queued jobs, and one between `ResetJobsByLabel` and the last label misses labels.
* The backoff of the relay is never reset (`ghws/subscriber.go:199`), and a hook that
  GitHub answers with a `ws_url` but no `url` is never deleted (`:392`).
* `CleanupStaleJobs` writes `CURRENT_TIMESTAMP`, a format `parseTime` does not know
  (`workflow.go:423,461`): the completion time of a stale job reads as zero.
* `SendMetricsUpdate` (`sse_handler.go:273`) has no caller: the live counters of the
  dashboard are fed by the 30s poll only.

## Proofs

Every invariant, every safety action property and the refinement that a passing run
checks is also proved, for all values of the constants. The hypotheses are the named
assumptions of the modules (`TablesAssumption`, `HandlersAssumption`,
`OrderingAssumption`, `SSEAssumption`, ...), which TLC evaluates on the instances. They
say that payloads are events, ids of jobs and runs disjoint, buffers and batches of the
sizes a Go program can give them, deliveries and jobs finitely many. The bounds of the
models (`MaxFaults`, `MaxOffers`, ...) are any natural numbers.

The argument has the same form throughout: an inductive invariant, checked by TLC on the
run of the component before it was proved; one lemma per group of actions; a last step
that combines them. What each had to add to its property says why the code works.

### Components

`WorkflowHandlersProofs`, for every number of jobs, runs, events and workers and any
`Expirable`, `Overdue` and faults:

* `TypeCorrect`: `Spec => []TypeOK`. `TypeOK` alone is not inductive: `UpsertJob`
  writes the incoming status, which fits the table only because unknown actions
  were turned away in `Receive`. `Control` says that of every place of a worker;
  `TypeInv == TypeOK /\ Control` is inductive.
* `OrderIndependence`: `Spec => []RowsConverge`. A row is the maximum of the
  statuses acknowledged for it. `JobUpsertSettles` and `RunUpsertSettles` prove
  it for one transaction (adding a status to the set and applying `Admits`
  commute), and the invariant adds `RunsSeen`, that runs are only sent run statuses.
* `LifecycleMonotone`: `Spec => RowsMoveForward`, the action property, from `TypeInv`.
* `ConclusionOnce`: `Spec => []ConclusionCountedOnce`. The strengthening `CountInv`
  explains why the unprotected read does no harm here: the worker about to count
  is the one that made the row completed, there is only one, and what it read
  before cannot have been `completed`, since completed rows stay completed.
* `Announced`: `Spec => []RunChangesAnnounced`.
* `Acknowledged` with `SeenGrows` and `StepAcknowledges`, for the pipeline below: a
  worker that is about to return success has had its status acknowledged, and no
  acknowledged status is forgotten.

`SSEProofs`, for any types, clients, buffer sizes and numbers of updates:
`SSETypeCorrect`, `UpdatesInOrder` (`[]NewestLast`) and `LastUpdateKept`
(`[]LastNotMissed`). Neither of the last two is inductive by itself: that an appended
event is newer than the channel's last needs to know where payloads are between the
coalescer and the channel. `Order` says it: for each type, what a client was sent is
older than the event being broadcast, that older than the batch, that older than the
pending payload (`Queue`, `Line`). It rests on `flush` and `sendEventNow` running in one
goroutine. `LastNotMissed` needs both: what a write or a drop overwrites is never
the newest. `SentSend` and `SentWrite` say how a step changes what a client was sent.

`RelaySubscriberProofs`, for any hooks, deliveries, backoff and number of failures:
`RelayTypeCorrect`, `NoDeafHook` (`[]ActiveIsConnected`), `NoHookLeftBehind`
(`[]HooksTidied`) and `AcksAreTrue` (`[]AckedWasIngested`). The strengthening `Control`
says which places hold a hook, have a socket, hold a frame, and that the hook is
inactive until it is connected.

`EventOrderingProofs`, for any deliveries, of which any are permanently refused, any
sizes and any failing calls:

* `OrderingTypeCorrect`: the bound of the spill buffer needs `IngestControl`, that the
  buffer is below its limit wherever an event may be added.
* `NoSilentLoss` (`[]NothingForgotten`), `ProcessedMeansHandled`
  (`[]ProcessedWasHandled`) and `PermanentIsFinal` (`[]PermanentNotRetried`) from
  `OrderingInvariant`. `FlushControl` is what they lack: rows in the hands of the flush
  worker are pending, are there once, and one about to be marked processed was handled.
  It survives the redelivery that resets such a row, because `StoreWebhookEvents` makes
  the row pending, never anything else.
* `ImplementsLedger`: `Spec => LedgerSpec`. Every action maps to one step of the ledger
  or to none; `Crash` maps to the step that loses a whole memory at once.
* `OnlyAccepted`: what is held, stored or settled was accepted before.
* `StopDrains`: when the flush worker has exited, the spill buffer is empty, and so are
  the pending rows unless the final flush was `cutShort`. `StopControl` is the order in
  which the workers end, whatever fails, and `LastPass` the argument for the final loop: a
  batch that is not full was everything, and nobody adds a row any more. That the query
  returns all rows if there are fewer than its limit needs the well-founded order of
  finite sets. The condition is part of the statement because it is needed: a failing
  fetch or a passed deadline ends the final flush, a failing mark leaves the row pending.
  Whatever failed before it does not matter: what a failing *store* drops is on record.

`MetricsHistoryProofs`, for any jobs, labels, length of the day, zone, retention and
threshold:

* `HistoryTypeCorrect`, with the cardinalities of the counts.
* `DemandsAreReal` (`[]DemandWasReal`, of snapshots) from `DemandInv`: the counts of now
  and those that `updateMetrics` still holds are among the demands there were.
* `RetentionIsWindowed`: `Spec => RetentionWindow`. It rests on three lemmas about `<` on
  texts: of one format it is the order of times (`BeforeSameFormat`); of the two formats
  it errs by less than a day in one direction (`BeforeIsWithinADay`) and not at all in the
  other (`NotBeforeIsYounger`).

### Compositions

A composition instantiates the *proofs* of its parts. Its module has an instance of the
component (`O!` in `Server`, `P!` and `H!` in `WebhookPipeline`, `S!` in `Dashboard`), its
proof module one of the component's proof module with the same substitution (`OP!`, `HP!`,
`SP!`); the `Same...` lemmas say that both have the same initial states and steps, and
`OrderingConstants`, `HandlerConstants` and `SSEConstants` that the constants fit, from
`ServerOrderingAssumption`, `PipelineAssumption` and `DashboardSSEAssumption`.

`ServerProofs`, for any payloads, migrations and lives:

* `ServerRunsOrdering`: `Spec => O!Spec`. The server is an implementation of the ordering
  service's specification: each step is one of its steps or leaves it alone, and every end
  of the process is its `Crash`. `ServerOrdering` draws the consequence.
* `MigrationsAreAtomic` (`[]MigratedOnce`): `MigrationControl` says that a transaction is
  open only while migrating, and that the version held in memory is that of the schema.
  `VersionRead` is the read of the maximum after a restart.
* `ServerTypeCorrect`, `DatabaseClosedLast` (`[]ClosedDBIsUnused`, from `ShutdownOrder`:
  which waits of `main` have been passed implies who has ended).
* `RelayKept` (`[]RelayedIsKept`), without any condition, and `RelaySettled`
  (`[]RelayedIsSettled`), whose antecedent is that the final flush was not `cutShort`.
  `RelayControl` adds why neither the late acceptance of finding 2 nor the frames read
  after `wsCancel` disturb it: the workers' context is cancelled only after the relay has
  ended, so what it put into the channel is there before the drain.

`WebhookPipelineProofs`, for any events, workers' interleavings, failing calls and crashes:

* `PipelineRunsOrdering`: `Spec => P!Spec`, the ordering service with the handlers' verdicts.
* `PipelineConverges`: `Spec => []H!RowsConverge`. The handlers' own specification has no
  crash; `CrashKeepsHandlers` proves that their invariant survives it.
* `HandledStaysReflected` (`[]HandledIsReflected`) from `Handing` (a worker is in a handler
  only for the event it holds) and `HandledWasSent` (an event that counts as handled had its
  status acknowledged), with `Acknowledged` and `OrderIndependence` of the handlers.
* `EveryEventAccounted` (`[]AcceptedAccounted`) from that, `NothingForgotten` of the service
  and that no event is permanent.

`DashboardProofs`, for any connections, pages, buffers and requests in flight:
`DashboardTypeCorrect`, and `NoChangeLost` (`[]ChangeNotLost`): where an announced change is
at every moment before it is on the screen. It is the safety part of `UpdateReachesTable` and
follows from `LastUpdateKept` of `SSE` where the channel is concerned, and from
`AnnouncedIsCommitted`: the handler announces only what it committed, so a load that is
still to be read will see it.

### Only model-checked

Liveness under fairness, which is outside the prover's reach, as is ENABLED:
`AcceptedIsReflected`, `SignalEnds`, `UpdateReachesTable`, `GaugesConverge`,
`PeakIsUpToDate`, `UpdatesArrive`, `ComesBack` and `CancelReturns`. The four properties of
the findings are false of the code and are refuted by TLC.

## Not modelled

The analytics queries, middleware, configuration and logging keep no state between
requests or have no effect on it; of the read queries, the page of runs is one step
that may fail and the peak and the counts are evaluated, the averages are not. The
signature check refuses a request before any state changes. `EventOrdering` and
`WorkflowHandlers` have no clock: a clean-up or a replay picks any rows its cutoff might
reach; what the cutoffs reach is in `MetricsHistory`. HTTP reads in flight when the
database is closed get an error, which nobody sees; they are not part of
`ClosedDBIsUnused`. A port that cannot be opened ends the process (`Die`). In the
browser the metrics cards, charts, analytics pages and expanded rows are left out.
`StoreWebhookEvent` has no caller in the server.

## Plan

Done, in this order: `Lifecycle`, `WorkflowTables`, `WorkflowHandlers`, its proofs,
`DeliveryLedger`, `EventOrdering`, `WebhookPipeline`, `SSE` and `RelaySubscriber`
with their proofs, `Ingest`, `Server`, `Dashboard`, `MetricsHistory`, then the proofs of
`EventOrdering`, `MetricsHistory`, `Server`, `WebhookPipeline` and `Dashboard`.

Next, by importance:

1. The stronger statements that only the liveness runs touch: an invariant of
   `MetricsHistory` that gives `PeakIsUpToDate` its safety part, as `ChangeNotLost` does
   for `UpdateReachesTable`.
2. `WebhookPipeline` as an implementation of `DeliveryLedger`, and the ledger's own
   invariants, so that the abstract specification stands by itself.
3. What `RelaySubscriber` promises as an abstract specification of one hook's life.
