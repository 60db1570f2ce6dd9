-------------------------------- MODULE Server --------------------------------
(***************************************************************************)
(* The life of the server process (cmd/server/server.go, shutdown.go): the *)
(* migrations of InitDB, the start of the services, the two transports     *)
(* that call Ingest, and the shutdown that a signal begins and main        *)
(* carries out while HTTP requests may still be in flight.  The process    *)
(* may die at any point and is started again.                              *)
(*                                                                         *)
(* The ordering service is EventOrdering; the relay subscriber and the two *)
(* periodic services are reduced to their loops.                           *)
(***************************************************************************)
EXTENDS Naturals, Sequences, FiniteSets, Ingest

CONSTANTS
    Deliveries, Rank, ChannelSize, IngestBatch, FlushBatch, FinalBatch, Faults,
    MaxFaults, MaxOffers,
    Payload,      \* Payload[d]: the delivery as Ingest sees it
    WebSocket,    \* BOOLEAN: WEBHOOK_TRANSPORT is websocket
    Migrations,   \* number of migration files
    MaxLives      \* bound: how many times the process is started

ASSUME ServerAssumption ==
    /\ Payload \in [Deliveries -> Payloads]
    /\ WebSocket \in BOOLEAN
    /\ Migrations \in Nat /\ MaxLives \in Nat

VARIABLES
    main,       \* where SetupAndRun is
    current,    \* currentVersion, then the version last applied
    tx,         \* the statements of the open migration transaction
    schema,     \* committed: the migrations applied, in order
    versions,   \* committed: schema_migrations
    dbOpen,     \* writeDB and readDB are open
    signal,     \* the signal handler of GracefulShutdown
    relay,      \* the goroutine of the relay subscriber
    service,    \* service[s]: the goroutine of a periodic service
    cancelled,  \* the services whose context is cancelled
    call,       \* call[d]: the goroutine that is in Ingest with d
    taken,      \* history: taken[d], which transport d was accepted from
    caller, ctxDone, ingestCh, ingestAt, ingestEv, draining, spill, table, flushAt,
    batch, flushEv, fullBatch, final, accepted, fate, cutShort, offers,
    faults, crashes

migrationVars == <<current, tx, schema, versions>>
serviceVars == <<service, cancelled>>
callVars == <<call, taken>>
orderingVars == <<caller, ctxDone, ingestCh, ingestAt, ingestEv, draining, spill, table,
                  flushAt, batch, flushEv, fullBatch, final, accepted, fate,
                  cutShort, offers, faults, crashes>>
vars == <<main, migrationVars, dbOpen, signal, relay, serviceVars, callVars, orderingVars>>

\* Every end of the process is a Crash of the ordering service: memory is gone.
O == INSTANCE EventOrdering WITH
        Permanent <- {d \in Deliveries : Unhandled(Payload[d])},
        MayStop <- TRUE,
        MaxCrashes <- MaxLives

ASSUME ServerOrderingAssumption == O!OrderingAssumption

Services == {"cleanup", "metrics"}

\* From NewWebhookHandler to the end of main the goroutines run.
Running == main \in {"listen", "serve", "wait", "joinRelay", "stopOrdering", "joinOrdering",
                     "stopCleanup", "stopMetrics", "close", "exit"}

TypeOK ==
    /\ main \in {"down", "readVersion", "migrate"}
         \/ Running
    /\ current \in 0 .. Migrations
    /\ tx \in {<<>>, <<"apply">>, <<"apply", "record">>}
    /\ schema \in Seq(1 .. Migrations) /\ versions \subseteq 1 .. Migrations
    /\ dbOpen \in BOOLEAN
    /\ signal \in {"default", "armed", "token", "shutdown"}
    /\ relay \in {"off", "running", "cancelled", "ended"}
    /\ service \in [Services -> {"off", "working", "waiting", "ended"}]
    /\ cancelled \subseteq Services
    /\ call \in [Deliveries -> {"none", "http", "relay"}]
    /\ taken \in [Deliveries -> {"none", "http", "relay"}]
    /\ O!TypeOK

\* No process, and a database file without any table.
Init ==
    /\ main = "down"
    /\ current = 0 /\ tx = <<>> /\ schema = <<>> /\ versions = {}
    /\ dbOpen = FALSE
    /\ signal = "default" /\ relay = "off"
    /\ service = [s \in Services |-> "off"] /\ cancelled = {}
    /\ call = [d \in Deliveries |-> "none"]
    /\ taken = [d \in Deliveries |-> "none"]
    /\ O!Init
-----------------------------------------------------------------------------
(* The end of the process, whatever its cause, and its next start.         *)

ProcessEnds ==
    /\ O!Crash
    /\ main' = "down"
    /\ current' = 0 /\ tx' = <<>>
    /\ dbOpen' = FALSE
    /\ signal' = "default" /\ relay' = "off"
    /\ service' = [s \in Services |-> "off"] /\ cancelled' = {}
    /\ call' = [d \in Deliveries |-> "none"]
    /\ UNCHANGED <<schema, versions, taken>>

\* The process is killed, by a signal before Notify among others, or calls
\* os.Exit(1): InitDB returned an error, whose transaction is rolled back, or
\* ListenAndServe failed.  None of the code after it runs, deferred or not.
Die ==
    /\ main \notin {"down", "exit"}
    /\ ProcessEnds

\* InitDB opens the two pools; then RunMigrations reads the version once.
Start ==
    /\ main = "down"
    /\ crashes < MaxLives
    /\ dbOpen' = TRUE
    /\ main' = "readVersion"
    /\ UNCHANGED <<migrationVars, signal, relay, serviceVars, callVars, orderingVars>>

ReadVersion ==
    /\ main = "readVersion"
    /\ current' \in versions \cup {0}
    /\ \A v \in versions : v =< current'
    /\ main' = "migrate"
    /\ UNCHANGED <<tx, schema, versions, dbOpen, signal, relay, serviceVars, callVars,
                   orderingVars>>

-----------------------------------------------------------------------------
(* RunMigrations: each file above the version read runs in a transaction.  *)

\* Mutant of Apply: the file is executed outside the transaction.
ApplyAtOnce ==
    /\ main = "migrate" /\ tx = <<>>
    /\ current < Migrations
    /\ tx' = <<"apply">>
    /\ schema' = Append(schema, current + 1)
    /\ UNCHANGED <<main, current, versions, dbOpen, signal, relay, serviceVars, callVars,
                   orderingVars>>

\* Begin, and Exec of the file ...
Apply ==
    /\ main = "migrate" /\ tx = <<>>
    /\ current < Migrations
    /\ tx' = <<"apply">>
    /\ UNCHANGED <<main, current, schema, versions, dbOpen, signal, relay, serviceVars,
                   callVars, orderingVars>>

\* ... INSERT INTO schema_migrations ...
Record ==
    /\ main = "migrate" /\ tx = <<"apply">>
    /\ tx' = Append(tx, "record")
    /\ UNCHANGED <<main, current, schema, versions, dbOpen, signal, relay, serviceVars,
                   callVars, orderingVars>>

\* ... and Commit; the loop goes on with the next file.
Commit ==
    /\ main = "migrate" /\ tx = <<"apply", "record">>
    /\ schema' = Append(schema, current + 1)
    /\ versions' = versions \cup {current + 1}
    /\ current' = current + 1
    /\ tx' = <<>>
    /\ UNCHANGED <<main, dbOpen, signal, relay, serviceVars, callVars, orderingVars>>

-----------------------------------------------------------------------------
(* main *)

\* From NewWebhookHandler, which starts the two workers, to the goroutines of
\* the periodic services and of the relay.  Without the relay wsDone is closed.
Launch ==
    /\ main = "migrate" /\ tx = <<>>
    /\ current = Migrations
    /\ service' = [s \in Services |-> "working"]
    /\ relay' = IF WebSocket THEN "running" ELSE "ended"
    /\ main' = "listen"
    /\ UNCHANGED <<migrationVars, dbOpen, signal, cancelled, callVars, orderingVars>>

\* ListenAndServe opens the port; once Shutdown was called it returns
\* ErrServerClosed, also when it has not begun to listen.
Serve ==
    /\ main = "listen" /\ signal # "shutdown"
    /\ main' = "serve"
    /\ UNCHANGED <<migrationVars, dbOpen, signal, relay, serviceVars, callVars, orderingVars>>

ServerClosed ==
    /\ main \in {"listen", "serve"} /\ signal = "shutdown"
    /\ main' = "wait"
    /\ UNCHANGED <<migrationVars, dbOpen, signal, relay, serviceVars, callVars, orderingVars>>

\* Mutant of CancelRelay: wsCancel is not called.
CancelRelayForgotten ==
    /\ main = "wait" /\ signal \in {"token", "shutdown"}
    /\ main' = "joinRelay"
    /\ UNCHANGED <<migrationVars, dbOpen, signal, relay, serviceVars, callVars, orderingVars>>

\* Wait takes the token, which was sent before Shutdown was called, and does
\* not wait for Shutdown to return; then wsCancel.
CancelRelay ==
    /\ main = "wait" /\ signal \in {"token", "shutdown"}
    /\ relay' = IF relay = "running" THEN "cancelled" ELSE relay
    /\ main' = "joinRelay"
    /\ UNCHANGED <<migrationVars, dbOpen, signal, serviceVars, callVars, orderingVars>>

\* Mutant of JoinRelay: main does not wait for wsDone.
JoinRelayAtOnce ==
    /\ main = "joinRelay"
    /\ main' = "stopOrdering"
    /\ UNCHANGED <<migrationVars, dbOpen, signal, relay, serviceVars, callVars, orderingVars>>

\* <-wsDone
JoinRelay ==
    /\ main = "joinRelay" /\ relay = "ended"
    /\ main' = "stopOrdering"
    /\ UNCHANGED <<migrationVars, dbOpen, signal, relay, serviceVars, callVars, orderingVars>>

\* webhookHandler.Shutdown: Stop cancels the context of the two workers ...
StopOrdering ==
    /\ main = "stopOrdering"
    /\ O!Stop
    /\ main' = "joinOrdering"
    /\ UNCHANGED <<migrationVars, dbOpen, signal, relay, serviceVars, callVars>>

\* ... and waits for both; then cleanupService.Stop cancels ...
JoinOrdering ==
    /\ main = "joinOrdering"
    /\ ingestAt = "done" /\ flushAt = "done"
    /\ cancelled' = cancelled \cup {"cleanup"}
    /\ main' = "stopCleanup"
    /\ UNCHANGED <<migrationVars, dbOpen, signal, relay, service, callVars, orderingVars>>

\* ... and waits; then metricsService.Stop cancels ...
JoinCleanup ==
    /\ main = "stopCleanup" /\ service["cleanup"] = "ended"
    /\ cancelled' = cancelled \cup {"metrics"}
    /\ main' = "stopMetrics"
    /\ UNCHANGED <<migrationVars, dbOpen, signal, relay, service, callVars, orderingVars>>

\* Mutant of JoinMetrics: Stop cancels the service and does not wait for it.
JoinMetricsAtOnce ==
    /\ main = "stopMetrics"
    /\ main' = "close"
    /\ UNCHANGED <<migrationVars, dbOpen, signal, relay, serviceVars, callVars, orderingVars>>

\* ... and waits.
JoinMetrics ==
    /\ main = "stopMetrics" /\ service["metrics"] = "ended"
    /\ main' = "close"
    /\ UNCHANGED <<migrationVars, dbOpen, signal, relay, serviceVars, callVars, orderingVars>>

\* The deferred Close of both pools, and the return of main, which ends the
\* process with the HTTP requests that are still in flight.
CloseDB ==
    /\ main = "close"
    /\ dbOpen' = FALSE
    /\ main' = "exit"
    /\ UNCHANGED <<migrationVars, signal, relay, serviceVars, callVars, orderingVars>>

Exit == main = "exit" /\ ProcessEnds

MainStep ==
    \/ ReadVersion \/ Apply \/ Record \/ Commit \/ Launch \/ Serve \/ ServerClosed
    \/ CancelRelay \/ JoinRelay \/ StopOrdering \/ JoinOrdering \/ JoinCleanup
    \/ JoinMetrics \/ CloseDB \/ Exit

-----------------------------------------------------------------------------
(* GracefulShutdown *)

\* signal.Notify
Arm ==
    /\ Running /\ signal = "default"
    /\ signal' = "armed"
    /\ UNCHANGED <<main, migrationVars, dbOpen, relay, serviceVars, callVars, orderingVars>>

\* The first signal: the token is sent to Wait.  A later one is not read.
Signal ==
    /\ signal = "armed"
    /\ signal' = "token"
    /\ UNCHANGED <<main, migrationVars, dbOpen, relay, serviceVars, callVars, orderingVars>>

\* server.Shutdown closes the listener; it then waits, up to the timeout, for
\* the requests in flight, which nobody waits for.
Shutdown ==
    /\ signal = "token"
    /\ signal' = "shutdown"
    /\ UNCHANGED <<main, migrationVars, dbOpen, relay, serviceVars, callVars, orderingVars>>

-----------------------------------------------------------------------------
(* CleanupService and MetricsUpdateService: the loop of Start.             *)

\* A tick; the select may choose it although the context is cancelled.
ServiceWorks(s) ==
    /\ service[s] = "waiting"
    /\ service' = [service EXCEPT ![s] = "working"]
    /\ UNCHANGED <<main, migrationVars, dbOpen, signal, relay, cancelled, callVars,
                   orderingVars>>

\* performCleanup or updateMetrics returns, with an error or without.
ServiceWaits(s) ==
    /\ service[s] = "working"
    /\ service' = [service EXCEPT ![s] = "waiting"]
    /\ UNCHANGED <<main, migrationVars, dbOpen, signal, relay, cancelled, callVars,
                   orderingVars>>

\* ctx.Done: Start returns and closes done.
ServiceEnds(s) ==
    /\ service[s] = "waiting" /\ s \in cancelled
    /\ service' = [service EXCEPT ![s] = "ended"]
    /\ UNCHANGED <<main, migrationVars, dbOpen, signal, relay, cancelled, callVars,
                   orderingVars>>

-----------------------------------------------------------------------------
(* The transports *)

\* An HTTP request begins while the listener is open; the server goes on with
\* it after Shutdown.
Request(d) ==
    /\ main = "serve" /\ signal # "shutdown"
    /\ call[d] = "none" /\ offers[d] < MaxOffers
    /\ call' = [call EXCEPT ![d] = "http"]
    /\ UNCHANGED <<main, migrationVars, dbOpen, signal, relay, serviceVars, taken,
                   orderingVars>>

\* The relay reads a frame; it answers it before it reads the next one.  The
\* read loop of runOnce does not look at ctx: after wsCancel it goes on until
\* the goroutine that waits for ctx has closed the connection, and then with
\* what is buffered.
Receive(d) ==
    /\ relay \in {"running", "cancelled"}
    /\ call[d] = "none" /\ offers[d] < MaxOffers
    /\ \A e \in Deliveries : call[e] # "relay"
    /\ call' = [call EXCEPT ![d] = "relay"]
    /\ UNCHANGED <<main, migrationVars, dbOpen, signal, relay, serviceVars, taken,
                   orderingVars>>

\* Ingest answers 400 or 200 and the delivery is done with.
IngestAnswers(d) ==
    /\ call[d] # "none" /\ caller[d] = "idle"
    /\ ~Queued(Payload[d])
    /\ call' = [call EXCEPT ![d] = "none"]
    /\ UNCHANGED <<main, migrationVars, dbOpen, signal, relay, serviceVars, taken,
                   orderingVars>>

\* AddEvent returned nil (202), or an error (503 or 500).
IngestReturns(d, ok) ==
    /\ call' = [call EXCEPT ![d] = "none"]
    /\ taken' = IF ok THEN [taken EXCEPT ![d] = call[d]] ELSE taken

\* Ingest calls AddEvent, which returns at once or waits for room.
IngestQueues(d) ==
    /\ call[d] # "none"
    /\ Queued(Payload[d])
    /\ O!AddEvent(d)
    /\ IF caller'[d] = "blocked" THEN UNCHANGED callVars ELSE IngestReturns(d, TRUE)
    /\ UNCHANGED <<main, migrationVars, dbOpen, signal, relay, serviceVars>>

IngestWaited(d) ==
    /\ \/ O!AddEventSends(d) /\ IngestReturns(d, TRUE)
       \/ O!AddEventGivesUp(d) /\ IngestReturns(d, FALSE)
    /\ UNCHANGED <<main, migrationVars, dbOpen, signal, relay, serviceVars>>

IngestStep(d) == IngestAnswers(d) \/ IngestQueues(d) \/ IngestWaited(d)

\* Run returns: on a clean close of the connection by GitHub, for good ...
RelayCloses ==
    /\ relay = "running"
    /\ \A d \in Deliveries : call[d] # "relay"
    /\ relay' = "ended"
    /\ UNCHANGED <<main, migrationVars, dbOpen, signal, serviceVars, callVars, orderingVars>>

\* ... or because its context is cancelled: the connection is closed from the
\* other goroutine, and the read after the frame in hand fails.
RelayStops ==
    /\ relay = "cancelled"
    /\ \A d \in Deliveries : call[d] # "relay"
    /\ relay' = "ended"
    /\ UNCHANGED <<main, migrationVars, dbOpen, signal, serviceVars, callVars, orderingVars>>

-----------------------------------------------------------------------------
\* The two workers run from Launch on.
IngestWorker ==
    /\ Running /\ O!IngestStep
    /\ UNCHANGED <<main, migrationVars, dbOpen, signal, relay, serviceVars, callVars>>

FlushWorker ==
    /\ Running /\ O!FlushStep
    /\ UNCHANGED <<main, migrationVars, dbOpen, signal, relay, serviceVars, callVars>>

RowRipens(d) ==
    /\ O!RowRipens(d)
    /\ UNCHANGED <<main, migrationVars, dbOpen, signal, relay, serviceVars, callVars>>

Next ==
    \/ Start \/ Die \/ MainStep
    \/ Arm \/ Signal \/ Shutdown
    \/ \E s \in Services : ServiceWorks(s) \/ ServiceWaits(s) \/ ServiceEnds(s)
    \/ \E d \in Deliveries : Request(d) \/ Receive(d) \/ IngestStep(d) \/ RowRipens(d)
    \/ RelayCloses \/ RelayStops
    \/ IngestWorker \/ FlushWorker

Spec == Init /\ [][Next]_vars

\* Every goroutine is scheduled and every wait in it is bounded: AddEvent by
\* enqueueTimeout, the last passes of the workers by their deadlines.  A
\* cancelled service may take a last tick, but ticks are seconds apart and ctx
\* stays done, so the select does not prefer them for ever.  A cancelled relay
\* may read further frames, each of which keeps RelayStops waiting, but the
\* goroutine that closes its connection is scheduled and then a read or the
\* write of an acknowledgement fails: strong fairness in both cases.
Fairness ==
    /\ WF_vars(MainStep)
    /\ WF_vars(Shutdown)
    /\ \A s \in Services : WF_vars(ServiceWaits(s)) /\ SF_vars(ServiceEnds(s))
    /\ WF_vars(\E d \in Deliveries : IngestStep(d))
    /\ SF_vars(RelayStops)
    /\ WF_vars(IngestWorker) /\ WF_vars(FlushWorker)

FairSpec == Spec /\ Fairness

-----------------------------------------------------------------------------
\* The statements of a migration and its row in schema_migrations are
\* committed together: whenever the process dies and however often it is
\* started again, each file has been applied once, in the order of the
\* versions, and exactly the applied ones are recorded (RunMigrations).
MigratedOnce ==
    /\ schema = [i \in 1 .. Len(schema) |-> i]
    /\ versions = 1 .. Len(schema)

\* After main closed the database nothing that main started uses it: the
\* workers, the relay and the periodic services have ended.
ClosedDBIsUnused ==
    main = "exit" =>
        /\ ingestAt = "done" /\ flushAt = "done"
        /\ relay = "ended"
        /\ \A s \in Services : service[s] = "ended"

\* webhookHandler.Shutdown has returned.
OrderingStopped == main \in {"stopCleanup", "stopMetrics", "close", "exit"}

\* A graceful shutdown keeps everything the relay took, although frames are read
\* after wsCancel and any statement may fail or find its deadline passed: when
\* the ordering service has stopped, nothing of it is left in memory, and each
\* such delivery has its outcome on record or is pending in webhook_events for
\* the next start.  It rests on wsCancel, <-wsDone and Shutdown being called in
\* this order (server.go:214-219).
RelayedIsKept ==
    OrderingStopped =>
        \A d \in Deliveries :
            taken[d] = "relay" =>
                /\ d \notin O!InMemory
                /\ fate[d] # "none" \/ d \in O!InTable

\* If moreover flushAll ran to its end, no query or mark of it having failed and
\* its 30 s not having passed, the shutdown settles what the relay took: it was
\* handled or its failure is on record, and no row of it is left pending.
\* Nothing that failed before, and no failing handler, disturbs that.
RelayedIsSettled ==
    OrderingStopped /\ ~cutShort =>
        \A d \in Deliveries :
            taken[d] = "relay" =>
                fate[d] # "none" /\ d \notin O!InMemory \cup O!InTable

\* A signal ends the process: no wait of the shutdown sequence is for ever,
\* though callers are blocked in AddEvent, the relay has a frame in hand and
\* requests are in flight.
SignalEnds == signal = "token" ~> main = "down"

\* AddEvent "returns an error ... if the service is shutting down", so that no
\* delivery is accepted which nobody will process.  The code does not guarantee
\* it: main does not wait for the HTTP requests in flight, and AddEvent looks
\* at the channel before the context.
NothingAcceptedAfterDrain ==
    [][ingestAt = "done" /\ ingestAt' = "done" => accepted' = accepted]_vars
=============================================================================
