------------------------------ MODULE ServerProofs ------------------------------
(***************************************************************************)
(* Theorems about Server, for any deliveries and payloads, any number of   *)
(* migrations and of starts of the process.  What the ordering service     *)
(* does on its own is taken from EventOrderingProofs: the server runs it,  *)
(* step by step.                                                           *)
(***************************************************************************)
EXTENDS Server, TLAPS

\* The theorems about the ordering service, for the constants of the server.
OP == INSTANCE EventOrderingProofs WITH
        Permanent <- {d \in Deliveries : Unhandled(Payload[d])},
        MayStop <- TRUE,
        MaxCrashes <- MaxLives

-----------------------------------------------------------------------------
(* The server runs the ordering service.                                   *)

\* The constants fit the ordering service.
LEMMA OrderingConstants == OP!OrderingAssumption
  BY ServerOrderingAssumption
     DEF O!FaultKinds, OP!FaultKinds, O!IsFiniteSet, OP!IsFiniteSet

\* Both instances have the same initial states ...
LEMMA SameInit == O!Init <=> OP!Init
  BY DEF O!Init, OP!Init

\* ... the same steps of AddEvent ...
LEMMA SameCalls ==
    ASSUME NEW d
    PROVE  /\ O!AddEvent(d) <=> OP!AddEvent(d)
           /\ O!AddEventSends(d) <=> OP!AddEventSends(d)
           /\ O!AddEventGivesUp(d) <=> OP!AddEventGivesUp(d)
<1> USE DEF O!Enqueue, OP!Enqueue, O!Settle, OP!Settle, O!Outcome, OP!Outcome,
            O!ingestVars, OP!ingestVars, O!flushVars, OP!flushVars, O!boundVars, OP!boundVars
<1>1. O!AddEvent(d) <=> OP!AddEvent(d)
  BY DEF O!AddEvent, OP!AddEvent
<1>2. O!AddEventSends(d) <=> OP!AddEventSends(d)
  BY DEF O!AddEventSends, OP!AddEventSends
<1>3. O!AddEventGivesUp(d) <=> OP!AddEventGivesUp(d)
  BY DEF O!AddEventGivesUp, OP!AddEventGivesUp
<1> QED
  BY <1>1, <1>2, <1>3

\* ... of the ingest worker ...
LEMMA SameIngestStep == O!IngestStep <=> OP!IngestStep
<1> USE DEF O!Settle, OP!Settle, O!Outcome, OP!Outcome, O!Fails, OP!Fails,
            O!flushVars, OP!flushVars, O!boundVars, OP!boundVars
<1>1. O!IngestTake <=> OP!IngestTake
  BY DEF O!IngestTake, OP!IngestTake
<1>2. O!IngestTick <=> OP!IngestTick
  BY DEF O!IngestTick, OP!IngestTick
<1>3. O!IngestDrain <=> OP!IngestDrain
  BY DEF O!IngestDrain, OP!IngestDrain
<1>4. O!IngestLast <=> OP!IngestLast
  BY DEF O!IngestLast, OP!IngestLast
<1>5. O!StoreSpill <=> OP!StoreSpill
  BY DEF O!StoreSpill, OP!StoreSpill, O!SpillContextOK, OP!SpillContextOK, O!Elements,
         OP!Elements, O!AfterStore, OP!AfterStore
<1>6. O!StoreSpillFails <=> OP!StoreSpillFails
  BY DEF O!StoreSpillFails, OP!StoreSpillFails, O!SpillContextOK, OP!SpillContextOK,
         O!Elements, OP!Elements, O!AfterStore, OP!AfterStore
<1>7. ASSUME NEW d \in Deliveries
      PROVE  /\ O!IngestHandled(d) <=> OP!IngestHandled(d)
             /\ O!IngestPermanent(d) <=> OP!IngestPermanent(d)
             /\ O!IngestSpills(d) <=> OP!IngestSpills(d)
  BY DEF O!IngestHandled, OP!IngestHandled, O!IngestPermanent, OP!IngestPermanent,
         O!IngestSettles, OP!IngestSettles, O!IngestSpills, OP!IngestSpills
<1> QED
  BY <1>1, <1>2, <1>3, <1>4, <1>5, <1>6, <1>7 DEF O!IngestStep, OP!IngestStep

\* ... of the flush worker ...
LEMMA SameFlushStep == O!FlushStep <=> OP!FlushStep
<1> USE DEF O!Settle, OP!Settle, O!Outcome, OP!Outcome, O!Fails, OP!Fails, O!FirstRows,
            OP!FirstRows, O!Cardinality, OP!Cardinality, O!InTable, OP!InTable, O!Pending,
            OP!Pending, O!ingestVars, OP!ingestVars, O!boundVars, OP!boundVars
<1>1. O!FlushTick <=> OP!FlushTick
  BY DEF O!FlushTick, OP!FlushTick
<1>2. O!FlushStops <=> OP!FlushStops
  BY DEF O!FlushStops, OP!FlushStops
<1>3. O!FlushAllFetch <=> OP!FlushAllFetch
  BY DEF O!FlushAllFetch, OP!FlushAllFetch
<1>4. O!FlushAllGivesUp <=> OP!FlushAllGivesUp
  BY DEF O!FlushAllGivesUp, OP!FlushAllGivesUp
<1>5. O!FlushBatchDone <=> OP!FlushBatchDone
  BY DEF O!FlushBatchDone, OP!FlushBatchDone
<1>6. ASSUME NEW d \in Deliveries
      PROVE  /\ O!FlushNext(d) <=> OP!FlushNext(d)
             /\ O!FlushHandled(d) <=> OP!FlushHandled(d)
             /\ O!FlushHandlerFails(d) <=> OP!FlushHandlerFails(d)
             /\ O!MarkProcessed(d) <=> OP!MarkProcessed(d)
             /\ O!MarkFailed(d) <=> OP!MarkFailed(d)
             /\ O!MarkFails(d) <=> OP!MarkFails(d)
  BY DEF O!FlushNext, OP!FlushNext, O!FlushHandled, OP!FlushHandled, O!FlushHandlerFails,
         OP!FlushHandlerFails, O!MarkProcessed, OP!MarkProcessed, O!MarkFailed,
         OP!MarkFailed, O!MarkFails, OP!MarkFails
<1> QED
  BY <1>1, <1>2, <1>3, <1>4, <1>5, <1>6 DEF O!FlushStep, OP!FlushStep

\* ... and the others.
LEMMA SameNext == (O!Next <=> OP!Next) /\ (UNCHANGED O!vars <=> UNCHANGED OP!vars)
<1> USE DEF O!ingestVars, OP!ingestVars, O!flushVars, OP!flushVars, O!boundVars, OP!boundVars
<1>1. ASSUME NEW d \in Deliveries PROVE O!RowRipens(d) <=> OP!RowRipens(d)
  BY DEF O!RowRipens, OP!RowRipens
<1>2. O!Stop <=> OP!Stop
  BY DEF O!Stop, OP!Stop
<1>3. O!Crash <=> OP!Crash
  BY DEF O!Crash, OP!Crash, O!InMemory, OP!InMemory, O!InTable, OP!InTable, O!Pending,
         OP!Pending, O!Elements, OP!Elements
<1>4. UNCHANGED O!vars <=> UNCHANGED OP!vars
  BY DEF O!vars, OP!vars
<1> QED
  BY <1>1, <1>2, <1>3, <1>4, SameCalls, SameIngestStep, SameFlushStep DEF O!Next, OP!Next

\* Each step of the server is one of the ordering service or leaves it alone.
LEMMA ServiceStep ==
    ASSUME [Next]_vars
    PROVE  [O!Next]_(O!vars)
<1> USE DEF orderingVars
<1>1. CASE UNCHANGED orderingVars
  BY <1>1 DEF O!vars, O!ingestVars, O!flushVars, O!boundVars
<1>2. CASE Die \/ Exit
  BY <1>2 DEF Die, Exit, ProcessEnds, O!Next
<1>3. CASE StopOrdering
  BY <1>3 DEF StopOrdering, O!Next
<1>4. ASSUME NEW d \in Deliveries, IngestQueues(d) \/ IngestWaited(d) \/ RowRipens(d)
      PROVE  O!Next
  BY <1>4 DEF IngestQueues, IngestWaited, RowRipens, O!Next
<1>5. CASE IngestWorker \/ FlushWorker
  BY <1>5 DEF IngestWorker, FlushWorker, O!Next
<1> QED
  BY <1>1, <1>2, <1>3, <1>4, <1>5
     DEF Next, Start, MainStep, ReadVersion, Apply, Record, Commit, Launch, Serve,
         ServerClosed, CancelRelay, JoinRelay, JoinOrdering, JoinCleanup, JoinMetrics,
         CloseDB, Arm, Signal, Shutdown, ServiceWorks, ServiceWaits, ServiceEnds, Request,
         Receive, IngestStep, IngestAnswers, RelayCloses, RelayStops, vars

\* The server runs the ordering service: start, transports and shutdown add
\* guards to its steps and no step of their own to it.
THEOREM ServerRunsOrdering == Spec => O!Spec
<1>1. Init => O!Init
  BY DEF Init
<1>2. [Next]_vars => [O!Next]_(O!vars)
  BY ServiceStep
<1> QED
  BY <1>1, <1>2, PTL DEF Spec, O!Spec

\* So the theorems about the service hold of it in the server.
LEMMA ServerOrderingSpec == Spec => OP!Spec
<1>1. O!Init => OP!Init
  BY SameInit
<1>2. [O!Next]_(O!vars) => [OP!Next]_(OP!vars)
  BY SameNext
<1> QED
  BY <1>1, <1>2, ServerRunsOrdering, PTL DEF O!Spec, OP!Spec

THEOREM ServerOrdering == Spec => []OP!OrderingInv /\ []OP!NothingInvented
  BY OrderingConstants, ServerOrderingSpec, OP!OrderingInvariant, OP!OnlyAccepted, PTL

-----------------------------------------------------------------------------
(* The migrations.                                                         *)

\* A transaction is open only in the loop of RunMigrations, below the last
\* version; the loop counts the files that are applied.
MigrationControl ==
    /\ MigratedOnce
    /\ tx # <<>> => main = "migrate" /\ current < Migrations
    /\ main = "migrate" => current = Len(schema)

MigrationType ==
    /\ current \in 0 .. Migrations
    /\ tx \in {<<>>, <<"apply">>, <<"apply", "record">>}
    /\ schema \in Seq(1 .. Migrations) /\ versions \subseteq 1 .. Migrations

\* The version that is read is the number of files applied so far.
LEMMA VersionRead ==
    ASSUME MigrationType, MigratedOnce, ReadVersion
    PROVE  current' = Len(schema)
<1> DEFINE n == Len(schema)
<1>1. n \in Nat /\ versions = 1 .. n
  BY DEF MigrationType, MigratedOnce
<1>2. current' \in (1 .. n) \cup {0} /\ \A v \in 1 .. n : v =< current'
  BY <1>1 DEF ReadVersion
<1>3. CASE n = 0
  BY <1>2, <1>3
<1>4. CASE n # 0
  <2>1. n \in 1 .. n
    BY <1>1, <1>4
  <2>2. n =< current'
    BY <1>2, <2>1
  <2> QED
    BY <1>1, <1>2, <2>2
<1> QED
  BY <1>3, <1>4

\* A transaction that commits adds the next file and its row.
LEMMA CommitAdds ==
    ASSUME MigrationType, MigrationControl, Commit
    PROVE  MigrationType' /\ MigrationControl'
<1> DEFINE n == Len(schema)
           longer == Append(schema, n + 1)
<1>1. /\ current = n /\ n \in Nat /\ n < Migrations
      /\ schema' = longer /\ versions' = versions \cup {n + 1}
      /\ current' = n + 1 /\ tx' = <<>> /\ main' = "migrate"
  BY DEF Commit, MigrationType, MigrationControl
<1>2. n + 1 \in 1 .. Migrations
  BY <1>1, ServerAssumption DEF ServerAssumption
<1>3. /\ schema \in Seq(1 .. Migrations) /\ versions = 1 .. n
      /\ schema = [i \in 1 .. n |-> i]
  BY DEF MigrationType, MigrationControl, MigratedOnce
<1>4. longer \in Seq(1 .. Migrations) /\ Len(longer) = n + 1
  BY <1>2, <1>3
<1>5. longer = [i \in 1 .. n + 1 |-> i]
  <2>1. \A i \in 1 .. n : longer[i] = i
    BY <1>1, <1>3
  <2>2. longer[n + 1] = n + 1
    BY <1>1, <1>3
  <2>3. DOMAIN longer = 1 .. n + 1 /\ longer = [i \in DOMAIN longer |-> longer[i]]
    BY <1>1, <1>3
  <2>4. \A i \in 1 .. n + 1 : i \in 1 .. n \/ i = n + 1
    BY <1>1
  <2> QED
    BY <2>1, <2>2, <2>3, <2>4
<1>6. versions' = 1 .. n + 1
  BY <1>1, <1>3
<1>7. versions' \subseteq 1 .. Migrations
  <2>1. \A m \in 1 .. Migrations : 1 .. m \subseteq 1 .. Migrations
    BY ServerAssumption DEF ServerAssumption
  <2> QED
    BY <1>2, <1>6, <2>1
<1>8. n + 1 \in 0 .. Migrations
  BY <1>2
<1> HIDE DEF n, longer
<1>9. MigratedOnce'
  BY <1>1, <1>4, <1>5, <1>6 DEF MigratedOnce
<1> QED
  BY <1>1, <1>4, <1>7, <1>8, <1>9 DEF MigrationType, MigrationControl

\* The versions, and 0 before the first one.
LEMMA VersionRange == 0 \in 0 .. Migrations /\ 1 .. Migrations \subseteq 0 .. Migrations
  BY ServerAssumption DEF ServerAssumption

\* Appending to one statement makes two.
LEMMA AppendPair ==
    ASSUME NEW S, NEW a \in S, NEW b \in S
    PROVE  Append(<<a>>, b) = <<a, b>>
<1> DEFINE pair == <<a, b>>
           both == Append(<<a>>, b)
<1>1. pair \in Seq(S) /\ Len(pair) = 2 /\ pair[1] = a /\ pair[2] = b
  OBVIOUS
<1>2. <<a>> \in Seq(S) /\ Len(<<a>>) = 1 /\ <<a>>[1] = a
  OBVIOUS
<1>3. both \in Seq(S) /\ Len(both) = 2 /\ both[1] = a /\ both[2] = b
  BY <1>2
<1> HIDE DEF pair, both
<1>4. \A i \in 1 .. 2 : both[i] = pair[i]
  <2>1. \A i \in 1 .. 2 : i = 1 \/ i = 2
    OBVIOUS
  <2> QED
    BY <2>1, <1>1, <1>3
<1>5. both = pair
  BY <1>1, <1>3, <1>4
<1> QED
  BY <1>5 DEF both, pair

\* The file and its row make up a transaction.
LEMMA BothStatements == Append(<<"apply">>, "record") = <<"apply", "record">>
<1>1. "apply" \in {"apply", "record"} /\ "record" \in {"apply", "record"}
  OBVIOUS
<1> QED
  BY <1>1, AppendPair

\* Whatever the process does, and wherever it dies, the tables stay so.
LEMMA MigrationStep ==
    ASSUME MigrationType, MigrationControl, [Next]_vars
    PROVE  MigrationType' /\ MigrationControl'
<1> USE DEF MigrationType, MigrationControl, MigratedOnce, migrationVars
<1>1. CASE UNCHANGED <<main, migrationVars>>
  BY <1>1
<1>2. CASE Die \/ Exit
  <2>1. 0 \in 0 .. Migrations
    BY VersionRange
  <2>2. /\ main' = "down" /\ current' = 0 /\ tx' = <<>>
        /\ schema' = schema /\ versions' = versions
    BY <1>2 DEF Die, Exit, ProcessEnds
  <2>3. MigratedOnce'
    BY <2>2
  <2> QED
    BY <2>1, <2>2, <2>3
<1>3. CASE ReadVersion
  <2>1. current' = Len(schema) /\ current' \in versions \cup {0}
    BY <1>3, VersionRead DEF ReadVersion
  <2> QED
    BY <1>3, <2>1, VersionRange DEF ReadVersion
<1>4. CASE Apply
  BY <1>4 DEF Apply
<1>5. CASE Record
  BY <1>5, BothStatements DEF Record
<1>6. CASE Commit
  BY <1>6, CommitAdds
<1>7. CASE UNCHANGED migrationVars /\ main # "migrate" /\ main' # "migrate"
  BY <1>7
<1>8. CASE UNCHANGED migrationVars /\ tx = <<>> /\ main' # "migrate"
  BY <1>8
<1>9. CASE Start \/ Launch
  BY <1>7, <1>8, <1>9 DEF Start, Launch
<1>10. CASE \/ Serve \/ ServerClosed \/ CancelRelay \/ JoinRelay \/ StopOrdering
            \/ JoinOrdering \/ JoinCleanup \/ JoinMetrics \/ CloseDB
  BY <1>7, <1>10 DEF Serve, ServerClosed, CancelRelay, JoinRelay, StopOrdering, JoinOrdering,
                     JoinCleanup, JoinMetrics, CloseDB
<1>11. CASE \/ Arm \/ Signal \/ Shutdown \/ RelayCloses \/ RelayStops
            \/ IngestWorker \/ FlushWorker \/ UNCHANGED vars
  BY <1>1, <1>11 DEF Arm, Signal, Shutdown, RelayCloses, RelayStops, IngestWorker,
                     FlushWorker, vars
<1>12. ASSUME NEW s \in Services, ServiceWorks(s) \/ ServiceWaits(s) \/ ServiceEnds(s)
       PROVE  UNCHANGED <<main, migrationVars>>
  BY <1>12 DEF ServiceWorks, ServiceWaits, ServiceEnds
<1>13. ASSUME NEW d \in Deliveries, Request(d) \/ Receive(d) \/ IngestStep(d) \/ RowRipens(d)
       PROVE  UNCHANGED <<main, migrationVars>>
  BY <1>13 DEF Request, Receive, IngestStep, IngestAnswers, IngestQueues, IngestWaited,
               RowRipens
<1> HIDE DEF MigrationType, MigrationControl, MigratedOnce, migrationVars
<1> QED
  BY <1>1, <1>2, <1>3, <1>4, <1>5, <1>6, <1>9, <1>10, <1>11, <1>12, <1>13
     DEF Next, MainStep

\* No table, no version.
LEMMA MigrationInit ==
    ASSUME Init
    PROVE  MigrationType /\ MigrationControl
<1>1. /\ main = "down" /\ current = 0 /\ tx = <<>> /\ schema = <<>> /\ versions = {}
  BY DEF Init
<1>2. Len(schema) = 0 /\ schema \in Seq(1 .. Migrations)
  BY <1>1
<1>3. 1 .. 0 = {} /\ <<>> = [i \in 1 .. 0 |-> i]
  OBVIOUS
<1>4. MigratedOnce
  BY <1>1, <1>2, <1>3 DEF MigratedOnce
<1> QED
  BY <1>1, <1>2, <1>4, VersionRange DEF MigrationType, MigrationControl

\* However often the process dies and starts again, each migration is applied
\* once, in order, and recorded (RunMigrations).
THEOREM MigrationsAreAtomic == Spec => []MigratedOnce
<1>1. Init => MigrationType /\ MigrationControl
  BY MigrationInit
<1>2. MigrationType /\ MigrationControl /\ [Next]_vars => MigrationType' /\ MigrationControl'
  BY MigrationStep
<1>3. MigrationControl => MigratedOnce
  BY DEF MigrationControl
<1> QED
  BY <1>1, <1>2, <1>3, PTL DEF Spec

-----------------------------------------------------------------------------
(* Type correctness.                                                       *)

ProcessType ==
    /\ main \in {"down", "readVersion", "migrate"} \/ Running
    /\ dbOpen \in BOOLEAN
    /\ signal \in {"default", "armed", "token", "shutdown"}
    /\ relay \in {"off", "running", "cancelled", "ended"}
    /\ service \in [Services -> {"off", "working", "waiting", "ended"}]
    /\ cancelled \subseteq Services
    /\ call \in [Deliveries -> {"none", "http", "relay"}]
    /\ taken \in [Deliveries -> {"none", "http", "relay"}]

\* A call of Ingest begins, goes on or ends.
LEMMA CallStep ==
    ASSUME ProcessType, NEW d \in Deliveries, Request(d) \/ Receive(d) \/ IngestStep(d)
    PROVE  /\ call' \in [Deliveries -> {"none", "http", "relay"}]
           /\ taken' \in [Deliveries -> {"none", "http", "relay"}]
           /\ UNCHANGED <<main, migrationVars, dbOpen, signal, relay, serviceVars>>
<1> USE DEF ProcessType, callVars
<1>1. CASE Request(d) \/ Receive(d)
  BY <1>1 DEF Request, Receive
<1>2. CASE IngestAnswers(d)
  BY <1>2 DEF IngestAnswers
<1>3. ASSUME NEW ok, IngestReturns(d, ok)
      PROVE  /\ call' \in [Deliveries -> {"none", "http", "relay"}]
             /\ taken' \in [Deliveries -> {"none", "http", "relay"}]
  BY <1>3 DEF IngestReturns
<1>4. CASE IngestQueues(d)
  BY <1>3, <1>4 DEF IngestQueues
<1>5. CASE IngestWaited(d)
  BY <1>3, <1>5 DEF IngestWaited
<1> QED
  BY <1>1, <1>2, <1>4, <1>5 DEF IngestStep

LEMMA ProcessTypeStep ==
    ASSUME ProcessType, [Next]_vars
    PROVE  ProcessType'
<1> USE DEF serviceVars, callVars
<1>1. CASE Die \/ Exit
  BY <1>1 DEF Die, Exit, ProcessEnds, ProcessType, Running
<1>2. CASE \/ Start \/ ReadVersion \/ Apply \/ Record \/ Commit \/ Serve \/ ServerClosed
           \/ JoinRelay \/ CloseDB
  BY <1>2 DEF Start, ReadVersion, Apply, Record, Commit, Serve, ServerClosed, JoinRelay,
              CloseDB, ProcessType, Running
<1>3. CASE Launch \/ CancelRelay
  BY <1>3 DEF Launch, CancelRelay, ProcessType, Running
<1>4. CASE StopOrdering \/ JoinOrdering \/ JoinCleanup \/ JoinMetrics
  BY <1>4 DEF StopOrdering, JoinOrdering, JoinCleanup, JoinMetrics, ProcessType, Running,
              Services
<1>5. CASE Arm \/ Signal \/ Shutdown \/ RelayCloses \/ RelayStops
  BY <1>5 DEF Arm, Signal, Shutdown, RelayCloses, RelayStops, ProcessType, Running
<1>6. CASE IngestWorker \/ FlushWorker \/ UNCHANGED vars
  BY <1>6 DEF IngestWorker, FlushWorker, vars, ProcessType, Running
<1>7. ASSUME NEW s \in Services, ServiceWorks(s) \/ ServiceWaits(s) \/ ServiceEnds(s)
      PROVE  ProcessType'
  BY <1>7 DEF ServiceWorks, ServiceWaits, ServiceEnds, ProcessType, Running
<1>8. ASSUME NEW d \in Deliveries, Request(d) \/ Receive(d) \/ IngestStep(d) \/ RowRipens(d)
      PROVE  ProcessType'
  BY <1>8, CallStep DEF RowRipens, ProcessType, Running
<1> QED
  BY <1>1, <1>2, <1>3, <1>4, <1>5, <1>6, <1>7, <1>8 DEF Next, MainStep

\* Type correctness.
THEOREM ServerTypeCorrect == Spec => []TypeOK
<1>1. Init => ProcessType
  BY DEF Init, ProcessType
<1>2. ProcessType /\ [Next]_vars => ProcessType'
  BY ProcessTypeStep
<1>3. Spec => []MigrationType
  <2>1. Init => MigrationType /\ MigrationControl
    BY MigrationInit
  <2> QED
    BY <2>1, MigrationStep, PTL DEF Spec
<1>4. OP!OrderingInv => O!TypeOK
  BY DEF OP!OrderingInv, OP!TypeInv, OP!TypeOK, O!TypeOK, OP!RowStates, O!RowStates
<1>5. ProcessType /\ MigrationType /\ O!TypeOK => TypeOK
  BY DEF ProcessType, MigrationType, TypeOK
<1> QED
  BY <1>1, <1>2, <1>3, <1>4, <1>5, ServerOrdering, PTL DEF Spec

-----------------------------------------------------------------------------
(* The order of the shutdown.                                              *)

AfterMetrics == {"close", "exit"}
AfterCleanup == {"stopMetrics"} \cup AfterMetrics
AfterOrdering == {"stopCleanup"} \cup AfterCleanup
AfterRelay == {"stopOrdering", "joinOrdering"} \cup AfterOrdering

\* What main has waited for has ended and does not begin again.
ShutdownOrder ==
    /\ main \in AfterRelay => relay = "ended"
    /\ main \in AfterOrdering => ingestAt = "done" /\ flushAt = "done"
    /\ main \in AfterCleanup => service["cleanup"] = "ended"
    /\ main \in AfterMetrics => service["metrics"] = "ended"

\* A worker that has returned takes no step, and only the workers move.
LEMMA WorkersEnd ==
    /\ O!IngestStep => ingestAt # "done" /\ flushAt' = flushAt
    /\ O!FlushStep => flushAt # "done" /\ ingestAt' = ingestAt
    /\ \A d : O!AddEvent(d) \/ O!AddEventSends(d) \/ O!AddEventGivesUp(d) \/ O!RowRipens(d)
          => UNCHANGED <<ingestAt, flushAt>>
    /\ O!Stop => UNCHANGED <<ingestAt, flushAt>>
<1>1. O!IngestStep => ingestAt # "done" /\ flushAt' = flushAt
  BY DEF O!IngestStep, O!IngestTake, O!IngestTick, O!IngestDrain, O!IngestLast, O!StoreSpill,
         O!StoreSpillFails, O!IngestHandled, O!IngestPermanent, O!IngestSettles,
         O!IngestSpills, O!flushVars
<1>2. O!FlushStep => flushAt # "done" /\ ingestAt' = ingestAt
  BY DEF O!FlushStep, O!FlushTick, O!FlushStops, O!FlushAllFetch, O!FlushAllGivesUp,
         O!FlushBatchDone, O!FlushNext, O!FlushHandled, O!FlushHandlerFails,
         O!MarkProcessed, O!MarkFailed, O!MarkFails, O!ingestVars
<1>3. \A d : O!AddEvent(d) \/ O!AddEventSends(d) \/ O!AddEventGivesUp(d) \/ O!RowRipens(d)
          => UNCHANGED <<ingestAt, flushAt>>
  BY DEF O!AddEvent, O!AddEventSends, O!AddEventGivesUp, O!RowRipens, O!ingestVars, O!flushVars
<1>4. O!Stop => UNCHANGED <<ingestAt, flushAt>>
  BY DEF O!Stop, O!ingestVars, O!flushVars
<1> QED
  BY <1>1, <1>2, <1>3, <1>4

LEMMA ShutdownStep ==
    ASSUME ProcessType, ShutdownOrder, [Next]_vars
    PROVE  ShutdownOrder'
<1> USE DEF ShutdownOrder, AfterRelay, AfterOrdering, AfterCleanup, AfterMetrics, serviceVars,
            orderingVars
<1>1. CASE Die \/ Exit
  BY <1>1 DEF Die, Exit, ProcessEnds
<1>2. CASE \/ Start \/ ReadVersion \/ Apply \/ Record \/ Commit \/ Launch \/ Serve
           \/ ServerClosed \/ CancelRelay
  BY <1>2 DEF Start, ReadVersion, Apply, Record, Commit, Launch, Serve, ServerClosed,
              CancelRelay
<1>3. CASE JoinRelay \/ JoinOrdering \/ JoinCleanup \/ JoinMetrics \/ CloseDB
  BY <1>3 DEF JoinRelay, JoinOrdering, JoinCleanup, JoinMetrics, CloseDB
<1>4. CASE StopOrdering
  BY <1>4, WorkersEnd DEF StopOrdering
<1>5. CASE Arm \/ Signal \/ Shutdown \/ RelayCloses \/ RelayStops \/ UNCHANGED vars
  BY <1>5 DEF Arm, Signal, Shutdown, RelayCloses, RelayStops, vars
<1>6. CASE IngestWorker \/ FlushWorker
  BY <1>6, WorkersEnd DEF IngestWorker, FlushWorker
<1>7. ASSUME NEW s \in Services, ServiceWorks(s) \/ ServiceWaits(s) \/ ServiceEnds(s)
      PROVE  ShutdownOrder'
  <2>1. /\ service[s] # "ended" /\ UNCHANGED <<main, relay, ingestAt, flushAt>>
        /\ \A r \in Services : r # s => service'[r] = service[r]
    BY <1>7 DEF ServiceWorks, ServiceWaits, ServiceEnds, ProcessType
  <2> QED
    BY <2>1 DEF Services
<1>8. ASSUME NEW d \in Deliveries, Request(d) \/ Receive(d) \/ IngestStep(d) \/ RowRipens(d)
      PROVE  ShutdownOrder'
  <2>1. UNCHANGED <<main, relay, service>>
    BY <1>8, CallStep DEF RowRipens
  <2>2. UNCHANGED <<ingestAt, flushAt>>
    BY <1>8, WorkersEnd DEF Request, Receive, IngestStep, IngestAnswers, IngestQueues,
                            IngestWaited, RowRipens
  <2> QED
    BY <2>1, <2>2
<1> QED
  BY <1>1, <1>2, <1>3, <1>4, <1>5, <1>6, <1>7, <1>8 DEF Next, MainStep

\* Whatever the process does, the goroutines end in the order in which main
\* waits for them (server.go:214-219, shutdown.go).
LEMMA ShutdownInvariant == Spec => []ProcessType /\ []ShutdownOrder
<1>1. Init => ProcessType /\ ShutdownOrder
  BY DEF Init, ProcessType, ShutdownOrder, AfterRelay, AfterOrdering, AfterCleanup, AfterMetrics
<1>2. ProcessType /\ ShutdownOrder /\ [Next]_vars => ProcessType' /\ ShutdownOrder'
  BY ProcessTypeStep, ShutdownStep
<1> QED
  BY <1>1, <1>2, PTL DEF Spec

\* Main closes the database only after everything it started has ended.
THEOREM DatabaseClosedLast == Spec => []ClosedDBIsUnused
<1>1. ShutdownOrder => ClosedDBIsUnused
  BY DEF ShutdownOrder, ClosedDBIsUnused, AfterRelay, AfterOrdering, AfterCleanup, AfterMetrics,
         Services
<1> QED
  BY <1>1, ShutdownInvariant, PTL

-----------------------------------------------------------------------------
(* The relay at shutdown.                                                  *)

\* The relay has no frame in hand once it has ended; the ordering service is
\* stopped only after that.  So what enters the channel when the ingest worker
\* has looked at it for the last time came from an HTTP request.
RelayControl ==
    /\ ~Running => relay = "off"
    /\ relay \in {"off", "ended"} => \A d \in Deliveries : call[d] # "relay"
    /\ ctxDone => main \in {"joinOrdering"} \cup AfterOrdering
    /\ \A d \in Deliveries : taken[d] = "relay" => d \in accepted
    /\ ingestAt \in {"storeLast", "done"} =>
          \A d \in Deliveries : d \in O!Elements(ingestCh) => taken[d] # "relay"

\* AddEvent puts at most d into the channel, and returns nil when it does.
LEMMA CallQueues ==
    ASSUME O!TypeOK, NEW d \in Deliveries,
           O!AddEvent(d) \/ O!AddEventSends(d) \/ O!AddEventGivesUp(d)
    PROVE  /\ UNCHANGED <<ctxDone, ingestAt>>
           /\ \/ /\ O!Elements(ingestCh') = O!Elements(ingestCh) \cup {d}
                 /\ accepted' = accepted \cup {d} /\ caller'[d] = "idle"
              \/ UNCHANGED <<ingestCh, accepted>> /\ (O!AddEvent(d) => caller'[d] = "blocked")
<1>1. UNCHANGED <<ctxDone, ingestAt>>
  BY DEF O!AddEvent, O!AddEventSends, O!AddEventGivesUp, O!ingestVars
<1>2. CASE O!Enqueue(d)
  <2>1. ingestCh \in Seq(Deliveries) /\ ingestCh' = Append(ingestCh, d)
    BY <1>2 DEF O!Enqueue, O!TypeOK
  <2>2. O!Elements(ingestCh') = O!Elements(ingestCh) \cup {d}
    <3>1. OP!Elements(Append(ingestCh, d)) = OP!Elements(ingestCh) \cup {d}
      BY <2>1, OP!ElementsOfAppend, OrderingConstants
    <3> QED
      BY <2>1, <3>1 DEF O!Elements, OP!Elements
  <2>3. accepted' = accepted \cup {d}
    BY <1>2 DEF O!Enqueue
  <2>4. caller'[d] = "idle" \/ (ingestCh' = ingestCh /\ caller'[d] = "blocked")
    BY <1>2 DEF O!AddEvent, O!AddEventSends, O!AddEventGivesUp, O!TypeOK
  <2>5. ingestCh' # ingestCh
    BY <2>1
  <2> QED
    BY <1>1, <2>2, <2>3, <2>4, <2>5
<1>3. CASE ~O!Enqueue(d)
  BY <1>1, <1>3 DEF O!AddEvent, O!AddEventSends, O!AddEventGivesUp, O!TypeOK
<1> QED
  BY <1>2, <1>3

\* The relay hands over no frame once the ingest worker is past the channel.
LEMMA CallKeepsRelay ==
    ASSUME O!TypeOK, ProcessType, OP!StopControl, ShutdownOrder, RelayControl,
           NEW d \in Deliveries, IngestQueues(d) \/ IngestWaited(d)
    PROVE  RelayControl'
<1>1. UNCHANGED <<main, relay>>
  BY DEF IngestQueues, IngestWaited
<1>2. O!AddEvent(d) \/ O!AddEventSends(d) \/ O!AddEventGivesUp(d)
  BY DEF IngestQueues, IngestWaited
<1>3. /\ call' \in {call, [call EXCEPT ![d] = "none"]}
      /\ taken' \in {taken, [taken EXCEPT ![d] = call[d]]}
  BY DEF IngestQueues, IngestWaited, IngestReturns, callVars
<1>4. \A e \in Deliveries : call'[e] = "relay" => call[e] = "relay"
  BY <1>3 DEF ProcessType
<1>5. UNCHANGED <<ctxDone, ingestAt>>
  BY <1>2, CallQueues
<1>6. CASE UNCHANGED <<ingestCh, accepted>> /\ UNCHANGED taken
  BY <1>1, <1>4, <1>5, <1>6 DEF RelayControl, Running, O!Elements
<1>7. CASE /\ O!Elements(ingestCh') = O!Elements(ingestCh) \cup {d}
           /\ accepted' = accepted \cup {d}
           /\ taken' = [taken EXCEPT ![d] = call[d]]
  <2>1. \A e \in Deliveries : taken'[e] = IF e = d THEN call[d] ELSE taken[e]
    BY <1>7 DEF ProcessType
  <2>2. ingestAt \in {"storeLast", "done"} => call[d] # "relay"
    <3>1. ingestAt \in {"storeLast", "done"} => relay = "ended"
      BY DEF OP!StopControl, ShutdownOrder, RelayControl, AfterRelay
    <3> QED
      BY <3>1 DEF RelayControl
  <2>3. ingestAt' \in {"storeLast", "done"} =>
           \A e \in Deliveries : e \in O!Elements(ingestCh)' => taken'[e] # "relay"
    <3>1. O!Elements(ingestCh)' = O!Elements(ingestCh')
      BY DEF O!Elements
    <3> QED
      BY <1>5, <1>7, <2>1, <2>2, <3>1 DEF RelayControl
  <2>4. \A e \in Deliveries : taken'[e] = "relay" => e \in accepted'
    BY <1>7, <2>1 DEF RelayControl
  <2> QED
    BY <1>1, <1>4, <1>5, <2>3, <2>4 DEF RelayControl, Running
<1>8. \/ UNCHANGED <<ingestCh, accepted>> /\ UNCHANGED taken
      \/ /\ O!Elements(ingestCh') = O!Elements(ingestCh) \cup {d}
         /\ accepted' = accepted \cup {d}
         /\ taken' = [taken EXCEPT ![d] = call[d]]
  <2>1. CASE IngestQueues(d)
    <3>1. caller'[d] = "idle" => taken' = [taken EXCEPT ![d] = call[d]]
      BY <2>1 DEF IngestQueues, IngestReturns
    <3>2. caller'[d] = "blocked" => taken' = taken
      BY <2>1 DEF IngestQueues, callVars
    <3>3. O!AddEvent(d)
      BY <2>1 DEF IngestQueues
    <3> QED
      BY <3>1, <3>2, <3>3, CallQueues
  <2>2. CASE O!AddEventSends(d) /\ IngestReturns(d, TRUE)
    <3>1. taken' = [taken EXCEPT ![d] = call[d]]
      BY <2>2 DEF IngestReturns
    <3>2. ingestCh' # ingestCh
      BY <2>2 DEF O!AddEventSends, O!Enqueue, O!TypeOK
    <3> QED
      BY <2>2, <3>1, <3>2, CallQueues
  <2>3. CASE O!AddEventGivesUp(d) /\ IngestReturns(d, FALSE)
    BY <2>3 DEF IngestReturns, O!AddEventGivesUp
  <2> QED
    BY <2>1, <2>2, <2>3 DEF IngestWaited
<1> QED
  BY <1>6, <1>7, <1>8

\* The ingest worker goes on to its last store only when the channel is empty.
LEMMA IngestKeepsChannel ==
    ASSUME O!IngestStep
    PROVE  /\ UNCHANGED <<ctxDone, accepted>>
           /\ \/ ingestAt' \notin {"storeLast", "done"}
              \/ ingestCh' = <<>>
              \/ ingestAt = "storeLast" /\ ingestCh' = ingestCh
<1>1. CASE O!IngestTake \/ O!IngestTick \/ O!IngestDrain \/ O!IngestLast
  BY <1>1 DEF O!IngestTake, O!IngestTick, O!IngestDrain, O!IngestLast
<1>2. CASE O!StoreSpill \/ O!StoreSpillFails
  BY <1>2 DEF O!StoreSpill, O!StoreSpillFails, O!AfterStore
<1>3. ASSUME NEW d, O!IngestHandled(d) \/ O!IngestPermanent(d) \/ O!IngestSpills(d)
      PROVE  UNCHANGED <<ctxDone, accepted>> /\ ingestAt' \notin {"storeLast", "done"}
  BY <1>3 DEF O!IngestHandled, O!IngestPermanent, O!IngestSettles, O!IngestSpills
<1> QED
  BY <1>1, <1>2, <1>3 DEF O!IngestStep

LEMMA RelayStep ==
    ASSUME O!TypeOK, ProcessType, OP!StopControl, ShutdownOrder, RelayControl, [Next]_vars
    PROVE  RelayControl'
<1> USE DEF callVars, orderingVars, Running, AfterOrdering, AfterCleanup, AfterMetrics
<1>1. CASE Die \/ Exit
  BY <1>1 DEF Die, Exit, ProcessEnds, O!Crash, RelayControl
<1>2. CASE \/ Start \/ ReadVersion \/ Apply \/ Record \/ Commit \/ Launch \/ Serve
           \/ ServerClosed \/ CancelRelay \/ JoinRelay
  BY <1>2 DEF Start, ReadVersion, Apply, Record, Commit, Launch, Serve, ServerClosed,
              CancelRelay, JoinRelay, RelayControl, O!Elements
<1>3. CASE StopOrdering
  BY <1>3 DEF StopOrdering, O!Stop, O!ingestVars, RelayControl, O!Elements
<1>4. CASE JoinOrdering \/ JoinCleanup \/ JoinMetrics \/ CloseDB
  BY <1>4 DEF JoinOrdering, JoinCleanup, JoinMetrics, CloseDB, RelayControl, O!Elements
<1>5. CASE Arm \/ Signal \/ Shutdown \/ UNCHANGED vars
  BY <1>5 DEF Arm, Signal, Shutdown, vars, RelayControl, O!Elements
<1>6. CASE RelayCloses \/ RelayStops
  BY <1>6 DEF RelayCloses, RelayStops, RelayControl, O!Elements
<1>7. ASSUME NEW s \in Services, ServiceWorks(s) \/ ServiceWaits(s) \/ ServiceEnds(s)
      PROVE  RelayControl'
  BY <1>7 DEF ServiceWorks, ServiceWaits, ServiceEnds, RelayControl, O!Elements
<1>8. CASE IngestWorker
  <2>1. UNCHANGED <<main, relay, call, taken>> /\ O!IngestStep
    BY <1>8 DEF IngestWorker
  <2>2. O!Elements(<<>>) = {}
    BY DEF O!Elements
  <2> QED
    BY <2>1, <2>2, IngestKeepsChannel DEF RelayControl, O!Elements
<1>9. CASE FlushWorker
  <2>1. UNCHANGED <<main, relay, call, taken>> /\ O!FlushStep
    BY <1>9 DEF FlushWorker
  <2>2. UNCHANGED <<ctxDone, ingestAt, ingestCh, accepted>>
    BY <2>1 DEF O!FlushStep, O!FlushTick, O!FlushStops, O!FlushAllFetch, O!FlushAllGivesUp,
                O!FlushBatchDone, O!FlushNext, O!FlushHandled, O!FlushHandlerFails,
                O!MarkProcessed, O!MarkFailed, O!MarkFails, O!ingestVars
  <2> QED
    BY <2>1, <2>2 DEF RelayControl, O!Elements
<1>10. ASSUME NEW d \in Deliveries, Request(d) \/ Receive(d) \/ IngestAnswers(d) \/ RowRipens(d)
       PROVE  RelayControl'
  <2>1. /\ UNCHANGED <<main, relay, taken, ctxDone, ingestAt, ingestCh, accepted>>
        /\ relay \notin {"running", "cancelled"} =>
              \A e \in Deliveries : call'[e] = "relay" => call[e] = "relay"
    BY <1>10 DEF Request, Receive, IngestAnswers, RowRipens, O!RowRipens, O!ingestVars,
                 ProcessType
  <2> QED
    BY <2>1 DEF RelayControl, O!Elements
<1>11. ASSUME NEW d \in Deliveries, IngestQueues(d) \/ IngestWaited(d)
       PROVE  RelayControl'
  BY <1>11, CallKeepsRelay
<1> HIDE DEF callVars, orderingVars, Running, AfterOrdering, AfterCleanup, AfterMetrics
<1> QED
  BY <1>1, <1>2, <1>3, <1>4, <1>5, <1>6, <1>7, <1>8, <1>9, <1>10, <1>11
     DEF Next, MainStep, IngestStep

\* The state of the ordering service when Shutdown has returned, for what the
\* relay took: nothing in memory, and no row pending unless flushAll was cut
\* short.
LEMMA RelayedWhenStopped ==
    ASSUME OP!OrderingInv, OP!StoppedIsDrained, ShutdownOrder, RelayControl,
           OrderingStopped, NEW d \in Deliveries, taken[d] = "relay"
    PROVE  /\ d \notin O!InMemory
           /\ fate[d] # "none" \/ d \in O!InTable
           /\ ~cutShort => d \notin O!InTable
<1>1. main \in AfterOrdering
  BY DEF OrderingStopped, AfterOrdering, AfterCleanup, AfterMetrics
<1>2. ingestAt = "done" /\ flushAt = "done"
  BY <1>1 DEF ShutdownOrder
<1>3. spill = <<>> /\ ingestEv = {}
  BY <1>2 DEF OP!StoppedIsDrained
<1>4. d \in accepted /\ d \notin O!Elements(ingestCh)
  BY <1>2 DEF RelayControl
<1>5. O!Elements(spill) = {}
  BY <1>3 DEF O!Elements
<1>6. d \notin O!InMemory
  BY <1>3, <1>4, <1>5 DEF O!InMemory
<1>7. OP!InMemory = O!InMemory /\ OP!InTable = O!InTable
  BY DEF O!InMemory, OP!InMemory, O!Elements, OP!Elements, O!InTable, OP!InTable, O!Pending,
         OP!Pending
<1>8. fate[d] # "none" \/ d \in O!InTable
  BY <1>4, <1>6, <1>7 DEF OP!OrderingInv, OP!NothingForgotten
<1>9. ~cutShort => O!InTable = {}
  BY <1>2, <1>7 DEF OP!StoppedIsDrained
<1> QED
  BY <1>6, <1>8, <1>9

\* Both hold in every state of the server.
LEMMA RelayInvariant == Spec => []RelayedIsKept /\ []RelayedIsSettled
<1>1. Init => RelayControl
  BY DEF Init, O!Init, RelayControl, Running
<1>2. O!TypeOK /\ ProcessType /\ OP!StopControl /\ ShutdownOrder /\ RelayControl /\ [Next]_vars
        => RelayControl'
  BY RelayStep
<1>3. OP!OrderingInv => O!TypeOK
  BY DEF OP!OrderingInv, OP!TypeInv, OP!TypeOK, O!TypeOK, OP!RowStates, O!RowStates
<1>4. OP!DrainInv => OP!OrderingInv /\ OP!StopControl
  BY DEF OP!DrainInv
<1>5. OP!OrderingInv /\ OP!StoppedIsDrained /\ ShutdownOrder /\ RelayControl
        => RelayedIsKept /\ RelayedIsSettled
  BY RelayedWhenStopped DEF RelayedIsKept, RelayedIsSettled
<1>6. OP!Spec => []OP!DrainInv /\ []OP!StoppedIsDrained
  BY OrderingConstants, OP!StopDrains
<1> QED
  BY <1>1, <1>2, <1>3, <1>4, <1>5, <1>6, ServerOrderingSpec, ShutdownInvariant, PTL DEF Spec

\* A graceful shutdown keeps what the relay took, whatever fails: recorded or
\* pending in webhook_events, never only in memory (server.go:214-219).
THEOREM RelayKept == Spec => []RelayedIsKept
  BY RelayInvariant, PTL

\* It settles all of it, unless a query or a mark of the last pass fails or its
\* time is up.
THEOREM RelaySettled == Spec => []RelayedIsSettled
  BY RelayInvariant, PTL
=============================================================================
