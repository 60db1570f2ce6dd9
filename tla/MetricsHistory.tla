----------------------------- MODULE MetricsHistory -----------------------------
(***************************************************************************)
(* What the server counts and how long it keeps it: MetricsUpdateService   *)
(* publishes the jobs queued and in progress as gauges and stores them as  *)
(* snapshots, CleanupService marks stale jobs and deletes what is older    *)
(* than the retention period, and GetMetricsSummary reads the counts of    *)
(* jobs and the peak of the snapshots for the dashboard.                   *)
(*                                                                         *)
(* Time goes in hours, of which a day has Day.  The tables keep times as   *)
(* text and compare them as text: a time is the triple of its date, the    *)
(* separator and its hour, in the zone and the format in which the code    *)
(* writes it.  A row of workflow_jobs is its status.                       *)
(***************************************************************************)
EXTENDS Integers, FiniteSets, FiniteSetsExt, Lifecycle

CONSTANTS
    Jobs,
    CreatedAt,     \* CreatedAt[j]: created_at of the job, by GitHub
    Labels,        \* runner labels
    Label,         \* Label[j]: the job's first label, or NoLabel
    NoLabel,
    Day,           \* hours of a day
    Offset,        \* the server's local time is UTC + Offset
    Retention,     \* DATA_RETENTION_DAYS, in hours
    StaleAfter,    \* STALE_JOB_THRESHOLD_HOURS
    Periods,       \* the periods of the dashboard, in hours
    MaxTime,       \* bound: the last hour
    MaxEvents,     \* bound: events of jobs
    MaxFailures    \* bound: statements that fail

ASSUME HistoryAssumption ==
    /\ IsFiniteSet(Jobs)
    /\ CreatedAt \in [Jobs -> Nat]
    /\ Label \in [Jobs -> Labels \cup {NoLabel}] /\ NoLabel \notin Labels
    /\ Day \in Nat \ {0} /\ Offset \in Int
    /\ Retention \in Nat /\ StaleAfter \in Nat
    /\ Periods \subseteq Nat
    /\ MaxTime \in Nat /\ MaxEvents \in Nat /\ MaxFailures \in Nat

VARIABLES
    now,          \* the hour, in UTC
    jobs,         \* jobs[j]: status of the row of j, or Absent
    metricsAt,    \* where updateMetrics is
    counted,      \* the counts it has read
    labelCounted, \* the counts by label it has read and not yet set
    gauges,       \* the gauges by status
    labelGauges,  \* the gauges by label
    snapshots,    \* rows of metrics_snapshots
    cleanupAt,    \* where performCleanup is
    demands,      \* history: the counts there ever were
    events,       \* counters for the bounds
    failures

serviceVars == <<metricsAt, counted, labelCounted, gauges, labelGauges>>
vars == <<now, jobs, serviceVars, snapshots, cleanupAt, demands, events, failures>>

-----------------------------------------------------------------------------
(* Times as text.  A space sorts before a T.                               *)

Space == 0
T == 1

\* datetime('now'), the default of metrics_snapshots.timestamp, and the format
\* of the cutoffs of the queries.
DateTime(t) == <<t \div Day, Space, t % Day>>

\* time.RFC3339: created_at as GitHub sends it, in UTC, and a time of the
\* server's clock, in its zone.
RFC3339(t) == <<t \div Day, T, t % Day>>
Local(t) == RFC3339(t + Offset)

\* The comparison of two such texts.
Before(a, b) ==
    \/ a[1] < b[1]
    \/ a[1] = b[1] /\ a[2] < b[2]
    \/ a[1] = b[1] /\ a[2] = b[2] /\ a[3] < b[3]

-----------------------------------------------------------------------------
(* The queries *)

InStatus(set, status) == Cardinality({j \in set : jobs[j] = status})

\* GetCurrentJobCounts: both counts come from one SELECT.
Counts == [running |-> InStatus(Jobs, "in_progress"), queued |-> InStatus(Jobs, "queued")]

\* GetCurrentJobCountsByLabel: the labels with a queued or running job.
LabelCounts ==
    {LET of == {j \in Jobs : Label[j] = l}
     IN  [label |-> l, running |-> InStatus(of, "in_progress"),
          queued |-> InStatus(of, "queued")]
        : l \in {Label[j] : j \in {k \in Jobs : jobs[k] \in {"queued", "in_progress"}}}
                \ {NoLabel}}

\* Mutant of Peak: the cutoff has the format of the times of jobs.
PeakSinceRFC3339(hours) ==
    Max({s.running + s.queued :
            s \in {r \in snapshots : ~Before(DateTime(r.at), RFC3339(now - hours))}}
        \cup {0})

\* GetMetricsSummary: MAX(running_jobs + queued_jobs) since the cutoff.
Peak(hours) ==
    Max({s.running + s.queued :
            s \in {r \in snapshots : ~Before(DateTime(r.at), DateTime(now - hours))}}
        \cup {0})

-----------------------------------------------------------------------------
Few == 0 .. Cardinality(Jobs)
Demands == [running : Few, queued : Few]
LabelDemands == [label : Labels, running : Few, queued : Few]

TypeOK ==
    /\ now \in 0 .. MaxTime
    /\ jobs \in [Jobs -> JobStatuses \cup {Absent}]
    /\ metricsAt \in {"wait", "running", "queued", "labels", "reset", "setLabels", "insert"}
    /\ counted \in Demands /\ gauges \in Demands
    /\ labelCounted \subseteq LabelDemands /\ labelGauges \subseteq LabelDemands
    /\ \A g, h \in labelGauges : g.label = h.label => g = h
    /\ snapshots \subseteq [at : 0 .. MaxTime, running : Few, queued : Few]
    /\ cleanupAt \in {"wait", "delete"}
    /\ demands \subseteq Demands
    /\ events \in 0 .. MaxEvents /\ failures \in 0 .. MaxFailures

Nothing == [running |-> 0, queued |-> 0]

Init ==
    /\ now = 0
    /\ jobs = [j \in Jobs |-> Absent]
    /\ metricsAt = "wait" /\ counted = Nothing /\ labelCounted = {}
    /\ gauges = Nothing /\ labelGauges = {}
    /\ snapshots = {}
    /\ cleanupAt = "wait"
    /\ demands = {Nothing}
    /\ events = 0 /\ failures = 0

Fails == failures < MaxFailures /\ failures' = failures + 1

-----------------------------------------------------------------------------
\* An hour passes.
Hour ==
    /\ now < MaxTime
    /\ now' = now + 1
    /\ UNCHANGED <<jobs, serviceVars, snapshots, cleanupAt, demands, failures, events>>

\* An event of job j is handled (see WorkflowTables).
JobEvent(j, status) ==
    /\ now >= CreatedAt[j]
    /\ Admits(JobStatusPriority, TerminalJobStatuses, jobs[j], status)
    /\ jobs[j] # status
    /\ events < MaxEvents /\ events' = events + 1
    /\ jobs' = [jobs EXCEPT ![j] = status]
    /\ demands' = demands \cup {Counts'}
    /\ UNCHANGED <<now, serviceVars, snapshots, cleanupAt, failures>>

-----------------------------------------------------------------------------
(* MetricsUpdateService: updateMetrics, at once and then at each tick.     *)

Count ==
    /\ metricsAt = "wait"
    /\ counted' = Counts
    /\ metricsAt' = "running"
    /\ UNCHANGED <<now, jobs, labelCounted, gauges, labelGauges, snapshots, cleanupAt,
                   demands, failures, events>>

\* The query fails: this round is over.
CountFails ==
    /\ metricsAt = "wait" /\ Fails
    /\ UNCHANGED <<now, jobs, serviceVars, snapshots, cleanupAt, demands, events>>

\* Mutant of SetRunning: the gauge is raised by the count.
SetRunningAdds ==
    /\ metricsAt = "running"
    /\ gauges' = [gauges EXCEPT !.running = @ + counted.running]
    /\ metricsAt' = "queued"
    /\ UNCHANGED <<now, jobs, counted, labelCounted, labelGauges, snapshots, cleanupAt,
                   demands, failures, events>>

\* UpdateCurrentJobCounts sets one gauge ...
SetRunning ==
    /\ metricsAt = "running"
    /\ gauges' = [gauges EXCEPT !.running = counted.running]
    /\ metricsAt' = "queued"
    /\ UNCHANGED <<now, jobs, counted, labelCounted, labelGauges, snapshots, cleanupAt,
                   demands, failures, events>>

\* ... and then the other: in between they need not belong together.
SetQueued ==
    /\ metricsAt = "queued"
    /\ gauges' = [gauges EXCEPT !.queued = counted.queued]
    /\ metricsAt' = "labels"
    /\ UNCHANGED <<now, jobs, counted, labelCounted, labelGauges, snapshots, cleanupAt,
                   demands, failures, events>>

CountLabels ==
    /\ metricsAt = "labels"
    /\ labelCounted' = LabelCounts
    /\ metricsAt' = "reset"
    /\ UNCHANGED <<now, jobs, counted, gauges, labelGauges, snapshots, cleanupAt,
                   demands, failures, events>>

\* The query fails: the gauges stay, and the snapshot is still inserted.
CountLabelsFails ==
    /\ metricsAt = "labels" /\ Fails
    /\ metricsAt' = "insert"
    /\ UNCHANGED <<now, jobs, counted, labelCounted, gauges, labelGauges, snapshots,
                   cleanupAt, demands, events>>

\* The snapshot is next when no label is left to set.
AfterLabel(left) == IF left = {} THEN "insert" ELSE "setLabels"

\* Mutant of ResetLabels: the gauges are not reset.
ResetLabelsForgotten ==
    /\ metricsAt = "reset"
    /\ metricsAt' = AfterLabel(labelCounted)
    /\ UNCHANGED <<now, jobs, counted, labelCounted, gauges, labelGauges, snapshots,
                   cleanupAt, demands, failures, events>>

\* The gauges by label are reset, so that a label without jobs loses its own ...
ResetLabels ==
    /\ metricsAt = "reset"
    /\ labelGauges' = {}
    /\ metricsAt' = AfterLabel(labelCounted)
    /\ UNCHANGED <<now, jobs, counted, labelCounted, gauges, snapshots, cleanupAt,
                   demands, failures, events>>

\* ... and then set, label by label (its two gauges in one step: no property
\* looks in between).
SetLabel(c) ==
    /\ metricsAt = "setLabels" /\ c \in labelCounted
    /\ labelGauges' = {g \in labelGauges : g.label # c.label} \cup {c}
    /\ labelCounted' = labelCounted \ {c}
    /\ metricsAt' = AfterLabel(labelCounted \ {c})
    /\ UNCHANGED <<now, jobs, counted, gauges, snapshots, cleanupAt, demands, failures,
                   events>>

\* Mutant of Insert: the queued jobs are counted again.
InsertRecounts ==
    /\ metricsAt = "insert"
    /\ snapshots' = snapshots \cup
            {[at |-> now, running |-> counted.running, queued |-> Counts.queued]}
    /\ metricsAt' = "wait"
    /\ UNCHANGED <<now, jobs, counted, labelCounted, gauges, labelGauges, cleanupAt,
                   demands, failures, events>>

\* InsertMetricsSnapshot, with the time of the insertion.
Insert ==
    /\ metricsAt = "insert"
    /\ snapshots' = snapshots \cup
            {[at |-> now, running |-> counted.running, queued |-> counted.queued]}
    /\ metricsAt' = "wait"
    /\ UNCHANGED <<now, jobs, counted, labelCounted, gauges, labelGauges, cleanupAt,
                   demands, failures, events>>

InsertFails ==
    /\ metricsAt = "insert" /\ Fails
    /\ metricsAt' = "wait"
    /\ UNCHANGED <<now, jobs, counted, labelCounted, gauges, labelGauges, snapshots,
                   cleanupAt, demands, events>>

MetricsService ==
    \/ Count \/ CountFails \/ SetRunning \/ SetQueued
    \/ CountLabels \/ CountLabelsFails \/ ResetLabels \/ \E c \in labelCounted : SetLabel(c)
    \/ Insert \/ InsertFails

-----------------------------------------------------------------------------
(* CleanupService: performCleanup, at once and then at each tick.          *)

\* CleanupStaleJobs; its failure is logged and the clean-up goes on.
MarkStale ==
    /\ cleanupAt = "wait"
    /\ jobs' = [j \in Jobs |->
                  IF /\ jobs[j] \in {"queued", "in_progress"}
                     /\ Before(RFC3339(CreatedAt[j]), Local(now - StaleAfter))
                  THEN "stale" ELSE jobs[j]]
    /\ demands' = demands \cup {Counts'}
    /\ cleanupAt' = "delete"
    /\ UNCHANGED <<now, serviceVars, snapshots, failures, events>>

MarkStaleFails ==
    /\ cleanupAt = "wait" /\ Fails
    /\ cleanupAt' = "delete"
    /\ UNCHANGED <<now, jobs, serviceVars, snapshots, demands, events>>

\* Mutant of DeleteOld: it is given the threshold of the stale jobs.
DeleteOldStale ==
    LET cutoff == Local(now - StaleAfter)
    IN  /\ cleanupAt = "delete"
        /\ jobs' = [j \in Jobs |->
                      IF Before(RFC3339(CreatedAt[j]), cutoff) THEN Absent ELSE jobs[j]]
        /\ snapshots' = {s \in snapshots : ~Before(DateTime(s.at), cutoff)}
        /\ demands' = demands \cup {Counts'}
        /\ cleanupAt' = "wait"
        /\ UNCHANGED <<now, serviceVars, failures, events>>

\* CleanupOldData: one transaction, one cutoff for all tables.
DeleteOld ==
    LET cutoff == Local(now - Retention)
    IN  /\ cleanupAt = "delete"
        /\ jobs' = [j \in Jobs |->
                      IF Before(RFC3339(CreatedAt[j]), cutoff) THEN Absent ELSE jobs[j]]
        /\ snapshots' = {s \in snapshots : ~Before(DateTime(s.at), cutoff)}
        /\ demands' = demands \cup {Counts'}
        /\ cleanupAt' = "wait"
        /\ UNCHANGED <<now, serviceVars, failures, events>>

DeleteOldFails ==
    /\ cleanupAt = "delete" /\ Fails
    /\ cleanupAt' = "wait"
    /\ UNCHANGED <<now, jobs, serviceVars, snapshots, demands, events>>

CleanupService == MarkStale \/ MarkStaleFails \/ DeleteOld \/ DeleteOldFails

-----------------------------------------------------------------------------
Next ==
    \/ Hour
    \/ \E j \in Jobs, status \in {"queued", "in_progress", "completed"} : JobEvent(j, status)
    \/ MetricsService
    \/ CleanupService

Spec == Init /\ [][Next]_vars

\* Both services tick.
Fairness == WF_vars(MetricsService) /\ WF_vars(CleanupService)

FairSpec == Spec /\ Fairness

-----------------------------------------------------------------------------
\* Every snapshot is a demand there was at one moment, although jobs change
\* between the steps of updateMetrics: the peak on the dashboard is one that
\* the runners had to meet (GetCurrentJobCounts).  Nothing like it holds of the
\* pair of gauges, which are set one after the other.
DemandWasReal ==
    \A s \in snapshots : [running |-> s.running, queued |-> s.queued] \in demands

\* When jobs stop changing, the gauges come to show what the table holds, also
\* for a label whose last job has ended and whatever statements failed.  While
\* the gauges by label are set again after their reset, a scrape may miss some
\* of the labels; it never finds one with other counts.
GaugesConverge ==
    <>[](/\ gauges = Counts
         /\ labelGauges \subseteq LabelCounts
         /\ metricsAt # "setLabels" => labelGauges = LabelCounts)

\* The peak demand of any period comes to be at least the present demand,
\* although the two are read from different tables.  It needs a retention of
\* more than a day and the offset of the zone, Retention > Day + Offset, as the
\* run has it: with less, the clean-up may delete the newest snapshot as well
\* (see RetentionWindow) and the peak falls to nothing until the next one.
PeakIsUpToDate ==
    <>[](\A hours \in Periods : Peak(hours) >= Counts.running + Counts.queued)

\* What the comparison of texts makes of the retention period and of the stale
\* threshold.  Jobs are deleted and marked by their age to the hour, moved by
\* the offset of the local zone, since created_at is in UTC.  Snapshots go up
\* to a day earlier, with their whole date, since their separator sorts first;
\* no older one survives a clean-up that does not fail.
RetentionWindow ==
    [][LET limit == Retention - Offset
           deletes == cleanupAt = "delete" /\ cleanupAt' = "wait" /\ failures' = failures
       IN  /\ \A s \in snapshots \ snapshots' : now - s.at > limit - Day
           /\ \A j \in Jobs :
                 /\ jobs[j] # Absent /\ jobs'[j] = Absent => now - CreatedAt[j] > limit
                 /\ jobs[j] # "stale" /\ jobs'[j] = "stale"
                      => now - CreatedAt[j] > StaleAfter - Offset
           /\ deletes => /\ \A s \in snapshots' : now - s.at < limit
                         /\ \A j \in Jobs :
                              jobs'[j] # Absent => now - CreatedAt[j] =< limit]_vars
=============================================================================
