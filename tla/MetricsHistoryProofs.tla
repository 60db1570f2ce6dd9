-------------------------- MODULE MetricsHistoryProofs --------------------------
(***************************************************************************)
(* Theorems about MetricsHistory, for any jobs and labels, any length of   *)
(* the day, any zone, retention period and stale threshold.                *)
(***************************************************************************)
EXTENDS MetricsHistory, FiniteSetTheorems, TLAPS

\* The demand that is about to be stored is one there was, and so is what the
\* table holds.
DemandInv ==
    /\ TypeOK
    /\ Counts \in demands
    /\ counted \in demands
    /\ DemandWasReal

-----------------------------------------------------------------------------
(* Times as text.                                                          *)

\* A time is its date and its hour of the day.
LEMMA DateAndHour ==
    ASSUME NEW t \in Int
    PROVE  /\ t \div Day \in Int /\ t % Day \in 0 .. Day - 1
           /\ t = Day * (t \div Day) + (t % Day)
  BY HistoryAssumption DEF HistoryAssumption

\* The next date begins a day later.
LEMMA NextDate ==
    ASSUME NEW m \in Int, NEW n \in Int, m < n
    PROVE  Day * m \in Int /\ Day * n \in Int /\ Day * m + Day =< Day * n
<1>1. Day \in Nat
  BY HistoryAssumption DEF HistoryAssumption
<1>2. PICK k \in Nat : n = m + 1 + k
  <2>1. n - (m + 1) \in Nat /\ n = m + 1 + (n - (m + 1))
    OBVIOUS
  <2> QED
    BY <2>1
<1>3. Day * n = Day * m + Day + Day * k
  BY <1>1, <1>2
<1>4. Day * k \in Nat
  BY <1>1
<1>5. Day * m \in Int
  BY <1>1
<1> HIDE <1>2
<1> QED
  BY <1>1, <1>3, <1>4, <1>5

\* The order of the dates and hours is the order of the times.
LEMMA EarlierDate ==
    ASSUME NEW t \in Int, NEW u \in Int, t \div Day < u \div Day
    PROVE  t < u
<1> DEFINE m == t \div Day
           n == u \div Day
<1>1. /\ m \in Int /\ n \in Int /\ m < n
      /\ t % Day \in 0 .. Day - 1 /\ u % Day \in 0 .. Day - 1
      /\ t = Day * m + (t % Day) /\ u = Day * n + (u % Day)
  BY DateAndHour
<1>2. Day * m \in Int /\ Day * n \in Int /\ Day * m + Day =< Day * n /\ Day \in Nat
  BY <1>1, NextDate, HistoryAssumption DEF HistoryAssumption
<1> HIDE DEF m, n
<1> QED
  BY <1>1, <1>2

\* Two times in the format of the times of jobs compare as times do.
LEMMA BeforeSameFormat ==
    ASSUME NEW t \in Int, NEW u \in Int
    PROVE  Before(RFC3339(t), RFC3339(u)) <=> t < u
<1>1. /\ t \div Day \in Int /\ u \div Day \in Int
      /\ t % Day \in Int /\ u % Day \in Int
      /\ t = Day * (t \div Day) + (t % Day) /\ u = Day * (u \div Day) + (u % Day)
  BY DateAndHour, HistoryAssumption DEF HistoryAssumption
<1>2. Before(RFC3339(t), RFC3339(u)) <=>
        \/ t \div Day < u \div Day
        \/ t \div Day = u \div Day /\ t % Day < u % Day
  BY <1>1 DEF Before, RFC3339, T
<1>3. CASE t \div Day < u \div Day
  BY <1>2, <1>3, EarlierDate
<1>4. CASE u \div Day < t \div Day
  <2>1. u < t
    BY <1>4, EarlierDate
  <2> QED
    BY <1>1, <1>2, <1>4, <2>1
<1>5. CASE t \div Day = u \div Day
  <2> DEFINE begin == Day * (t \div Day)
  <2>1. begin \in Int
    BY <1>1, HistoryAssumption DEF HistoryAssumption
  <2>2. t = begin + (t % Day) /\ u = begin + (u % Day)
    BY <1>1, <1>5
  <2>3. t < u <=> t % Day < u % Day
    <3> HIDE DEF begin
    <3> QED
      BY <1>1, <2>1, <2>2
  <2> QED
    BY <1>1, <1>2, <1>5, <2>3
<1> QED
  BY <1>1, <1>3, <1>4, <1>5

\* The default format of a snapshot's time sorts before any time of the same
\* date in the format of the cutoff: the date decides.
LEMMA BeforeOtherFormat ==
    ASSUME NEW t \in Int, NEW u \in Int
    PROVE  Before(DateTime(t), RFC3339(u)) <=> t \div Day =< u \div Day
<1>1. t \div Day \in Int /\ u \div Day \in Int
  BY DateAndHour
<1> QED
  BY <1>1 DEF Before, DateTime, RFC3339, Space, T

\* So a snapshot counts as older than a cutoff up to a day too early ...
LEMMA BeforeIsWithinADay ==
    ASSUME NEW t \in Int, NEW u \in Int, Before(DateTime(t), RFC3339(u))
    PROVE  t < u + Day
<1> DEFINE m == t \div Day
           n == u \div Day
<1>1. /\ m \in Int /\ n \in Int /\ m < n + 1
      /\ t % Day \in 0 .. Day - 1 /\ u % Day \in 0 .. Day - 1
      /\ t = Day * m + (t % Day) /\ u = Day * n + (u % Day)
  BY DateAndHour, BeforeOtherFormat
<1>2. /\ Day \in Nat /\ Day * m \in Int /\ Day * n \in Int
      /\ Day * (n + 1) = Day * n + Day /\ Day * m + Day =< Day * (n + 1)
  BY <1>1, NextDate, HistoryAssumption DEF HistoryAssumption
<1> HIDE DEF m, n
<1> QED
  BY <1>1, <1>2

\* ... and never too late.
LEMMA NotBeforeIsYounger ==
    ASSUME NEW t \in Int, NEW u \in Int, ~Before(DateTime(t), RFC3339(u))
    PROVE  u < t
<1>1. u \div Day < t \div Day
  BY DateAndHour, BeforeOtherFormat
<1> QED
  BY <1>1, EarlierDate

-----------------------------------------------------------------------------
(* Counts.                                                                 *)

\* Some of the jobs are at most all of them.
LEMMA SomeJobs ==
    ASSUME NEW set \in SUBSET Jobs
    PROVE  IsFiniteSet(set) /\ Cardinality(set) \in Few
<1>1. IsFiniteSet(Jobs) /\ Cardinality(Jobs) \in Nat
  BY FS_CardinalityType, HistoryAssumption DEF HistoryAssumption
<1>2. IsFiniteSet(set) /\ Cardinality(set) =< Cardinality(Jobs)
  BY <1>1, FS_Subset
<1>3. Cardinality(set) \in Nat
  BY <1>2, FS_CardinalityType
<1> QED
  BY <1>1, <1>2, <1>3 DEF Few

\* The query of the counts returns a demand, before and after any step.
LEMMA CountsType == Counts \in Demands /\ Counts' \in Demands
<1>1. \A set \in SUBSET Jobs : \A status : InStatus(set, status) \in Few /\ InStatus(set, status)' \in Few
  BY SomeJobs DEF InStatus
<1> QED
  BY <1>1 DEF Counts, Demands

\* The query by label returns each label once.
LEMMA LabelCountsType ==
    /\ LabelCounts \subseteq LabelDemands
    /\ \A g, h \in LabelCounts : g.label = h.label => g = h
<1> DEFINE of(l) == {j \in Jobs : Label[j] = l}
           busy == {Label[j] : j \in {k \in Jobs : jobs[k] \in {"queued", "in_progress"}}}
                     \ {NoLabel}
           row(l) == [label |-> l, running |-> InStatus(of(l), "in_progress"),
                      queued |-> InStatus(of(l), "queued")]
<1>1. LabelCounts = {row(l) : l \in busy}
  BY DEF LabelCounts
<1>2. busy \subseteq Labels
  BY HistoryAssumption DEF HistoryAssumption
<1>3. \A l \in busy : InStatus(of(l), "in_progress") \in Few /\ InStatus(of(l), "queued") \in Few
  BY SomeJobs DEF InStatus
<1>4. \A l \in busy : row(l) \in LabelDemands
  BY <1>2, <1>3 DEF LabelDemands
<1>5. \A l \in busy : row(l).label = l
  OBVIOUS
<1> HIDE DEF row, busy
<1> QED
  BY <1>1, <1>4, <1>5

-----------------------------------------------------------------------------
(* Type correctness.                                                       *)

\* The initial state has the types.
LEMMA HistoryTypeInit ==
    ASSUME Init
    PROVE  TypeOK
<1>1. 0 \in Few
  BY SomeJobs, FS_EmptySet
<1>2. Nothing \in Demands /\ {} \subseteq LabelDemands
  BY <1>1 DEF Nothing, Demands
<1>3. /\ 0 \in 0 .. MaxTime /\ 0 \in 0 .. MaxEvents /\ 0 \in 0 .. MaxFailures
  BY HistoryAssumption DEF HistoryAssumption
<1> QED
  BY <1>2, <1>3 DEF Init, TypeOK

\* A failing statement is within the bound.
LEMMA FailsType ==
    ASSUME TypeOK, Fails
    PROVE  failures' \in 0 .. MaxFailures /\ failures' # failures
  BY HistoryAssumption DEF HistoryAssumption, TypeOK, Fails

\* Every step keeps the types.
LEMMA HistoryTypeStep ==
    ASSUME TypeOK, [Next]_vars
    PROVE  TypeOK'
<1>1. CASE Hour
  <2>1. now' \in 0 .. MaxTime
    BY <1>1, HistoryAssumption DEF HistoryAssumption, Hour, TypeOK
  <2> QED
    BY <1>1, <2>1 DEF Hour, TypeOK, serviceVars
<1>2. ASSUME NEW j \in Jobs, NEW status \in {"queued", "in_progress", "completed"},
             JobEvent(j, status)
      PROVE  TypeOK'
  <2>1. events' \in 0 .. MaxEvents
    BY <1>2, HistoryAssumption DEF HistoryAssumption, JobEvent, TypeOK
  <2>2. status \in JobStatuses
    BY DEF JobStatuses, JobStatusPriority
  <2>3. jobs' \in [Jobs -> JobStatuses \cup {Absent}]
    BY <1>2, <2>2 DEF JobEvent, TypeOK
  <2>4. demands' \subseteq Demands
    BY <1>2, CountsType DEF JobEvent, TypeOK
  <2> QED
    BY <1>2, <2>1, <2>3, <2>4 DEF JobEvent, TypeOK, serviceVars
<1>3. CASE MetricsService
  <2>1. CASE Count
    BY <2>1, CountsType DEF Count, TypeOK
  <2>2. CASE CountFails
    BY <2>2, FailsType DEF CountFails, TypeOK, serviceVars
  <2>3. CASE SetRunning \/ SetQueued
    <3>1. gauges' \in Demands
      BY <2>3 DEF SetRunning, SetQueued, TypeOK, Demands
    <3> QED
      BY <2>3, <3>1 DEF SetRunning, SetQueued, TypeOK
  <2>4. CASE CountLabels
    BY <2>4, LabelCountsType DEF CountLabels, TypeOK
  <2>7. CASE CountLabelsFails
    BY <2>7, FailsType DEF CountLabelsFails, TypeOK
  <2>8. CASE ResetLabels
    BY <2>8 DEF ResetLabels, AfterLabel, TypeOK
  <2>9. ASSUME NEW c \in labelCounted, SetLabel(c)
        PROVE  TypeOK'
    <3>1. labelGauges' = {g \in labelGauges : g.label # c.label} \cup {c}
      BY <2>9 DEF SetLabel
    <3>2. labelGauges' \subseteq LabelDemands
      BY <3>1 DEF TypeOK
    <3>3. \A g, h \in labelGauges' : g.label = h.label => g = h
      BY <3>1 DEF TypeOK
    <3> QED
      BY <2>9, <3>2, <3>3 DEF SetLabel, AfterLabel, TypeOK
  <2>5. CASE Insert
    <3>1. snapshots' \subseteq [at : 0 .. MaxTime, running : Few, queued : Few]
      BY <2>5 DEF Insert, TypeOK, Demands
    <3> QED
      BY <2>5, <3>1 DEF Insert, TypeOK
  <2>6. CASE InsertFails
    BY <2>6, FailsType DEF InsertFails, TypeOK
  <2> QED
    BY <1>3, <2>1, <2>2, <2>3, <2>4, <2>5, <2>6, <2>7, <2>8, <2>9 DEF MetricsService
<1>4. CASE CleanupService
  <2>1. CASE MarkStale
    <3>1. jobs' \in [Jobs -> JobStatuses \cup {Absent}]
      BY <2>1 DEF MarkStale, TypeOK, JobStatuses, JobStatusPriority
    <3>2. demands' \subseteq Demands
      BY <2>1, CountsType DEF MarkStale, TypeOK
    <3> QED
      BY <2>1, <3>1, <3>2 DEF MarkStale, TypeOK, serviceVars
  <2>2. CASE MarkStaleFails
    BY <2>2, FailsType DEF MarkStaleFails, TypeOK, serviceVars
  <2>3. CASE DeleteOld
    <3>1. jobs' \in [Jobs -> JobStatuses \cup {Absent}]
      BY <2>3 DEF DeleteOld, TypeOK
    <3>2. demands' \subseteq Demands
      BY <2>3, CountsType DEF DeleteOld, TypeOK
    <3>3. snapshots' \subseteq snapshots
      BY <2>3 DEF DeleteOld
    <3>4. cleanupAt' = "wait" /\ UNCHANGED <<now, serviceVars, failures, events>>
      BY <2>3 DEF DeleteOld
    <3> QED
      BY <3>1, <3>2, <3>3, <3>4 DEF TypeOK, serviceVars
  <2>4. CASE DeleteOldFails
    BY <2>4, FailsType DEF DeleteOldFails, TypeOK, serviceVars
  <2> QED
    BY <1>4, <2>1, <2>2, <2>3, <2>4 DEF CleanupService
<1>5. CASE UNCHANGED vars
  BY <1>5 DEF vars, TypeOK, serviceVars
<1> QED
  BY <1>1, <1>2, <1>3, <1>4, <1>5 DEF Next

\* The types, in every reachable state.
THEOREM HistoryTypeCorrect == Spec => []TypeOK
<1>1. Init => TypeOK
  BY HistoryTypeInit
<1>2. TypeOK /\ [Next]_vars => TypeOK'
  BY HistoryTypeStep
<1> QED
  BY <1>1, <1>2, PTL DEF Spec

-----------------------------------------------------------------------------
(* Demands.                                                                *)

\* Demands are remembered, and a change of the jobs adds the new one; so what
\* was counted before the change stays one that there was.
LEMMA DemandStep ==
    ASSUME DemandInv, [Next]_vars
    PROVE  DemandInv'
<1>0. TypeOK /\ TypeOK'
  BY HistoryTypeStep DEF DemandInv
<1>1. ASSUME demands' = demands \cup {Counts'}, UNCHANGED serviceVars, snapshots' \subseteq snapshots
      PROVE  DemandInv'
  BY <1>0, <1>1 DEF DemandInv, DemandWasReal, serviceVars
<1>2. ASSUME UNCHANGED <<jobs, demands>> PROVE Counts' \in demands'
  BY <1>2 DEF DemandInv, Counts, InStatus
<1>3. ASSUME UNCHANGED <<jobs, demands, counted, snapshots>> PROVE DemandInv'
  BY <1>0, <1>2, <1>3 DEF DemandInv, DemandWasReal
<1>4. CASE Count
  BY <1>0, <1>2, <1>4 DEF Count, DemandInv, DemandWasReal
<1>5. CASE Insert
  <2>1. [running |-> counted.running, queued |-> counted.queued] = counted
    BY <1>0 DEF TypeOK, Demands
  <2>2. /\ UNCHANGED <<jobs, counted, demands>>
        /\ snapshots' = snapshots \cup
              {[at |-> now, running |-> counted.running, queued |-> counted.queued]}
    BY <1>5 DEF Insert
  <2>3. ASSUME NEW s \in snapshots'
        PROVE  [running |-> s.running, queued |-> s.queued] \in demands
    <3>1. CASE s \in snapshots
      BY <3>1 DEF DemandInv, DemandWasReal
    <3>2. CASE s = [at |-> now, running |-> counted.running, queued |-> counted.queued]
      <4>1. s.running = counted.running /\ s.queued = counted.queued
        BY <3>2
      <4> QED
        BY <2>1, <4>1 DEF DemandInv
    <3> QED
      BY <2>2, <3>1, <3>2
  <2> QED
    BY <1>0, <1>2, <2>2, <2>3 DEF DemandInv, DemandWasReal
<1>6. ASSUME NEW j \in Jobs, NEW status, JobEvent(j, status) PROVE DemandInv'
  BY <1>1, <1>6 DEF JobEvent
<1>7. CASE MarkStale
  BY <1>1, <1>7 DEF MarkStale
<1>8. CASE DeleteOld
  BY <1>1, <1>8 DEF DeleteOld
<1> QED
  BY <1>3, <1>4, <1>5, <1>6, <1>7, <1>8
     DEF Next, Hour, MetricsService, CountFails, SetRunning, SetQueued, CountLabels,
         CountLabelsFails, ResetLabels, SetLabel, InsertFails, CleanupService,
         MarkStaleFails, DeleteOldFails, vars, serviceVars

\* Snapshots show demands there were, although the steps of updateMetrics, the
\* events and the clean-up interleave.
THEOREM DemandsAreReal == Spec => []DemandWasReal
<1>1. ASSUME Init PROVE DemandInv
  <2>1. \A set \in SUBSET Jobs : InStatus(set, "in_progress") = 0 /\ InStatus(set, "queued") = 0
    <3> TAKE set \in SUBSET Jobs
    <3>1. {j \in set : jobs[j] = "in_progress"} = {} /\ {j \in set : jobs[j] = "queued"} = {}
      BY <1>1 DEF Init, Absent
    <3> QED
      BY <3>1, FS_EmptySet DEF InStatus
  <2>2. Counts = Nothing
    BY <2>1 DEF Counts, Nothing
  <2> QED
    BY <1>1, <2>2, HistoryTypeInit DEF Init, DemandInv, DemandWasReal
<1>2. DemandInv /\ [Next]_vars => DemandInv'
  BY DemandStep
<1>3. DemandInv => DemandWasReal
  BY DEF DemandInv
<1> QED
  BY <1>1, <1>2, <1>3, PTL DEF Spec

-----------------------------------------------------------------------------
(* Retention.                                                              *)

\* The window of RetentionWindow, for one step.
Window ==
    LET limit == Retention - Offset
        deletes == cleanupAt = "delete" /\ cleanupAt' = "wait" /\ failures' = failures
    IN  /\ \A s \in snapshots \ snapshots' : now - s.at > limit - Day
        /\ \A j \in Jobs :
              /\ jobs[j] # Absent /\ jobs'[j] = Absent => now - CreatedAt[j] > limit
              /\ jobs[j] # "stale" /\ jobs'[j] = "stale"
                   => now - CreatedAt[j] > StaleAfter - Offset
        /\ deletes => /\ \A s \in snapshots' : now - s.at < limit
                      /\ \A j \in Jobs :
                           jobs'[j] # Absent => now - CreatedAt[j] =< limit

\* All the times that are compared are numbers.
LEMMA TimesType ==
    ASSUME TypeOK
    PROVE  /\ now \in Nat /\ \A s \in snapshots : s.at \in Nat
           /\ \A j \in Jobs : CreatedAt[j] \in Nat
           /\ Day \in Nat /\ Offset \in Int /\ Retention \in Nat /\ StaleAfter \in Nat
  BY HistoryAssumption DEF HistoryAssumption, TypeOK

\* Marking stale jobs stays within its window.
LEMMA MarkStaleWindow ==
    ASSUME TypeOK, MarkStale
    PROVE  Window
<1>1. ASSUME NEW j \in Jobs, jobs'[j] # jobs[j]
      PROVE  jobs'[j] = "stale" /\ now - CreatedAt[j] > StaleAfter - Offset
  <2>1. jobs'[j] = "stale" /\ Before(RFC3339(CreatedAt[j]), RFC3339((now - StaleAfter) + Offset))
    BY <1>1 DEF MarkStale, Local
  <2>2. CreatedAt[j] < (now - StaleAfter) + Offset
    BY <2>1, TimesType, BeforeSameFormat
  <2> QED
    BY <2>1, <2>2, TimesType
<1>2. UNCHANGED snapshots /\ cleanupAt = "wait"
  BY DEF MarkStale
<1> QED
  BY <1>1, <1>2 DEF Window, Absent

\* So does the deletion of what is older than the retention period.
LEMMA DeleteOldWindow ==
    ASSUME TypeOK, DeleteOld
    PROVE  Window
<1> DEFINE limit == Retention - Offset
           cutoff == (now - Retention) + Offset
<1>1. cutoff \in Int
  BY TimesType
<1>2. ASSUME NEW s \in snapshots
      PROVE  IF Before(DateTime(s.at), RFC3339(cutoff)) THEN now - s.at > limit - Day
                                                        ELSE now - s.at < limit
  <2>1. CASE Before(DateTime(s.at), RFC3339(cutoff))
    <3>1. s.at < cutoff + Day
      BY <1>1, <2>1, TimesType, BeforeIsWithinADay
    <3> QED
      BY <2>1, <3>1, TimesType
  <2>2. CASE ~Before(DateTime(s.at), RFC3339(cutoff))
    <3>1. cutoff < s.at
      BY <1>1, <2>2, TimesType, NotBeforeIsYounger
    <3> QED
      BY <2>2, <3>1, TimesType
  <2> QED
    BY <2>1, <2>2
<1>3. ASSUME NEW j \in Jobs
      PROVE  Before(RFC3339(CreatedAt[j]), RFC3339(cutoff)) <=> now - CreatedAt[j] > limit
  <2>1. Before(RFC3339(CreatedAt[j]), RFC3339(cutoff)) <=> CreatedAt[j] < cutoff
    BY <1>1, TimesType, BeforeSameFormat
  <2> QED
    BY <2>1, TimesType
<1>4. /\ jobs' = [j \in Jobs |-> IF Before(RFC3339(CreatedAt[j]), RFC3339(cutoff))
                                 THEN Absent ELSE jobs[j]]
      /\ snapshots' = {s \in snapshots : ~Before(DateTime(s.at), RFC3339(cutoff))}
  BY DEF DeleteOld, Local
<1>5. \A j \in Jobs : now - CreatedAt[j] > limit \/ now - CreatedAt[j] =< limit
  BY TimesType
<1> HIDE DEF limit, cutoff
<1>6. \A s \in snapshots \ snapshots' : now - s.at > limit - Day
  BY <1>2, <1>4
<1>7. \A s \in snapshots' : now - s.at < limit
  BY <1>2, <1>4
<1>8. \A j \in Jobs : IF now - CreatedAt[j] > limit THEN jobs'[j] = Absent
                                                   ELSE UNCHANGED jobs[j]
  BY <1>3, <1>4
<1> QED
  BY <1>5, <1>6, <1>7, <1>8 DEF Window, Absent, limit

\* Every other step marks no job, deletes nothing and is no deletion.
LEMMA WindowStep ==
    ASSUME TypeOK, [Next]_vars
    PROVE  Window
<1>1. ASSUME NEW j \in Jobs, NEW status \in {"queued", "in_progress", "completed"},
             JobEvent(j, status)
      PROVE  Window
  <2>1. \A k \in Jobs : jobs'[k] = jobs[k] \/ jobs'[k] \notin {Absent, "stale"}
    BY <1>1 DEF JobEvent, TypeOK, Absent
  <2>2. UNCHANGED <<snapshots, cleanupAt>>
    BY <1>1 DEF JobEvent
  <2> QED
    BY <2>1, <2>2 DEF Window
<1>2. ASSUME UNCHANGED jobs, snapshots \subseteq snapshots', cleanupAt' = cleanupAt \/ cleanupAt = "wait"
      PROVE  Window
  BY <1>2 DEF Window
<1>3. CASE DeleteOldFails
  <2>1. failures' # failures /\ UNCHANGED <<jobs, snapshots>>
    BY <1>3, FailsType DEF DeleteOldFails
  <2> QED
    BY <2>1 DEF Window
<1> QED
  BY <1>1, <1>2, <1>3, MarkStaleWindow, DeleteOldWindow
     DEF Next, Hour, MetricsService, Count, CountFails, SetRunning, SetQueued, CountLabels,
         CountLabelsFails, ResetLabels, SetLabel, Insert, InsertFails, CleanupService,
         MarkStaleFails, vars, serviceVars

\* What the clean-up deletes and marks is within the window that the texts
\* leave, to the hour for jobs and to the day for snapshots.
THEOREM RetentionIsWindowed == Spec => RetentionWindow
<1>1. TypeOK /\ [Next]_vars => [Window]_vars
  BY WindowStep
<1>2. RetentionWindow <=> [][Window]_vars
  BY PTL DEF RetentionWindow, Window
<1> QED
  BY <1>1, <1>2, HistoryTypeCorrect, PTL DEF Spec
=============================================================================
