------------------------ MODULE WorkflowHandlersProofs ------------------------
(***************************************************************************)
(* Theorems about WorkflowHandlers, for any number of jobs, runs, events   *)
(* and workers, with or without database faults.                           *)
(***************************************************************************)
EXTENDS WorkflowHandlers, TLAPS

\* The priority maps, as the lifecycle rules use them.
LEMMA JobFacts ==
    /\ JobStatuses = {"waiting", "queued", "requested", "in_progress",
                      "completed", "cancelled", "stale"}
    /\ \A s \in JobStatuses : JobStatusPriority[s] \in Nat
    /\ Absent \notin JobStatuses
    /\ TerminalJobStatuses \subseteq JobStatuses
    /\ \A s \in JobStatuses : \A t \in TerminalJobStatuses :
          JobStatusPriority[s] =< JobStatusPriority[t]
  BY DEF JobStatuses, JobStatusPriority, TerminalJobStatuses, Absent

\* The same for runs, whose statuses are among those of the jobs.
LEMMA RunFacts ==
    /\ RunStatuses = {"requested", "in_progress", "completed", "cancelled"}
    /\ \A s \in RunStatuses : RunStatusPriority[s] \in Nat
    /\ Absent \notin RunStatuses
    /\ RunStatuses \subseteq JobStatuses
    /\ TerminalRunStatuses \subseteq RunStatuses
    /\ \A s \in RunStatuses : \A t \in TerminalRunStatuses :
          RunStatusPriority[s] =< RunStatusPriority[t]
  BY JobFacts DEF RunStatuses, RunStatusPriority, TerminalRunStatuses, Absent

\* What a worker does fits the delivery it holds: past the rejection of unknown
\* actions its status is known, only jobs have a previous state and metrics,
\* only runs are announced.
Control ==
    \A w \in Workers :
        /\ at[w] \in {"read", "upsert", "count", "announce"} => Known(current[w])
        /\ at[w] \in {"read", "count"} => Subject(w) \in Jobs
        /\ at[w] = "announce" => Subject(w) \in Runs

TypeInv == TypeOK /\ Control

\* A write transaction keeps the tables well-typed, and refuses any status
\* outside the priority map.
LEMMA UpsertType ==
    ASSUME TablesTypeOK, NEW status
    PROVE  /\ \A j \in Jobs : AddOrUpdateJob(j, status) => TablesTypeOK'
           /\ \A r \in Runs : AddOrUpdateRun(r, status) => TablesTypeOK'
           /\ \A j \in Jobs : JobAdmits(j, status) => status \in JobStatuses
           /\ \A r \in Runs : RunAdmits(r, status) => status \in RunStatuses
  BY DEF TablesTypeOK, AddOrUpdateJob, AddOrUpdateRun, JobAdmits, RunAdmits, Admits,
         JobStatuses, RunStatuses

\* The clean-up statements keep the tables well-typed.
LEMMA CleanupType ==
    ASSUME TablesTypeOK
    PROVE  /\ \A stuck : MarkStale(stuck) => TablesTypeOK'
           /\ \A old : DeleteOld(old) => TablesTypeOK'
  BY JobFacts DEF TablesTypeOK, MarkStale, DeleteOld

\* The state of a server that just started is well-typed.
LEMMA InitType == Init => TypeInv
  BY DEF Init, TablesInit, HandlersInit, TypeInv, TypeOK, TablesTypeOK, Control, Places

\* Every step of the handlers and of the clean-up keeps the state well-typed.
LEMMA StepType == TypeInv /\ [Next]_vars => TypeInv'
<1> SUFFICES ASSUME TypeOK, Control, [Next]_vars PROVE TypeOK' /\ Control'
  BY DEF TypeInv
<1> USE DEF Goto
<1>1. ASSUME NEW w \in Workers, NEW d \in Deliveries, Receive(w, d)
      PROVE  TypeOK' /\ Control'
  <2>1. TypeOK'
    BY <1>1, HandlersAssumption DEF Receive, TypeOK, TablesTypeOK, Places
  <2>2. Event[d].id \in Jobs \cup Runs
    BY HandlersAssumption DEF Events, Ids
  <2> QED
    BY <1>1, <2>1, <2>2 DEF Receive, TypeOK, Control, Subject, Known
<1>2. ASSUME NEW w \in Workers, ReadPrevious(w) PROVE TypeOK' /\ Control'
  <2>1. Subject(w) \in Jobs
    BY <1>2 DEF ReadPrevious, Control
  <2>2. previous' \in [Workers -> JobStatuses \cup {Absent}]
    BY <1>2, <2>1 DEF ReadPrevious, TypeOK, TablesTypeOK
  <2> QED
    BY <1>2, <2>2 DEF ReadPrevious, TypeOK, TablesTypeOK, Places, Control, Subject
<1>3. ASSUME NEW w \in Workers, UpsertJob(w) PROVE TypeOK' /\ Control'
  <2>1. Subject(w) \in Jobs /\ Incoming(w) \in JobStatuses
    BY <1>3 DEF UpsertJob, Control, Known, Subject, Incoming
  <2>2. TypeOK'
    BY <1>3, <2>1, UpsertType DEF UpsertJob, Acknowledge, TypeOK, Places, Ids
  <2> QED
    BY <1>3, <2>1, <2>2 DEF UpsertJob, Control, TypeOK, Subject
<1>4. ASSUME NEW w \in Workers, UpsertRun(w) PROVE TypeOK' /\ Control'
  <2>1. Subject(w) \in Runs /\ Subject(w) \notin Jobs /\ Incoming(w) \in JobStatuses
    BY <1>4, TablesAssumption, RunFacts DEF UpsertRun, Control, Known, Subject, Incoming
  <2>2. TypeOK'
    BY <1>4, <2>1, UpsertType DEF UpsertRun, Acknowledge, TypeOK, Places, Ids
  <2> QED
    BY <1>4, <2>1, <2>2 DEF UpsertRun, Control, TypeOK, Subject
<1>5. ASSUME NEW w \in Workers, UpsertFails(w) PROVE TypeOK' /\ Control'
  BY <1>5 DEF UpsertFails, TypeOK, TablesTypeOK, Places, Control, Subject
<1>6. ASSUME NEW w \in Workers, CountTransition(w) PROVE TypeOK' /\ Control'
  BY <1>6 DEF CountTransition, TypeOK, TablesTypeOK, Places, Control, Subject
<1>7. ASSUME NEW w \in Workers, Announce(w) PROVE TypeOK' /\ Control'
  BY <1>7 DEF Announce, TypeOK, TablesTypeOK, Places, Control, Subject
<1>8. ASSUME NEW w \in Workers, Return(w) PROVE TypeOK' /\ Control'
  BY <1>8, HandlersAssumption DEF Return, TypeOK, TablesTypeOK, Places, Control, Subject
<1>9. ASSUME CleanupStaleJobs PROVE TypeOK' /\ Control'
  BY <1>9, CleanupType, JobFacts DEF CleanupStaleJobs, TypeOK, Control, Subject
<1>10. ASSUME CleanupOldData PROVE TypeOK' /\ Control'
  BY <1>10, CleanupType DEF CleanupOldData, TypeOK, Control, Subject
<1>11. CASE UNCHANGED vars
  BY <1>11 DEF vars, handlerVars, TypeOK, TablesTypeOK, Control, Subject
<1> QED
  BY <1>1, <1>2, <1>3, <1>4, <1>5, <1>6, <1>7, <1>8, <1>9, <1>10, <1>11
     DEF Next, HandlerStep

\* The state of the handlers stays well-typed in every behaviour.
THEOREM TypeCorrect == Spec => []TypeOK
<1>1. Spec => []TypeInv
  BY InitType, StepType, PTL DEF Spec
<1> QED
  BY <1>1, PTL DEF TypeInv

-----------------------------------------------------------------------------
\* The write transaction of one row, in isolation: a row that sums up a set of
\* statuses sums up one more after the upsert of that status.
LEMMA JobUpsertSettles ==
    ASSUME NEW j \in Jobs, jobs[j] \in JobStatuses \cup {Absent},
           NEW statuses \in SUBSET JobStatuses, NEW status \in JobStatuses,
           Settles(JobStatusPriority, jobs[j], statuses)
    PROVE  Settles(JobStatusPriority,
                   IF JobAdmits(j, status) THEN status ELSE jobs[j],
                   statuses \cup {status})
  BY JobFacts DEF Settles, JobAdmits, Admits, JobStatuses, Absent

\* The same for the transaction of AddOrUpdateRun.
LEMMA RunUpsertSettles ==
    ASSUME NEW r \in Runs, runs[r] \in RunStatuses \cup {Absent},
           NEW statuses \in SUBSET RunStatuses, NEW status \in RunStatuses,
           Settles(RunStatusPriority, runs[r], statuses)
    PROVE  Settles(RunStatusPriority,
                   IF RunAdmits(r, status) THEN status ELSE runs[r],
                   statuses \cup {status})
  BY RunFacts DEF Settles, RunAdmits, Admits, RunStatuses, Absent

\* A run is only ever sent statuses of the run lifecycle.
RunsSeen == \A r \in Runs : seen[r] \subseteq RunStatuses

ConvergeInv == TypeInv /\ RowsConverge /\ RunsSeen

\* Every step keeps each row the summary of the statuses it was sent: an upsert
\* adds one, the stale marking adds "stale", a deletion forgets both.
LEMMA StepConverges == ConvergeInv /\ [Next]_vars => RowsConverge' /\ RunsSeen'
<1> SUFFICES ASSUME TypeInv, RowsConverge, RunsSeen, [Next]_vars
             PROVE  RowsConverge' /\ RunsSeen'
  BY DEF ConvergeInv
<1> DEFINE Same == UNCHANGED <<jobs, runs, seen>>
<1>0. Same => RowsConverge' /\ RunsSeen'
  BY DEF RowsConverge, RunsSeen
<1>1. ASSUME NEW w \in Workers, UpsertJob(w) PROVE RowsConverge' /\ RunsSeen'
  <2> DEFINE j == Subject(w)
             s == Incoming(w)
  <2>1. j \in Jobs /\ j \notin Runs /\ s \in JobStatuses
    BY <1>1, TablesAssumption DEF UpsertJob, TypeInv, Control, Known, Subject, Incoming
  <2>2. /\ runs' = runs
        /\ jobs' = [jobs EXCEPT ![j] = IF JobAdmits(j, s) THEN s ELSE jobs[j]]
        /\ seen' = [seen EXCEPT ![j] = seen[j] \cup {s}]
    BY <1>1, <2>1 DEF UpsertJob, AddOrUpdateJob, Acknowledge, TypeInv, TypeOK, TablesTypeOK
  <2>3. Settles(JobStatusPriority, jobs'[j], seen'[j])
    <3>1. jobs[j] \in JobStatuses \cup {Absent} /\ seen[j] \in SUBSET JobStatuses
      BY <2>1 DEF TypeInv, TypeOK, TablesTypeOK, Ids
    <3>2. jobs'[j] = (IF JobAdmits(j, s) THEN s ELSE jobs[j]) /\ seen'[j] = seen[j] \cup {s}
      BY <2>1, <2>2 DEF TypeInv, TypeOK, TablesTypeOK, Ids
    <3> QED
      BY <2>1, <3>1, <3>2, JobUpsertSettles DEF RowsConverge
  <2>4. \A k \in Ids : k # j => seen'[k] = seen[k]
    BY <2>2 DEF TypeInv, TypeOK
  <2>5. \A k \in Jobs : k # j => jobs'[k] = jobs[k]
    BY <2>2 DEF TypeInv, TypeOK, TablesTypeOK
  <2> QED
    BY <2>1, <2>2, <2>3, <2>4, <2>5 DEF RowsConverge, RunsSeen, Ids
<1>2. ASSUME NEW w \in Workers, UpsertRun(w) PROVE RowsConverge' /\ RunsSeen'
  <2> DEFINE r == Subject(w)
             s == Incoming(w)
  <2>1. r \in Runs /\ r \notin Jobs /\ s \in RunStatuses
    BY <1>2, TablesAssumption DEF UpsertRun, TypeInv, Control, Known, Subject, Incoming
  <2>2. /\ jobs' = jobs
        /\ runs' = [runs EXCEPT ![r] = IF RunAdmits(r, s) THEN s ELSE runs[r]]
        /\ seen' = [seen EXCEPT ![r] = seen[r] \cup {s}]
    BY <1>2, <2>1 DEF UpsertRun, AddOrUpdateRun, Acknowledge, TypeInv, TypeOK, TablesTypeOK
  <2>3. Settles(RunStatusPriority, runs'[r], seen'[r]) /\ seen'[r] \subseteq RunStatuses
    <3>1. runs[r] \in RunStatuses \cup {Absent} /\ seen[r] \in SUBSET RunStatuses
      BY <2>1 DEF TypeInv, TypeOK, TablesTypeOK, RunsSeen
    <3>2. runs'[r] = (IF RunAdmits(r, s) THEN s ELSE runs[r]) /\ seen'[r] = seen[r] \cup {s}
      BY <2>1, <2>2 DEF TypeInv, TypeOK, TablesTypeOK, Ids
    <3> QED
      BY <2>1, <3>1, <3>2, RunUpsertSettles DEF RowsConverge
  <2>4. \A k \in Ids : k # r => seen'[k] = seen[k]
    BY <2>2 DEF TypeInv, TypeOK
  <2>5. \A k \in Runs : k # r => runs'[k] = runs[k]
    BY <2>2 DEF TypeInv, TypeOK, TablesTypeOK
  <2> QED
    BY <2>1, <2>2, <2>3, <2>4, <2>5 DEF RowsConverge, RunsSeen, Ids
<1>3. ASSUME CleanupStaleJobs PROVE RowsConverge' /\ RunsSeen'
  <2>1. PICK stuck \in SUBSET Overdue : MarkStale(stuck)
    BY <1>3 DEF CleanupStaleJobs
  <2>2. /\ runs' = runs
        /\ \A i \in Ids : seen'[i] = IF i \in Jobs /\ jobs'[i] # jobs[i]
                                     THEN seen[i] \cup {"stale"} ELSE seen[i]
    BY <1>3 DEF CleanupStaleJobs, MarkStale
  <2>3. ASSUME NEW j \in Jobs PROVE Settles(JobStatusPriority, jobs'[j], seen'[j])
    <3>1. CASE jobs'[j] = jobs[j]
      BY <2>2, <3>1 DEF RowsConverge, Ids
    <3>2. CASE jobs'[j] # jobs[j]
      <4>1. jobs[j] # Absent /\ jobs'[j] = "stale" /\ seen'[j] = seen[j] \cup {"stale"}
        BY <2>1, <2>2, <3>2 DEF MarkStale, Ids, Absent
      <4>2. seen[j] \subseteq JobStatuses
        BY DEF TypeInv, TypeOK, Ids
      <4> QED
        BY <4>1, <4>2, JobFacts DEF Settles, TerminalJobStatuses
    <3> QED
      BY <3>1, <3>2
  <2> QED
    BY <2>2, <2>3, TablesAssumption DEF RowsConverge, RunsSeen, Ids
<1>4. ASSUME CleanupOldData PROVE RowsConverge' /\ RunsSeen'
  <2>1. PICK old \in SUBSET Expirable :
          DeleteOld(old) /\ seen' = [i \in Ids |-> IF i \in old THEN {} ELSE seen[i]]
    BY <1>4 DEF CleanupOldData
  <2> QED
    BY <2>1 DEF DeleteOld, RowsConverge, RunsSeen, Settles, Ids
<1>5. ASSUME NEW w \in Workers,
             \/ \E d \in Deliveries : Receive(w, d)
             \/ ReadPrevious(w) \/ UpsertFails(w) \/ CountTransition(w)
             \/ Announce(w) \/ Return(w)
      PROVE  Same
  BY <1>5 DEF Receive, ReadPrevious, UpsertFails, CountTransition, Announce, Return
<1>6. CASE UNCHANGED vars
  BY <1>0, <1>6 DEF vars, handlerVars
<1> QED
  BY <1>0, <1>1, <1>2, <1>3, <1>4, <1>5, <1>6 DEF Next, HandlerStep

\* In every behaviour the rows are order-independent: each holds the most
\* advanced status it was sent (models/status_priority.go:10-12).
THEOREM OrderIndependence == Spec => []RowsConverge
<1>1. Init => ConvergeInv
  BY InitType DEF ConvergeInv, RowsConverge, RunsSeen, Settles, Init, TablesInit,
                  HandlersInit, Ids
<1>2. ConvergeInv /\ [Next]_vars => ConvergeInv'
  BY StepType, StepConverges DEF ConvergeInv
<1>3. Spec => []ConvergeInv
  BY <1>1, <1>2, PTL DEF Spec
<1> QED
  BY <1>3, PTL DEF ConvergeInv

-----------------------------------------------------------------------------
AllForward ==
    /\ \A j \in Jobs : Forward(JobStatusPriority, TerminalJobStatuses, jobs[j], jobs'[j])
    /\ \A r \in Runs : Forward(RunStatusPriority, TerminalRunStatuses, runs[r], runs'[r])

\* Every step moves every row forward, if it moves it at all.
LEMMA StepForward == TypeInv /\ [Next]_vars => AllForward
<1> SUFFICES ASSUME TypeInv, [Next]_vars PROVE AllForward
  OBVIOUS
<1> USE DEF AllForward, Forward
<1>0. UNCHANGED <<jobs, runs>> => AllForward
  OBVIOUS
<1>1. ASSUME NEW w \in Workers, UpsertJob(w) PROVE AllForward
  BY <1>1, JobFacts DEF UpsertJob, AddOrUpdateJob, JobAdmits, Admits, JobStatuses,
                       TypeInv, TypeOK, TablesTypeOK
<1>2. ASSUME NEW w \in Workers, UpsertRun(w) PROVE AllForward
  BY <1>2, RunFacts DEF UpsertRun, AddOrUpdateRun, RunAdmits, Admits, RunStatuses,
                       TypeInv, TypeOK, TablesTypeOK
<1>3. ASSUME CleanupStaleJobs PROVE AllForward
  BY <1>3, JobFacts DEF CleanupStaleJobs, MarkStale, TerminalJobStatuses, TypeInv,
                       TypeOK, TablesTypeOK
<1>4. ASSUME CleanupOldData PROVE AllForward
  BY <1>4 DEF CleanupOldData, DeleteOld
<1>5. ASSUME NEW w \in Workers,
             \/ \E d \in Deliveries : Receive(w, d)
             \/ ReadPrevious(w) \/ UpsertFails(w) \/ CountTransition(w)
             \/ Announce(w) \/ Return(w)
      PROVE  UNCHANGED <<jobs, runs>>
  BY <1>5 DEF Receive, ReadPrevious, UpsertFails, CountTransition, Announce, Return
<1>6. CASE UNCHANGED vars
  BY <1>0, <1>6 DEF vars
<1> QED
  BY <1>0, <1>1, <1>2, <1>3, <1>4, <1>5, <1>6 DEF Next, HandlerStep

\* No step ever moves a row back in its lifecycle or changes a terminal row,
\* short of deleting it (the transition rules of workflow.go:40-58).
THEOREM LifecycleMonotone == Spec => RowsMoveForward
<1>1. Spec => []TypeInv
  BY InitType, StepType, PTL DEF Spec
<1>2. TypeInv /\ [Next]_vars => [AllForward]_vars
  BY StepForward
<1>3. Spec => [][AllForward]_vars
  BY <1>1, <1>2, PTL DEF Spec
<1> QED
  BY <1>3 DEF RowsMoveForward, AllForward

-----------------------------------------------------------------------------
\* Why a conclusion is counted once although previousJob is read outside the
\* transaction: a worker that is about to count found the row not completed and
\* completed it itself, which only one worker can do, and what it read before
\* was not completed either, since completed rows stay completed.
CountedRight(j) ==
    /\ concluded[j] = IF jobs[j] = "completed" /\ ~\E w \in Workers : Counting(w, j)
                      THEN 1 ELSE 0
    /\ \A w \in Workers : Counting(w, j) =>
          jobs[j] = "completed" /\ previous[w] # "completed"
    /\ \A v, w \in Workers : Counting(v, j) /\ Counting(w, j) => v = w
    /\ \A w \in Workers :
          at[w] = "upsert" /\ Subject(w) = j /\ previous[w] = "completed" =>
            jobs[j] = "completed"

CountInv == \A j \in Jobs \ Expirable : Concludes(j) => CountedRight(j)

\* Every step keeps the conclusion counter right.
LEMMA StepCounts == TypeInv /\ CountInv /\ [Next]_vars => CountInv'
<1> SUFFICES ASSUME TypeInv, CountInv, [Next]_vars,
                    NEW j \in Jobs \ Expirable, Concludes(j)
             PROVE  CountedRight(j)'
  BY DEF CountInv, Concludes
<1> DEFINE Goal == CountedRight(j)'
<1>a. CountedRight(j)
  BY DEF CountInv
<1> USE DEF Goto, Counting, Subject, Incoming
<1>0. /\ at \in [Workers -> Places] /\ current \in [Workers -> Deliveries \cup {NoDelivery}]
      /\ previous \in [Workers -> JobStatuses \cup {Absent}]
      /\ jobs \in [Jobs -> JobStatuses \cup {Absent}] /\ concluded \in [Jobs -> Nat]
  BY DEF TypeInv, TypeOK, TablesTypeOK
<1>1. ASSUME NEW w \in Workers, NEW d \in Deliveries, Receive(w, d) PROVE Goal
  <2>1. ~Counting(w, j) /\ ~Counting(w, j)'
    BY <1>0, <1>1 DEF Receive
  <2>2. at'[w] = "upsert" => Event[d].id \notin Jobs
    BY <1>0, <1>1 DEF Receive
  <2>3. \A v \in Workers : v # w => at'[v] = at[v] /\ current'[v] = current[v]
    BY <1>0, <1>1 DEF Receive
  <2>4. UNCHANGED <<jobs, concluded, previous>>
    BY <1>1 DEF Receive
  <2>5. at'[w] = "upsert" => Subject(w)' # j
    BY <1>0, <1>1, <2>2 DEF Receive
  <2> QED
    BY <1>a, <2>1, <2>3, <2>4, <2>5 DEF CountedRight
<1>2. ASSUME NEW w \in Workers, ReadPrevious(w) PROVE Goal
  BY <1>a, <1>0, <1>2 DEF ReadPrevious, CountedRight, Absent
<1>3. ASSUME NEW w \in Workers, UpsertJob(w) PROVE Goal
  <2>1. UNCHANGED <<current, previous, concluded>>
    BY <1>3 DEF UpsertJob
  <2>2. \A v \in Workers : v # w => at'[v] = at[v]
    BY <1>0, <1>3 DEF UpsertJob
  <2>3. at[w] = "upsert" /\ at'[w] = (IF JobAdmits(Subject(w), Incoming(w)) THEN "count" ELSE "ok")
    BY <1>0, <1>3 DEF UpsertJob
  <2>4. CASE Subject(w) = j /\ JobAdmits(j, Incoming(w))
    <3>1. jobs[j] # "completed"
      BY <2>4 DEF JobAdmits, Admits, TerminalJobStatuses
    <3>2. jobs'[j] = Incoming(w)
      BY <1>0, <1>3, <2>4 DEF UpsertJob, AddOrUpdateJob
    <3>3. concluded[j] = 0 /\ previous[w] # "completed"
      BY <1>a, <2>3, <2>4, <3>1 DEF CountedRight
    <3>4. \A v \in Workers : ~Counting(v, j)
      BY <1>a, <3>1 DEF CountedRight
    <3>5. \A v \in Workers : Counting(v, j)' => v = w
      BY <2>1, <2>2, <3>4
    <3>6. jobs'[j] = "completed" <=> Counting(w, j)'
      BY <2>1, <2>3, <2>4, <3>2
    <3>7. \A v \in Workers : at'[v] = "upsert" => at[v] = "upsert"
      BY <2>2, <2>3
    <3> QED
      BY <1>a, <2>1, <3>1, <3>3, <3>5, <3>6, <3>7 DEF CountedRight
  <2>5. CASE ~(Subject(w) = j /\ JobAdmits(j, Incoming(w)))
    <3>1. jobs'[j] = jobs[j]
      BY <1>0, <1>3, <2>5 DEF UpsertJob, AddOrUpdateJob
    <3>2. ~Counting(w, j) /\ ~Counting(w, j)' /\ at'[w] # "upsert"
      BY <2>1, <2>3, <2>5
    <3> QED
      BY <1>a, <2>1, <2>2, <3>1, <3>2 DEF CountedRight
  <2> QED
    BY <2>4, <2>5
<1>4. ASSUME NEW w \in Workers, CountTransition(w) PROVE Goal
  <2>1. UNCHANGED <<jobs, current, previous>>
    BY <1>4 DEF CountTransition
  <2>2. at[w] = "count" /\ at'[w] = "ok" /\ \A v \in Workers : v # w => at'[v] = at[v]
    BY <1>0, <1>4 DEF CountTransition
  <2>3. CASE Counting(w, j)
    <3>1. jobs[j] = "completed" /\ previous[w] # "completed" /\ concluded[j] = 0
      BY <1>a, <2>3 DEF CountedRight
    <3>2. Event[current[w]].conclusion
      <4>1. current[w] \in Deliveries
        BY <2>2 DEF TypeInv, TypeOK
      <4> QED
        BY <2>3, <4>1 DEF Concludes
    <3>3. concluded'[j] = 1
      BY <1>0, <1>4, <2>3, <3>1, <3>2 DEF CountTransition
    <3>4. \A v \in Workers : ~Counting(v, j)'
      BY <1>a, <2>1, <2>2, <2>3 DEF CountedRight
    <3> QED
      BY <1>a, <2>1, <2>2, <3>1, <3>3, <3>4 DEF CountedRight
  <2>4. CASE ~Counting(w, j)
    <3>1. concluded'[j] = concluded[j]
      BY <1>0, <1>4, <2>2, <2>4 DEF CountTransition
    <3> QED
      BY <1>a, <2>1, <2>2, <2>4, <3>1 DEF CountedRight
  <2> QED
    BY <2>3, <2>4
<1>5. ASSUME NEW w \in Workers, UpsertRun(w) \/ UpsertFails(w) \/ Announce(w) \/ Return(w)
      PROVE  Goal
  <2>1. UNCHANGED <<jobs, concluded>>
    BY <1>5 DEF UpsertRun, AddOrUpdateRun, UpsertFails, Announce, Return
  <2>2. \A v \in Workers : v # w =>
          at'[v] = at[v] /\ current'[v] = current[v] /\ previous'[v] = previous[v]
    BY <1>0, <1>5 DEF UpsertRun, UpsertFails, Announce, Return
  <2>3. at[w] # "count" /\ at'[w] \notin {"count", "upsert"}
    BY <1>0, <1>5 DEF UpsertRun, UpsertFails, Announce, Return
  <2> QED
    BY <1>a, <2>1, <2>2, <2>3 DEF CountedRight
<1>6. ASSUME CleanupStaleJobs PROVE Goal
  <2>1. UNCHANGED <<at, current, previous, concluded>>
    BY <1>6 DEF CleanupStaleJobs
  <2>2. jobs'[j] = "completed" <=> jobs[j] = "completed"
    BY <1>0, <1>6 DEF CleanupStaleJobs, MarkStale
  <2> QED
    BY <1>a, <2>1, <2>2 DEF CountedRight
<1>7. ASSUME CleanupOldData PROVE Goal
  <2>1. jobs'[j] = jobs[j] /\ UNCHANGED <<at, current, previous, concluded>>
    BY <1>7 DEF CleanupOldData, DeleteOld
  <2> QED
    BY <1>a, <2>1 DEF CountedRight
<1>8. CASE UNCHANGED vars
  BY <1>a, <1>8 DEF vars, handlerVars, CountedRight
<1> QED
  BY <1>1, <1>2, <1>3, <1>4, <1>5, <1>6, <1>7, <1>8 DEF Next, HandlerStep

\* Each job's conclusion is recorded exactly once, whatever is replayed and
\* however the workers interleave (handleJobStatusTransition).
THEOREM ConclusionOnce == Spec => []ConclusionCountedOnce
<1>1. Init => TypeInv /\ CountInv
  <2>1. Init => CountInv
    BY DEF Init, TablesInit, HandlersInit, CountInv, CountedRight, Counting, Absent
  <2> QED
    BY <2>1, InitType
<1>2. TypeInv /\ CountInv /\ [Next]_vars => (TypeInv /\ CountInv)'
  BY StepType, StepCounts
<1>3. CountInv => ConclusionCountedOnce
  BY DEF CountInv, CountedRight, ConclusionCountedOnce
<1> QED
  BY <1>1, <1>2, <1>3, PTL DEF Spec

-----------------------------------------------------------------------------
\* The announcement is never lost: a worker leaves "announce" only by making it,
\* and two workers that owe the same run are both done with the later one.
LEMMA StepAnnounces ==
    TypeInv /\ RunChangesAnnounced /\ [Next]_vars => RunChangesAnnounced'
<1> SUFFICES ASSUME TypeInv, RunChangesAnnounced, [Next]_vars,
                    NEW r \in unannounced'
             PROVE  \E w \in Workers : at'[w] = "announce" /\ Subject(w)' = r
  BY DEF RunChangesAnnounced
<1> DEFINE Owes(w) == at[w] = "announce" /\ Subject(w) = r
           Owed == \E w \in Workers : at'[w] = "announce" /\ Subject(w)' = r
<1> USE DEF Goto, Subject, Owes
<1>0. /\ at \in [Workers -> Places] /\ current \in [Workers -> Deliveries \cup {NoDelivery}]
      /\ r \in unannounced => \E w \in Workers : Owes(w)
  BY DEF TypeInv, TypeOK, RunChangesAnnounced
<1>1. ASSUME NEW w \in Workers, UpsertRun(w) PROVE Owed
  <2>1. CASE r = Subject(w) /\ at'[w] = "announce"
    BY <1>1, <2>1 DEF UpsertRun
  <2>2. CASE ~(r = Subject(w) /\ at'[w] = "announce")
    <3>1. r \in unannounced
      BY <1>0, <1>1, <2>2 DEF UpsertRun
    <3>2. PICK v \in Workers : Owes(v)
      BY <1>0, <3>1
    <3> QED
      BY <1>0, <1>1, <3>2 DEF UpsertRun
  <2> QED
    BY <2>1, <2>2
<1>2. ASSUME NEW w \in Workers, Announce(w) PROVE Owed
  <2>1. r \in unannounced /\ r # Subject(w)
    BY <1>2 DEF Announce
  <2>2. PICK v \in Workers : Owes(v)
    BY <1>0, <2>1
  <2> QED
    BY <1>0, <1>2, <2>1, <2>2 DEF Announce
<1>3. ASSUME NEW w \in Workers,
             \/ \E d \in Deliveries : Receive(w, d)
             \/ ReadPrevious(w) \/ UpsertJob(w) \/ UpsertFails(w)
             \/ CountTransition(w) \/ Return(w)
      PROVE  Owed
  <2>1. /\ unannounced' = unannounced /\ at[w] # "announce"
        /\ \A v \in Workers : v # w => at'[v] = at[v] /\ current'[v] = current[v]
    BY <1>0, <1>3 DEF Receive, ReadPrevious, UpsertJob, UpsertFails, CountTransition, Return
  <2>2. PICK v \in Workers : Owes(v)
    BY <1>0, <2>1
  <2> QED
    BY <2>1, <2>2
<1>4. CASE CleanupStaleJobs \/ CleanupOldData \/ UNCHANGED vars
  BY <1>0, <1>4 DEF CleanupStaleJobs, CleanupOldData, vars, handlerVars
<1> QED
  BY <1>1, <1>2, <1>3, <1>4 DEF Next, HandlerStep

\* In every behaviour a changed run row is announced to the dashboard, whatever
\* else the workers do (SendWorkflowUpdate in WorkflowRunHandler.HandleEvent).
THEOREM Announced == Spec => []RunChangesAnnounced
<1>1. Init => RunChangesAnnounced
  BY DEF Init, HandlersInit, RunChangesAnnounced
<1> QED
  BY <1>1, InitType, StepType, StepAnnounces, PTL DEF Spec

-----------------------------------------------------------------------------
\* Past its upsert a handler has its status among those the row was sent, as
\* long as the row is not deleted.
Acknowledged ==
    \A w \in Workers :
        at[w] \in {"count", "announce", "ok"} /\ Known(current[w]) /\ Subject(w) \notin Expirable
            => Incoming(w) \in seen[Subject(w)]

\* Only the deletion of a row forgets a status it was sent.
LEMMA SeenGrows ==
    ASSUME TypeInv, [Next]_vars, NEW i \in Ids \ Expirable
    PROVE  seen[i] \subseteq seen'[i]
<1>0. TypeOK
  BY DEF TypeInv
<1>1. ASSUME NEW w \in Workers, UpsertJob(w) \/ UpsertRun(w) PROVE seen[i] \subseteq seen'[i]
  BY <1>0, <1>1 DEF UpsertJob, UpsertRun, Acknowledge, TypeOK
<1>2. CASE CleanupStaleJobs
  BY <1>2 DEF CleanupStaleJobs
<1>3. CASE CleanupOldData
  BY <1>3 DEF CleanupOldData
<1>4. ASSUME NEW w \in Workers,
             \/ \E d \in Deliveries : Receive(w, d)
             \/ ReadPrevious(w) \/ UpsertFails(w) \/ CountTransition(w)
             \/ Announce(w) \/ Return(w)
      PROVE  UNCHANGED seen
  BY <1>4 DEF Receive, ReadPrevious, UpsertFails, CountTransition, Announce, Return
<1>5. CASE UNCHANGED vars
  BY <1>5 DEF vars, handlerVars
<1> QED
  BY <1>1, <1>2, <1>3, <1>4, <1>5 DEF Next, HandlerStep

\* HandleEvent returns nil for a known event only after an upsert.
LEMMA StepAcknowledges ==
    ASSUME TypeInv, Acknowledged, [Next]_vars
    PROVE  Acknowledged'
<1>0. TypeOK
  BY DEF TypeInv
<1> SUFFICES ASSUME NEW v \in Workers, at'[v] \in {"count", "announce", "ok"},
                    Known(current'[v]), Event[current'[v]].id \notin Expirable
             PROVE  Event[current'[v]].status \in seen'[Event[current'[v]].id]
  BY DEF Acknowledged, Subject, Incoming, Known
<1>1. CASE /\ at[v] \in {"count", "announce", "ok"} /\ current'[v] = current[v]
  <2>1. at[v] # "idle"
    BY <1>1
  <2>2. current[v] \in Deliveries
    BY <1>0, <2>1 DEF TypeOK
  <2>3. Subject(v) \in Ids \ Expirable
    BY <1>1, <2>2, HandlersAssumption DEF Subject, Events
  <2>4. Incoming(v) \in seen[Subject(v)]
    BY <1>1, <2>3 DEF Acknowledged, Subject
  <2> QED
    BY <1>1, <2>3, <2>4, SeenGrows DEF Subject, Incoming
<1>2. CASE UpsertJob(v) \/ UpsertRun(v)
  <2>1. /\ current' = current /\ at[v] = "upsert"
        /\ seen' = [seen EXCEPT ![Subject(v)] = @ \cup {Incoming(v)}]
    BY <1>2 DEF UpsertJob, UpsertRun, Acknowledge
  <2>2. current[v] \in Deliveries
    BY <1>0, <2>1 DEF TypeOK
  <2>3. Subject(v) \in Ids
    BY <2>2, HandlersAssumption DEF Subject, Events
  <2> QED
    BY <1>0, <2>1, <2>3 DEF TypeOK, Subject, Incoming
<1>3. ASSUME NEW d \in Deliveries, Receive(v, d) PROVE FALSE
  <2>1. current'[v] = d /\ at'[v] = IF ~Known(d) THEN "ok"
                                    ELSE IF Event[d].id \in Jobs THEN "read" ELSE "upsert"
    BY <1>0, <1>3 DEF Receive, Goto, TypeOK
  <2> QED
    BY <2>1
<1>4. CASE ReadPrevious(v) \/ UpsertFails(v) \/ CountTransition(v) \/ Announce(v) \/ Return(v)
  BY <1>0, <1>1, <1>4 DEF ReadPrevious, UpsertFails, CountTransition, Announce, Return, Goto,
                          TypeOK
<1>5. ASSUME NEW w \in Workers, w # v,
             (\E d \in Deliveries : Receive(w, d)) \/ HandlerStep(w) \/ Return(w)
      PROVE  at'[v] = at[v] /\ current'[v] = current[v]
  BY <1>0, <1>5 DEF Receive, HandlerStep, ReadPrevious, UpsertJob, UpsertRun, UpsertFails,
                    CountTransition, Announce, Return, Goto, TypeOK
<1>6. CASE CleanupStaleJobs \/ CleanupOldData \/ UNCHANGED vars
  BY <1>1, <1>6 DEF CleanupStaleJobs, CleanupOldData, vars, handlerVars
<1> QED
  BY <1>1, <1>2, <1>3, <1>4, <1>5, <1>6 DEF Next, HandlerStep
=============================================================================
