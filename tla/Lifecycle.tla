------------------------------ MODULE Lifecycle ------------------------------
(***************************************************************************)
(* The lifecycle of workflow jobs and workflow runs: the statuses the      *)
(* server understands, their priorities, the terminal ones, and the rule   *)
(* by which a typed-table write is admitted or refused                     *)
(* (models/status_priority.go and internal/database/workflow.go).          *)
(***************************************************************************)
EXTENDS Naturals

\* The absence of a row; also the zero value of models.JobStatus, which
\* GetWorkflowJobByID returns for a job that has no row.
Absent == "absent"

\* Job statuses with their lifecycle priority.  A status outside the domain
\* is unknown: JobStatusPriority returns ok = FALSE for it.
JobStatusPriority ==
    [waiting |-> 1, queued |-> 2, requested |-> 3, in_progress |-> 4,
     completed |-> 5, cancelled |-> 5, stale |-> 5]

\* Run statuses with their lifecycle priority.
RunStatusPriority ==
    [requested |-> 1, in_progress |-> 2, completed |-> 3, cancelled |-> 3]

JobStatuses == DOMAIN JobStatusPriority
RunStatuses == DOMAIN RunStatusPriority

\* The statuses IsTerminalJobStatus and IsTerminalRunStatus accept.
TerminalJobStatuses == {"completed", "cancelled", "stale"}
TerminalRunStatuses == {"completed", "cancelled"}

\* Mutant of Admits: the guard on terminal rows is dropped, so equal
\* priorities let one terminal status replace another.
AdmitsOverTerminal(priority, terminal, existing, incoming) ==
    /\ incoming \in DOMAIN priority
    /\ existing \in DOMAIN priority => priority[incoming] >= priority[existing]

\* Mutant of Admits: the lifecycle guard is dropped.
AdmitsOlder(priority, terminal, existing, incoming) ==
    /\ incoming \in DOMAIN priority
    /\ existing \notin terminal

\* Whether the transaction of AddOrUpdateJob / AddOrUpdateRun applies its
\* upsert to a row in status existing (Absent: there is no row).  Unknown
\* statuses are rejected, a terminal row is frozen, and an event that is
\* older in the lifecycle than a non-terminal row is dropped.
Admits(priority, terminal, existing, incoming) ==
    /\ incoming \in DOMAIN priority
    /\ existing \notin terminal
    /\ existing \in DOMAIN priority => priority[incoming] >= priority[existing]
=============================================================================
