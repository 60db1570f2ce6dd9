---------------------------- MODULE WorkflowTables ----------------------------
(***************************************************************************)
(* The typed tables workflow_jobs and workflow_runs of                     *)
(* internal/database/workflow.go.  All writes go through one connection    *)
(* (SetMaxOpenConns(1) on the write pool), so each write transaction is    *)
(* one atomic step; reads see the last committed state.                    *)
(*                                                                         *)
(* A row is abstracted to its status.  created_at is abstracted to the     *)
(* sets Expirable and Overdue of the rows a retention or stale cutoff may  *)
(* ever reach; a clean-up takes any subset of them, whatever the clock.    *)
(***************************************************************************)
EXTENDS Lifecycle

CONSTANTS
    Jobs,        \* job ids
    Runs,        \* run ids
    Expirable,   \* ids whose created_at may pass the retention cutoff
    Overdue      \* jobs whose created_at may pass the stale-job cutoff

ASSUME TablesAssumption ==
    /\ Jobs \cap Runs = {}
    /\ Expirable \subseteq Jobs \cup Runs
    /\ Overdue \subseteq Jobs

VARIABLES
    jobs,        \* jobs[j]: status column of the row of j, or Absent
    runs         \* runs[r]: status column of the row of r, or Absent

tableVars == <<jobs, runs>>

TablesTypeOK ==
    /\ jobs \in [Jobs -> JobStatuses \cup {Absent}]
    /\ runs \in [Runs -> RunStatuses \cup {Absent}]

TablesInit ==
    /\ jobs = [j \in Jobs |-> Absent]
    /\ runs = [r \in Runs |-> Absent]

-----------------------------------------------------------------------------
\* Whether the upsert of a job (run) event changes the row.
JobAdmits(j, status) ==
    Admits(JobStatusPriority, TerminalJobStatuses, jobs[j], status)
RunAdmits(r, status) ==
    Admits(RunStatusPriority, TerminalRunStatuses, runs[r], status)

\* The committed transaction of AddOrUpdateJob: it returns updated =
\* JobAdmits(j, status) and leaves the row alone when that is FALSE.
AddOrUpdateJob(j, status) ==
    /\ jobs' = IF JobAdmits(j, status) THEN [jobs EXCEPT ![j] = status] ELSE jobs
    /\ UNCHANGED runs

AddOrUpdateRun(r, status) ==
    /\ runs' = IF RunAdmits(r, status) THEN [runs EXCEPT ![r] = status] ELSE runs
    /\ UNCHANGED jobs

\* CleanupStaleJobs: the rows older than the cutoff that are still queued or
\* in progress become stale; waiting and requested rows are left alone.
MarkStale(stuck) ==
    /\ jobs' = [j \in Jobs |->
                  IF j \in stuck /\ jobs[j] \in {"queued", "in_progress"}
                  THEN "stale" ELSE jobs[j]]
    /\ UNCHANGED runs

\* CleanupOldData: one transaction deletes the old rows of both tables.
DeleteOld(old) ==
    /\ jobs' = [j \in Jobs |-> IF j \in old THEN Absent ELSE jobs[j]]
    /\ runs' = [r \in Runs |-> IF r \in old THEN Absent ELSE runs[r]]
=============================================================================
