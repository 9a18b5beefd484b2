--------------------------- MODULE UploadWorkers ----------------------------
(***************************************************************************)
(* Who works on upload jobs: the HTTP handler that enqueues a job and      *)
(* spawns a task for it, the recovery loop that spawns tasks for jobs      *)
(* nobody is working on, and the tasks, which claim their job, do the work *)
(* and report.  Tasks may hang or die and the server may crash; only the   *)
(* table (ImportJobs) survives.  The work itself is UploadPipeline's.      *)
(***************************************************************************)
EXTENDS Naturals, FiniteSets

CONSTANTS
  Jobs,            \* upload jobs, numbered in the order of their ids
  Owner,           \* every task draws its own owner name; its token, just as
                   \* fresh, tells it apart, so one name stands for all
  NoOwner, MaxAttempts, LeaseDuration, Delays,
  BatchLimit,      \* RECOVERY_BATCH_LIMIT
  MaxDispatched,   \* bound: tasks of one job waiting to claim it
  MaxFaults        \* bound: tasks that die, scans that fail, server crashes

ASSUME BoundsAssumption == MaxDispatched \in Nat /\ MaxFaults \in Nat
ASSUME TableAssumption ==
  /\ MaxAttempts \in Nat \ {0}
  /\ LeaseDuration \in Nat \ {0}
  /\ Delays \subseteq Nat
  /\ Owner # NoOwner

VARIABLES
  jobs, now, issued, leases, settledBy,   \* the table
  handlers,     \* jobs whose HTTP handler has yet to spawn their task
  dispatched,   \* number of tasks of each job that have yet to claim it
  working,      \* leases of the tasks that are materializing
  scan,         \* the recovery loop's next statement
  faults        \* number of faults so far

table == <<jobs, now, issued, leases, settledBy>>
workersVars == <<table, handlers, dispatched, working, scan, faults>>

Table == INSTANCE ImportJobs WITH UploadJobs <- Jobs, Owners <- {Owner}

\* The types of what a crash clears; those of the table are its own.
WorkersTypeOK ==
  /\ handlers \subseteq Jobs
  /\ dispatched \in [Jobs -> 0 .. MaxDispatched]
  /\ working \subseteq Table!Lease
  /\ scan \in {"finalize", "select"}
  /\ faults \in 0 .. MaxFaults

WorkersInit ==
  /\ Table!Init
  /\ handlers = {}
  /\ dispatched = [j \in Jobs |-> 0]
  /\ working = {}
  /\ scan = "finalize"
  /\ faults = 0

-----------------------------------------------------------------------------
(* The HTTP handler.                                                       *)

\* Job ids are time-ordered.  available_at comes from the handler's clock,
\* which may be ahead of the database's.
Enqueue(j, d) ==
  /\ \A k \in Jobs : k < j => jobs[k].status # "absent"
  /\ Table!CreateImportJob(j, d)
  /\ handlers' = handlers \cup {j}
  /\ UNCHANGED <<dispatched, working, scan, faults>>

Spawn(j) ==
  /\ j \in handlers
  /\ dispatched[j] < MaxDispatched
  /\ handlers' = handlers \ {j}
  /\ dispatched' = [dispatched EXCEPT ![j] = @ + 1]
  /\ UNCHANGED <<table, working, scan, faults>>

-----------------------------------------------------------------------------
(* The recovery loop: two statements per scan, then a task for each row.   *)

\* Fault: only jobs never claimed, or handed back, are looked for.
DispatchableQueued(j) ==
  /\ jobs[j].attempts < MaxAttempts
  /\ jobs[j].status = "queued" /\ jobs[j].availableAt <= now

\* The SELECT's WHERE clause is the claim's.
Dispatchable(j) == Table!Claimable(j)

Older(j, k) ==
  \/ jobs[j].availableAt < jobs[k].availableAt
  \/ jobs[j].availableAt = jobs[k].availableAt /\ j < k

\* The first BatchLimit dispatchable rows by available_at, then id.
Batch ==
  LET found == {j \in Jobs : Dispatchable(j)} IN
  {j \in found : Cardinality({k \in found : Older(k, j)}) < BatchLimit}

ScanFinalizes ==
  /\ scan = "finalize"
  /\ \/ Table!FinalizeUploads
     \/ /\ \A j \in Jobs : ~Table!Exhausted(j)
        /\ UNCHANGED table
  /\ scan' = "select"
  /\ UNCHANGED <<handlers, dispatched, working, faults>>

ScanDispatches ==
  /\ scan = "select"
  /\ \A j \in Batch : dispatched[j] < MaxDispatched
  /\ dispatched' = [j \in Jobs |-> dispatched[j] + IF j \in Batch THEN 1 ELSE 0]
  /\ scan' = "finalize"
  /\ UNCHANGED <<table, handlers, working, faults>>

-----------------------------------------------------------------------------
(* A task.                                                                 *)

\* It claims its job and starts to work, or finds it taken and ends.  It was
\* spawned with the job's own source, so the claimed row's source matches.
Claim(j) ==
  /\ dispatched[j] > 0
  /\ dispatched' = [dispatched EXCEPT ![j] = @ - 1]
  /\ \/ Table!ClaimImportJobById(j, Owner)
     \/ /\ ~Table!Claimable(j) /\ ~Table!Exhausted(j)
        /\ UNCHANGED table
  /\ working' = working \cup (leases' \ leases)
  /\ UNCHANGED <<handlers, scan, faults>>

\* A task stops working and its report is sent.
Reports(l) ==
  /\ l \in working
  /\ working' = working \ {l}
  /\ UNCHANGED <<handlers, dispatched, scan, faults>>

\* Fault: the report names the job and not the lease.
SucceedUnfenced(l) ==
  /\ Reports(l)
  /\ jobs' = [jobs EXCEPT ![l.job] = Table!Released(l.job, "succeeded", "none")]
  /\ settledBy' = [settledBy EXCEPT ![l.job] = l.token]
  /\ UNCHANGED <<now, issued, leases>>

\* The report counts if the lease still does; the task ends either way.
Succeed(l) ==
  /\ Reports(l)
  /\ \/ Table!SucceedImportJob(l)
     \/ ~Table!HoldsLease(l) /\ UNCHANGED table

Fail(l) ==
  /\ Reports(l)
  /\ \/ Table!FailImportJob(l)
     \/ ~Table!HoldsLease(l) /\ UNCHANGED table

-----------------------------------------------------------------------------
(* Faults.                                                                 *)

\* A task panics or its statement fails, before or after its claim.
TaskDies ==
  /\ faults < MaxFaults
  /\ \/ \E j \in Jobs :
          /\ dispatched[j] > 0
          /\ dispatched' = [dispatched EXCEPT ![j] = @ - 1]
          /\ UNCHANGED working
     \/ \E l \in working : working' = working \ {l} /\ UNCHANGED dispatched
  /\ faults' = faults + 1
  /\ UNCHANGED <<table, handlers, scan>>

\* A statement of the scan fails; the loop starts a new one.
ScanFails ==
  /\ faults < MaxFaults
  /\ scan' = "finalize"
  /\ faults' = faults + 1
  /\ UNCHANGED <<table, handlers, dispatched, working>>

\* The server restarts with its tasks and requests gone.
Crash ==
  /\ faults < MaxFaults
  /\ handlers' = {}
  /\ dispatched' = [j \in Jobs |-> 0]
  /\ working' = {}
  /\ scan' = "finalize"
  /\ faults' = faults + 1
  /\ UNCHANGED table

TimePasses ==
  /\ Table!Tick
  /\ UNCHANGED <<handlers, dispatched, working, scan, faults>>

WorkersNext ==
  \/ \E j \in Jobs, d \in Delays : Enqueue(j, d)
  \/ \E j \in Jobs : Spawn(j)
  \/ ScanFinalizes
  \/ ScanDispatches
  \/ \E j \in Jobs : Claim(j)
  \/ \E l \in working : Succeed(l)
  \/ \E l \in working : Fail(l)
  \/ TaskDies
  \/ ScanFails
  \/ Crash
  \/ TimePasses

\* The loop's timer fires again and again, spawned tasks get to run their
\* claim, and time passes.  Nothing is assumed of a task's work: it may hang
\* for ever; nor of the handler.
Fairness ==
  /\ WF_workersVars(ScanFinalizes)
  /\ WF_workersVars(ScanDispatches)
  /\ \A j \in Jobs : WF_workersVars(Claim(j))
  /\ WF_workersVars(TimePasses)

WorkersSpec == WorkersInit /\ [][WorkersNext]_workersVars /\ Fairness

-----------------------------------------------------------------------------
(* Properties.                                                             *)

\* Every enqueued upload is settled, though its handler may crash before it
\* spawns a task and every task may hang or die: the recovery loop takes up
\* what is queued or abandoned and gives up on what has used its attempts.
EveryUploadSettles ==
  \A j \in Jobs :
    jobs[j].status = "queued" ~> jobs[j].status \in {"succeeded", "failed"}

\* While a task at work holds the lease of its job, only its own report
\* changes the job's row: duplicates of it, dispatched by handler and scan at
\* once or left over from an earlier attempt, neither settle the job nor use
\* up an attempt, and no scan gives the job up.
HolderIsAlone ==
  [][\A l \in working :
       Table!HoldsLease(l) /\ jobs'[l.job] # jobs[l.job] => l \notin working']_workersVars

\* Whatever handlers, tasks and the loop do is something the table allows.
UsesTheTable == Table!Spec
=============================================================================
