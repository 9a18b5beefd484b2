---------------------------- MODULE JobLifecycle ----------------------------
(***************************************************************************)
(* What the import-job table promises about each job, without leases,      *)
(* clocks or owners: a job is worked on by one holder at a time, is handed *)
(* to at most MaxAttempts holders, each of them new, is settled by its     *)
(* present holder or by running out of attempts, and never changes again.  *)
(* ImportJobs implements this specification.                               *)
(***************************************************************************)
EXTENDS Naturals, FiniteSets

CONSTANTS Jobs,         \* import-job identities
          MaxAttempts   \* how many holders one job may have

VARIABLES phase,        \* absent, queued, running, succeeded or failed
          holder,       \* the holder working on the job, or Nobody
          holders,      \* every holder the job has had
          settledBy     \* the holder whose report settled the job, or Nobody

vars == <<phase, holder, holders, settledBy>>

Nobody == 0

Settled(j) == phase[j] \in {"succeeded", "failed"}

Init ==
  /\ phase = [j \in Jobs |-> "absent"]
  /\ holder = [j \in Jobs |-> Nobody]
  /\ holders = [j \in Jobs |-> {}]
  /\ settledBy = [j \in Jobs |-> Nobody]

-----------------------------------------------------------------------------
(* The steps of one job, each stating that job's part of the next state.   *)

Create(j) ==
  /\ phase[j] = "absent"
  /\ phase'[j] = "queued"
  /\ holder'[j] = Nobody
  /\ holders'[j] = holders[j]
  /\ settledBy'[j] = settledBy[j]

\* A holder that never held the job before takes it; one that still held it
\* has lost it.
Start(j) ==
  /\ phase[j] \in {"queued", "running"}
  /\ Cardinality(holders[j]) < MaxAttempts
  /\ phase'[j] = "running"
  /\ holder'[j] \in Nat \ (holders[j] \cup {Nobody})
  /\ holders'[j] = holders[j] \cup {holder'[j]}
  /\ settledBy'[j] = settledBy[j]

\* The holder reports a result, or hands the job back while it may still be
\* tried.
Report(j) ==
  /\ phase[j] = "running"
  /\ \/ /\ phase'[j] \in {"succeeded", "failed"}
        /\ settledBy'[j] = holder[j]
     \/ /\ phase'[j] = "queued"
        /\ Cardinality(holders[j]) < MaxAttempts
        /\ settledBy'[j] = settledBy[j]
  /\ holder'[j] = Nobody
  /\ holders'[j] = holders[j]

\* The last permitted holder is given up on.
GiveUp(j) ==
  /\ phase[j] = "running"
  /\ Cardinality(holders[j]) >= MaxAttempts
  /\ phase'[j] = "failed"
  /\ holder'[j] = Nobody
  /\ holders'[j] = holders[j]
  /\ settledBy'[j] = settledBy[j]

Same(j) ==
  /\ phase'[j] = phase[j]
  /\ holder'[j] = holder[j]
  /\ holders'[j] = holders[j]
  /\ settledBy'[j] = settledBy[j]

\* One statement of the table may move several jobs.
Next == \A j \in Jobs :
          Create(j) \/ Start(j) \/ Report(j) \/ GiveUp(j) \/ Same(j)

Spec == Init /\ [][Next]_vars
=============================================================================
