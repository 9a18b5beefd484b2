----------------------------- MODULE ImportJobs -----------------------------
(***************************************************************************)
(* The durable import-job table of the cloud server (knowledge.import_jobs *)
(* behind KnowledgeStore) under callers that may keep a lease for as long  *)
(* as they like and present it at any time.  Each store operation is one   *)
(* transaction or one statement and is one action here.  The clock is the  *)
(* database's, in seconds.                                                 *)
(* Definitions marked "Fault" are not part of the specification: each is a *)
(* definition with one bug put in, to show which property notices it.      *)
(***************************************************************************)
EXTENDS Naturals, FiniteSets

CONSTANTS
  Jobs,            \* identities import-job rows may take
  UploadJobs,      \* those of kind 'upload'
  Owners,          \* lease-owner names callers pass
  NoOwner,         \* NULL in the lease_owner column
  MaxAttempts,     \* the max_attempts column
  LeaseDuration,   \* seconds a claim asks for; a claim is refused unless
                   \* they are 1 to 86400, of which nothing needs the limit
  Delays           \* seconds ahead that available_at may be set to

ASSUME JobsAssumption == UploadJobs \subseteq Jobs
ASSUME OwnersAssumption == NoOwner \notin Owners
ASSUME MaxAttemptsAssumption == MaxAttempts \in Nat \ {0}
ASSUME LeaseDurationAssumption == LeaseDuration \in Nat \ {0}
ASSUME DelaysAssumption == Delays \subseteq Nat

VARIABLES
  jobs,        \* the table, one row per job; status "absent" before INSERT
  now,         \* clock_timestamp() in whole seconds
  issued,      \* number of lease tokens generated so far
  leases,      \* every lease a claim has returned to a caller
  settledBy    \* the token whose report settled each job, NoToken otherwise

vars == <<jobs, now, issued, leases, settledBy>>

\* NULL in the lease_token and lease_expires_at columns.  Generated tokens
\* and expiry times are positive.
NoToken == 0
NoExpiry == 0

Statuses == {"absent", "queued", "running", "succeeded", "failed"}
Errors == {"none", "reported", "exhausted"}

Row == [status : Statuses, attempts : Nat, availableAt : Nat,
        leaseOwner : Owners \cup {NoOwner}, leaseExpiresAt : Nat,
        leaseToken : Nat, lastError : Errors]

Lease == [job : Jobs, owner : Owners, token : Nat]

Absent == [status |-> "absent", attempts |-> 0, availableAt |-> 0,
           leaseOwner |-> NoOwner, leaseExpiresAt |-> NoExpiry,
           leaseToken |-> NoToken, lastError |-> "none"]

TypeOK ==
  /\ jobs \in [Jobs -> Row]
  /\ now \in Nat
  /\ issued \in Nat
  /\ leases \in SUBSET Lease
  /\ settledBy \in [Jobs -> Nat]

Init ==
  /\ jobs = [j \in Jobs |-> Absent]
  /\ now = 0
  /\ issued = 0
  /\ leases = {}
  /\ settledBy = [j \in Jobs |-> NoToken]

-----------------------------------------------------------------------------
(* What the statements' WHERE clauses test.                                *)

Expired(j) == jobs[j].leaseExpiresAt <= now

\* Fault: an expired lease is given up on whatever attempts remain.
ExhaustedOnExpiry(j) ==
  /\ jobs[j].status = "running"
  /\ Expired(j)

\* A last attempt whose lease ran out.
Exhausted(j) ==
  /\ jobs[j].status = "running"
  /\ Expired(j)
  /\ jobs[j].attempts >= MaxAttempts

\* Faults: attempts are not limited; a running job is taken without waiting
\* for its lease to expire.
ClaimableForever(j) ==
  \/ jobs[j].status = "queued" /\ jobs[j].availableAt <= now
  \/ jobs[j].status = "running" /\ Expired(j)
ClaimableWhileLeased(j) ==
  /\ jobs[j].attempts < MaxAttempts
  /\ \/ jobs[j].status = "queued" /\ jobs[j].availableAt <= now
     \/ jobs[j].status = "running"

Claimable(j) ==
  /\ jobs[j].attempts < MaxAttempts
  /\ \/ jobs[j].status = "queued" /\ jobs[j].availableAt <= now
     \/ jobs[j].status = "running" /\ Expired(j)

\* Fault: a lease is recognised by its owner alone.
HoldsLeaseByOwner(l) ==
  /\ jobs[l.job].status = "running"
  /\ jobs[l.job].leaseOwner = l.owner
  /\ ~Expired(l.job)

\* The row is running under exactly this lease, which has not expired.
HoldsLease(l) ==
  /\ jobs[l.job].status = "running"
  /\ jobs[l.job].leaseOwner = l.owner
  /\ jobs[l.job].leaseToken = l.token
  /\ ~Expired(l.job)

-----------------------------------------------------------------------------
(* What they write.                                                        *)

\* Fault: the token column is not cleared.
ReleasedKeepingToken(j, status, error) ==
  [jobs[j] EXCEPT !.status = status, !.lastError = error,
                  !.leaseOwner = NoOwner, !.leaseExpiresAt = NoExpiry]

\* The row with its lease columns NULL.
Released(j, status, error) ==
  [jobs[j] EXCEPT !.status = status, !.lastError = error,
                  !.leaseOwner = NoOwner, !.leaseExpiresAt = NoExpiry,
                  !.leaseToken = NoToken]

\* Fault: exhausted rows get a status of their own that the table rejects.
FinalizeExhaustedAsExpired(S) ==
  [j \in Jobs |-> IF j \in S /\ Exhausted(j)
                  THEN Released(j, "expired", "exhausted")
                  ELSE jobs[j]]

\* The table after the exhausted rows among S are finalised.
FinalizeExhausted(S) ==
  [j \in Jobs |-> IF j \in S /\ Exhausted(j)
                  THEN Released(j, "failed", "exhausted")
                  ELSE jobs[j]]

\* The row a claim writes: a new attempt under a token never used before.
Claimed(j, o) ==
  [jobs[j] EXCEPT !.status = "running", !.attempts = @ + 1,
                  !.lastError = "none", !.leaseOwner = o,
                  !.leaseExpiresAt = now + LeaseDuration,
                  !.leaseToken = issued + 1]

\* A claim that wins row j of `table` and returns the lease to caller o.
Grant(table, j, o) ==
  /\ jobs' = [table EXCEPT ![j] = Claimed(j, o)]
  /\ issued' = issued + 1
  /\ leases' = leases \cup {[job |-> j, owner |-> o, token |-> issued + 1]}
  /\ UNCHANGED <<now, settledBy>>

-----------------------------------------------------------------------------
(* The operations of the store.                                            *)

CreateImportJob(j, d) ==
  /\ jobs[j].status = "absent"
  /\ jobs' = [jobs EXCEPT ![j] = [Absent EXCEPT !.status = "queued",
                                                !.availableAt = now + d]]
  /\ UNCHANGED <<now, issued, leases, settledBy>>

\* Claiming a named job first finalises it if it is exhausted.
ClaimImportJobById(j, o) ==
  \/ /\ Claimable(j)
     /\ Grant(FinalizeExhausted({j}), j, o)
  \/ /\ Exhausted(j)
     /\ jobs' = FinalizeExhausted({j})
     /\ UNCHANGED <<now, issued, leases, settledBy>>

\* Claiming the next job finalises every exhausted one.  The oldest claimable
\* row is asked for, but rows a concurrent statement has locked are skipped,
\* so any claimable row may be the one returned, or none.
ClaimImportJob(o) ==
  \/ \E j \in Jobs : Claimable(j) /\ Grant(FinalizeExhausted(Jobs), j, o)
  \/ /\ \E j \in Jobs : Exhausted(j)
     /\ jobs' = FinalizeExhausted(Jobs)
     /\ UNCHANGED <<now, issued, leases, settledBy>>

\* The write of a recovery scan; its SELECT changes nothing.
FinalizeUploads ==
  /\ \E j \in UploadJobs : Exhausted(j)
  /\ jobs' = FinalizeExhausted(UploadJobs)
  /\ UNCHANGED <<now, issued, leases, settledBy>>

Settle(l, status, error) ==
  /\ HoldsLease(l)
  /\ jobs' = [jobs EXCEPT ![l.job] = Released(l.job, status, error)]
  /\ settledBy' = [settledBy EXCEPT ![l.job] = l.token]
  /\ UNCHANGED <<now, issued, leases>>

SucceedImportJob(l) == Settle(l, "succeeded", "none")

FailImportJob(l) == Settle(l, "failed", "reported")

\* Fault: the last attempt is queued again like any other.
RetryImportJobAlways(l, d) ==
  /\ HoldsLease(l)
  /\ jobs' = [jobs EXCEPT ![l.job] =
                [Released(l.job, "queued", "reported") EXCEPT !.availableAt = now + d]]
  /\ UNCHANGED <<now, issued, leases, settledBy>>

\* Hand the job back until `d` seconds from now; the last attempt fails it.
RetryImportJob(l, d) ==
  /\ HoldsLease(l)
  /\ LET last == jobs[l.job].attempts >= MaxAttempts IN
     /\ jobs' = [jobs EXCEPT ![l.job] =
                   [Released(l.job, IF last THEN "failed" ELSE "queued", "reported")
                      EXCEPT !.availableAt = now + d]]
     /\ settledBy' = [settledBy EXCEPT ![l.job] = IF last THEN l.token ELSE @]
  /\ UNCHANGED <<now, issued, leases>>

\* Time is only read through stored deadlines, so it matters only while one
\* of them lies ahead.
Tick ==
  /\ \E j \in Jobs : \/ jobs[j].leaseExpiresAt > now
                     \/ jobs[j].status = "queued" /\ jobs[j].availableAt > now
  /\ now' = now + 1
  /\ UNCHANGED <<jobs, issued, leases, settledBy>>

Next ==
  \/ \E j \in Jobs, d \in Delays : CreateImportJob(j, d)
  \/ \E j \in Jobs, o \in Owners : ClaimImportJobById(j, o)
  \/ \E o \in Owners : ClaimImportJob(o)
  \/ FinalizeUploads
  \/ \E l \in leases : SucceedImportJob(l)
  \/ \E l \in leases : FailImportJob(l)
  \/ \E l \in leases, d \in Delays : RetryImportJob(l, d)
  \/ Tick

Spec == Init /\ [][Next]_vars

-----------------------------------------------------------------------------
(* Properties.                                                             *)

TokensOf(j) == {l.token : l \in {k \in leases : k.job = j}}

\* The table's import_jobs_lease_check: the three lease columns are set on
\* running rows and NULL on all others, whichever statement wrote last.
LeaseColumns ==
  \A j \in Jobs :
    LET r == jobs[j] IN
    IF r.status = "running"
    THEN r.leaseOwner # NoOwner /\ r.leaseExpiresAt # NoExpiry /\ r.leaseToken # NoToken
    ELSE r.leaseOwner = NoOwner /\ r.leaseExpiresAt = NoExpiry /\ r.leaseToken = NoToken

\* A job's attempts column counts the leases handed out for it, never more
\* than max_attempts, over any mix of claims, expiries and retries.
AttemptsCountLeases ==
  \A j \in Jobs : /\ jobs[j].attempts = Cardinality(TokensOf(j))
                  /\ jobs[j].attempts <= MaxAttempts

\* Fencing: the report that settled a job was made under the newest lease of
\* that job, so a worker whose lease was taken over never decides the result.
SettledByNewestLease ==
  \A j \in Jobs : settledBy[j] # NoToken =>
    /\ jobs[j].status \in {"succeeded", "failed"}
    /\ settledBy[j] \in TokensOf(j)
    /\ \A t \in TokensOf(j) : t <= settledBy[j]

\* Success is only ever reported by a lease holder, and no failure is
\* recorded as exhausted before the attempts are used up.
OutcomeHasACause ==
  \A j \in Jobs :
    /\ jobs[j].status = "succeeded" => settledBy[j] # NoToken
    /\ jobs[j].status = "failed" =>
         \/ settledBy[j] # NoToken
         \/ jobs[j].lastError = "exhausted" /\ jobs[j].attempts = MaxAttempts

\* A running job changes hands only after the lease on it has expired.
TakenOverOnlyAfterExpiry ==
  [][\A j \in Jobs :
       /\ jobs[j].status = "running"
       /\ jobs'[j].status = "running"
       /\ jobs'[j].leaseToken # jobs[j].leaseToken
       => Expired(j)]_vars

\* The table implements the promise of JobLifecycle.
Lifecycle == INSTANCE JobLifecycle WITH
  phase <- [j \in Jobs |-> jobs[j].status],
  holder <- [j \in Jobs |-> jobs[j].leaseToken],
  holders <- [j \in Jobs |-> TokensOf(j)]

ImplementsLifecycle == Lifecycle!Spec
=============================================================================
