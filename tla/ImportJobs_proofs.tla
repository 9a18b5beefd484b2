------------------------- MODULE ImportJobs_proofs --------------------------
(***************************************************************************)
(* Proofs about ImportJobs, for any jobs, owners, attempt limit, lease     *)
(* duration and delays.  Every step of the table does to each row one of   *)
(* six things (lemma StepCases); the inductive invariant and the           *)
(* refinement of JobLifecycle are both shown row by row from that.         *)
(***************************************************************************)
EXTENDS ImportJobs, FiniteSetTheorems, TLAPS

-----------------------------------------------------------------------------
(* The inductive invariant.                                                *)

\* Tokens are numbered from 1 in the order they are generated.
TokenBound == \A l \in leases : l.token \in 1 .. issued

\* What holds of each row.  Beyond the checked properties it says that a
\* running row carries the newest token of its job.
RowInv(j) ==
  /\ jobs[j].status = "running" =>
       /\ jobs[j].leaseOwner # NoOwner
       /\ jobs[j].leaseExpiresAt # NoExpiry
       /\ jobs[j].leaseToken # NoToken
       /\ jobs[j].leaseToken \in TokensOf(j)
       /\ \A t \in TokensOf(j) : t <= jobs[j].leaseToken
  /\ jobs[j].status # "running" =>
       /\ jobs[j].leaseOwner = NoOwner
       /\ jobs[j].leaseExpiresAt = NoExpiry
       /\ jobs[j].leaseToken = NoToken
  /\ IsFiniteSet(TokensOf(j))
  /\ jobs[j].attempts = Cardinality(TokensOf(j))
  /\ jobs[j].attempts <= MaxAttempts
  /\ jobs[j].status = "absent" => TokensOf(j) = {}
  /\ jobs[j].status = "queued" => jobs[j].attempts < MaxAttempts
  /\ settledBy[j] # NoToken =>
       /\ jobs[j].status \in {"succeeded", "failed"}
       /\ settledBy[j] \in TokensOf(j)
       /\ \A t \in TokensOf(j) : t <= settledBy[j]
  /\ jobs[j].status = "succeeded" => settledBy[j] # NoToken
  /\ jobs[j].status = "failed" =>
       \/ settledBy[j] # NoToken
       \/ jobs[j].lastError = "exhausted" /\ jobs[j].attempts = MaxAttempts

IInv ==
  /\ TypeOK
  /\ TokenBound
  /\ \A j \in Jobs : RowInv(j)

-----------------------------------------------------------------------------
(* What one step can do to one row.                                        *)

SameRow(k) ==
  /\ jobs'[k] = jobs[k]
  /\ settledBy'[k] = settledBy[k]
  /\ TokensOf(k)' = TokensOf(k)

CreatedRow(k) ==
  /\ jobs[k].status = "absent"
  /\ \E at \in Nat : jobs'[k] = [Absent EXCEPT !.status = "queued", !.availableAt = at]
  /\ settledBy'[k] = settledBy[k]
  /\ TokensOf(k)' = TokensOf(k)

GrantedRow(k) ==
  /\ Claimable(k)
  /\ \E o \in Owners : jobs'[k] = Claimed(k, o)
  /\ settledBy'[k] = settledBy[k]
  /\ TokensOf(k)' = TokensOf(k) \cup {issued + 1}

FinalizedRow(k) ==
  /\ Exhausted(k)
  /\ jobs'[k] = Released(k, "failed", "exhausted")
  /\ settledBy'[k] = settledBy[k]
  /\ TokensOf(k)' = TokensOf(k)

SettledRow(k) ==
  /\ jobs[k].status = "running"
  /\ \E s \in {"succeeded", "failed"}, e \in Errors, at \in Nat :
       jobs'[k] = [Released(k, s, e) EXCEPT !.availableAt = at]
  /\ settledBy'[k] = jobs[k].leaseToken
  /\ TokensOf(k)' = TokensOf(k)

GivenBackRow(k) ==
  /\ jobs[k].status = "running"
  /\ jobs[k].attempts < MaxAttempts
  /\ \E at \in Nat :
       jobs'[k] = [Released(k, "queued", "reported") EXCEPT !.availableAt = at]
  /\ settledBy'[k] = settledBy[k]
  /\ TokensOf(k)' = TokensOf(k)

RowStep(k) ==
  \/ SameRow(k)
  \/ CreatedRow(k)
  \/ GrantedRow(k)
  \/ FinalizedRow(k)
  \/ SettledRow(k)
  \/ GivenBackRow(k)

-----------------------------------------------------------------------------
(* Finalising touches exhausted rows only.                                 *)
LEMMA FinalizeExhaustedRows ==
  ASSUME TypeOK, NEW S, NEW k \in Jobs
  PROVE  /\ FinalizeExhausted(S)[k] = jobs[k]
            \/ (Exhausted(k) /\ FinalizeExhausted(S)[k] = Released(k, "failed", "exhausted"))
         /\ DOMAIN FinalizeExhausted(S) = Jobs
  BY DEF FinalizeExhausted

(* A new lease adds its token to its own job and to no other.              *)
LEMMA GrantTokens ==
  ASSUME NEW j \in Jobs, NEW o \in Owners, NEW k \in Jobs,
         leases' = leases \cup {[job |-> j, owner |-> o, token |-> issued + 1]}
  PROVE  TokensOf(k)' = IF k = j THEN TokensOf(k) \cup {issued + 1} ELSE TokensOf(k)
<1> DEFINE nl == [job |-> j, owner |-> o, token |-> issued + 1]
<1>1. nl.job = j /\ nl.token = issued + 1
  OBVIOUS
<1>2. leases' = leases \cup {nl}
  OBVIOUS
<1> HIDE DEF nl
<1>3. \A t : t \in TokensOf(k) <=> \E l \in leases : l.job = k /\ l.token = t
  BY DEF TokensOf
<1>4. \A t : t \in TokensOf(k)' <=> \E l \in leases' : l.job = k /\ l.token = t
  BY DEF TokensOf
<1>5. CASE k = j
  <2>1. \A t : t \in TokensOf(k)' <=> t \in TokensOf(k) \cup {issued + 1}
    BY <1>1, <1>2, <1>3, <1>4, <1>5
  <2>2. QED
    BY <1>5, <2>1
<1>6. CASE k # j
  <2>1. \A t : t \in TokensOf(k)' <=> t \in TokensOf(k)
    BY <1>1, <1>2, <1>3, <1>4, <1>6
  <2>2. QED
    BY <1>6, <2>1
<1>7. QED
  BY <1>5, <1>6

(* Nothing happens to the tokens of a job while no lease is handed out.    *)
LEMMA SameTokens ==
  ASSUME UNCHANGED leases, NEW k \in Jobs
  PROVE  TokensOf(k)' = TokensOf(k)
  BY DEF TokensOf

(* A claim grants one row and at most finalises the others.                *)
LEMMA GrantRows ==
  ASSUME TypeOK, NEW S, NEW j \in Jobs, NEW o \in Owners, NEW k \in Jobs,
         Claimable(j), Grant(FinalizeExhausted(S), j, o)
  PROVE  RowStep(k)
<1>1. TokensOf(k)' = IF k = j THEN TokensOf(k) \cup {issued + 1} ELSE TokensOf(k)
  BY GrantTokens DEF Grant
<1>2. settledBy'[k] = settledBy[k]
  BY DEF Grant
<1>3. DOMAIN FinalizeExhausted(S) = Jobs
  BY FinalizeExhaustedRows
<1>4. CASE k = j
  <2>1. jobs'[k] = Claimed(k, o)
    BY <1>3, <1>4 DEF Grant
  <2>2. QED
    BY <1>1, <1>2, <1>4, <2>1 DEF RowStep, GrantedRow
<1>5. CASE k # j
  <2>1. jobs'[k] = FinalizeExhausted(S)[k]
    BY <1>3, <1>5 DEF Grant
  <2>2. QED
    BY <1>1, <1>2, <1>5, <2>1, FinalizeExhaustedRows
       DEF RowStep, SameRow, FinalizedRow
<1>6. QED
  BY <1>4, <1>5

(* A statement that only finalises leaves every other row alone.           *)
LEMMA FinalizeRows ==
  ASSUME TypeOK, NEW S, NEW k \in Jobs,
         jobs' = FinalizeExhausted(S), UNCHANGED <<now, issued, leases, settledBy>>
  PROVE  RowStep(k)
  BY FinalizeExhaustedRows, SameTokens DEF RowStep, SameRow, FinalizedRow

(* Every step of the table does one of the six things to each row.         *)
LEMMA StepCases ==
  ASSUME TypeOK, [Next]_vars, NEW k \in Jobs
  PROVE  RowStep(k)
<1>1. ASSUME NEW j \in Jobs, NEW d \in Delays, CreateImportJob(j, d)
      PROVE  RowStep(k)
  <2>1. now + d \in Nat
    BY DelaysAssumption DEF TypeOK
  <2>2. TokensOf(k)' = TokensOf(k)
    BY <1>1, SameTokens DEF CreateImportJob
  <2>3. CASE k = j
    BY <1>1, <2>1, <2>2, <2>3 DEF CreateImportJob, RowStep, CreatedRow, TypeOK
  <2>4. CASE k # j
    BY <1>1, <2>2, <2>4 DEF CreateImportJob, RowStep, SameRow, TypeOK
  <2>5. QED
    BY <2>3, <2>4
<1>2. ASSUME NEW j \in Jobs, NEW o \in Owners, ClaimImportJobById(j, o)
      PROVE  RowStep(k)
  BY <1>2, GrantRows, FinalizeRows DEF ClaimImportJobById
<1>3. ASSUME NEW o \in Owners, ClaimImportJob(o)
      PROVE  RowStep(k)
  BY <1>3, GrantRows, FinalizeRows DEF ClaimImportJob
<1>4. CASE FinalizeUploads
  BY <1>4, FinalizeRows DEF FinalizeUploads
<1>5. ASSUME NEW l \in leases, NEW s \in {"succeeded", "failed"}, NEW e \in Errors,
             Settle(l, s, e)
      PROVE  RowStep(k)
  <2>1. TokensOf(k)' = TokensOf(k)
    BY <1>5, SameTokens DEF Settle
  <2>2. l.job \in Jobs
    BY DEF TypeOK, Lease
  <2>3. CASE k = l.job
    <3>1. /\ jobs'[k] = Released(k, s, e)
          /\ settledBy'[k] = jobs[k].leaseToken
          /\ jobs[k].status = "running"
      BY <1>5, <2>2, <2>3 DEF Settle, HoldsLease, TypeOK
    <3>2. Released(k, s, e) = [Released(k, s, e) EXCEPT !.availableAt = jobs[k].availableAt]
      BY DEF Released, TypeOK, Row
    <3>3. jobs[k].availableAt \in Nat
      BY DEF TypeOK, Row
    <3>4. QED
      BY <2>1, <3>1, <3>2, <3>3 DEF RowStep, SettledRow
  <2>4. CASE k # l.job
    BY <1>5, <2>1, <2>4 DEF Settle, RowStep, SameRow, TypeOK
  <2>5. QED
    BY <2>3, <2>4
<1>6. ASSUME NEW l \in leases, NEW d \in Delays, RetryImportJob(l, d)
      PROVE  RowStep(k)
  <2>1. TokensOf(k)' = TokensOf(k)
    BY <1>6, SameTokens DEF RetryImportJob
  <2>2. l.job \in Jobs /\ now + d \in Nat
    BY DelaysAssumption DEF TypeOK, Lease
  <2>3. CASE k # l.job
    BY <1>6, <2>1, <2>3 DEF RetryImportJob, RowStep, SameRow, TypeOK
  <2>4. CASE k = l.job /\ jobs[k].attempts >= MaxAttempts
    <3>1. /\ jobs'[k] = [Released(k, "failed", "reported") EXCEPT !.availableAt = now + d]
          /\ settledBy'[k] = jobs[k].leaseToken
          /\ jobs[k].status = "running"
      BY <1>6, <2>2, <2>4 DEF RetryImportJob, HoldsLease, TypeOK
    <3>2. QED
      BY <2>1, <2>2, <3>1 DEF RowStep, SettledRow, Errors
  <2>5. CASE k = l.job /\ ~(jobs[k].attempts >= MaxAttempts)
    <3>1. /\ jobs'[k] = [Released(k, "queued", "reported") EXCEPT !.availableAt = now + d]
          /\ settledBy'[k] = settledBy[k]
          /\ jobs[k].status = "running"
      BY <1>6, <2>2, <2>5 DEF RetryImportJob, HoldsLease, TypeOK
    <3>2. jobs[k].attempts < MaxAttempts
      BY <2>5, MaxAttemptsAssumption DEF TypeOK, Row
    <3>3. QED
      BY <2>1, <2>2, <3>1, <3>2 DEF RowStep, GivenBackRow
  <2>6. QED
    BY <2>3, <2>4, <2>5
<1>7. CASE Tick \/ UNCHANGED vars
  BY <1>7, SameTokens DEF Tick, vars, RowStep, SameRow
<1>8. QED
  BY <1>1, <1>2, <1>3, <1>4, <1>5, <1>6, <1>7
     DEF Next, SucceedImportJob, FailImportJob, Errors

-----------------------------------------------------------------------------
(* Type correctness.                                                       *)

(* What the statements write are rows.                                     *)
LEMMA WrittenRows ==
  ASSUME TypeOK, NEW j \in Jobs
  PROVE  /\ \A s \in Statuses, e \in Errors : Released(j, s, e) \in Row
         /\ \A o \in Owners : Claimed(j, o) \in Row
<1>1. jobs[j] \in Row
  BY DEF TypeOK
<1>2. ASSUME NEW s \in Statuses, NEW e \in Errors
      PROVE  Released(j, s, e) \in Row
  BY <1>1, <1>2 DEF Row, Released, NoExpiry, NoToken
<1>3. ASSUME NEW o \in Owners
      PROVE  Claimed(j, o) \in Row
  <2>1. jobs[j].attempts + 1 \in Nat
    BY <1>1 DEF Row
  <2>2. LeaseDuration \in Nat
    BY LeaseDurationAssumption
  <2>3. now + LeaseDuration \in Nat /\ issued + 1 \in Nat
    BY <2>2 DEF TypeOK
  <2>4. QED
    BY <1>1, <1>3, <2>1, <2>3 DEF Row, Claimed, Statuses, Errors
<1>4. QED
  BY <1>2, <1>3

(* Finalising writes a table.                                              *)
LEMMA FinalizedTable ==
  ASSUME TypeOK, NEW S
  PROVE  FinalizeExhausted(S) \in [Jobs -> Row]
<1>1. \A j \in Jobs : Released(j, "failed", "exhausted") \in Row
  BY WrittenRows DEF Statuses, Errors
<1>2. QED
  BY <1>1 DEF FinalizeExhausted, TypeOK

(* A claim leaves a table and one more lease.                              *)
LEMMA GrantType ==
  ASSUME TypeOK, NEW S, NEW j \in Jobs, NEW o \in Owners,
         Grant(FinalizeExhausted(S), j, o)
  PROVE  TypeOK'
<1>1. FinalizeExhausted(S) \in [Jobs -> Row] /\ Claimed(j, o) \in Row
  BY FinalizedTable, WrittenRows
<1>2. jobs' \in [Jobs -> Row]
  BY <1>1 DEF Grant
<1>3. [job |-> j, owner |-> o, token |-> issued + 1] \in Lease
  BY DEF TypeOK, Lease
<1>4. QED
  BY <1>2, <1>3 DEF Grant, TypeOK

(* Every step keeps the types.                                             *)
LEMMA StepType ==
  ASSUME TypeOK, [Next]_vars
  PROVE  TypeOK'
<1>1. ASSUME NEW j \in Jobs, NEW d \in Delays, CreateImportJob(j, d)
      PROVE  TypeOK'
  <2>1. now + d \in Nat
    BY DelaysAssumption DEF TypeOK
  <2>2. [Absent EXCEPT !.status = "queued", !.availableAt = now + d] \in Row
    BY <2>1 DEF Absent, Row, Statuses, Errors, NoExpiry, NoToken
  <2>3. QED
    BY <1>1, <2>2 DEF CreateImportJob, TypeOK
<1>2. ASSUME NEW j \in Jobs, NEW o \in Owners, ClaimImportJobById(j, o)
      PROVE  TypeOK'
  BY <1>2, GrantType, FinalizedTable DEF ClaimImportJobById, TypeOK
<1>3. ASSUME NEW o \in Owners, ClaimImportJob(o)
      PROVE  TypeOK'
  BY <1>3, GrantType, FinalizedTable DEF ClaimImportJob, TypeOK
<1>4. CASE FinalizeUploads
  BY <1>4, FinalizedTable DEF FinalizeUploads, TypeOK
<1>5. ASSUME NEW l \in leases, NEW s \in {"succeeded", "failed"}, NEW e \in Errors,
             Settle(l, s, e)
      PROVE  TypeOK'
  <2>1. l.job \in Jobs /\ l.token \in Nat
    BY DEF TypeOK, Lease
  <2>2. Released(l.job, s, e) \in Row
    BY <2>1, WrittenRows DEF Statuses
  <2>3. QED
    BY <1>5, <2>1, <2>2 DEF Settle, TypeOK
<1>6. ASSUME NEW l \in leases, NEW d \in Delays, RetryImportJob(l, d)
      PROVE  TypeOK'
  <2>1. l.job \in Jobs /\ l.token \in Nat /\ now + d \in Nat
    BY DelaysAssumption DEF TypeOK, Lease
  <2>2. \A s \in {"queued", "failed"} : Released(l.job, s, "reported") \in Row
    BY <2>1, WrittenRows DEF Statuses, Errors
  <2>3. \A s \in {"queued", "failed"} :
          [Released(l.job, s, "reported") EXCEPT !.availableAt = now + d] \in Row
    BY <2>1, <2>2 DEF Row
  <2>4. jobs' \in [Jobs -> Row]
    BY <1>6, <2>1, <2>3 DEF RetryImportJob, TypeOK
  <2>5. settledBy' \in [Jobs -> Nat]
    BY <1>6, <2>1 DEF RetryImportJob, TypeOK
  <2>6. QED
    BY <1>6, <2>4, <2>5 DEF RetryImportJob, TypeOK
<1>7. CASE Tick
  BY <1>7 DEF Tick, TypeOK
<1>8. CASE UNCHANGED vars
  BY <1>8 DEF vars, TypeOK
<1>9. QED
  BY <1>1, <1>2, <1>3, <1>4, <1>5, <1>6, <1>7, <1>8
     DEF Next, SucceedImportJob, FailImportJob, Errors

(* The empty table is typed.                                               *)
LEMMA InitType ==
  ASSUME Init
  PROVE  TypeOK
  BY DEF Init, TypeOK, Absent, Row, Lease, Statuses, Errors, NoToken, NoExpiry

(* Whatever is called, in any order, by any caller, the store's state stays*)
(* in its types: the statuses the CHECK constraint of the table lists, and *)
(* leases that name jobs and owners.                                       *)
THEOREM TypeCorrect == Spec => []TypeOK
  BY InitType, StepType, PTL DEF Spec

-----------------------------------------------------------------------------
(* The inductive invariant is preserved.                                   *)

(* A claimed lease lasts.                                                  *)
LEMMA PositiveLease == LeaseDuration \in Nat /\ LeaseDuration > 0
  BY LeaseDurationAssumption

(* Tokens stay bounded by the number generated.                            *)
LEMMA StepTokenBound ==
  ASSUME TypeOK, TokenBound, [Next]_vars
  PROVE  TokenBound'
<1>1. ASSUME NEW S, NEW j \in Jobs, NEW o \in Owners, Grant(S, j, o)
      PROVE  TokenBound'
  <2>1. issued \in Nat
    BY DEF TypeOK
  <2>2. 1 .. issued \subseteq 1 .. issued' /\ issued + 1 \in 1 .. issued'
    BY <1>1, <2>1 DEF Grant
  <2>3. QED
    BY <1>1, <2>2 DEF Grant, TokenBound
<1>2. CASE UNCHANGED <<issued, leases>>
  BY <1>2 DEF TokenBound
<1>3. QED
  BY <1>1, <1>2
     DEF Next, vars, CreateImportJob, ClaimImportJobById, ClaimImportJob,
         FinalizeUploads, SucceedImportJob, FailImportJob, Settle, RetryImportJob, Tick

(* The tokens of a job lie below the next one to be generated.             *)
LEMMA FreshToken ==
  ASSUME TypeOK, TokenBound, NEW k \in Jobs
  PROVE  \A t \in TokensOf(k) : t \in Nat /\ t < issued + 1 /\ t # NoToken
<1>1. issued \in Nat
  BY DEF TypeOK
<1>2. \A l \in leases : l.token \in 1 .. issued
  BY DEF TokenBound
<1>3. \A t \in 1 .. issued : t \in Nat /\ t < issued + 1 /\ t # 0
  BY <1>1
<1>4. \A t \in TokensOf(k) : t \in 1 .. issued
  BY <1>2 DEF TokensOf
<1>5. QED
  BY <1>3, <1>4 DEF NoToken

(* Releasing a row changes its status, error and lease columns only.       *)
LEMMA ReleasedColumns ==
  ASSUME TypeOK, NEW k \in Jobs, NEW s \in Statuses, NEW e \in Errors, NEW at
  PROVE  \A r \in {Released(k, s, e), [Released(k, s, e) EXCEPT !.availableAt = at]} :
           /\ r.status = s
           /\ r.attempts = jobs[k].attempts
           /\ r.lastError = e
           /\ r.leaseOwner = NoOwner
           /\ r.leaseExpiresAt = NoExpiry
           /\ r.leaseToken = NoToken
  BY DEF TypeOK, Row, Released

(* Claiming a row counts the attempt and sets the lease columns.           *)
LEMMA ClaimedColumns ==
  ASSUME TypeOK, NEW k \in Jobs, NEW o \in Owners
  PROVE  LET r == Claimed(k, o) IN
           /\ r.status = "running"
           /\ r.attempts = jobs[k].attempts + 1
           /\ r.lastError = "none"
           /\ r.leaseOwner = o
           /\ r.leaseExpiresAt = now + LeaseDuration
           /\ r.leaseToken = issued + 1
  BY DEF TypeOK, Row, Claimed

(* Each thing a step can do to a row keeps the row's invariant.            *)
LEMMA RowPreserved ==
  ASSUME TypeOK, TokenBound, NEW k \in Jobs, RowInv(k), RowStep(k)
  PROVE  RowInv(k)'
<1>1. /\ jobs[k].attempts \in Nat
      /\ MaxAttempts \in Nat \ {0}
      /\ issued \in Nat
  BY MaxAttemptsAssumption DEF TypeOK, Row
<1>2. CASE SameRow(k)
  BY <1>2 DEF SameRow, RowInv
<1>3. CASE CreatedRow(k)
  <2>1. /\ jobs'[k].status = "queued"
        /\ jobs'[k].attempts = 0
        /\ jobs'[k].leaseOwner = NoOwner
        /\ jobs'[k].leaseExpiresAt = NoExpiry
        /\ jobs'[k].leaseToken = NoToken
    BY <1>3 DEF CreatedRow, Absent
  <2>2. TokensOf(k) = {} /\ TokensOf(k)' = {} /\ settledBy'[k] = NoToken
    BY <1>3 DEF CreatedRow, RowInv
  <2>3. IsFiniteSet({}) /\ Cardinality({}) = 0
    BY FS_EmptySet
  <2>4. QED
    BY <1>1, <2>1, <2>2, <2>3 DEF RowInv
<1>4. CASE GrantedRow(k)
  <2>1. /\ jobs[k].status \in {"queued", "running"}
        /\ jobs[k].attempts < MaxAttempts
        /\ settledBy'[k] = settledBy[k]
        /\ TokensOf(k)' = TokensOf(k) \cup {issued + 1}
    BY <1>4 DEF GrantedRow, Claimable
  <2>2. PICK o \in Owners : jobs'[k] = Claimed(k, o)
    BY <1>4 DEF GrantedRow
  <2>3. /\ jobs'[k].status = "running"
        /\ jobs'[k].attempts = jobs[k].attempts + 1
        /\ jobs'[k].leaseOwner = o
        /\ jobs'[k].leaseExpiresAt = now + LeaseDuration
        /\ jobs'[k].leaseToken = issued + 1
    BY <2>2, ClaimedColumns
  <2>4. now + LeaseDuration # NoExpiry /\ issued + 1 # NoToken /\ o # NoOwner
    <3>1. now \in Nat
      BY DEF TypeOK
    <3>2. QED
      BY <1>1, <3>1, PositiveLease, OwnersAssumption DEF NoExpiry, NoToken
  <2>5. settledBy[k] = NoToken
    BY <2>1 DEF RowInv
  <2>6. issued + 1 \notin TokensOf(k)
    BY <1>1, FreshToken
  <2>7. /\ IsFiniteSet(TokensOf(k)')
        /\ Cardinality(TokensOf(k)') = jobs[k].attempts + 1
    BY <2>1, <2>6, FS_AddElement DEF RowInv
  <2>8. \A t \in TokensOf(k)' : t <= issued + 1
    BY <1>1, <2>1, FreshToken
  <2>9. QED
    BY <1>1, <2>1, <2>3, <2>4, <2>5, <2>7, <2>8 DEF RowInv
<1>5. CASE FinalizedRow(k)
  <2>1. /\ jobs'[k].status = "failed"
        /\ jobs'[k].attempts = jobs[k].attempts
        /\ jobs'[k].lastError = "exhausted"
        /\ jobs'[k].leaseOwner = NoOwner
        /\ jobs'[k].leaseExpiresAt = NoExpiry
        /\ jobs'[k].leaseToken = NoToken
    BY <1>5, ReleasedColumns DEF FinalizedRow, Statuses, Errors
  <2>2. /\ jobs[k].status = "running"
        /\ jobs[k].attempts >= MaxAttempts
        /\ settledBy'[k] = settledBy[k]
        /\ TokensOf(k)' = TokensOf(k)
    BY <1>5 DEF FinalizedRow, Exhausted
  <2>3. QED
    BY <1>1, <2>1, <2>2 DEF RowInv
<1>6. CASE SettledRow(k)
  <2>1. PICK s \in {"succeeded", "failed"}, e \in Errors, at \in Nat :
          jobs'[k] = [Released(k, s, e) EXCEPT !.availableAt = at]
    BY <1>6 DEF SettledRow
  <2>2. /\ jobs'[k].status = s
        /\ jobs'[k].attempts = jobs[k].attempts
        /\ jobs'[k].leaseOwner = NoOwner
        /\ jobs'[k].leaseExpiresAt = NoExpiry
        /\ jobs'[k].leaseToken = NoToken
    BY <2>1, ReleasedColumns DEF Statuses
  <2>3. /\ jobs[k].status = "running"
        /\ settledBy'[k] = jobs[k].leaseToken
        /\ TokensOf(k)' = TokensOf(k)
    BY <1>6 DEF SettledRow
  <2>4. QED
    BY <1>1, <2>2, <2>3 DEF RowInv
<1>7. CASE GivenBackRow(k)
  <2>1. PICK at \in Nat :
          jobs'[k] = [Released(k, "queued", "reported") EXCEPT !.availableAt = at]
    BY <1>7 DEF GivenBackRow
  <2>2. /\ jobs'[k].status = "queued"
        /\ jobs'[k].attempts = jobs[k].attempts
        /\ jobs'[k].leaseOwner = NoOwner
        /\ jobs'[k].leaseExpiresAt = NoExpiry
        /\ jobs'[k].leaseToken = NoToken
    BY <2>1, ReleasedColumns DEF Statuses, Errors
  <2>3. /\ jobs[k].status = "running"
        /\ jobs[k].attempts < MaxAttempts
        /\ settledBy'[k] = settledBy[k]
        /\ TokensOf(k)' = TokensOf(k)
    BY <1>7 DEF GivenBackRow
  <2>4. QED
    BY <1>1, <2>2, <2>3 DEF RowInv
<1>8. QED
  BY <1>2, <1>3, <1>4, <1>5, <1>6, <1>7 DEF RowStep

(* An empty table satisfies the invariant.                                 *)
LEMMA InitInv ==
  ASSUME Init
  PROVE  IInv
<1>1. TokenBound
  BY DEF Init, TokenBound
<1>2. ASSUME NEW j \in Jobs
      PROVE  RowInv(j)
  <2>1. TokensOf(j) = {}
    BY DEF Init, TokensOf
  <2>2. IsFiniteSet({}) /\ Cardinality({}) = 0
    BY FS_EmptySet
  <2>3. QED
    BY <2>1, <2>2, MaxAttemptsAssumption DEF Init, RowInv, Absent
<1>3. QED
  BY <1>1, <1>2, InitType DEF IInv

(* And every step keeps it.                                                *)
LEMMA StepInv ==
  ASSUME IInv, [Next]_vars
  PROVE  IInv'
<1>1. TypeOK' /\ TokenBound'
  BY StepType, StepTokenBound DEF IInv
<1>2. ASSUME NEW k \in Jobs
      PROVE  RowInv(k)'
  BY StepCases, RowPreserved DEF IInv
<1>3. QED
  BY <1>1, <1>2 DEF IInv

(* The state that the properties below are read off from.                  *)
THEOREM Inductive == Spec => []IInv
  BY InitInv, StepInv, PTL DEF Spec

-----------------------------------------------------------------------------
(* The properties.                                                         *)

(* The lease columns are set exactly on running rows, whichever statements *)
(* wrote the row: the CHECK constraint of the table never refuses a write. *)
THEOREM LeaseColumnsHold == Spec => []LeaseColumns
<1>1. IInv => LeaseColumns
  BY DEF IInv, RowInv, LeaseColumns
<1>2. QED
  BY <1>1, Inductive, PTL

(* No history of claims, expiries and retries miscounts attempts or hands  *)
(* out more leases for a job than max_attempts.                            *)
THEOREM AttemptsBounded == Spec => []AttemptsCountLeases
<1>1. IInv => AttemptsCountLeases
  BY DEF IInv, RowInv, AttemptsCountLeases
<1>2. QED
  BY <1>1, Inductive, PTL

(* A worker holding a superseded lease never decides a job.                *)
THEOREM Fencing == Spec => []SettledByNewestLease
<1>1. IInv => SettledByNewestLease
  BY DEF IInv, RowInv, SettledByNewestLease
<1>2. QED
  BY <1>1, Inductive, PTL

(* Every terminal status was reported by a lease holder or is the          *)
(* exhaustion of all attempts.                                             *)
THEOREM OutcomesHaveCauses == Spec => []OutcomeHasACause
<1>1. IInv => OutcomeHasACause
  BY DEF IInv, RowInv, OutcomeHasACause
<1>2. QED
  BY <1>1, Inductive, PTL

(* A job that is not settled can be claimed or given up, or will be able   *)
(* to be once its delay or its lease has run out: it is queued only with   *)
(* an attempt left, so no retry leaves it where no claim and no            *)
(* finalisation would ever find it.                                        *)
NoJobIsStranded ==
  \A j \in Jobs :
    jobs[j].status \in {"queued", "running"} =>
      \/ Claimable(j)
      \/ Exhausted(j)
      \/ jobs[j].status = "queued" /\ jobs[j].availableAt > now
                                  /\ jobs[j].attempts < MaxAttempts
      \/ jobs[j].status = "running" /\ jobs[j].leaseExpiresAt > now

(* Whoever claims, retries, reports or stays silent, every unsettled job   *)
(* stays within reach of a later claim or finalisation.                    *)
THEOREM JobsStayWithinReach == Spec => []NoJobIsStranded
<1>1. ASSUME IInv, NEW j \in Jobs, jobs[j].status \in {"queued", "running"}
      PROVE  \/ Claimable(j)
             \/ Exhausted(j)
             \/ jobs[j].status = "queued" /\ jobs[j].availableAt > now
                                         /\ jobs[j].attempts < MaxAttempts
             \/ jobs[j].status = "running" /\ jobs[j].leaseExpiresAt > now
  <2>1. /\ now \in Nat /\ MaxAttempts \in Nat /\ jobs[j].attempts \in Nat
        /\ jobs[j].availableAt \in Nat /\ jobs[j].leaseExpiresAt \in Nat
    BY <1>1, MaxAttemptsAssumption DEF IInv, TypeOK, Row
  <2>2. jobs[j].status = "queued" => jobs[j].attempts < MaxAttempts
    BY <1>1 DEF IInv, RowInv
  <2>3. QED
    BY <1>1, <2>1, <2>2 DEF Claimable, Exhausted, Expired
<1>2. IInv => NoJobIsStranded
  BY <1>1 DEF NoJobIsStranded
<1>3. QED
  BY <1>2, Inductive, PTL

(* No statement replaces the lease on a running row before it expires.     *)
THEOREM NoEarlyTakeover == Spec => TakenOverOnlyAfterExpiry
<1> DEFINE Taken(j) == /\ jobs[j].status = "running"
                       /\ jobs'[j].status = "running"
                       /\ jobs'[j].leaseToken # jobs[j].leaseToken
<1>1. ASSUME TypeOK, [Next]_vars, NEW k \in Jobs, Taken(k)
      PROVE  Expired(k)
  <2>1. ~CreatedRow(k) /\ ~SameRow(k)
    BY <1>1 DEF CreatedRow, SameRow
  <2>2. ASSUME FinalizedRow(k)
        PROVE  FALSE
    BY <1>1, <2>2, ReleasedColumns DEF FinalizedRow, Statuses, Errors
  <2>3. ASSUME SettledRow(k)
        PROVE  FALSE
    <3>1. PICK s \in {"succeeded", "failed"}, e \in Errors, at \in Nat :
            jobs'[k] = [Released(k, s, e) EXCEPT !.availableAt = at]
      BY <2>3 DEF SettledRow
    <3>2. jobs'[k].status = s
      BY <1>1, <3>1, ReleasedColumns DEF Statuses
    <3>3. QED
      BY <1>1, <3>2
  <2>4. ASSUME GivenBackRow(k)
        PROVE  FALSE
    <3>1. PICK at \in Nat :
            jobs'[k] = [Released(k, "queued", "reported") EXCEPT !.availableAt = at]
      BY <2>4 DEF GivenBackRow
    <3>2. jobs'[k].status = "queued"
      BY <1>1, <3>1, ReleasedColumns DEF Statuses, Errors
    <3>3. QED
      BY <1>1, <3>2
  <2>5. GrantedRow(k)
    BY <1>1, <2>1, <2>2, <2>3, <2>4, StepCases DEF RowStep
  <2>6. QED
    BY <1>1, <2>5 DEF GrantedRow, Claimable
<1>2. TypeOK /\ [Next]_vars => [\A j \in Jobs : Taken(j) => Expired(j)]_vars
  BY <1>1
<1>3. QED
  BY <1>2, TypeCorrect, PTL DEF Spec, TakenOverOnlyAfterExpiry

-----------------------------------------------------------------------------
(* The table implements JobLifecycle.                                      *)

(* JobLifecycle counts holders as this module counts tokens.               *)
LEMMA SameCardinality == \A S : Lifecycle!Cardinality(S) = Cardinality(S)
  BY DEF Lifecycle!Cardinality, Cardinality

(* What a step does to a row is a step of that job's life.                 *)
LEMMA RowStepIsLifecycleStep ==
  ASSUME IInv, NEW k \in Jobs, RowStep(k)
  PROVE  \/ Lifecycle!Create(k)
         \/ Lifecycle!Start(k)
         \/ Lifecycle!Report(k)
         \/ Lifecycle!GiveUp(k)
         \/ Lifecycle!Same(k)
<1>1. /\ TypeOK
      /\ TokenBound
      /\ jobs[k].attempts = Cardinality(TokensOf(k))
  BY DEF IInv, RowInv
<1> USE SameCardinality
<1>2. CASE SameRow(k)
  BY <1>2 DEF SameRow, Lifecycle!Same
<1>3. CASE CreatedRow(k)
  <2>1. jobs'[k].status = "queued" /\ jobs'[k].leaseToken = NoToken
    BY <1>3 DEF CreatedRow, Absent
  <2>2. QED
    BY <1>3, <2>1 DEF CreatedRow, Lifecycle!Create, Lifecycle!Nobody, NoToken
<1>4. CASE GrantedRow(k)
  <2>1. /\ jobs'[k].status = "running"
        /\ jobs'[k].leaseToken = issued + 1
    BY <1>1, <1>4, ClaimedColumns DEF GrantedRow
  <2>2. issued + 1 \in Nat /\ issued + 1 # 0
    BY <1>1 DEF TypeOK
  <2>3. issued + 1 \notin TokensOf(k)
    BY <1>1, <2>2, FreshToken DEF TypeOK
  <2>4. QED
    BY <1>1, <1>4, <2>1, <2>2, <2>3
       DEF GrantedRow, Claimable, Lifecycle!Start, Lifecycle!Nobody
<1>5. CASE FinalizedRow(k)
  <2>1. jobs'[k].status = "failed" /\ jobs'[k].leaseToken = NoToken
    BY <1>1, <1>5, ReleasedColumns DEF FinalizedRow, Statuses, Errors
  <2>2. QED
    BY <1>1, <1>5, <2>1
       DEF FinalizedRow, Exhausted, Lifecycle!GiveUp, Lifecycle!Nobody, NoToken
<1>6. CASE SettledRow(k)
  <2>1. jobs'[k].status \in {"succeeded", "failed"} /\ jobs'[k].leaseToken = NoToken
    BY <1>1, <1>6, ReleasedColumns DEF SettledRow, Statuses
  <2>2. QED
    BY <1>6, <2>1 DEF SettledRow, Lifecycle!Report, Lifecycle!Nobody, NoToken
<1>7. CASE GivenBackRow(k)
  <2>1. jobs'[k].status = "queued" /\ jobs'[k].leaseToken = NoToken
    BY <1>1, <1>7, ReleasedColumns DEF GivenBackRow, Statuses, Errors
  <2>2. QED
    BY <1>1, <1>7, <2>1 DEF GivenBackRow, Lifecycle!Report, Lifecycle!Nobody, NoToken
<1>8. QED
  BY <1>2, <1>3, <1>4, <1>5, <1>6, <1>7 DEF RowStep

(* The table keeps the promise of JobLifecycle: one holder at a time, new  *)
(* holders only, at most MaxAttempts of them, and a settled job for good.  *)
THEOREM Implements == Spec => ImplementsLifecycle
<1>1. ASSUME Init
      PROVE  Lifecycle!Init
  <2>1. \A j \in Jobs : TokensOf(j) = {}
    BY <1>1 DEF Init, TokensOf
  <2>2. QED
    BY <1>1, <2>1 DEF Init, Absent, Lifecycle!Init, Lifecycle!Nobody, NoToken
<1>2. ASSUME IInv, [Next]_vars
      PROVE  Lifecycle!Next
  BY <1>2, StepCases, RowStepIsLifecycleStep DEF IInv, Lifecycle!Next
<1>3. QED
  BY <1>1, <1>2, Inductive, PTL DEF Spec, ImplementsLifecycle, Lifecycle!Spec
=============================================================================
