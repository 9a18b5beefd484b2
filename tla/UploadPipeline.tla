--------------------------- MODULE UploadPipeline ---------------------------
(***************************************************************************)
(* What becomes of an upload: the request stores the blob, records the     *)
(* source and enqueues the job; tasks that claim the job read the blob and *)
(* write evidence rows and then graph rows, one statement or transaction   *)
(* at a time, and report to the table (ImportJobs).  A lease is checked    *)
(* when a task reports, never when it writes, so a task that has lost its  *)
(* lease goes on writing beside its successor.  When a task is dispatched  *)
(* is UploadWorkers' subject, how one graph write is protected against     *)
(* another GraphProjection's: here a claim may come at any time and a      *)
(* graph write is one step.                                                *)
(* Definitions marked "Fault" are not part of the specification.           *)
(***************************************************************************)
EXTENDS Naturals, Sequences, FiniteSets

CONSTANTS
  Jobs,            \* uploads: each is a request, a source and a job
  ExternalId,      \* the external id each upload names, or NoExternalId
  NoExternalId,
  Chunks,          \* how many evidence chunks its text has; 0 if the bytes
                   \* are not text, blank, or of an unsupported content type
  Owner, NoOwner, MaxAttempts, LeaseDuration, Delays,
  MaxVersion,      \* bound: readings of the clock that versions come from
  MaxFaults        \* bound: outages met and processes lost

ASSUME ChunksAssumption == Chunks \in [Jobs -> 0 .. 16]
ASSUME BoundsAssumption == MaxVersion \in Nat /\ MaxFaults \in Nat
ASSUME TableAssumption ==
  /\ MaxAttempts \in Nat \ {0}
  /\ LeaseDuration \in Nat \ {0}
  /\ Delays \subseteq Nat
  /\ Owner # NoOwner

VARIABLES
  jobs, now, issued, leases, settledBy,   \* the table
  request,    \* how far each upload request has come
  blobs,      \* uploads whose bytes are in the blob store
  sources,    \* uploads with a row in knowledge.sources
  evidence,   \* rows of knowledge.evidence
  live,       \* the version of each live graph row, NoVersion if there is none
  tasks,      \* tasks at work: what each will do next
  faults

table == <<jobs, now, issued, leases, settledBy>>
data == <<request, blobs, sources, evidence, live>>
vars == <<table, data, tasks, faults>>

Table == INSTANCE ImportJobs WITH UploadJobs <- Jobs, Owners <- {Owner}

NoVersion == 0

-----------------------------------------------------------------------------
(* What a task writes.                                                     *)

Item(kind, j, c) == [kind |-> kind, job |-> j, chunk |-> c]

\* Fault: a relation is written before the node it leads to.
ScriptRelationFirst(j) ==
  LET n == Chunks[j] IN
  [c \in 1 .. n |-> Item("evidence", j, c)]
    \o <<Item("source", j, 0)>>
    \o [i \in 1 .. 2 * n |-> Item(IF i % 2 = 1 THEN "relation" ELSE "node", j, (i + 1) \div 2)]
    \o <<Item("claim", j, 1)>>

\* The writes of one materialization in their order: every chunk's evidence,
\* the source's node, for each chunk its node and the relation from source to
\* it, and a claim from the first chunk.
Script(j) ==
  LET n == Chunks[j] IN
  [c \in 1 .. n |-> Item("evidence", j, c)]
    \o <<Item("source", j, 0)>>
    \o [i \in 1 .. 2 * n |-> Item(IF i % 2 = 1 THEN "node" ELSE "relation", j, (i + 1) \div 2)]
    \o <<Item("claim", j, 1)>>

Written(j) == {Script(j)[i] : i \in DOMAIN Script(j)}
Items == UNION {Written(j) : j \in Jobs}
Evidence == {i \in Items : i.kind = "evidence"}
GraphIds == Items \ Evidence

\* `next` is the position in the script of the next write, 0 before the blob
\* is read; `error` what ended the work.
Task == [lease : Table!Lease, next : Nat, version : 0 .. MaxVersion,
         error : {"none", "content", "conflict", "outage"}]

\* The types of everything but the table, whose types are its own.
TypeOK ==
  /\ request \in [Jobs -> {"new", "stored", "recorded", "enqueued", "refused", "lost"}]
  /\ blobs \subseteq Jobs
  /\ sources \subseteq Jobs
  /\ evidence \subseteq Evidence
  /\ live \in [GraphIds -> 0 .. MaxVersion]
  /\ tasks \subseteq Task
  /\ \A t \in tasks : t.next <= Len(Script(t.lease.job)) + 1
  /\ faults \in 0 .. MaxFaults

Init ==
  /\ Table!Init
  /\ request = [j \in Jobs |-> "new"]
  /\ blobs = {}
  /\ sources = {}
  /\ evidence = {}
  /\ live = [i \in GraphIds |-> NoVersion]
  /\ tasks = {}
  /\ faults = 0

-----------------------------------------------------------------------------
(* The request: three stores written one after the other.                  *)

PutBlob(j) ==
  /\ request[j] = "new"
  /\ blobs' = blobs \cup {j}
  /\ request' = [request EXCEPT ![j] = "stored"]
  /\ UNCHANGED <<table, sources, evidence, live, tasks, faults>>

\* An external id the workspace already has is refused; the blob stays.
InsertSource(j) ==
  /\ request[j] = "stored"
  /\ \/ /\ \A k \in sources : ExternalId[j] = NoExternalId \/ ExternalId[k] # ExternalId[j]
        /\ sources' = sources \cup {j}
        /\ request' = [request EXCEPT ![j] = "recorded"]
     \/ /\ \E k \in sources : ExternalId[j] # NoExternalId /\ ExternalId[k] = ExternalId[j]
        /\ request' = [request EXCEPT ![j] = "refused"]
        /\ UNCHANGED sources
  /\ UNCHANGED <<table, blobs, evidence, live, tasks, faults>>

\* Fault: the job is enqueued before the source row is there.
EnqueueAtOnce(j, d) ==
  /\ request[j] \in {"stored", "recorded"}
  /\ Table!CreateImportJob(j, d)
  /\ request' = [request EXCEPT ![j] = "enqueued"]
  /\ UNCHANGED <<blobs, sources, evidence, live, tasks, faults>>

Enqueue(j, d) ==
  /\ request[j] = "recorded"
  /\ Table!CreateImportJob(j, d)
  /\ request' = [request EXCEPT ![j] = "enqueued"]
  /\ UNCHANGED <<blobs, sources, evidence, live, tasks, faults>>

-----------------------------------------------------------------------------
(* A task.                                                                 *)

Position(t) == Script(t.lease.job)[t.next]

\* The blob has been read and `n` writes of the script remain.
AtWrite(t) == t.error = "none" /\ t.next \in DOMAIN Script(t.lease.job)

Becomes(t, u) == tasks' = (tasks \ {t}) \cup {u}

Claim(j) ==
  /\ Table!ClaimImportJobById(j, Owner)
  /\ tasks' = tasks \cup
       {[lease |-> l, next |-> 0, version |-> NoVersion, error |-> "none"] :
          l \in leases' \ leases}
  /\ UNCHANGED <<data, faults>>

\* The bytes are checked before anything is written.
ReadBlob(t) ==
  /\ t.error = "none" /\ t.next = 0
  /\ Becomes(t, IF t.lease.job \in blobs /\ Chunks[t.lease.job] > 0
                THEN [t EXCEPT !.next = 1]
                ELSE [t EXCEPT !.error = "content"])
  /\ UNCHANGED <<table, data, faults>>

\* The row is written whether it was there or not.
WriteEvidence(t) ==
  /\ AtWrite(t) /\ Position(t).kind = "evidence"
  /\ evidence' = evidence \cup {Position(t)}
  /\ Becomes(t, [t EXCEPT !.next = @ + 1])
  /\ UNCHANGED <<table, request, blobs, sources, live, faults>>

\* The version of all graph rows of one materialization is read from the
\* clock when projection starts.  The fixed distances between them keep the
\* order of two materializations of a row that of their readings.
ReadClock(t) ==
  /\ AtWrite(t) /\ Position(t).kind = "source" /\ t.version = NoVersion
  /\ \E v \in 1 .. MaxVersion : Becomes(t, [t EXCEPT !.version = v])
  /\ UNCHANGED <<table, data, faults>>

\* Fault: the clock is read again after each row.
WriteGraphRereading(t) ==
  /\ AtWrite(t) /\ Position(t) \in GraphIds /\ t.version # NoVersion
  /\ \/ /\ t.version > live[Position(t)]
        /\ live' = [live EXCEPT ![Position(t)] = t.version]
        /\ \E v \in t.version .. MaxVersion :
             Becomes(t, [t EXCEPT !.next = @ + 1, !.version = v])
     \/ /\ t.version <= live[Position(t)]
        /\ Becomes(t, [t EXCEPT !.error = "conflict"])
        /\ UNCHANGED live
  /\ UNCHANGED <<table, request, blobs, sources, evidence, faults>>

\* A graph row is superseded by newer versions only.
WriteGraph(t) ==
  /\ AtWrite(t) /\ Position(t) \in GraphIds /\ t.version # NoVersion
  /\ \/ /\ t.version > live[Position(t)]
        /\ live' = [live EXCEPT ![Position(t)] = t.version]
        /\ Becomes(t, [t EXCEPT !.next = @ + 1])
     \/ /\ t.version <= live[Position(t)]
        /\ Becomes(t, [t EXCEPT !.error = "conflict"])
        /\ UNCHANGED live
  /\ UNCHANGED <<table, request, blobs, sources, evidence, faults>>

\* Two tasks write the same row at once: whatever its version, the one that
\* looked before the other committed may be refused by the unique index.
LoseInsertRace(t) ==
  /\ AtWrite(t) /\ Position(t) \in GraphIds /\ t.version # NoVersion
  /\ \E u \in tasks \ {t} :
       AtWrite(u) /\ Position(u) = Position(t) /\ u.version # NoVersion
  /\ Becomes(t, [t EXCEPT !.error = "conflict"])
  /\ UNCHANGED <<table, data, faults>>

\* Reading the blob or a statement fails for a passing reason.
MeetOutage(t) ==
  /\ faults < MaxFaults
  /\ t.error = "none" /\ t.next <= Len(Script(t.lease.job))
  /\ Becomes(t, [t EXCEPT !.error = "outage"])
  /\ faults' = faults + 1
  /\ UNCHANGED <<table, data>>

\* Fault: errors of the graph projection are not reported.
DoneWithEvidence(t) == t.next > Chunks[t.lease.job]

Done(t) == t.error = "none" /\ t.next > Len(Script(t.lease.job))

\* Any error fails the job.
Report(t) ==
  /\ \/ Done(t) /\ Table!SucceedImportJob(t.lease)
     \/ ~Done(t) /\ t.error # "none" /\ Table!FailImportJob(t.lease)
     \/ /\ Done(t) \/ t.error # "none"
        /\ ~Table!HoldsLease(t.lease)
        /\ UNCHANGED table
  /\ tasks' = tasks \ {t}
  /\ UNCHANGED <<data, faults>>

-----------------------------------------------------------------------------
(* Faults and time.                                                        *)

\* A request or a task goes with its process.
LoseProcess ==
  /\ faults < MaxFaults
  /\ \/ \E j \in Jobs : /\ request[j] \in {"stored", "recorded"}
                        /\ request' = [request EXCEPT ![j] = "lost"]
                        /\ UNCHANGED tasks
     \/ \E t \in tasks : tasks' = tasks \ {t} /\ UNCHANGED request
  /\ faults' = faults + 1
  /\ UNCHANGED <<table, blobs, sources, evidence, live>>

\* An exhausted job is finalised by the next recovery scan.
Finalize ==
  /\ Table!FinalizeUploads
  /\ UNCHANGED <<data, tasks, faults>>

TimePasses ==
  /\ Table!Tick
  /\ UNCHANGED <<data, tasks, faults>>

Next ==
  \/ \E j \in Jobs : PutBlob(j)
  \/ \E j \in Jobs : InsertSource(j)
  \/ \E j \in Jobs, d \in Delays : Enqueue(j, d)
  \/ \E j \in Jobs : Claim(j)
  \/ \E t \in tasks : ReadBlob(t)
  \/ \E t \in tasks : WriteEvidence(t)
  \/ \E t \in tasks : ReadClock(t)
  \/ \E t \in tasks : WriteGraph(t)
  \/ \E t \in tasks : LoseInsertRace(t)
  \/ \E t \in tasks : MeetOutage(t)
  \/ \E t \in tasks : Report(t)
  \/ LoseProcess
  \/ Finalize
  \/ TimePasses

Spec == Init /\ [][Next]_vars

-----------------------------------------------------------------------------
(* Properties.                                                             *)

\* A job that reads succeeded has all its evidence rows and all its graph
\* rows, whoever else wrote to them before or since.
SucceededIsComplete ==
  \A j \in Jobs : jobs[j].status = "succeeded" =>
    \A i \in Written(j) : IF i \in Evidence THEN i \in evidence ELSE live[i] # NoVersion

\* Nothing in the live graph hangs in the air, even half-way through a
\* materialization or after an aborted one: relations have both their ends,
\* nodes and claims their evidence rows.
GraphRestsOnEvidence ==
  \A i \in GraphIds : live[i] # NoVersion =>
    /\ i.kind = "relation" =>
         /\ live[Item("source", i.job, 0)] # NoVersion
         /\ live[Item("node", i.job, i.chunk)] # NoVersion
    /\ i.kind \in {"node", "claim"} => Item("evidence", i.job, i.chunk) \in evidence
    /\ i.kind = "source" => \A c \in 1 .. Chunks[i.job] : Item("evidence", i.job, c) \in evidence

\* A job always has its source row and its bytes, an external id belongs to
\* one source, and a source is left without a job only if a process was lost.
UploadsAreTracked ==
  /\ \A j \in Jobs : jobs[j].status # "absent" => j \in sources
  /\ sources \subseteq blobs
  /\ \A j, k \in sources : j # k => ExternalId[j] = NoExternalId \/ ExternalId[j] # ExternalId[k]
  /\ \A j \in sources : jobs[j].status = "absent" =>
       \/ request[j] = "recorded"
       \/ request[j] = "lost" /\ faults > 0

\* Attempts of one job overlap and their clocks need not agree, and yet rows of
\* a later reading never rest on rows of an earlier one: whichever attempts
\* stopped half-way, graph rows that are written earlier in a materialization
\* (a source and a node before the relation between them) are at least as new.
RowsRestOnNewerRows ==
  \A j \in Jobs : \A p, q \in DOMAIN Script(j) :
    p < q /\ Script(j)[p] \in GraphIds => live[Script(j)[p]] >= live[Script(j)[q]]

\* Everything done to jobs is something the table allows.
UsesTheTable == Table!Spec

\* What docs/local-cloud-operating-model.md asks of cloud failures: a job with
\* attempts left that met an outage stays retryable.
OutageStaysRetryable ==
  [][\A t \in tasks :
       /\ t.error = "outage"
       /\ jobs[t.lease.job].status = "running"
       /\ jobs[t.lease.job].leaseToken = t.lease.token
       /\ jobs[t.lease.job].attempts < MaxAttempts
       => jobs'[t.lease.job].status # "failed"]_vars
=============================================================================
