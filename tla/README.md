# A verification project for Etyma

Etyma turns documents into evidence that an agent can cite and into a graph
over that evidence. It has a local engine (Rust), a desktop application around
it (Electron), an MCP server and command line, and a cloud server with Postgres
and a blob store behind it. This directory holds TLA+ specifications of the
parts whose correctness depends on concurrency, time and failure, the TLC runs
that check them, and TLAPS proofs of what matters most about them.

Paths below are relative to the repository; `server/` stands for
`crates/etyma-server/src/` and `engine/` for `crates/etyma-engine/src/`.

## 1. Inventory

### Cloud server (`crates/etyma-server`)

| Component | State | Operations | What is hard | What makes it correct |
|---|---|---|---|---|
| Import-job table (`server/knowledge/mod.rs`, migrations 0003, 0004) | one row per job: status, attempts, available_at, lease owner, token and expiry | create, claim the next or a named job, succeed, fail, retry, finalise exhausted jobs | leases that expire while their holder works, late reports, claims that race, the last attempt | only the newest lease settles a job; attempts are bounded; a job is taken over only after expiry; a settled job stays settled |
| Upload workers (`server/import_job/mod.rs`) | spawned tasks; the recovery loop | spawn, claim and work, report; scan and dispatch once a second | server crashes, tasks that hang, duplicates from handler and scans, a batch limit | every enqueued upload is settled; a task that holds its lease has the job to itself |
| Upload request and materialization (`server/http/mod.rs` upload_source, `server/ingest`, `server/materialize.rs`) | blob, `knowledge.sources`, `knowledge.evidence` | put, insert, enqueue; up to 16 evidence rows, then graph rows | no transaction spans the stores or the rows; a task without its lease goes on writing; versions are clock readings | success implies that all rows are there; the graph never refers to what is missing; no row is newer than what it rests on |
| Cloud graph plane (`server/graph/mod.rs`, migration 0005) | versioned rows of nodes, relations and claims; a row is live while `valid_to` is NULL | upsert one row; replace all rows of a workspace; read the live rows | READ COMMITTED statements, row locks, a partial unique index, two statements that see different rows | one live row per id; the versions of an id form a chain; no accepted write is lost |
| Blob store (`server/blob`) | content-addressed files | put (temporary file and rename), get with hash check, delete | orphans, which the code documents and accepts | bytes are all there or not at all |
| Control plane (`server/store`) | orgs, workspaces, users, memberships, tokens | create, mint and revoke tokens | first logins that race; the rest is one statement under foreign keys or one transaction that locks the membership it checks | one personal organization per new user; a token is minted for an owner |
| OIDC login and sessions (`server/auth`) | login states, identities, sessions | begin, finish (consume the state, exchange the code, upsert the identity, open a session), logout | repeated callbacks, expiry, concurrent first logins | a login state is used once; one identity, one user |
| Compose, retrieval, cloud MCP, seed | none of their own | reads; a one-time seed | torn reads | - |

The HTTP handler calls the blob store, then the knowledge store twice, then
spawns a task; tasks and the recovery loop meet only in the import-job table;
tasks write evidence through the knowledge store and rows through the graph
store. Nothing but the database and the blob directory survives a restart.

### Local engine, MCP server, desktop

| Component | State | Operations | What is hard | What makes it correct |
|---|---|---|---|---|
| MCP import registry (`crates/etyma-cli/src/mcp/import_jobs.rs`) | one in-memory snapshot per import job, one thread each; the engine's job table behind it | start, status, cancel, retry the graph | updates that respect a terminal state and updates that do not; cancellation while an engine call runs; a retry beside the import thread; engine processes that outlive the server | an import that ended stays as it ended; a cancelled one goes nowhere else; every import ends |
| Engine: agent writes (`engine/application/commands/brain_write.rs`) and materialization (`engine/domains/knowledge/effective_state.rs`) | proposals as rows and files; event log, memories and evidence as files; a lock directory | propose, commit, reject; materialize after an import or a deletion; graph patch | four files and tables without a transaction; a materialization that read before it locked; killed processes | an accepted memory stays, is accepted once, and rests on evidence that is there |
| Engine: job rows and compilation (`engine/application/services/project_service.rs`, `engine/adapters/persistence`) | `import_jobs`, `sources`, `projects` | compile a project, generate its graph, delete a source | commits one after the other in a process of its own | modelled with the registry and with agent writes |
| Engine: event log, replay, graph building and linking (`engine/domains/knowledge/replay.rs`, `cleanup.rs`, `effective_state.rs`, `engine/domains/brain/replay.rs`, `engine/domains/agent_workflow`) | `brain_events.jsonl`, the materialized files | build and link the graph of an import, write (replaying the log over a baseline), reconstruct | baselines read before a provider is asked; builds made in one order and written in the other; what earlier replays left behind | what an import has reported stays until a later build of its source; the graph shown is what the log gives, with the build made last of each source |
| Engine: trails and versions (`engine/graph_history.rs`, `graph_trail_store.rs`) | rows recorded for reading | record, read | - | - |
| Engine: Markdown queue, brain health, corrections, answers | queue files; otherwise reads and pure transformations | - | data rather than control | - |
| Engine: parsing, packaging, search, providers | files of a project | long transformations | data rather than control | - |
| Engine: command loop (`engine/runtime/mod.rs`) | none | read a line, answer it | - | one answer per line, in order |
| Desktop engine runtime (`apps/desktop/main/engine-runtime.cjs`) | child process, active request, queue | run, answer, event, exit, stop | exits and late answers between requests; a queue behind a failed spawn | every request is settled, once, and by its own answer |
| Desktop import pipeline and agent chat (`apps/desktop/main/import-pipeline.cjs`, `agent-chat-stream.cjs`, `snapshot-state.cjs`) | the active job, the rebuild queue, chats | import, retry pages, cancel, ask, stop | continuations after an await that act on whatever job is active; one runtime for imports and chats; rebuilds that end late | the active job is worked on and ends; an outcome that was shown stays |
| Desktop terminal sessions (`apps/desktop/main/agent-terminal-sessions.cjs`) | sessions and subscriptions | create, write, resize, kill, exit event | little: the backend awaits nothing inside its methods and replays an exit to a late subscriber | a session whose process ended is closed |
| Renderer, engine client, command line, site | - | user interface, formatting, one subprocess per call | - | - |

The import pipeline and chats call the engine runtime, which talks to one
engine process; rebuilds and all calls of the MCP server start a process each.
Engine processes meet in the workspace's files and tables only.

`PROJECT.json` lists each component with its status, and under "hazards" what
in this code is hard to test, at its line.

## 2. Modules

| Module | Models | Composes | Runs |
|---|---|---|---|
| `JobLifecycle` | abstract: what the table promises of one job | - | through `ImportJobs` |
| `ImportJobs` | the import-job table | implements `JobLifecycle` | `control_plane` |
| `ImportJobs_proofs` | theorems about `ImportJobs` | - | - |
| `UploadWorkers` | handler, recovery loop, tasks, crashes | uses the actions of `ImportJobs` | `upload_workers` |
| `UploadPipeline` | request, materialization, overlapping attempts | uses the actions of `ImportJobs` | `upload_pipeline`, `finding_retry` |
| `UploadPipeline_proofs` | theorems about `UploadPipeline` | - | - |
| `GraphProjection` | the transactions of the graph store | - | `graph_projection`, `finding_replace` |
| `GraphProjection_proofs` | theorems about `GraphProjection` | - | - |
| `LoginSessions` | OIDC login, identities, sessions | - | `control_plane` |
| `CloudServer_proofs` | theorems about `UploadWorkers` and `LoginSessions` | - | - |
| `ImportLifecycle` | import threads, tools and engine processes of the MCP server | registry, job rows and engine in one module | `import_lifecycle` |
| `AgentWrites` | proposals, commits, materialization, patches under the lock directory | - | `agent_writes` |
| `AgentWrites_proofs` | theorems about `AgentWrites` | - | - |
| `GraphHistory` | event log, replay, builds and linkings of concurrent imports, reconstruction | - | `graph_history`, `finding_append_order` |
| `LocalImports_proofs` | theorems about `ImportLifecycle` and `GraphHistory` | - | - |
| `EngineRuntime` | the desktop's engine runtime and its child processes | runtime and command loop in one module | `engine_runtime` |
| `EngineRuntime_proofs` | theorems about `EngineRuntime` | - | - |
| `DesktopImports` | import pipeline, chats, rebuilds | rests on `EngineRuntime` (see below) | `desktop_imports` |
| `DesktopImports_proofs` | theorems about `DesktopImports` | - | - |

`MC*.tla` and `*.cfg` instantiate them for TLC. In each module some
definitions are marked "Fault": each is one definition of the module with one
bug put in, and `PROJECT.json` "mutants" names the property that notices it.
They are not part of the specification.

Two of the proof modules are about two specifications each, which run beside one
another in one program. As they extend both, names must not clash: the
definitions of `ImportLifecycle` are `ImportInit`, `ImportNext`, `ImportSpec` and
`importVars`, those of `UploadWorkers` `WorkersInit` and of `LoginSessions`
`LoginInit` and so on.

### ImportJobs

`jobs` is the table, with status "absent" for a row not yet inserted;
`leases` is every lease a claim has ever returned, since a caller may keep one
for ever and present it at any time; `issued` counts generated tokens;
`settledBy` remembers the token under which a job was settled. Tokens are UUIDs
in the code and successive numbers here, so that newest means greatest; the
code compares them for equality only, and so does the model. NULL is `NoOwner`,
`NoToken` or `NoExpiry`.

Each store operation is one statement or one short transaction and is one
action. A claim first finalises exhausted jobs (the named one, or all of the
workspace) and then takes a row: both are in the action, whether the claim wins
a row or not. The code reads `clock_timestamp()` more than once in a claim;
here all of it happens in one second, and a row that becomes exhausted
meanwhile is finalised by a later call. `FOR UPDATE SKIP LOCKED` makes the
order of claims advisory, so any claimable row may be the one taken. Time is
the database's clock in seconds and advances only while some stored deadline
lies ahead, which keeps the state space finite without a bound on time. A
workspace is fixed. `updated_at` and the text of errors are left out.

### UploadWorkers

`handlers`, `dispatched`, `working` and `scan` are the volatile state: requests
between the job's INSERT and `spawn_upload_job`, spawned tasks that have not
claimed yet, leases of tasks at work, and the recovery loop's place. Every task
draws its own owner name; one name stands for all, since its fresh token tells
a task apart. A crash clears all volatile state and leaves the table. A report
whose lease no longer holds changes nothing and the task ends (the code logs
the lease conflict). A scan is two statements, so claims and reports fall
between them; it orders rows by `available_at`, then id.

### UploadPipeline

The request is three steps into three stores. A task follows `Script`, the
sequence of its writes: evidence rows, the source's node, each chunk's node
and relation, one claim. `live` holds the version of each live graph row; a
write with a version that is not newer is a conflict and ends the attempt.
Versions are readings of a clock that need not be monotone, as attempts may run
on different servers. `LoseInsertRace` is what `GraphProjection` shows of two
writers of one row: the later one is refused by the unique index though its
version is newer. The fixed offsets that the code adds to versions (1, 100,
10 000 ms) are the same for a row in every attempt and do not change which of
two is newer. Claims may come at any time.

### GraphProjection

Each call is one READ COMMITTED transaction and takes one step per statement,
or per row lock a statement waits for. `rows` holds committed rows only; what a
call has locked, closed and inserted is in `call[c]` until it commits. A
statement finds what was committed when it began, waits for rows others have
locked, and drops those that are no longer live when it gets them. An INSERT
waits for another transaction that has the same live index entry pending and is
refused if a live row remains. This behaviour of Postgres is external to the
repository and is modelled from its documented rules as the statements use
them. `replace_live_projection` selects, checks and updates table by table;
its UPDATE looks for live rows again, which is what `finding_replace` is about.
Its statements lock in whatever order their scans meet rows, so two replacements
can wait for each other: `Deadlocked` is the circle, `BreakDeadlock` the server
failing one of them. `about` says which ids a call may write; it may be all of
them for every call, and the instance uses it to keep the calls' ids few.

### LoginSessions

`states`, `users`, `userOf`, `personal` and `sessions` are the control-plane
tables; `callbacks` says for each callback request which statement comes next
and what it has learnt. The provider may send one browser to the callback
several times with the same state. Statements outside a transaction are one
action each. The transaction of `upsert_oidc_identity` is READ COMMITTED and is
split where another one can be seen to have committed: the search for the
identity, the search for a personal organization, the INSERT of the identity,
which waits while another uncommitted row holds the unique key (`inserting`),
and the rest up to the commit. `Drop` ends a request at any await and rolls its
transaction back. A user and an organization are named after the callback that
creates them, so that duplicates can be told apart. Expiry of states and
sessions is an action, since time decides nothing else. `Legacy` are users from
before migration 0010, who may have no personal organization.

### ImportLifecycle

`registry` holds an entry per import, under the id the tool gave it ("job") or
under that of its row, when it was looked up in the database ("row"); `rows` is
the engine's `import_jobs`. Workspace database and project database hold the
same rows and are one here. `threads` are import threads, `tool` is the one
call of `import_retry_graph` that may be in progress (the server reads and
answers one call at a time), `calls` are the engine processes that compile: each
commits in three steps and then answers, fails, or is forgotten by a server
that stopped. `Updated` is `update_active`, which leaves terminal entries alone
and turns the others into cancelled ones when that was asked for; `RetryMarks`
and `RetryAnswered` use the unguarded `update`. Retry metadata and warnings
are left out: no decision reads them but the attempt count, which is kept. Four
kinds of failed graph runs are one status, "pending".

After a restart, a row that was left "graph_retry_waiting" keeps that status:
nobody waits any more, though an entry read from it is not terminal. It can be
retried by hand, which is why `EveryImportEnds` is about the ids of this
server's imports.

### AgentWrites

One variable per file or table: `row` and `file` for proposals, `log`,
`memories` and `evidence` for the workspace's files, `audited` for the row of
the event, `saved` for the project store's sources, `locked` for the lock
directory. Each file written and each transaction is one action, and a call may
fail or its process be killed before any of them. A killed process leaves the
lock, and every other call times out after five seconds, until somebody removes
the directory (`RemoveLock`, external: no code does). Materialization
reads sources and then memories without the lock (`LoadSources`,
`LoadMemories`), locks, reads the files again and merges (`Compute`), and writes
graph, memories and log. A snapshot whose memories cite missing evidence is
refused (`Valid`), so the deletion of a source that a memory cites makes later
materializations fail. Of the log, only the acceptance events of commits are
kept.

### GraphHistory

`log` is the event log, reduced to the builds and linkings that replay reads;
`graph` is the materialized files, `dead` and `deadRels` in it the records that
are kept with an end, `linked` the relations whose recorded origin is a linking;
`saved` is the project store's source rows. `call[c]` holds what a process has
read (`base`) and the event it has made and not yet written. An import saves its
row, materializes from rows (`ReadRows`, `WriteRows`), reads a baseline, asks a
provider, writes the build with all replay over that baseline, and does the same
for links to other sources; a deletion removes the row and materializes.
Processes may die or give up at any step.

`Replay` follows the code's order: what events target is cleared from the
baseline (`Clear`, with the protections for records that no linking made), then
events are applied in the order of their places (`ApplyBuild`, `ApplyLinking`;
`Applied` is the graph after each place, and `Newest` the last of them), then the
origins of links that survived are carried over (`Effective`). `Reconstruct` is
`reconstruct_brain` with its own starting graph and parameters.

The place of an event (`Place`) is what the code sorts by: its version, which is
also its `created_at` and is the second in which it was made, and of one second
its id. Each write rewrites the file in this order, so that nothing of
the order of writing is left in the log and the log is a set here. Several events may
be of one second. The ids of builds sort before those of linkings by their
prefix; within each they are UUIDs (v7) drawn before the provider is asked, and any
order of them is possible for what is made in one second. They are not used twice,
and the clock, which is that of one machine, is assumed not to go back
(`MadeNow`). `built` is the build that an import has reported as materialized.
The documentation describes another order of replay, that of appending; section
6 says what follows.

Left out: contents of records, claims, memories, pages and entities; corrections
of concepts; the bootstrap of origins in files from before the log; rebuilds of the
whole workspace, for which the log has a kind of event that no code emits.
What a provider finds or verifies is a choice within `Extractions` and `Similar`; batches,
retries and the reuse of reports only narrow it. A write is atomic (its steps
are `AgentWrites`' subject) and a baseline is read at once, although the code
reads it without the lock, file by file.

### EngineRuntime

`queue`, `active` and `child` are the fields of the class, `stopping` and
`partial` what a stop leaves behind, `heard` the children whose events still
reach a live runtime object; `proc`, `inbox` and `outbox` are the engine
processes and their pipes; `outcome` is the promise of each request. Each event
handler of Node is one action with everything it calls: settling a request
pumps the queue, which may start a child, fail, and settle more. An engine
answers a line, refuses it, or exits, also with half a line written. A reset
(`engine-rpc.cjs`) stops the object and drops it; its child's late events are
heard by it, not by the next one. Progress events change nothing here. An
answer for another command is treated like an error answer. An error on stdin
has no listener in the code and is left out.

### DesktopImports

`activeJob` is the snapshot's; `waits` says which request the handler of an
import awaits; `runtime` is the engine runtime as its callers see it: requests
answered in order, or all rejected at once. `EngineRuntime` justifies this
(`SettledStays`, `OnlyActiveInFlight`, `EveryRequestSettles`). `rebuilds` is the
promise chain of graph rebuilds, each in an engine process of its own. A
handler runs to its next await with the callbacks it sets off, which is one
action; rejections run before the next event, as promise callbacks do.
`chats` start, ask a moment later, and may be stopped, which resets the runtime
of everybody. `shown` is what the window was last told of each import. When the
engine reports "failed" as an event, its answer is an error (`refused`).

## 3. Runs

| Run | Instance | Distinct states | What it shows |
|---|---|---|---|
| `control_plane` | 2 jobs (upload, connector), 2 owners (symmetric), 2 attempts, lease 2 s, delays 0 and 1 s; 3 login states, 2 browsers, 3 callbacks (symmetric), 2 identities, one of them a legacy user | 462 435 | lease columns, attempts, fencing, outcomes, takeover only after expiry; the table implements `JobLifecycle`; one session per state; one user per identity; first logins converge; sessions belong to the identity vouched for |
| `upload_workers` | 2 uploads, 2 attempts, lease 1 s, scans of 1 row, 1 waiting task per job, 1 fault | 148 326 | every upload settles; a task that holds its lease has the job to itself; the composition uses the table as its specification allows |
| `graph_projection` | 3 upserts, or 2 and a replacement, about a node and a relation; 2 replacements about two nodes; versions 1 to 3, any rows live at the start | 240 714 | chains, newest accepted version live, no committed row is lost, one live row, calls end, deadlocked replacements too |
| `upload_pipeline` | a text of 2 chunks and an unusable file under one external id, 2 attempts, clock readings 1 to 3, 2 faults | 65 059 | complete on success, nothing dangling, requests tracked, rows rest on rows at least as new |
| `import_lifecycle` | 1 import and 1 source imported before, 1 automatic retry, 1 manual retry, 1 restart | 515 766 | an ended import stays, cancellation is honoured, imports end |
| `agent_writes` | 2 proposals (one from before the table), 2 sources, 2 calls at a time, 5 in all, any failures and kills | 429 302 | accepted memories stay, once, with evidence; rejected ones stay out |
| `graph_history` | sources a and b, 3 concepts; a log with builds of both and a link, a deletion of b begun; 2 importers (symmetric), 1 deleter, 1 link per import; 3 seconds, 2 ids of builds and 1 of linkings in each | 138 599 | the build made last of a source is shown, what was reported stays until a later build, the graph is a function of sources and log, reconstruction agrees |
| `engine_runtime` | 3 requests, 3 children | 175 929 | one request in flight, settled once, and settled |
| `desktop_imports` | 3 imports, 2 chats | 28 888 | the active job is worked on and ends; outcomes stay |
| `finding_replace`, `finding_retry`, `finding_append_order` | smaller instances of the same | - | see section 6 |

Bounds. Two jobs are enough for jobs to compete for a scan's one place and for
a statement to touch a job it should not. Two attempts give a first attempt
that is taken over and a last one that is exhausted; two owners let an owner
meet its own earlier lease (a test of the repository does the same) and
another's. A lease of two seconds lets a lease be fresh, about to expire and
expired; where the table is composed with others it is one second. The batch
limit of 1 is below the number of jobs, as 16 may be. One waiting task per job
still gives a handler's and a scan's task for one job one after the other, and
any number of tasks that outlived their leases. Three upserts
are needed for one to wait behind another that itself waited; three versions
for a middle one to be overtaken. Two replacements of two rows of one table are
the smallest that can lock them in opposite orders. Two chunks are needed for a materialization
to stop between chunks. `MaxVersion`, `MaxFaults` and `MaxDispatched` are the
bounds on counters; all are named in the modules that have them.

The job table and the logins share a database and no row, and no statement is
about both. `control_plane` checks them side by side: a behaviour of
it is one of either part while the other is at rest, since interleaving them adds
nothing to what either can do.

Three callbacks are needed for a winner, a loser and a later login of one
identity. One import is enough for `ImportLifecycle`, since its thread, the tool
thread and two engine processes meet in one entry and one row; the earlier
source is what a materialization touches besides. One retry of each kind
lets a retry overlap the thread's own. Two calls at a time are what the lock
orders, as a third would only wait; five in all let a proposal be made,
rejected or committed, cut short and committed again beside a materialization.
Three children let the events of a stopped one arrive after its successor's
successor was started. `graph_history` starts from a log with builds of both
sources and a link, so that every import rebuilds something linked; two
importers make builds in one order and write them in the other, and the deleter,
which has removed its row and not yet read the others, is what lets a baseline be
older than the sources. Of three seconds the first is that of the earlier events,
and the other two let two builds be made in one second or in different ones. Three imports let a rebuild of the first end during the
third.

Deadlock is not checked: every system here comes to rest once all jobs are
settled and all calls made. That nothing stops earlier is what
the liveness properties say.

Fairness. `UploadWorkers` assumes weak fairness of the recovery loop's two
statements (a timer that fires again and again, whatever a scan returns), of a
spawned task's claim (the runtime polls spawned tasks) and of time. It assumes
nothing of a task's work, which may hang for ever, nothing of handlers, and
bounds faults, since a server that always crashes settles nothing.
`GraphProjection` assumes that a started transaction takes its next step unless
it waits for another, and that the server ends a deadlock of replacements, which
Postgres does after `deadlock_timeout`; without that `EveryCallEnds` fails, and
upserts are shown not to need it. `ImportLifecycle` assumes that threads are scheduled
and that engine processes end, `EngineRuntime` that the engine answers each line
it reads or exits and that Node delivers events, `DesktopImports` that a request
to the runtime is answered or rejected (which `EngineRuntime` shows) and that
the process of a rebuild ends. The code sets no time limit on any of these. The
other modules state safety only.

## 4. Proofs

`ImportJobs_proofs` proves, for any set of jobs and owners, any number of
attempts, any positive lease duration and any delays, that `Spec` implies:

| Theorem | States |
|---|---|
| `TypeCorrect` | `TypeOK` |
| `LeaseColumnsHold` | `LeaseColumns` |
| `AttemptsBounded` | `AttemptsCountLeases` |
| `Fencing` | `SettledByNewestLease` |
| `OutcomesHaveCauses` | `OutcomeHasACause` |
| `NoEarlyTakeover` | `TakenOverOnlyAfterExpiry` |
| `JobsStayWithinReach` | `NoJobIsStranded`: a job that is not settled can be claimed or finalised, or will be when its delay or lease has run out |
| `Implements` | `ImplementsLifecycle`, that is `JobLifecycle` |

The assumptions are those named in `ImportJobs`; the code checks the lease
duration when a job is claimed (its upper limit of a day is not needed), and the
schema checks that `max_attempts` is positive.

The argument. None of the properties is inductive alone. That a report is made
under the newest lease follows because a report must present the token in the
row, and the row of a running job carries the newest token handed out for it;
that needs in turn that tokens are handed out in order, so that a fresh one is
newer than all others of the job and not among them, which is also why the
number of leases grows by one with each claim. `IInv` is the type invariant,
`TokenBound` (no lease carries a token not yet issued) and, for each job,
`RowInv` (columns, attempts, newest token and outcome agree). Whatever
statement runs, each row does one of six things: it stays, is created, granted,
finalised, settled or given back. `StepCases` proves that once; preservation
(`RowPreserved`), the action property and the refinement
(`RowStepIsLifecycleStep`) are then proved per row step rather than per
statement. `Inductive` combines them. That no job is stranded rests on one part
of `RowInv`: a row is queued only with an attempt left, since a retry after the
last attempt fails the job instead.

`CloudServer_proofs` proves of the server's tasks, for any number of jobs,
duplicates, crashes and any batch limit:

| Theorem | States |
|---|---|
| `WorkersTypeCorrect` | `WorkersTypeOK` |
| `TasksHaveLeases` | every task at work has a lease that a claim returned |
| `ServerUsesTheTable` | `UsesTheTable`: every step is a step of `ImportJobs` or leaves the table alone |
| `HolderHasTheJob` | `HolderIsAlone` |
| `ServersTableIsSound` | what is proved of the table holds of the server: `LeaseColumns`, `AttemptsCountLeases`, `SettledByNewestLease`, `OutcomeHasACause`, `TakenOverOnlyAfterExpiry` and the refinement of `JobLifecycle` |

The invariant `LeasesKnown` is needed because a report is a step of the table
only if its lease is one the table handed out. For `HolderHasTheJob`, a row
with a lease that counts is neither claimable nor exhausted
(`LeasedIsOutOfReach`), so claims and scans leave it alone; what remains is a
report, and as two leases that count for one row are equal (`OneLeaseCounts`)
it is the holder's own, with which the task ends.

`ServersTableIsSound` takes an instance of `ImportJobs_proofs` under the
substitution by which `UploadWorkers` uses the table (`Proved`). The
assumptions of `ImportJobs` follow from `TableAssumption` of `UploadWorkers`, and the
theorems hold of `Proved!Spec`. What remains is that both instances have the same
definitions (`OneTable`, `OneJudgement`, `OneTakeover`, `OneLifecycle`), which the
prover sees once they are expanded. `UploadPipeline_proofs` does the same.

It proves of logins, for any login states, browsers, callbacks and
identities:

| Theorem | States |
|---|---|
| `OneSessionPerState` | `StateOpensOneSession` |
| `NoOrphanUsers` | `UsersAreIdentified` |
| `OnePersonalOrg` | `FirstLoginsConverge` |
| `VouchedSessions` | `SessionsAreVouchedFor` |

The invariant says what a callback may rely on at each stage. Its state is
consumed and no other callback's (`StatesAreTaken`); the user it found is and
stays the user of its identity, and a conflict means that somebody's user is
there (`KnowsItsUser`); the one who holds the unique key is inserting, and a
user named after a callback exists only once that callback has committed
(`OwnInsertion`); a session is opened last (`SessionsAreDone`). A callback that
lost the race thus finds the winner's user, and leaves none of its own.

`EngineRuntime_proofs` proves, for any requests and any number of child
processes:

| Theorem | States |
|---|---|
| `TypeCorrect` | `TypeOK` |
| `InFlight` | `OnlyActiveInFlight` |
| `NoRequestParked` | `NothingIsParked` |
| `PromisesSettleOnce` | `SettledStays` |
| `NoCallerIsForgotten` | every pending request is active or queued (`PendingIsHeld`), and the active one is with a child that is heard, and that has a line to read or to deliver or an end to report (`ActiveIsAwaited`) |

The invariant adds that the requests in the queue and the active one are
pending and all different (`HeldArePending`), and that only a running child has
anything left to read (`PipesOfTheLiving`). `pump` is shown once to establish
it from what its callers leave (`Pumpable`, `PumpIInv`); each handler then has
to show only that. A promise is settled by taking its request from the queue or
by clearing `active`, so it was pending before (`StepKeepsSettled`).

`NoCallerIsForgotten` says why requests settle if engines and Node go on, which
`EveryRequestSettles` checks. It needs to know of the child that is kept: it is
not one that was stopped, it is heard or was never writable, and as long as it
runs its lines are whole (`ChildIsHeard`), so that no line is taken for half of
one. `pump` is again treated once (`PumpAttends`).

`DesktopImports_proofs` proves, for any number of imports and any chats:

| Theorem | States |
|---|---|
| `TypeCorrect` | `TypeOK` |
| `JobIsWorkedOn` | `ActiveJobIsWorkedOn` |
| `OutcomesStay` | `ShownOutcomesStay` |

The rejection handler fails whatever job is active, not the one it was
installed for. That is right because no handler outlives its job: a job has at
most one request in the runtime, and only while its handler waits
(`OneRequestEach`), and the status of the active job follows from what it is
waiting for (`StatusFollows`). The two properties, and that traces belong to
jobs that began (`OnlyBegun`), make up the rest of `IInv`.

`UploadPipeline_proofs` proves, for any uploads with up to sixteen chunks each,
any number of attempts, overlapping tasks, clock readings and faults:

| Theorem | States |
|---|---|
| `TypeCorrect` | `TypeOK` |
| `PipelineUsesTheTable` | `UsesTheTable` |
| `UploadsTableIsSound` | what is proved of the table holds of uploads |
| `NewestReadingLeads` | `RowsRestOnNewerRows` |
| `SuccessIsComplete` | `SucceededIsComplete` |
| `NothingDangles` | `GraphRestsOnEvidence` |
| `Tracked` | `UploadsAreTracked` |

The argument. Rows are written in the order of `Script`, and none is taken away:
so wherever a task stands in its script, everything before that place is there
(`TasksGoInOrder`), a row that is there has all rows that come before it in the
script (`RowsCameInOrder`), and a job that succeeded had a task at the end of its
script (`AllIsThere`). What stands where is `ScriptShape` and its companions,
proved from the concatenation of the four parts. For `NewestReadingLeads` a task
that has read the clock and stands somewhere has left no graph row behind it
older than its reading (`TasksLead`): it wrote each, or would have been refused;
others can only have made them newer. So what it writes next rests on rows
at least as new, and refusing an older version keeps it so. Requests keep row, bytes and
job together (`RequestsAgree`, `ExternalIdsAreOfOne`).

`GraphProjection_proofs` proves, for any ids, upserts, replacements and versions:

| Theorem | States |
|---|---|
| `TypeCorrect` | `TypeOK` |
| `HistoryChains` | `HistoryIsAChain` |
| `NewestIsLive` | `NewestAcceptedIsLive` |
| `RowsStay` | `CommittedRowsStay` |
| `OnlyReplacementsDeadlock` | `NoUpsertInARing`: calls that wait in a circle have a circle of replacements among them |
| `CallsNeverStand` | `SomebodyMoves`: while a transaction is open, one can take its next step, or replacements are deadlocked |

The argument is what the row locks and the partial unique index are for. A row
that a call has locked is live, committed and locked by nobody else
(`WellFormed`, `LocksAlone`), so it is still there to be closed. An id that a
call has inserted has no live row but those the call has closed, and no other
call has inserted it (`OwnsInserts`): a commit leaves one live row. An upsert
closes the row it checked, which is therefore the newest, and its own version is
newer (`Chained`, `LiveIsNewest`). Steps that commit nothing are treated at once
(`QuietStep`); `Commit` is taken apart by what it does to the rows, the live row
of its ids, their chains, and all other ids.

Of deadlocks: an upsert locks one row, once, and inserts last (`FewRows`), so
while it waits it holds nothing that another call could wait for
(`WaitingUpsertHoldsNothing`). A circle of waiting calls thus goes on without
its upserts, and a set of calls that all wait has a circle in it. `CanMove` says
by the guards when a call has a next step; TLC confirmed on the instance
that it is `ENABLED Progress(c)`, which this prover cannot treat.

`AgentWrites_proofs` proves, for any proposals, sources and number of calls:

| Theorem | States |
|---|---|
| `TypeCorrect` | `TypeOK` |
| `LockExcludes` | `LockIsExclusive`: at most one call holds the workspace lock |
| `AcceptedStays` | `AcceptedIsKept` |
| `EvidenceStays` | `MemoriesAreSupported` |
| `RejectedStays` | `RejectedStaysOut` |

What a call read before it had the lock may be stale, but what it read under the
lock stays true until it lets go (`HolderKnows`); of the rest it is enough that
memories once read had been accepted (`Loaded`). Removing the lock of a dead
process is harmless because nobody holds it.

`LocalImports_proofs` proves of the graph, for any sources, concepts, relations
and processes:

| Theorem | States |
|---|---|
| `ReportsHold` | `ReportedBuildsAreShown` |
| `LatestBuildWins` | `LatestBuildIsShown` |
| `ViewComesFromLog` | `ViewIsFunctionOfLog` |
| `ReconstructionIsExact` | `ReconstructionAgrees` |

The argument. What a replay shows depends on its events and on the sources
alone, as long as the graph it starts from has nothing that events and sources do not
account for (`Grounded`). Then a source ends up with the concepts of its
last build (`IsLastBuild`) and a relation is shown exactly if the last event that
speaks of it has it (`IsLastWord`, `Says`); that is `AppliedShows`, by induction
over places, for which `Applied` is a recursive function of numbers and the
induction is done with sets (`FromZeroOn`) rather than with the library's
theorem, whose parameter is an operator. The inductive invariant `IInv` says that the log is
in order, that the events processes have made and not yet written fit it
(`PendingIsOrderly`), that every baseline a process holds is grounded in the log,
which only grows (`BaselinesAreOfLog`), and that the graph shows what the log
says of its sources (`ViewIsOfLog`). That no two events have one place is what
makes "last" mean one event; it follows from `MadeNow`, and that a later second
is a later place whatever the ids from `PlacesGoOn`. A build that was reported
was written, so it is in the log, or in one that has grown from it
(`BaselinesAreOfLog`), and `ReportsHold` follows. So each write, however old its baseline,
leaves the graph that log and sources determine. A reconstruction starts from
the graph with every closed record revived, which is grounded too.

It proves of imports, for any number of imports, attempts, retries and restarts:

| Theorem | States |
|---|---|
| `ImportsTypeCorrect` | `TypeOK` |
| `CitedInOrder` | `ImportInv`: nothing is cited, retried or given a later status before its evidence was read back |
| `EndedImportsStay` | `EndedStays` |
| `CancellationsAreHonoured` | `CancelIsHonoured` |
| `NoImportIsAbandoned` | an import that has not ended has its thread with a report to make, or a retry that compiles (`Attended`) |

`update_active` protects an ended import from every report that goes through it
(`UpdatedKeeps`). The failure of a thread does not, and is harmless for another
reason: a thread fails only at a stage (`Early`) at which its import is neither
cited nor ended by a later status, and nobody retries it (`Uncited`, `NotBegun`).
`NoImportIsAbandoned` needs besides that a thread which was asked to skip the
graph has nothing to do after the citation (`SkipEnds`). The reports that
`update_active` and the checks for cancellation drop are thus none that an import
needs in order to end.

Every module's type invariant is stated. Those of `ImportJobs` and
`GraphProjection` are also run; those of `UploadWorkers`, `UploadPipeline`,
`EngineRuntime`, `DesktopImports`, `ImportLifecycle` and `AgentWrites` are proved
and not run; those of `LoginSessions` and `GraphHistory` are part of what their
invariants prove.

Every safety invariant and every action property of a passing run is proved.
Only model-checked is liveness, which is out of this prover's reach:
`EveryUploadSettles`, `EveryCallEnds`, `EveryRequestSettles`, `EveryImportEnds`,
`EveryJobEnds`. What each of them rests on is proved, that in no state is there
nobody left to go on: `JobsStayWithinReach`, `CallsNeverStand`,
`NoCallerIsForgotten`, `NoImportIsAbandoned` and `JobIsWorkedOn`. That somebody
does, and that it comes to an end, is what TLC shows under fairness.

## 5. Not modelled

Components:

- Desktop terminal sessions. Their header declares them frozen; the handlers
  contain no await at which an event of the shell could come between.
- The Markdown queue is compiled for tests only (`run_brain_maintenance` has no
  other caller); brain health only reads.
- Corrections and merges of concepts are pure functions of a snapshot; of the
  operations that use them only the deletion of a source is reached, which
  `AgentWrites` and `GraphHistory` have.
- Graph trails, graph versions and the history they serve: rows for reading, from
  which nothing of the graph is computed.
- Answers, retrieval, cloud compose, cloud MCP, seed: reads.
- Organizations, workspaces and API tokens: each operation is one statement under
  foreign keys, or one transaction that locks membership and workspace
  (`FOR UPDATE OF m, w`); deleting an organization and adding a member have no
  caller outside tests.
- Parsing, packaging, search, provider calls: long sequential transformations.
- Renderer, command line, site: user interface and formatting.

Within modelled components: deletion of a workspace (no code does it; rows would
cascade), migration 0004's one-time reset of old leases, request validation,
texts, hashes and labels, `live_snapshot` (three queries on three connections; it
changes nothing), two imports that get one id because they start within one
millisecond.

Observed while modelling `LoginSessions`, `AgentWrites` and `GraphHistory`, and
left without a run because no text decides what is right, or because it is about
parts that are abstracted here:

- A linking targets every unverified relation of the imported source but its
  `source_of` ones (`engine/domains/agent_workflow/linking_policy.rs:118`), while
  the candidates it can verify are links between sources: an import's own
  relations are closed by its linking stage.
- Reconstruction with an earlier cutoff starts from an empty graph, since only
  the newest materialized graph is kept in the log.
- Under concurrent imports a link may be live whose end was closed by the other
  import's build.
- A materialization over a stale baseline may hide a new source or show a deleted
  one again until the next materialization.
- Claims of an earlier build stay protected until a materialization from rows.
- A user from before memberships, who logs in twice at once, may get two personal
  organizations.
- Deleting a source that an accepted memory cites makes later materializations
  fail, which is what keeps `MemoriesAreSupported`.

## 6. Where code and text disagree

- `finding_replace`: `close_all_live` is documented to close rows only under a
  strictly greater version (`server/graph/mod.rs:722`). A row committed between
  its SELECT and its UPDATE is closed unchecked, in the run with equal
  `valid_from` and `valid_to`. `replace_live_projection` is called by tests
  only so far.
- `finding_retry`: `docs/local-cloud-operating-model.md:130` asks that cloud
  failures preserve retryable state. `run_upload_job` reports an outage as it
  reports an unusable file: the job fails on its first attempt.
- `finding_append_order`: `docs/graph-event-history.md:31-36` says that replay is
  append-order based and must not sort by `createdAt`, `eventId` or
  `causality.materializedVersion`, and `docs/ARCHITECTURE.md:179` calls the log
  append-only. `engine/domains/knowledge/replay.rs:49` and
  `engine/domains/brain/replay.rs:107` sort by version, and
  `engine/domains/knowledge/materialize/events.rs:19` rewrites the file sorted.
  `AppendOrderDecides` states what the document promises, as far as it can be
  seen in the graph: a build that is appended is what is shown then. In the run,
  two imports of one source make builds one after the other and write them in the
  other order, and the one written last is not shown. `LatestBuildIsShown` and
  `ReportedBuildsAreShown` state what the code does instead.

## 7. Plan

Done: the modules of section 2, their runs and proofs. What would come next, in
this order:

1. Claims in `GraphHistory`, with their protection from earlier builds, and the
   steps of a write there as in `AgentWrites`.
2. `live_snapshot` as a reader of `GraphProjection` beside the writes of a
   materialization, once a text says what its callers may rely on.
3. Membership changes and deletion of organizations beside token operations,
   when the server offers them.
