-------------------------- MODULE ImportLifecycle --------------------------
(***************************************************************************)
(* Imports of the local MCP server.  Each import runs in a thread of its   *)
(* own that reports to an entry of the in-memory registry, while the       *)
(* server's one tool thread reads, cancels and retries imports through the *)
(* same entries.  Parsing and compiling happen in engine processes, which  *)
(* commit to rows of import_jobs by themselves, so three parties write     *)
(* down how far an import is.  The server may stop at any moment: registry *)
(* and threads are gone, an engine process in flight goes on.              *)
(* Each lock of the registry is one action, and so is each transaction of  *)
(* an engine process.  graph_ready is graph = "ready", and the statuses a  *)
(* graph run can fail with are one, "pending".  Definitions marked "Fault" *)
(* are not part of the specification.                                      *)
(***************************************************************************)
EXTENDS Naturals

CONSTANTS
  Jobs,          \* imports of this server; also names their sources
  Earlier,       \* sources imported before, whose graph is pending
  MaxAttempts,   \* max_retry_attempts of an entry
  MaxRetries,    \* bound: calls of import_retry_graph
  MaxRestarts,   \* bound: restarts of the server
  None           \* no source, no entry

ASSUME BoundsAssumption == {MaxAttempts, MaxRetries, MaxRestarts} \subseteq Nat
ASSUME SourcesAssumption ==
  Jobs \cap Earlier = {} /\ "tool" \notin Jobs /\ None \notin Jobs \cup Earlier

VARIABLES
  registry,      \* ImportJobRegistry: entries by source and by kind of id
  rows,          \* import_jobs
  threads,       \* import threads
  tool,          \* the call of import_retry_graph in progress
  calls,         \* compile_project calls, by the thread that makes them
  retries,       \* calls of import_retry_graph so far
  restarts       \* restarts so far

importVars == <<registry, rows, threads, tool, calls, retries, restarts>>

KnownSources == Jobs \cup Earlier
Callers == Jobs \cup {"tool"}

\* An import is known by the id import_source gave it, or by the id of its
\* row once it was looked up in the database.
Ids == KnownSources \X {"job", "row"}

Terminal == {"graph_pending", "graph_skipped", "context_ready", "failed", "cancelled"}
Statuses == Terminal \cup {"imported", "parsing", "packaging", "citation_ready",
                           "graph_retry_waiting"}
Graphs == {"none", "pending", "skipped", "ready"}

Entries == [status : Statuses \cup {"absent"}, citation : BOOLEAN, graph : Graphs,
            cancel : BOOLEAN]
Rows == [status : Statuses \cup {"absent", "ingested"}, citation : BOOLEAN, graph : Graphs]

ThreadStages == {"idle", "spawned", "starting", "parsing", "parsed", "packaging", "packaged",
                 "compiling", "reading", "skipped", "cited", "materializing", "planned",
                 "graphing", "marked", "persisting", "resuming", "graphed", "finishing", "ended"}
Threads == [at : ThreadStages, skip : BOOLEAN, attempt : Nat, outcome : Graphs,
            next : ThreadStages, seen : Entries]

ToolStages == {"idle", "marking", "compiling", "marked", "persisting"}
Tools == [at : ToolStages, id : Ids \cup {None}, seen : Entries]

CallStages == {"none", "saving", "materializing", "generating", "answered", "failed"}
CompileCalls == [at : CallStages, source : KnownSources \cup {None}, skip : BOOLEAN,
                 outcome : Graphs]

NoEntry == [status |-> "absent", citation |-> FALSE, graph |-> "none", cancel |-> FALSE]
NoRow == [status |-> "absent", citation |-> FALSE, graph |-> "none"]
NoThread == [at |-> "idle", skip |-> FALSE, attempt |-> 0, outcome |-> "none",
             next |-> "idle", seen |-> NoEntry]
NoRetry == [at |-> "idle", id |-> None, seen |-> NoEntry]
NoCall == [at |-> "none", source |-> None, skip |-> FALSE, outcome |-> "none"]

TypeOK ==
  /\ registry \in [Ids -> Entries]
  /\ rows \in [KnownSources -> Rows]
  /\ threads \in [Jobs -> Threads]
  /\ tool \in Tools
  /\ calls \in [Callers -> CompileCalls]
  /\ retries \in 0..MaxRetries
  /\ restarts \in 0..MaxRestarts

ImportInit ==
  /\ registry = [id \in Ids |-> NoEntry]
  /\ rows = [s \in KnownSources |-> IF s \in Jobs THEN NoRow
               ELSE [status |-> "graph_pending", citation |-> TRUE, graph |-> "pending"]]
  /\ threads = [j \in Jobs |-> NoThread]
  /\ tool = NoRetry
  /\ calls = [k \in Callers |-> NoCall]
  /\ retries = 0
  /\ restarts = 0

-----------------------------------------------------------------------------
(* The registry.                                                           *)

\* What update_active makes of an entry, when it would become e: an ended
\* import stays as it is, and one to be cancelled is cancelled instead.
\* Faults: an ended import is written all the same; the wish to cancel is
\* left to the next check.
UpdatedEvenIfEnded(old, e) == IF old.cancel THEN [old EXCEPT !.status = "cancelled"] ELSE e
UpdatedDespiteCancel(old, e) == IF old.status \in Terminal THEN old ELSE e
Updated(old, e) ==
  CASE old.status \in Terminal -> old
    [] old.status \notin Terminal /\ old.cancel -> [old EXCEPT !.status = "cancelled"]
    [] OTHER -> e

UpdateActive(id, e) == registry' = [registry EXCEPT ![id] = Updated(@, e)]

\* Import by its own id, and by that of its row.
Own(j) == <<j, "job">>
ByRow(s) == <<s, "row">>

-----------------------------------------------------------------------------
(* compile_project in an engine process.                                   *)

StartCompile(k, s, skip) ==
  calls' = [calls EXCEPT ![k] = [at |-> "saving", source |-> s, skip |-> skip, outcome |-> "none"]]

\* The source is saved.  Its row says whether there is anything to cite.
Save(k) ==
  LET s == calls[k].source IN
  /\ calls[k].at = "saving"
  /\ \E cites \in IF rows[s].status = "absent" THEN BOOLEAN ELSE {rows[s].citation} :
       rows' = [rows EXCEPT ![s].status = IF cites THEN "ingested" ELSE "failed",
                            ![s].citation = cites]
  /\ calls' = [calls EXCEPT ![k].at = "materializing"]
  /\ UNCHANGED <<registry, threads, tool, retries, restarts>>

\* A graph snapshot of the workspace makes every citable source ready.
MarkedReady == [s \in KnownSources |->
  IF rows[s].citation THEN [status |-> "context_ready", citation |-> TRUE, graph |-> "ready"]
  ELSE rows[s]]

\* The workspace's brain repository is materialized from its projects.
Materialize(k) ==
  /\ calls[k].at = "materializing"
  /\ rows' = MarkedReady
  /\ calls' = [calls EXCEPT ![k].at = IF calls[k].skip THEN "answered" ELSE "generating"]
  /\ UNCHANGED <<registry, threads, tool, retries, restarts>>

StatusOf(graph) ==
  CASE graph = "ready" -> "context_ready"
    [] graph = "skipped" -> "graph_skipped"
    [] OTHER -> "graph_pending"

\* The provider's graph is materialized too, or it is skipped or fails,
\* perhaps with a part of it materialized; the row is told the outcome.
Generate(k, outcome, partly) ==
  LET s == calls[k].source
      written == IF outcome = "ready" \/ partly THEN MarkedReady ELSE rows
  IN
  /\ calls[k].at = "generating"
  /\ outcome # "none"
  /\ partly => outcome = "pending"
  /\ rows' = IF written[s].citation
             THEN [written EXCEPT ![s].status = StatusOf(outcome), ![s].graph = outcome]
             ELSE written
  /\ calls' = [calls EXCEPT ![k].at = "answered", ![k].outcome = outcome]
  /\ UNCHANGED <<registry, threads, tool, retries, restarts>>

\* An I/O error, a locked database or a killed process, at any point.
CompileFails(k) ==
  /\ calls[k].at \in {"saving", "materializing", "generating"}
  /\ calls' = [calls EXCEPT ![k].at = "failed"]
  /\ UNCHANGED <<registry, rows, threads, tool, retries, restarts>>

Answered(k) == calls[k].at \in {"answered", "failed"}
Hang(k) == calls' = [calls EXCEPT ![k] = NoCall]

\* What update_import_job_graph_status writes of an entry; nothing comes of
\* it when the engine fails.
Persisted(s, e) ==
  IF rows[s].citation
  THEN [rows EXCEPT ![s].status = e.status,
                    ![s].graph = IF e.graph = "none" THEN "pending" ELSE e.graph]
  ELSE rows

-----------------------------------------------------------------------------
(* The import thread.                                                      *)

At(j, stage) == threads[j].at = stage
To(j, stage) == threads' = [threads EXCEPT ![j].at = stage]

\* The import_source tool.
ImportSource(j, skip) ==
  /\ At(j, "idle")
  /\ registry' = [registry EXCEPT ![Own(j)] = [NoEntry EXCEPT !.status = "imported"]]
  /\ threads' = [threads EXCEPT ![j].at = "spawned", ![j].skip = skip]
  /\ UNCHANGED <<rows, tool, calls, retries, restarts>>

\* What follows each check for cancellation.
AfterCheck == [spawned |-> "starting", parsed |-> "packaging", packaged |-> "compiling",
               cited |-> "materializing", planned |-> "graphing", graphed |-> "finishing"]

\* mark_cancelled_if_requested, and what comes next if it is not.
Check(j) ==
  LET old == registry[Own(j)]
      at == threads[j].at
  IN
  /\ at \in DOMAIN AfterCheck
  /\ IF old.cancel
     THEN /\ registry' = [registry EXCEPT ![Own(j)].status =
                            IF old.status \in Terminal THEN @ ELSE "cancelled"]
          /\ To(j, "ended")
          /\ UNCHANGED calls
     ELSE /\ UNCHANGED registry
          /\ To(j, IF at = "cited" /\ threads[j].skip THEN "ended" ELSE AfterCheck[at])
          /\ IF AfterCheck[at] \in {"compiling", "graphing"}
             THEN StartCompile(j, j, at = "packaged")
             ELSE UNCHANGED calls
  /\ UNCHANGED <<rows, tool, retries, restarts>>

\* An active entry is given a status, and the thread goes on.
Report(j, from, status, to) ==
  /\ At(j, from)
  /\ UpdateActive(Own(j), [registry[Own(j)] EXCEPT !.status = status])
  /\ To(j, to)
  /\ UNCHANGED <<rows, tool, calls, retries, restarts>>

\* Progress of the parse, the last of which may be its failure.
Progress(j, status) ==
  /\ status \in {"imported", "parsing", "packaging", "failed"}
  /\ registry[Own(j)].status # status
  /\ Report(j, "parsing", status, "parsing")

\* Fault: the failure spares nothing.
FailOverAll(old) == [old EXCEPT !.status = "failed"]

\* What spawn_import_job writes when run_import_job returns an error.
FailedEntry(old) == IF old.status = "cancelled" THEN old ELSE [old EXCEPT !.status = "failed"]

\* The parse, the first compile or the reading of evidence fails, or the
\* parse left no manifest.
Fail(j) ==
  /\ \/ At(j, "parsing") \/ At(j, "packaging") \/ At(j, "reading")
     \/ At(j, "compiling") /\ calls[j].at = "failed"
  /\ registry' = [registry EXCEPT ![Own(j)] = FailedEntry(@)]
  /\ To(j, "ended")
  /\ Hang(j)
  /\ UNCHANGED <<rows, tool, retries, restarts>>

\* The parse returns a manifest.  (A parse that reported failure does not.)
Parsed(j) ==
  /\ At(j, "parsing")
  /\ registry[Own(j)].status # "failed"
  /\ To(j, "parsed")
  /\ UNCHANGED <<registry, rows, tool, calls, retries, restarts>>

Compiled(j) ==
  /\ At(j, "compiling")
  /\ calls[j].at = "answered"
  /\ To(j, "reading")
  /\ Hang(j)
  /\ UNCHANGED <<registry, rows, tool, retries, restarts>>

\* The evidence was read back: the source is ready to be cited, unless
\* there is none.  With skipGraphGeneration the import ends here.
Cite(j, cites) ==
  LET e == [registry[Own(j)] EXCEPT !.status = "citation_ready", !.citation = cites] IN
  /\ At(j, "reading")
  /\ cites => rows[j].citation
  /\ IF threads[j].skip
     THEN /\ UpdateActive(Own(j), [e EXCEPT !.status = "graph_skipped", !.graph = "skipped"])
          /\ threads' = [threads EXCEPT ![j].at = "marked", ![j].next = "cited"]
     ELSE /\ UpdateActive(Own(j), e)
          /\ To(j, "cited")
  /\ UNCHANGED <<rows, tool, calls, retries, restarts>>

\* mark_graph_pending: an active entry waits for the next retry or is
\* pending; then the entry, whatever it says by then, is persisted.
MarkedPending(e, waits) ==
  [e EXCEPT !.status = IF waits THEN "graph_retry_waiting" ELSE "graph_pending",
            !.graph = "pending"]

\* The graph stage failed.  A failure may be worth retrying.
GraphFailed(j, retryable) ==
  LET again == retryable /\ threads[j].attempt < MaxAttempts IN
  /\ At(j, "graphing")
  /\ calls[j].at = "failed"
  /\ UpdateActive(Own(j), MarkedPending(registry[Own(j)], again))
  /\ threads' = [threads EXCEPT ![j].at = "marked",
                                ![j].attempt = IF again THEN @ + 1 ELSE @,
                                ![j].outcome = IF again THEN @ ELSE "pending",
                                ![j].next = IF again THEN "resuming" ELSE "graphed"]
  /\ Hang(j)
  /\ UNCHANGED <<rows, tool, retries, restarts>>

\* The entry is read, and then its row is told.
ReadBack(j) ==
  /\ At(j, "marked")
  /\ threads' = [threads EXCEPT ![j].at = "persisting", ![j].seen = registry[Own(j)]]
  /\ UNCHANGED <<registry, rows, tool, calls, retries, restarts>>

Persist(j, lost) ==
  /\ At(j, "persisting")
  /\ rows' = IF lost THEN rows ELSE Persisted(j, threads[j].seen)
  /\ threads' = [threads EXCEPT ![j].at = threads[j].next, ![j].seen = NoEntry]
  /\ UNCHANGED <<registry, tool, calls, retries, restarts>>

\* After its sleep the thread tries again.
Resume(j) ==
  /\ At(j, "resuming")
  /\ UpdateActive(Own(j), [registry[Own(j)] EXCEPT !.status = "citation_ready"])
  /\ To(j, "graphing")
  /\ StartCompile(j, j, FALSE)
  /\ UNCHANGED <<rows, tool, retries, restarts>>

GraphAnswered(j) ==
  /\ At(j, "graphing")
  /\ calls[j].at = "answered"
  /\ threads' = [threads EXCEPT ![j].at = "graphed", ![j].outcome = calls[j].outcome]
  /\ Hang(j)
  /\ UNCHANGED <<registry, rows, tool, retries, restarts>>

\* Fault: an import whose graph is not ready is left as it stands.
FinishOnlyIfReady(j) ==
  LET g == threads[j].outcome IN
  /\ At(j, "finishing")
  /\ IF g = "ready"
     THEN UpdateActive(Own(j), [registry[Own(j)] EXCEPT !.graph = g, !.status = StatusOf(g)])
     ELSE UNCHANGED registry
  /\ To(j, "ended")
  /\ UNCHANGED <<rows, tool, calls, retries, restarts>>

Finish(j) ==
  LET g == threads[j].outcome IN
  /\ At(j, "finishing")
  /\ UpdateActive(Own(j), [registry[Own(j)] EXCEPT !.graph = g, !.status = StatusOf(g)])
  /\ To(j, "ended")
  /\ UNCHANGED <<rows, tool, calls, retries, restarts>>

-----------------------------------------------------------------------------
(* The tools, one call at a time.                                          *)

\* The entry the database has for a source.
FromRow(r) ==
  [status |-> CASE r.graph = "ready" -> "context_ready"
                [] r.graph # "ready" /\ r.status = "ingested" -> "graph_pending"
                [] OTHER -> r.status,
   citation |-> r.citation, graph |-> r.graph, cancel |-> FALSE]

\* import_status: a source that is asked for by its own id gets an entry
\* that says what its row says now.
ImportStatus(s) ==
  /\ tool.at = "idle"
  /\ rows[s].status # "absent"
  /\ registry' = [registry EXCEPT ![ByRow(s)] = FromRow(rows[s])]
  /\ UNCHANGED <<rows, threads, tool, calls, retries, restarts>>

\* import_cancel: one that has not begun is cancelled at once.
ImportCancel(id) ==
  /\ tool.at = "idle"
  /\ registry[id].status \notin Terminal \cup {"absent"}
  /\ ~registry[id].cancel
  /\ registry' = [registry EXCEPT ![id].cancel = TRUE,
                                  ![id].status = IF @ = "imported" THEN "cancelled" ELSE @]
  /\ UNCHANGED <<rows, threads, tool, calls, retries, restarts>>

\* import_retry_graph finds the import, by an id of the registry or by its
\* source, and decides by what it has found.
RetryFinds(id, e) ==
  /\ tool.at = "idle"
  /\ calls["tool"].at = "none"    \* bound: no compile of a stopped server
  /\ retries < MaxRetries
  /\ e.citation /\ e.graph # "ready"
  /\ tool' = [tool EXCEPT !.at = "marking", !.id = id]
  /\ retries' = retries + 1
  /\ UNCHANGED <<rows, threads, calls, restarts>>

RetryById(id) ==
  /\ RetryFinds(id, registry[id])
  /\ UNCHANGED registry

RetryBySource(s) ==
  /\ RetryFinds(ByRow(s), FromRow(rows[s]))
  /\ registry' = [registry EXCEPT ![ByRow(s)] = FromRow(rows[s])]

\* It writes over whatever the entry says by now, and compiles.
RetryMarks ==
  /\ tool.at = "marking"
  /\ registry' = [registry EXCEPT ![tool.id].status = "citation_ready"]
  /\ tool' = [tool EXCEPT !.at = "compiling"]
  /\ StartCompile("tool", tool.id[1], FALSE)
  /\ UNCHANGED <<rows, threads, retries, restarts>>

\* A retry that is skipped is pending, unlike an import.
RetryAnswered ==
  LET g == calls["tool"].outcome IN
  /\ tool.at = "compiling"
  /\ calls["tool"].at = "answered"
  /\ registry' = [registry EXCEPT ![tool.id].graph = g,
       ![tool.id].status = IF g = "ready" THEN "context_ready" ELSE "graph_pending"]
  /\ tool' = NoRetry
  /\ Hang("tool")
  /\ UNCHANGED <<rows, threads, retries, restarts>>

RetryFailed ==
  /\ tool.at = "compiling"
  /\ calls["tool"].at = "failed"
  /\ UpdateActive(tool.id, MarkedPending(registry[tool.id], FALSE))
  /\ tool' = [tool EXCEPT !.at = "marked"]
  /\ Hang("tool")
  /\ UNCHANGED <<rows, threads, retries, restarts>>

RetryReadsBack ==
  /\ tool.at = "marked"
  /\ tool' = [tool EXCEPT !.at = "persisting", !.seen = registry[tool.id]]
  /\ UNCHANGED <<registry, rows, threads, calls, retries, restarts>>

RetryPersists(lost) ==
  /\ tool.at = "persisting"
  /\ rows' = IF lost THEN rows ELSE Persisted(tool.id[1], tool.seen)
  /\ tool' = NoRetry
  /\ UNCHANGED <<registry, threads, calls, retries, restarts>>

\* The server stops and is started again.
Restart ==
  /\ restarts < MaxRestarts
  /\ registry' = [id \in Ids |-> NoEntry]
  /\ threads' = [j \in Jobs |->
       [NoThread EXCEPT !.at = IF At(j, "idle") THEN "idle" ELSE "ended"]]
  /\ tool' = NoRetry
  /\ calls' = [k \in Callers |-> IF Answered(k) THEN NoCall ELSE calls[k]]
  /\ restarts' = restarts + 1
  /\ UNCHANGED <<rows, retries>>

\* Nobody waits for the answer of a compile that outlived its server.
Forgotten(k) ==
  /\ Answered(k)
  /\ IF k = "tool" THEN tool.at # "compiling" ELSE threads[k].at \notin {"compiling", "graphing"}
  /\ Hang(k)
  /\ UNCHANGED <<registry, rows, threads, tool, retries, restarts>>

-----------------------------------------------------------------------------

Engine(k) ==
  \/ Save(k)
  \/ Materialize(k)
  \/ \E outcome \in Graphs, partly \in BOOLEAN : Generate(k, outcome, partly)
  \/ CompileFails(k)
  \/ Forgotten(k)

\* What the import thread does, but for the progress it relays.
Thread(j) ==
  \/ Check(j)
  \/ Report(j, "starting", "parsing", "parsing")
  \/ Fail(j)
  \/ Parsed(j)
  \/ Report(j, "packaging", "packaging", "packaged")
  \/ Compiled(j)
  \/ \E cites \in BOOLEAN : Cite(j, cites)
  \/ Report(j, "materializing", "citation_ready", "planned")
  \/ \E retryable \in BOOLEAN : GraphFailed(j, retryable)
  \/ ReadBack(j)
  \/ \E lost \in BOOLEAN : Persist(j, lost)
  \/ Resume(j)
  \/ GraphAnswered(j)
  \/ Finish(j)

Retry ==
  \/ RetryMarks
  \/ RetryAnswered
  \/ RetryFailed
  \/ RetryReadsBack
  \/ \E lost \in BOOLEAN : RetryPersists(lost)

ImportNext ==
  \/ \E k \in Callers : Engine(k)
  \/ \E j \in Jobs :
       \/ \E skip \in BOOLEAN : ImportSource(j, skip)
       \/ Thread(j)
       \/ \E status \in Statuses : Progress(j, status)
  \/ \E s \in KnownSources : ImportStatus(s) \/ RetryBySource(s)
  \/ \E id \in Ids : ImportCancel(id) \/ RetryById(id)
  \/ Retry
  \/ Restart

\* Threads are scheduled and engine processes end.
Fairness ==
  /\ \A k \in Callers : WF_importVars(Engine(k))
  /\ \A j \in Jobs : WF_importVars(Thread(j))
  /\ WF_importVars(Retry)

ImportSpec == ImportInit /\ [][ImportNext]_importVars /\ Fairness

-----------------------------------------------------------------------------
(* Properties.                                                             *)

Lost == registry' = [id \in Ids |-> NoEntry]
Retrying(id) == tool.at \in {"marking", "compiling"} /\ tool.id = id

\* However late a thread reports, and whatever it reports, an import that
\* has ended stays as it ended until a retry or a restart: the threads, and
\* a cancellation that comes too late, leave it alone.
EndedStays ==
  [][\A j \in Jobs :
       /\ registry[Own(j)].status \in Terminal
       /\ registry'[Own(j)].status # registry[Own(j)].status
       => Retrying(Own(j)) \/ Lost]_importVars

\* An import that was asked to cancel goes nowhere any more but to its end
\* as cancelled or failed, unless somebody retries its graph.
CancelIsHonoured ==
  [][\A j \in Jobs :
       /\ registry[Own(j)].cancel
       /\ registry'[Own(j)].status # registry[Own(j)].status
       => \/ registry'[Own(j)].status \in {"cancelled", "failed"}
          \/ Retrying(Own(j))
          \/ Lost]_importVars

\* Every import the client can ask about by its own id ends, or is forgotten
\* in a restart, over failures, retries by either side and lost updates.
EveryImportEnds ==
  \A j \in Jobs :
    registry[Own(j)].status \notin Terminal \cup {"absent"} ~>
      registry[Own(j)].status \in Terminal \cup {"absent"}
=============================================================================
