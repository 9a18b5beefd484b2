--------------------------- MODULE DesktopImports ---------------------------
(***************************************************************************)
(* Imports of the desktop application.  One import runs at a time: the     *)
(* snapshot's active job.  It waits for the engine runtime, which it       *)
(* shares with chats and which anybody may reset, and then for its turn    *)
(* among the graph rebuilds, each a process of its own.  A handler of the  *)
(* main process runs to its next await, with the promise callbacks it sets *)
(* off: that is one action.  Module EngineRuntime says why the runtime     *)
(* can be taken for a queue whose requests are answered in order, or all   *)
(* fail.  Definitions marked "Fault" are not part of the specification.    *)
(***************************************************************************)
EXTENDS Naturals, Sequences, SequencesExt

CONSTANTS
  MaxJobs,       \* bound: imports and retries
  Chats,
  None

ASSUME MaxJobsAssumption == MaxJobs \in Nat
ASSUME CallersAssumption == Chats \cap (1..MaxJobs) = {}

Jobs == 1..MaxJobs

Statuses == {"imported", "parsing", "packaging", "citation_ready", "context_ready", "failed"}

\* "parse" and "reparse" become "refused" when the engine reports that
\* parsing failed: its answer can then only be an error.
Requests == {"parse", "reparse", "refused", "repair", "compile", "recompile"}

ASSUME NoneAssumption ==
  /\ None \notin Jobs /\ None \notin Chats
  /\ None \notin Statuses /\ None \notin Requests
  /\ None \notin [id : Jobs, status : Statuses]

VARIABLES
  activeJob,     \* snapshot.activeJob
  begun,         \* nextJobId: jobs so far
  waits,         \* request a job's handler awaits
  runtime,       \* callers whose request is active or queued, in order
  rebuilds,      \* graphRebuildQueue: the job each was queued for
  rebuilding,    \* the first of them has begun
  manifest,      \* snapshot.lastSourceManifestPath is known
  chats,         \* activeAgentChatStreams
  shown          \* status of a job in the last snapshot published with it

vars == <<activeJob, begun, waits, runtime, rebuilds, rebuilding, manifest, chats, shown>>

TypeOK ==
  /\ activeJob \in [id : Jobs, status : Statuses] \cup {None}
  /\ begun \in 0..MaxJobs
  /\ waits \in [Jobs -> Requests \cup {None}]
  /\ runtime \in Seq(Jobs \cup Chats)
  /\ rebuilds \in Seq(Jobs \cup {None})
  /\ rebuilding \in BOOLEAN
  /\ manifest \in BOOLEAN
  /\ chats \in [Chats -> {"idle", "scheduled", "asked", "ended"}]
  /\ shown \in [Jobs -> Statuses \cup {None}]

Init ==
  /\ activeJob = None
  /\ begun = 0
  /\ waits = [j \in Jobs |-> None]
  /\ runtime = << >>
  /\ rebuilds = << >>
  /\ rebuilding = FALSE
  /\ manifest = FALSE
  /\ chats = [c \in Chats |-> "idle"]
  /\ shown = [j \in Jobs |-> None]

-----------------------------------------------------------------------------
(* The snapshot.                                                           *)

IsActive(j) == activeJob # None /\ activeJob.id = j

\* The active job with another status; nothing when there is none.
Marked(status) == IF activeJob = None THEN None ELSE [activeJob EXCEPT !.status = status]

\* publishSnapshot, with `job` active.
Published(job) == IF job = None THEN shown ELSE [shown EXCEPT ![job.id] = job.status]

\* Fault: a rebuild reports to whichever job is active.
UpdatedWhicheverIsActive(j, status) == Marked(status)

\* updateActiveGraphRebuildJob.
Updated(j, status) == IF IsActive(j) THEN Marked(status) ELSE activeJob

\* clearActiveGraphRebuildJob.
Cleared(j) == IF IsActive(j) THEN None ELSE activeJob

-----------------------------------------------------------------------------
(* The promises of the engine runtime.                                     *)

WaitsWithout(callers, w) == [j \in Jobs |-> IF j \in callers THEN None ELSE w[j]]
ChatsWithout(callers, ch) == [c \in Chats |-> IF c \in callers THEN "ended" ELSE ch[c]]

\* The promises of `callers` are rejected while `job` is active.  The catch
\* of an import fails the active job, whichever it is; that of a chat is
\* about itself only.
Reject(callers, w, ch, job) ==
  /\ waits' = WaitsWithout(callers, w)
  /\ chats' = ChatsWithout(callers, ch)
  /\ IF callers \cap Jobs # {} /\ job # None
     THEN activeJob' = None /\ shown' = [shown EXCEPT ![job.id] = "failed"]
     ELSE activeJob' = job /\ shown' = Published(job)

\* runEngineCommand, behind the requests q: another binary resets the
\* runtime first.
Submit(caller, q, w, ch, job) ==
  \/ /\ runtime' = Append(q, caller)
     /\ waits' = w
     /\ chats' = ch
     /\ activeJob' = job
     /\ shown' = Published(job)
  \/ /\ q # << >>
     /\ runtime' = <<caller>>
     /\ Reject(ToSet(q), w, ch, job)

Ask(j, request, q, job) == Submit(j, q, [waits EXCEPT ![j] = request], chats, job)

\* resetEngineRuntime by another than an import, and an engine that exits.
Break(ch) ==
  /\ runtime' = << >>
  /\ Reject(ToSet(runtime), waits, ch, activeJob)

-----------------------------------------------------------------------------
(* Commands of the renderer.                                               *)

Begin(request) ==
  /\ activeJob = None
  /\ begun < MaxJobs
  /\ begun' = begun + 1
  /\ Ask(begun', request, runtime, [id |-> begun', status |-> "imported"])
  /\ UNCHANGED <<rebuilds, rebuilding, manifest>>

StartParse == Begin("parse")

RetryFailedPages == manifest /\ Begin("reparse")

\* Fault: the job is let go and the runtime is left alone.
CancelParseOnly ==
  /\ activeJob # None
  /\ activeJob' = None
  /\ shown' = Published(Marked("failed"))
  /\ UNCHANGED <<runtime, waits, chats, begun, rebuilds, rebuilding, manifest>>

\* Whoever else waits for the runtime is rejected with the import; a rebuild
\* goes on.
CancelParse ==
  /\ activeJob # None
  /\ activeJob' = None
  /\ shown' = Published(Marked("failed"))
  /\ runtime' = << >>
  /\ waits' = WaitsWithout(ToSet(runtime), waits)
  /\ chats' = ChatsWithout(ToSet(runtime), chats)
  /\ UNCHANGED <<begun, rebuilds, rebuilding, manifest>>

StartAgentChat(c) ==
  /\ chats[c] = "idle"
  /\ chats' = [chats EXCEPT ![c] = "scheduled"]
  /\ UNCHANGED <<activeJob, begun, waits, runtime, rebuilds, rebuilding, manifest, shown>>

\* The callback of setImmediate.
AskChat(c) ==
  /\ chats[c] = "scheduled"
  /\ Submit(c, runtime, waits, [chats EXCEPT ![c] = "asked"], activeJob)
  /\ UNCHANGED <<begun, rebuilds, rebuilding, manifest>>

StopAgentChat(c) ==
  /\ chats[c] \in {"scheduled", "asked"}
  /\ Break([chats EXCEPT ![c] = "ended"])
  /\ UNCHANGED <<begun, rebuilds, rebuilding, manifest>>

-----------------------------------------------------------------------------
(* The engine.  Its answer is about the first request.                     *)

Answered(j, requests) == runtime # << >> /\ Head(runtime) = j /\ waits[j] \in requests

\* applyProgressEvent: the event of the active request, whichever job is
\* active.
Progress(j) ==
  /\ Answered(j, {"parse", "reparse"})
  /\ \E status \in {"parsing", "packaging", "failed"} :
       /\ activeJob' = Marked(status)
       /\ waits' = IF status = "failed" THEN [waits EXCEPT ![j] = "refused"] ELSE waits
  /\ shown' = Published(activeJob')
  /\ UNCHANGED <<begun, runtime, rebuilds, rebuilding, manifest, chats>>

\* An error, an answer without result, or a process that cannot be started.
Refused ==
  /\ runtime # << >>
  /\ runtime' = Tail(runtime)
  /\ Reject({Head(runtime)}, waits, chats, activeJob)
  /\ UNCHANGED <<begun, rebuilds, rebuilding, manifest>>

ChatAnswered(c) ==
  /\ runtime # << >>
  /\ Head(runtime) = c
  /\ runtime' = Tail(runtime)
  /\ chats' = [chats EXCEPT ![c] = "ended"]
  /\ UNCHANGED <<activeJob, begun, waits, rebuilds, rebuilding, manifest, shown>>

ParsedUnsaved(j) ==
  /\ Answered(j, {"parse"})
  /\ manifest' \in BOOLEAN
  /\ runtime' = Tail(runtime)
  /\ waits' = [waits EXCEPT ![j] = None]
  /\ activeJob' = None
  /\ UNCHANGED <<begun, rebuilds, rebuilding, chats, shown>>

Parsed(j) ==
  /\ Answered(j, {"parse"})
  /\ manifest' \in BOOLEAN
  /\ Ask(j, "compile", Tail(runtime), Marked("packaging"))
  /\ UNCHANGED <<begun, rebuilds, rebuilding>>

Reparsed(j) ==
  /\ Answered(j, {"reparse"})
  /\ Ask(j, "repair", Tail(runtime), activeJob)
  /\ UNCHANGED <<begun, rebuilds, rebuilding, manifest>>

Repaired(j) ==
  /\ Answered(j, {"repair"})
  /\ Ask(j, "recompile", Tail(runtime), Marked("packaging"))
  /\ UNCHANGED <<begun, rebuilds, rebuilding, manifest>>

\* A source without manifest is not rebuilt: the import ends here.
Compiled(j) ==
  /\ Answered(j, {"compile", "recompile"})
  /\ runtime' = Tail(runtime)
  /\ waits' = [waits EXCEPT ![j] = None]
  /\ IF manifest
     THEN /\ activeJob' = Marked("citation_ready")
          /\ rebuilds' = Append(rebuilds, IF activeJob = None THEN None ELSE activeJob.id)
     ELSE /\ activeJob' = None
          /\ UNCHANGED rebuilds
  /\ shown' = Published(activeJob')
  /\ UNCHANGED <<begun, rebuilding, manifest, chats>>

EngineExits ==
  /\ runtime # << >>
  /\ Break(chats)
  /\ UNCHANGED <<begun, rebuilds, rebuilding, manifest>>

Answer ==
  \/ Refused
  \/ \E c \in Chats : ChatAnswered(c)
  \/ \E j \in Jobs : \/ ParsedUnsaved(j)
                     \/ Parsed(j)
                     \/ Reparsed(j)
                     \/ Repaired(j)
                     \/ Compiled(j)

-----------------------------------------------------------------------------
(* Graph rebuilds, one after the other.                                    *)

RebuildBegins ==
  /\ rebuilds # << >>
  /\ ~rebuilding
  /\ rebuilding' = TRUE
  /\ activeJob' = Updated(Head(rebuilds), "citation_ready")
  /\ shown' = Published(activeJob')
  /\ UNCHANGED <<begun, waits, runtime, rebuilds, manifest, chats>>

\* Fault: a job whose rebuild failed is shown so and stays active.
RebuildEndsUncleared(status) ==
  /\ rebuilding
  /\ rebuilding' = FALSE
  /\ rebuilds' = Tail(rebuilds)
  /\ activeJob' = IF status = "failed" THEN Updated(Head(rebuilds), status)
                  ELSE Cleared(Head(rebuilds))
  /\ shown' = Published(Updated(Head(rebuilds), status))
  /\ UNCHANGED <<begun, waits, runtime, manifest, chats>>

RebuildEnds(status) ==
  /\ rebuilding
  /\ rebuilding' = FALSE
  /\ rebuilds' = Tail(rebuilds)
  /\ activeJob' = Cleared(Head(rebuilds))
  /\ shown' = Published(Updated(Head(rebuilds), status))
  /\ UNCHANGED <<begun, waits, runtime, manifest, chats>>

RebuildDone == \E status \in {"context_ready", "failed"} : RebuildEnds(status)

-----------------------------------------------------------------------------
Next ==
  \/ StartParse
  \/ RetryFailedPages
  \/ CancelParse
  \/ \E c \in Chats : StartAgentChat(c) \/ AskChat(c) \/ StopAgentChat(c)
  \/ \E j \in Jobs : Progress(j)
  \/ Answer
  \/ EngineExits
  \/ RebuildBegins
  \/ RebuildDone

\* The engine answers what it reads or exits (EngineRuntime), and the process
\* of a rebuild ends.  There is no timeout for either.
Fairness == WF_vars(Answer) /\ WF_vars(RebuildBegins) /\ WF_vars(RebuildDone)

Spec == Init /\ [][Next]_vars /\ Fairness

-----------------------------------------------------------------------------
(* Properties.                                                             *)

\* The active job is always being worked on, by exactly one of its own
\* handler and a rebuild, and a handler never works for another job than the
\* active one: an import that was cancelled, or that a stopped chat took the
\* runtime from, cannot come back into the next one.
ActiveJobIsWorkedOn ==
  /\ \A j \in Jobs : waits[j] # None => /\ IsActive(j)
                                        /\ j \in ToSet(runtime)
  /\ activeJob # None =>
       (waits[activeJob.id] = None) <=> (activeJob.id \in ToSet(rebuilds))

\* What the user was told of a job stays true: an ended job is not shown
\* again under another status, and one with evidence does not go back to
\* parsing, whatever rebuilds and requests of other jobs end meanwhile.
ShownOutcomesStay ==
  [][\A j \in Jobs :
       /\ shown[j] \in {"context_ready", "failed"} => shown'[j] = shown[j]
       /\ shown[j] = "citation_ready" =>
            shown'[j] \in {"citation_ready", "context_ready", "failed"}]_vars

\* No import blocks the next one for ever.
EveryJobEnds == \A j \in Jobs : IsActive(j) ~> ~IsActive(j)
=============================================================================
