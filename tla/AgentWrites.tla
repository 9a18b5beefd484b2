---------------------------- MODULE AgentWrites ----------------------------
(***************************************************************************)
(* Memories that agents write into a workspace.  A proposal is staged as a *)
(* row and a file; committing it appends an event to the log, adds the     *)
(* memory and then tells the row.  At the same time the workspace is       *)
(* materialized from its sources, and graph patches are applied: each      *)
(* writes the files as a whole.  What keeps them apart is a lock, a        *)
(* directory that is made and removed, and that outlives a killed process. *)
(* Each file written and each transaction is one action.  The log counts   *)
(* the acceptance events of commits; the events that a materialization or  *)
(* a patch adds of its own are left out.  Definitions marked "Fault" are   *)
(* not part of the specification.                                          *)
(***************************************************************************)
EXTENDS Naturals

CONSTANTS
  Proposals,
  Legacy,        \* proposals of an earlier version: a file without a row
  Sources,
  cites,         \* source of the evidence that a proposal cites
  Calls,         \* calls of the engine at one time, in processes of their own
  MaxCalls,      \* bound: calls in all
  None

ASSUME CitesAssumption == cites \in [Proposals -> Sources]
ASSUME LegacyAssumption == Legacy \subseteq Proposals
ASSUME MaxCallsAssumption == MaxCalls \in Nat

VARIABLES
  row,           \* agent_write_proposals.approval_status
  file,          \* proposals/<id>.json exists
  log,           \* events/brain_events.jsonl: acceptance events of a proposal
  memories,      \* memory/records.json
  audited,       \* brain_events: proposals whose acceptance is recorded
  saved,         \* sources of the workspace
  evidence,      \* sources whose evidence the materialized workspace has
  locked,        \* the lock directory exists
  calls,
  started        \* calls so far

files == <<log, memories, evidence>>
proposed == <<row, file, audited>>
vars == <<row, file, log, memories, audited, saved, evidence, locked, calls, started>>

Held == {"proposing", "staged", "committing", "appended", "remembered", "recorded",
         "rejecting", "rejected", "computing", "computed", "rewritten", "patching", "patched"}
Stages == {"idle", "loading", "loaded", "waiting"} \cup Held
Kinds == {"propose", "commit", "reject", "materialize", "patch"}

Call == [at : Stages, kind : Kinds \cup {None}, about : Proposals \cup Sources \cup {None},
         memories : SUBSET Proposals, sources : SUBSET Sources, log : [Proposals -> Nat]]

NoLog == [p \in Proposals |-> 0]
NoCall == [at |-> "idle", kind |-> None, about |-> None,
           memories |-> {}, sources |-> {}, log |-> NoLog]

Init ==
  /\ row = [p \in Proposals |-> "none"]
  /\ file = [p \in Proposals |-> p \in Legacy]
  /\ log = NoLog
  /\ memories = {}
  /\ audited = {}
  /\ saved = Sources
  /\ evidence = Sources
  /\ locked = FALSE
  /\ calls = [c \in Calls |-> NoCall]
  /\ started = 0

-----------------------------------------------------------------------------
(* Calls and the lock.                                                     *)

At(c, stage) == calls[c].at = stage
To(c, stage) == calls' = [calls EXCEPT ![c].at = stage]
Begin(c, stage, kind, x) ==
  /\ At(c, "idle")
  /\ started < MaxCalls
  /\ started' = started + 1
  /\ calls' = [calls EXCEPT ![c] = [NoCall EXCEPT !.at = stage, !.kind = kind, !.about = x]]

\* The stage in which a call holds the lock first.
Opened == [propose |-> "proposing", commit |-> "committing", reject |-> "rejecting",
           materialize |-> "computing", patch |-> "patching"]

\* The lock is dropped when the call returns.
Return(c) ==
  /\ locked' = FALSE
  /\ calls' = [calls EXCEPT ![c] = NoCall]

\* A proposal id is new; those of an earlier version have theirs.
Propose(c, p) ==
  /\ p \notin Legacy
  /\ row[p] = "none"
  /\ \A d \in Calls : calls[d].kind = "propose" => calls[d].about # p
  /\ Begin(c, "waiting", "propose", p)
  /\ UNCHANGED <<proposed, files, saved, locked>>

\* Commits and rejections of any proposal, at any time and repeatedly.
Decide(c, kind, p) ==
  /\ Begin(c, "waiting", kind, p)
  /\ UNCHANGED <<proposed, files, saved, locked>>

\* Fault: the lock is taken without looking at it.
AcquireAnyway(c) ==
  /\ At(c, "waiting")
  /\ locked' = TRUE
  /\ To(c, Opened[calls[c].kind])
  /\ UNCHANGED <<proposed, files, saved, started>>

Acquire(c) ==
  /\ At(c, "waiting")
  /\ ~locked
  /\ locked' = TRUE
  /\ To(c, Opened[calls[c].kind])
  /\ UNCHANGED <<proposed, files, saved, started>>

\* The lock was not to be had for five seconds.
TimeOut(c) ==
  /\ At(c, "waiting")
  /\ locked
  /\ calls' = [calls EXCEPT ![c] = NoCall]
  /\ UNCHANGED <<proposed, files, saved, locked, started>>

\* An I/O error or a busy database, at any point: the call ends where it is.
Fail(c) ==
  /\ ~At(c, "idle")
  /\ locked' = IF calls[c].at \in Held THEN FALSE ELSE locked
  /\ calls' = [calls EXCEPT ![c] = NoCall]
  /\ UNCHANGED <<proposed, files, saved, started>>

\* A killed process does not remove its lock.
Crash(c) ==
  /\ ~At(c, "idle")
  /\ calls' = [calls EXCEPT ![c] = NoCall]
  /\ UNCHANGED <<proposed, files, saved, locked, started>>

\* Somebody does.
RemoveLock ==
  /\ locked
  /\ \A c \in Calls : calls[c].at \notin Held
  /\ locked' = FALSE
  /\ UNCHANGED <<proposed, files, saved, calls, started>>

-----------------------------------------------------------------------------
(* Proposals.                                                              *)

Supported(p) == cites[p] \in evidence

Stage(c) ==
  LET p == calls[c].about IN
  /\ At(c, "proposing")
  /\ Supported(p)
  /\ row' = [row EXCEPT ![p] = "pending"]
  /\ To(c, "staged")
  /\ UNCHANGED <<file, audited, files, saved, locked, started>>

Write(c) ==
  /\ At(c, "staged")
  /\ file' = [file EXCEPT ![calls[c].about] = TRUE]
  /\ Return(c)
  /\ UNCHANGED <<row, audited, files, saved, started>>

\* A row decides; only without one the file does.  Fault: a file is enough.
CommittableByFile(p) == row[p] = "pending" \/ file[p]
Committable(p) == row[p] = "pending" \/ (row[p] = "none" /\ file[p])

\* The acceptance is logged, once however often a commit is tried.
Append(c) ==
  LET p == calls[c].about IN
  /\ At(c, "committing")
  /\ Committable(p)
  /\ Supported(p)
  /\ log' = IF log[p] > 0 THEN log ELSE [log EXCEPT ![p] = 1]
  /\ To(c, "appended")
  /\ UNCHANGED <<proposed, memories, evidence, saved, locked, started>>

Remember(c) ==
  /\ At(c, "appended")
  /\ memories' = memories \cup {calls[c].about}
  /\ To(c, "remembered")
  /\ UNCHANGED <<proposed, log, evidence, saved, locked, started>>

\* One transaction for the event's row and the proposal's, if it has one.
Record(c) ==
  LET p == calls[c].about IN
  /\ At(c, "remembered")
  /\ audited' = audited \cup {p}
  /\ row' = [row EXCEPT ![p] = IF @ = "none" THEN @ ELSE "committed"]
  /\ To(c, "recorded")
  /\ UNCHANGED <<file, files, saved, locked, started>>

\* The file of a proposal that is committed or rejected goes last.
Discard(c) ==
  /\ At(c, "recorded") \/ At(c, "rejected")
  /\ file' = [file EXCEPT ![calls[c].about] = FALSE]
  /\ Return(c)
  /\ UNCHANGED <<row, audited, files, saved, started>>

\* Whatever its row says.
Reject(c) ==
  LET p == calls[c].about IN
  /\ At(c, "rejecting")
  /\ row' = [row EXCEPT ![p] = IF @ = "none" THEN @ ELSE "rejected"]
  /\ To(c, "rejected")
  /\ UNCHANGED <<file, audited, files, saved, locked, started>>

-----------------------------------------------------------------------------
(* Materialization.                                                        *)

\* An import, a retry or a correction has the workspace materialized.
Recompile(c) ==
  /\ Begin(c, "loading", "materialize", None)
  /\ UNCHANGED <<proposed, files, saved, locked>>

\* So has the deletion of a source, once the source is gone.
DeleteSource(c, s) ==
  /\ s \in saved
  /\ Begin(c, "loading", "materialize", s)
  /\ saved' = saved \ {s}
  /\ UNCHANGED <<proposed, files, locked>>

\* Sources and then memories are read, with no lock held.
LoadSources(c) ==
  /\ At(c, "loading")
  /\ calls' = [calls EXCEPT ![c].at = "loaded", ![c].sources = saved]
  /\ UNCHANGED <<proposed, files, saved, locked, started>>

\* No snapshot is persisted whose memories cite evidence it does not have.
Valid(ms, sources) == \A p \in ms : cites[p] \in sources

LoadMemories(c) ==
  /\ At(c, "loaded")
  /\ Valid(memories, calls[c].sources)
  /\ calls' = [calls EXCEPT ![c].at = "waiting", ![c].memories = memories]
  /\ UNCHANGED <<proposed, files, saved, locked, started>>

\* Fault: the files are taken to be as they were.
ComputeFromSnapshot(c) ==
  /\ At(c, "computing")
  /\ calls' = [calls EXCEPT ![c].at = "computed",
                            ![c].log = [p \in Proposals |-> IF log[p] > 0 THEN 1 ELSE 0]]
  /\ evidence' = calls[c].sources
  /\ UNCHANGED <<proposed, memories, log, saved, locked, started>>

\* Under the lock the files are read and merged into what was loaded.  Graph
\* and wiki are written with the evidence they rest on.
Compute(c) ==
  LET merged == calls[c].memories \cup memories IN
  /\ At(c, "computing")
  /\ Valid(merged, calls[c].sources)
  /\ calls' = [calls EXCEPT ![c].at = "computed", ![c].memories = merged,
                            ![c].log = [p \in Proposals |-> IF log[p] > 0 THEN 1 ELSE 0]]
  /\ evidence' = calls[c].sources
  /\ UNCHANGED <<proposed, memories, log, saved, locked, started>>

RewriteMemories(c) ==
  /\ At(c, "computed")
  /\ memories' = calls[c].memories
  /\ To(c, "rewritten")
  /\ UNCHANGED <<proposed, log, evidence, saved, locked, started>>

\* A patch rewrites the log too, from what it read of it.
RewriteLog(c) ==
  /\ At(c, "rewritten") \/ At(c, "patched")
  /\ log' = calls[c].log
  /\ Return(c)
  /\ UNCHANGED <<proposed, memories, evidence, saved, started>>

\* A graph patch is about a source that is there.
Patch(c, s) ==
  /\ Begin(c, "waiting", "patch", s)
  /\ UNCHANGED <<proposed, files, saved, locked>>

ApplyPatch(c) ==
  /\ At(c, "patching")
  /\ calls[c].about \in saved
  /\ evidence' = evidence \cup {calls[c].about}
  /\ calls' = [calls EXCEPT ![c].at = "patched", ![c].log = log]
  /\ UNCHANGED <<proposed, log, memories, saved, locked, started>>

-----------------------------------------------------------------------------

Next ==
  \/ \E c \in Calls :
       \/ \E p \in Proposals :
            Propose(c, p) \/ Decide(c, "commit", p) \/ Decide(c, "reject", p)
       \/ \E s \in Sources : DeleteSource(c, s) \/ Patch(c, s)
       \/ Recompile(c)
       \/ Acquire(c) \/ TimeOut(c) \/ Fail(c) \/ Crash(c)
       \/ Stage(c) \/ Write(c)
       \/ Append(c) \/ Remember(c) \/ Record(c) \/ Discard(c)
       \/ Reject(c)
       \/ LoadSources(c) \/ LoadMemories(c)
       \/ Compute(c) \/ RewriteMemories(c) \/ RewriteLog(c)
       \/ ApplyPatch(c)
  \/ RemoveLock

Spec == Init /\ [][Next]_vars

-----------------------------------------------------------------------------
(* Properties.                                                             *)

TypeOK ==
  /\ row \in [Proposals -> {"none", "pending", "committed", "rejected"}]
  /\ file \in [Proposals -> BOOLEAN]
  /\ log \in [Proposals -> Nat]
  /\ memories \subseteq Proposals
  /\ audited \subseteq Proposals
  /\ saved \subseteq Sources
  /\ evidence \subseteq Sources
  /\ locked \in BOOLEAN
  /\ calls \in [Calls -> Call]
  /\ started \in 0..MaxCalls

\* However commits are cut short and repeated, and however old the state is
\* that a materialization or a patch started from: a memory that is there or
\* was recorded as accepted stays in both files, and the log, from which the
\* workspace can be rebuilt, accepts it exactly once.
AcceptedIsKept ==
  /\ \A p \in Proposals : log[p] <= 1
  /\ \A p \in memories : log[p] = 1
  /\ audited \subseteq memories

\* A memory rests on evidence of the workspace, although evidence and
\* memories are read at different times, and sources are deleted in between.
MemoriesAreSupported == \A p \in memories : Supported(p)

\* A proposal that was rejected before it was accepted is not accepted any
\* more, by a commit that had already begun or by one that only finds its
\* file.
RejectedStaysOut ==
  [][\A p \in Proposals : row[p] = "rejected" /\ log[p] = 0 => log'[p] = 0]_vars
=============================================================================
