---------------------------- MODULE GraphHistory ----------------------------
(***************************************************************************)
(* The engine's graph of a workspace as a projection of its event log.     *)
(* Every import of a source writes two events, the graph built from the    *)
(* source and the links found to other sources; every write of the         *)
(* materialized files replays all events over a baseline the writer has    *)
(* read before.  Engine processes work at the same time: their baselines   *)
(* are stale, and their events are written in another order than made.     *)
(* What orders a replay is neither: it is the second in which an event was *)
(* made and, within one, its id; the file is rewritten in this order too.  *)
(*                                                                         *)
(* A node is a source and a key, a relation a pair of nodes; its evidence  *)
(* is of the sources of its ends.  Contents, labels, claims, pages and     *)
(* memories are left out, and so are records of versions before the event  *)
(* log.  A write is atomic here (AgentWrites has its steps).               *)
(***************************************************************************)
EXTENDS Integers, FiniteSetsExt

CONSTANTS
  Sources,      \* ids of sources
  Keys,         \* keys of concepts within a source
  Root,         \* the key of a source's own node
  Extractions,  \* what a provider may find in a source
  Similar,      \* sets of two concepts with a name or terms in common
  MaxLinks,     \* bound on the links of one import
  Importers,    \* processes that import a source
  Deleters,     \* processes that delete a source
  BuildIds,     \* ids of builds and of linkings, as numbers: those of builds
  LinkingIds,   \* sort first, and no two events have the same
  IdSpace,      \* all ids are below
  MaxSecond     \* bound on the clock

Calls == Importers \cup Deleters

ASSUME ExtractionsAssumption ==
  Extractions \subseteq [keys : SUBSET Keys, ties : SUBSET (Keys \X Keys)]
ASSUME RootAssumption == Root \notin Keys
ASSUME CallsAssumption == Importers \cap Deleters = {}
ASSUME IdsAssumption ==
  /\ IdSpace \in Nat /\ MaxSecond \in Nat
  /\ BuildIds \cup LinkingIds \subseteq 0 .. IdSpace - 1
  /\ \A i \in BuildIds, j \in LinkingIds : i < j

VARIABLES
  saved,   \* rows of sources in the project store
  log,     \* events/brain_events.jsonl: builds and linkings
  graph,   \* the materialized files
  call     \* processes: stage, source, baseline read, event to write, and the
           \* build they have reported as materialized

vars == <<saved, log, graph, call>>

RootOf(s) == <<s, Root>>
IsRoot(n) == n[2] = Root
EvidenceOf(r) == {r[1][1], r[2][1]}
Ends(r) == {r[1], r[2]}
IsSourceOf(r) == IsRoot(r[1])
CrossSource(r) == Cardinality(EvidenceOf(r)) >= 2
-----------------------------------------------------------------------------
(* Replay *)

\* The sources alone, as a materialization from rows starts.
BaseGraph(sources) ==
  [sources |-> sources, nodes |-> {RootOf(s) : s \in sources}, dead |-> {},
   rels |-> {}, deadRels |-> {}, linked |-> {}]

\* Where an event comes in a replay: by its version, which is the second in
\* which it was made, and of one second by its id.
Place(second, id) == second * IdSpace + id
PlaceOf(e) == Place(e.second, e.id)

\* The place of the last event.
Newest(events) == Max({PlaceOf(e) : e \in events} \cup {0})

Known(g) == g.nodes \cup g.dead

\* Fault: what a build does not repeat of its source stays.
ApplyBuildAdding(g, e) ==
  LET new == {r \in e.rels : EvidenceOf(r) \cap g.sources # {}}
  IN [g EXCEPT !.nodes = @ \cup {n \in e.nodes : n[1] \in g.sources},
               !.rels = @ \cup new,
               !.linked = @ \ new]

\* A build closes what it does not repeat of its source, and adds the rest.
ApplyBuild(g, e) ==
  LET gone == {n \in g.nodes : n[1] = e.source /\ n \notin e.nodes}
      goneRels == {r \in g.rels : /\ e.source \in EvidenceOf(r) \cap g.sources
                                  /\ r \notin e.rels}
      h == [g EXCEPT !.nodes = (@ \ gone) \cup {n \in e.nodes : n[1] \in g.sources},
                     !.dead = @ \cup gone]
      new == {r \in e.rels : /\ Ends(r) \subseteq Known(h)
                             /\ EvidenceOf(r) \cap g.sources # {}}
  IN [h EXCEPT !.rels = (@ \ goneRels) \cup new,
               !.deadRels = @ \cup goneRels,
               !.linked = @ \ new]

\* A linking closes its targets, and adds links between sources.
ApplyLinking(g, e) ==
  LET gone == {r \in g.rels : r \in e.targets /\ r \notin e.rels}
      new == {r \in e.rels : /\ Ends(r) \subseteq Known(g)
                             /\ CrossSource(r) /\ EvidenceOf(r) \subseteq g.sources
                             /\ r \notin g.rels}
  IN [g EXCEPT !.rels = (@ \ gone) \cup new,
               !.deadRels = @ \cup gone,
               !.linked = @ \cup new]

Apply(g, e) ==
  IF g.sources = {} THEN g
  ELSE IF e.op = "build" THEN ApplyBuild(g, e) ELSE ApplyLinking(g, e)

\* Relations of the baseline that no linking made, and the nodes they name.
ProtectedRels(base, linked) ==
  {r \in base.rels \cup base.deadRels :
     /\ Ends(r) \subseteq Known(base)
     /\ EvidenceOf(r) \subseteq base.sources
     /\ r \notin linked}
ProtectedNodes(base, linked) == UNION {Ends(r) : r \in ProtectedRels(base, linked)}

\* What events target is closed, and links are dropped, unless protected.
Clear(g, events, linked, keepRels, keepNodes) ==
  LET builds == {e \in events : e.op = "build"}
      targets == UNION {e.nodes : e \in builds}
      targetRels == UNION {e.rels : e \in builds}
      closed == {n \in g.nodes : ~IsRoot(n) /\ n \in targets /\ n \notin keepNodes}
      closedRels == {r \in g.rels : r \in targetRels /\ r \notin keepRels \cup linked}
  IN IF events = {} THEN g
     ELSE [g EXCEPT !.nodes = @ \ closed,
                    !.dead = @ \cup closed,
                    !.rels = @ \ (closedRels \cup (linked \ keepRels)),
                    !.deadRels = (@ \ (linked \ keepRels)) \cup closedRels]

\* The graph that the events make of g, in the order of their places.
Applied(g, events) ==
  LET after[v \in 0 .. Newest(events)] ==
        IF v = 0 THEN g
        ELSE IF \E e \in events : PlaceOf(e) = v
             THEN Apply(after[v - 1], CHOOSE e \in events : PlaceOf(e) = v)
             ELSE after[v - 1]
  IN after[Newest(events)]

Replay(g, events, linked, keepRels, keepNodes) ==
  Applied([Clear(g, events, linked, keepRels, keepNodes) EXCEPT !.linked = {}], events)

\* compute_effective_brain_state: origins of links that are still there are kept.
Effective(base, events, linked) ==
  LET g == Replay(base, events, linked, ProtectedRels(base, linked), ProtectedNodes(base, linked))
      carried == {r \in linked \cap (g.rels \cup g.deadRels) :
                    /\ Ends(r) \subseteq Known(g)
                    /\ EvidenceOf(r) \subseteq g.sources
                    /\ CrossSource(r)}
  IN [g EXCEPT !.linked = @ \cup carried]

\* Fault: every record of the last graph is live again, and nothing closes it.
ReconstructRevived(g, events) ==
  [g EXCEPT !.nodes = @ \cup g.dead, !.rels = @ \cup g.deadRels]

\* reconstruct_brain: the last graph in the log, every record of it live, under all events.
Reconstruct(g, events) ==
  LET revived == [g EXCEPT !.nodes = @ \cup g.dead, !.rels = @ \cup g.deadRels,
                           !.dead = {}, !.deadRels = {}]
  IN Replay(revived, events, {}, {}, {})
-----------------------------------------------------------------------------
(* Processes *)

Nothing == [op |-> "none"]
NoBase == [graph |-> BaseGraph({}), log |-> {}]
Idle == [stage |-> "idle", source |-> CHOOSE s \in Sources : TRUE, base |-> NoBase,
         event |-> Nothing, built |-> Nothing]

\* What is left of a process is its report.
Ended(c) == [Idle EXCEPT !.stage = "ended", !.built = call[c].built]

Pending == {call[c].event : c \in Calls} \ {Nothing}

\* The clock does not go back; ids are not used twice.
MadeNow(second, id) ==
  \A d \in log \cup Pending : d.second <= second /\ PlaceOf(d) # Place(second, id)

BuildOf(s, x, second, id) ==
  [op |-> "build", source |-> s, second |-> second, id |-> id,
   nodes |-> {RootOf(s)} \cup {<<s, k>> : k \in x.keys},
   rels |-> {<<RootOf(s), <<s, k>>>> : k \in x.keys}
              \cup {<< <<s, t[1]>>, <<s, t[2]>> >> : t \in x.ties}]

\* Pairs of similar live concepts, one of them of the imported source.
Linkable(g, s) ==
  {r \in g.nodes \X g.nodes :
     Ends(r) \in Similar /\ CrossSource(r) /\ s \in EvidenceOf(r)}

\* Live relations at the imported source but for source_of and what was found again.
Unverified(g, s, verified) ==
  {r \in g.rels : ~IsSourceOf(r) /\ s \in EvidenceOf(r) /\ r \notin verified}

\* Fault: the log is not read again.
MergedLogUnread(base, events) == base.log \cup events

\* The events of the writer, and those in the log by now.
MergedLog(base, events) == base.log \cup events \cup log

\* Fault: the events of other processes are kept and not replayed.
WriteOwnView(base, events) ==
  /\ log' = MergedLog(base, events)
  /\ graph' = Effective(base.graph, MergedLogUnread(base, events), graph.linked)

\* write_materialized_brain_repo, under the workspace lock.
Write(base, events) ==
  /\ log' = MergedLog(base, events)
  /\ graph' = Effective(base.graph, log', graph.linked)

Init ==
  /\ saved = {}
  /\ log = {}
  /\ graph = BaseGraph({})
  /\ call = [c \in Calls |-> Idle]

SaveRow(c, s) ==
  /\ call[c].stage = "idle"
  /\ saved' = IF c \in Importers THEN saved \cup {s} ELSE saved \ {s}
  /\ call' = [call EXCEPT ![c].stage = "saved", ![c].source = s]
  /\ UNCHANGED <<log, graph>>

ReadRows(c) ==
  /\ call[c].stage = "saved"
  /\ call' = [call EXCEPT ![c].stage = "rows",
                          ![c].base = [graph |-> BaseGraph(saved), log |-> {}]]
  /\ UNCHANGED <<saved, log, graph>>

WriteRows(c) ==
  /\ call[c].stage = "rows"
  /\ Write(call[c].base, {})
  /\ call' = [call EXCEPT ![c] = IF c \in Deleters THEN Ended(c)
                                 ELSE [@ EXCEPT !.stage = "materialized", !.base = NoBase]]
  /\ UNCHANGED saved

ReadBaseline(c) ==
  /\ call[c].stage \in {"materialized", "built"}
  /\ call' = [call EXCEPT ![c].stage = IF @ = "built" THEN "linking" ELSE "extracting",
                          ![c].base = [graph |-> graph, log |-> log]]
  /\ UNCHANGED <<saved, log, graph>>

Extract(c) ==
  /\ call[c].stage = "extracting"
  /\ \E x \in Extractions, second \in 1 .. MaxSecond, id \in BuildIds :
       /\ MadeNow(second, id)
       /\ call' = [call EXCEPT ![c].stage = "extracted",
                               ![c].event = BuildOf(call[c].source, x, second, id)]
  /\ UNCHANGED <<saved, log, graph>>

WriteBuild(c) ==
  /\ call[c].stage = "extracted"
  /\ Write(call[c].base, {call[c].event})
  /\ call' = [call EXCEPT ![c].stage = "built", ![c].base = NoBase,
                          ![c].event = Nothing, ![c].built = call[c].event]
  /\ UNCHANGED saved

Link(c) ==
  LET g == call[c].base.graph
      s == call[c].source
  IN
  /\ call[c].stage = "linking"
  /\ \E links \in {l \in SUBSET Linkable(g, s) : Cardinality(l) <= MaxLinks},
        verified \in SUBSET (g.rels \cap Linkable(g, s)),
        second \in 1 .. MaxSecond, id \in LinkingIds :
       /\ MadeNow(second, id)
       /\ call' = [call EXCEPT ![c].stage = "linked",
                               ![c].event = [op |-> "linking", source |-> s,
                                             second |-> second, id |-> id, rels |-> links,
                                             targets |-> links \cup Unverified(g, s, verified)]]
  /\ UNCHANGED <<saved, log, graph>>

WriteLinks(c) ==
  /\ call[c].stage = "linked"
  /\ Write(call[c].base, {call[c].event})
  /\ call' = [call EXCEPT ![c] = Ended(c)]
  /\ UNCHANGED saved

\* A provider that fails ends the import, and a process may be killed.
GiveUp(c) ==
  /\ call[c].stage \notin {"idle", "ended"}
  /\ call' = [call EXCEPT ![c] = Ended(c)]
  /\ UNCHANGED <<saved, log, graph>>

Next ==
  \E c \in Calls :
    \/ \E s \in Sources : SaveRow(c, s)
    \/ ReadRows(c) \/ WriteRows(c)
    \/ ReadBaseline(c)
    \/ Extract(c) \/ WriteBuild(c)
    \/ Link(c) \/ WriteLinks(c)
    \/ GiveUp(c)

Spec == Init /\ [][Next]_vars
-----------------------------------------------------------------------------
(* Properties *)

BuildsFor(s) == {e \in log : e.op = "build" /\ e.source = s}
ConceptsOf(g, s) == {n \in g.nodes : n[1] = s}

\* The concepts shown of a published source are those of the build of it that was
\* made last, though it need not be the one that was written last; of two made in
\* one second, the one with the greater id, whose import had asked later.
LatestBuildIsShown ==
  \A s \in graph.sources : \A e \in BuildsFor(s) :
    (\A d \in BuildsFor(s) : PlaceOf(d) <= PlaceOf(e)) => ConceptsOf(graph, s) = e.nodes

\* What an import has reported as materialized is in the graph until a build of
\* its source that was made later takes its place: no process whose baseline was
\* read before takes it out by writing after.
ReportedBuildsAreShown ==
  \A c \in Importers : LET e == call[c].built IN
    e # Nothing /\ e.source \in graph.sources =>
      \/ ConceptsOf(graph, e.source) = e.nodes
      \/ \E d \in BuildsFor(e.source) : PlaceOf(d) > PlaceOf(e)

\* What docs/graph-event-history.md says of replay, that events are applied in the
\* order in which they were appended and not by version or id: the build that is
\* appended is what is shown then.
AppendOrderDecides ==
  [][\A e \in log' \ log : e.op = "build" /\ e.source \in graph'.sources =>
       ConceptsOf(graph', e.source) = e.nodes]_vars

SameView(g, h) == g.nodes = h.nodes /\ g.rels = h.rels

\* What is shown depends on the published sources and on the log, and not on the
\* baselines over which events have been replayed before.
ViewIsFunctionOfLog ==
  SameView(graph, Effective(BaseGraph(graph.sources), log, {}))

\* reconstruct_brain without a cutoff gives the graph that is shown.
ReconstructionAgrees == SameView(graph, Reconstruct(graph, log))
=============================================================================
