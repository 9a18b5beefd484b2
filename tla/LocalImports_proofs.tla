------------------------ MODULE LocalImports_proofs --------------------------
(***************************************************************************)
(* Proofs about imports on the user's machine: what ImportLifecycle says   *)
(* of an import of the local MCP server, and GraphHistory of the graph     *)
(* that the engine processes leave behind.                                 *)
(*                                                                         *)
(* An import has no entry before it begins and, until its thread has read  *)
(* its evidence back, none that could be retried.  So a failure, the one   *)
(* report that does not go through update_active, meets no import that     *)
(* has ended otherwise than as failed or cancelled.                        *)
(*                                                                         *)
(* The argument about the graph: what a replay shows depends on its events *)
(* and on the sources alone.  Whatever graph it starts from, if that graph *)
(* has nothing but what the events and its sources account for (Grounded), *)
(* then at the end each source has the concepts of its last build, and a   *)
(* relation is shown exactly if the last event that speaks of it has it    *)
(* (AppliedShows, by induction over the places of the events).  Every      *)
(* baseline a process may have read is grounded in the log, since the log  *)
(* only grows; so each write, however stale its baseline, leaves the graph *)
(* that the log and the sources determine.                                 *)
(***************************************************************************)
EXTENDS GraphHistory, ImportLifecycle, FiniteSetTheorems, WellFoundedInduction,
        NaturalsInduction, TLAPS

-----------------------------------------------------------------------------
(* Numbers and finite sets.                                                *)

\* A set that holds zero and with each number the next one holds all.
LEMMA FromZeroOn ==
  ASSUME NEW T, 0 \in T, \A n \in Nat : n \in T => n + 1 \in T
  PROVE  Nat \subseteq T
  <1> DEFINE Rest == Nat \ T
             Less == OpToRel(<, Nat)
  <1> SUFFICES ASSUME Rest # {} PROVE FALSE
    OBVIOUS
  <1>1. IsWellFoundedOn(Less, Nat)
    BY NatLessThanWellFounded
  <1>2. PICK x \in Rest : \A y \in Rest : ~(<<y, x>> \in Less)
    <2> HIDE DEF Less
    <2>1. Rest \subseteq Nat
      OBVIOUS
    <2> HIDE DEF Rest
    <2> QED BY <1>1, <2>1, WFMin
  <1>3. x \in Nat /\ x \notin T
    OBVIOUS
  <1>4. x # 0 /\ x - 1 \in Nat /\ (x - 1) + 1 = x /\ x - 1 < x
    BY <1>3
  <1>5. <<x - 1, x>> \in Less
    BY <1>3, <1>4 DEF OpToRel
  <1> HIDE DEF Less
  <1>6. x - 1 \in T
    BY <1>2, <1>4, <1>5
  <1>7. (x - 1) + 1 \in T
    BY <1>4, <1>6
  <1> QED BY <1>3, <1>4, <1>7

\* A finite set of numbers that is not empty has a largest one.
LEMMA HasLargest ==
  ASSUME NEW S, IsFiniteSet(S), S # {}, S \subseteq Nat
  PROVE  \E x \in S : \A y \in S : x >= y
  <1> DEFINE Bad == {T \in SUBSET S : T # {} /\ ~\E x \in T : \A y \in T : x >= y}
             Less == StrictSubsetOrdering(S)
  <1> SUFFICES ASSUME Bad # {} PROVE FALSE
    <2>1. S \notin Bad
      OBVIOUS
    <2> QED BY <2>1
  <1>1. IsWellFoundedOn(Less, FiniteSubsetsOf(S))
    BY FS_StrictSubsetOrderingWellFounded
  <1>2. Bad \subseteq FiniteSubsetsOf(S)
    BY FS_Subset DEF FiniteSubsetsOf
  <1>3. PICK T \in Bad : \A U \in Bad : ~(<<U, T>> \in Less)
    <2> HIDE DEF Less, Bad
    <2> QED BY <1>1, <1>2, WFMin
  <1>4. PICK x \in T : TRUE
    BY <1>3
  <1>5. <<T \ {x}, T>> \in Less
    BY <1>3, <1>4 DEF StrictSubsetOrdering
  <1>6. T \ {x} \notin Bad
    BY <1>3, <1>5
  <1>7. CASE T \ {x} = {}
    <2>1. \A y \in T : x >= y
      BY <1>3, <1>4, <1>7
    <2> QED BY <1>3, <1>4, <2>1
  <1>8. CASE T \ {x} # {}
    <2>1. PICK m \in T \ {x} : \A y \in T \ {x} : m >= y
      BY <1>3, <1>6, <1>8
    <2>2. x \in Nat /\ m \in Nat /\ T \subseteq Nat
      BY <1>3, <1>4, <2>1
    <2>3. CASE x >= m
      <3>1. \A y \in T : x >= y
        BY <2>1, <2>2, <2>3
      <3> QED BY <1>3, <1>4, <3>1
    <2>4. CASE ~(x >= m)
      <3>1. \A y \in T : m >= y
        BY <2>1, <2>2, <2>4
      <3> QED BY <1>3, <2>1, <3>1
    <2> QED BY <2>3, <2>4
  <1> QED BY <1>7, <1>8
-----------------------------------------------------------------------------
(* What replaying computes.                                                *)

\* The graph after the events of version v, from the one before.
Step(g, events, v) ==
  IF \E e \in events : PlaceOf(e) = v THEN Apply(g, CHOOSE e \in events : PlaceOf(e) = v) ELSE g

\* The graphs that replaying goes through, by the version reached.
IsRun(run, g, events) ==
  /\ run[0] = g
  /\ \A v \in 1 .. Newest(events) : run[v] = Step(run[v - 1], events, v)

\* A replay goes through the versions one after the other, whatever the events.
LEMMA AppliedIsRun ==
  ASSUME NEW g, NEW events, Newest(events) \in Nat
  PROVE  \E run : IsRun(run, g, events) /\ Applied(g, events) = run[Newest(events)]
  <1> DEFINE N == Newest(events)
             Taken(v) == \E e \in events : PlaceOf(e) = v
             Event(v) == CHOOSE e \in events : PlaceOf(e) = v
             Body(f, n) == [v \in 0 .. n |-> IF v = 0 THEN g
                                ELSE IF Taken(v) THEN Apply(f[v - 1], Event(v)) ELSE f[v - 1]]
             Good == {n \in Nat : \E f : f = Body(f, n)}
  <1>1. 0 \in Good
    <2> DEFINE f == [v \in 0 .. 0 |-> g]
    <2>1. f = Body(f, 0)
      OBVIOUS
    <2> QED BY <2>1
  <1>2. ASSUME NEW n \in Nat, n \in Good PROVE n + 1 \in Good
    <2>1. PICK f : f = Body(f, n)
      BY <1>2
    <2> DEFINE h == Body(f, n + 1)
    <2>2. ASSUME NEW v \in 1 .. n + 1 PROVE h[v - 1] = f[v - 1]
      <3>1. v - 1 \in 0 .. n /\ v - 1 \in 0 .. n + 1
        OBVIOUS
      <3>2. f[v - 1] = Body(f, n)[v - 1]
        BY <2>1
      <3> QED BY <3>1, <3>2
    <2>3. ASSUME NEW v \in 0 .. n + 1
          PROVE  h[v] = IF v = 0 THEN g
                        ELSE IF Taken(v) THEN Apply(h[v - 1], Event(v)) ELSE h[v - 1]
      <3>1. h[v] = IF v = 0 THEN g
                   ELSE IF Taken(v) THEN Apply(f[v - 1], Event(v)) ELSE f[v - 1]
        OBVIOUS
      <3>2. v # 0 => v \in 1 .. n + 1
        OBVIOUS
      <3> HIDE DEF h, Taken, Event
      <3> QED BY <3>1, <3>2, <2>2
    <2>4. h = [v \in 0 .. n + 1 |-> h[v]]
      OBVIOUS
    <2> HIDE DEF h, Taken, Event
    <2>5. h = Body(h, n + 1)
      BY <2>3, <2>4
    <2>6. n + 1 \in Nat
      OBVIOUS
    <2> QED BY <2>5, <2>6
  <1>3. N \in Good
    <2> HIDE DEF Good, N
    <2>1. N \in Nat
      BY DEF N
    <2> QED BY <1>1, <1>2, <2>1, FromZeroOn
  <1> DEFINE after == CHOOSE f : f = Body(f, N)
  <1>4. after = Body(after, N)
    BY <1>3
  <1>5. Applied(g, events) = after[N]
    BY DEF Applied
  <1>6. IsRun(after, g, events)
    <2> HIDE DEF after
    <2>1. after[0] = g
      BY <1>4
    <2>2. ASSUME NEW v \in 1 .. N PROVE after[v] = Step(after[v - 1], events, v)
      <3>1. Step(after[v - 1], events, v)
              = IF Taken(v) THEN Apply(after[v - 1], Event(v)) ELSE after[v - 1]
        BY DEF Step
      <3>2. v \in 0 .. N /\ v # 0
        BY DEF N
      <3> HIDE DEF Taken, Event, N
      <3>3. after[v] = IF Taken(v) THEN Apply(after[v - 1], Event(v)) ELSE after[v - 1]
        BY <1>4, <3>2
      <3> QED BY <3>1, <3>3
    <2> QED BY <2>1, <2>2 DEF IsRun
  <1> QED BY <1>5, <1>6

-----------------------------------------------------------------------------
(* Events and graphs that go together.                                     *)

Builds(events) == {e \in events : e.op = "build"}
Before(e, events) == {d \in events : PlaceOf(d) < PlaceOf(e)}

\* A source's own node, or a concept that a build found.
Named(n, events) == n = RootOf(n[1]) \/ \E e \in Builds(events) : n \in e.nodes

\* A build is of one source; a linking is between sources, of what earlier
\* builds found.
EventOk(e, events) ==
  /\ PlaceOf(e) \in Nat \ {0}
  /\ e.second \in Nat
  /\ e.op \in {"build", "linking"}
  /\ e.op = "build" => e.id \in BuildIds
  /\ e.op = "build" =>
       /\ RootOf(e.source) \in e.nodes
       /\ \A n \in e.nodes : n[1] = e.source
       /\ \A r \in e.rels : EvidenceOf(r) = {e.source}
  /\ e.op = "linking" =>
       /\ e.rels \subseteq e.targets
       /\ \A r \in e.rels : CrossSource(r)
       /\ \A r \in e.rels : \A n \in Ends(r) : Named(n, Before(e, events))

Orderly(events) ==
  /\ IsFiniteSet(events)
  /\ \A d, e \in events : PlaceOf(d) = PlaceOf(e) => d = e
  /\ \A e \in events : EventOk(e, events)

\* A graph is a record with these fields and no others.
IsGraph(g) ==
  g = [sources |-> g.sources, nodes |-> g.nodes, dead |-> g.dead,
       rels |-> g.rels, deadRels |-> g.deadRels, linked |-> g.linked]

\* What a graph has, live or closed, is of its sources and comes from events.
Grounded(g, events) ==
  /\ IsGraph(g)
  /\ \A n \in Known(g) : n[1] \in g.sources /\ Named(n, events)
  /\ \A s \in g.sources : RootOf(s) \in g.nodes
  /\ \A r \in g.rels \cup g.deadRels :
       /\ EvidenceOf(r) \subseteq g.sources
       /\ Ends(r) \subseteq Known(g)
       /\ \E e \in events : r \in e.rels

\* The newest version is a version, and none is newer.
LEMMA NewestIsLast ==
  ASSUME NEW events, IsFiniteSet(events), \A e \in events : PlaceOf(e) \in Nat
  PROVE  /\ Newest(events) \in Nat
         /\ \A e \in events : PlaceOf(e) <= Newest(events)
         /\ Newest(events) = 0 \/ \E e \in events : PlaceOf(e) = Newest(events)
  <1> DEFINE Ats == {PlaceOf(e) : e \in events}
             All == Ats \cup {0}
             f == [e \in events |-> PlaceOf(e)]
  <1>1. f \in Surjection(events, Ats)
    BY DEF Surjection
  <1>2. IsFiniteSet(Ats)
    <2> HIDE DEF f, Ats
    <2> QED BY <1>1, FS_Surjection
  <1>3. IsFiniteSet(All)
    <2> HIDE DEF Ats
    <2> QED BY <1>2, FS_AddElement
  <1>4. All # {} /\ All \subseteq Nat
    OBVIOUS
  <1>5. \E x \in All : \A y \in All : x >= y
    <2> HIDE DEF All
    <2> QED BY <1>3, <1>4, HasLargest
  <1>6. Newest(events) \in All /\ \A y \in All : Newest(events) >= y
    <2>1. Newest(events) = CHOOSE x \in All : \A y \in All : x >= y
      BY DEF Newest, Max
    <2> HIDE DEF All
    <2> QED BY <1>5, <2>1
  <1>7. \A e \in events : PlaceOf(e) \in All /\ PlaceOf(e) \in Nat
    OBVIOUS
  <1> QED BY <1>4, <1>6, <1>7

\* Of some events, one is the last.
LEMMA HasLast ==
  ASSUME NEW events, IsFiniteSet(events), \A e \in events : PlaceOf(e) \in Nat, events # {}
  PROVE  \E e \in events : \A d \in events : PlaceOf(d) <= PlaceOf(e)
  <1> DEFINE Ats == {PlaceOf(e) : e \in events}
             f == [e \in events |-> PlaceOf(e)]
  <1>1. f \in Surjection(events, Ats)
    BY DEF Surjection
  <1>2. IsFiniteSet(Ats)
    <2> HIDE DEF f, Ats
    <2> QED BY <1>1, FS_Surjection
  <1>3. Ats # {} /\ Ats \subseteq Nat
    OBVIOUS
  <1>4. PICK x \in Ats : \A y \in Ats : x >= y
    <2> HIDE DEF Ats
    <2> QED BY <1>2, <1>3, HasLargest
  <1>5. PICK e \in events : PlaceOf(e) = x
    OBVIOUS
  <1>6. \A d \in events : PlaceOf(d) \in Ats /\ PlaceOf(d) \in Nat
    OBVIOUS
  <1> QED BY <1>4, <1>5, <1>6
-----------------------------------------------------------------------------
(* One event.                                                              *)

\* What a build closes of a graph, and what it adds to become h.
ClosedNodes(g, e) == {n \in g.nodes : n[1] = e.source /\ n \notin e.nodes}
FoundNodes(g, e) == {n \in e.nodes : n[1] \in g.sources}
ClosedRels(g, e) ==
  {r \in g.rels : e.source \in EvidenceOf(r) \cap g.sources /\ r \notin e.rels}
FoundRels(g, e, h) ==
  {r \in e.rels : Ends(r) \subseteq Known(h) /\ EvidenceOf(r) \cap g.sources # {}}

\* What a linking closes of a graph, and what it adds.
Unlinked(g, e) == {r \in g.rels : r \in e.targets /\ r \notin e.rels}
Links(g, e) ==
  {r \in e.rels : /\ Ends(r) \subseteq Known(g)
                  /\ CrossSource(r) /\ EvidenceOf(r) \subseteq g.sources
                  /\ r \notin g.rels}

\* The graph that a build makes, field by field.
LEMMA BuildFields ==
  ASSUME NEW g, IsGraph(g), NEW e, NEW h, h = ApplyBuild(g, e)
  PROVE  /\ IsGraph(h)
         /\ h.sources = g.sources
         /\ h.nodes = (g.nodes \ ClosedNodes(g, e)) \cup FoundNodes(g, e)
         /\ h.dead = g.dead \cup ClosedNodes(g, e)
         /\ h.rels = (g.rels \ ClosedRels(g, e)) \cup FoundRels(g, e, h)
         /\ h.deadRels = g.deadRels \cup ClosedRels(g, e)
  <1> DEFINE gone == ClosedNodes(g, e)
             goneRels == ClosedRels(g, e)
             i == [g EXCEPT !.nodes = (@ \ gone) \cup FoundNodes(g, e), !.dead = @ \cup gone]
             new == FoundRels(g, e, i)
  <1>1. h = [i EXCEPT !.rels = (@ \ goneRels) \cup new,
                      !.deadRels = @ \cup goneRels,
                      !.linked = @ \ new]
    BY DEF ApplyBuild, ClosedNodes, FoundNodes, ClosedRels, FoundRels
  <1>2. ASSUME NEW x, x = i
        PROVE  /\ IsGraph(x)
               /\ x.sources = g.sources /\ x.rels = g.rels /\ x.deadRels = g.deadRels
               /\ x.nodes = (g.nodes \ gone) \cup FoundNodes(g, e)
               /\ x.dead = g.dead \cup gone
    <2> HIDE DEF gone
    <2> QED BY <1>2 DEF IsGraph
  <1>3. /\ IsGraph(h)
        /\ h.sources = i.sources /\ h.nodes = i.nodes /\ h.dead = i.dead
        /\ h.rels = (i.rels \ goneRels) \cup new
        /\ h.deadRels = i.deadRels \cup goneRels
    <2>1. IsGraph(i)
      BY <1>2
    <2> HIDE DEF i, goneRels, new
    <2> QED BY <1>1, <2>1 DEF IsGraph
  <1> HIDE DEF i
  <1>4. Known(h) = Known(i)
    BY <1>3 DEF Known
  <1>5. new = FoundRels(g, e, h)
    BY <1>4 DEF FoundRels
  <1> HIDE DEF new
  <1> QED BY <1>2, <1>3, <1>5

\* The graph that a linking makes, field by field.
LEMMA LinkingFields ==
  ASSUME NEW g, IsGraph(g), NEW e, NEW h, h = ApplyLinking(g, e)
  PROVE  /\ IsGraph(h)
         /\ h.sources = g.sources
         /\ h.nodes = g.nodes
         /\ h.dead = g.dead
         /\ h.rels = (g.rels \ Unlinked(g, e)) \cup Links(g, e)
         /\ h.deadRels = g.deadRels \cup Unlinked(g, e)
  <1>1. h = [g EXCEPT !.rels = (@ \ Unlinked(g, e)) \cup Links(g, e),
                      !.deadRels = @ \cup Unlinked(g, e),
                      !.linked = @ \cup Links(g, e)]
    BY DEF ApplyLinking, Unlinked, Links
  <1> QED BY <1>1 DEF IsGraph

\* Whatever an event does, the graph stays one of events, its sources stay, and
\* of what it has known it forgets nothing.
LEMMA ApplyKeeps ==
  ASSUME NEW events, Orderly(events), NEW g, Grounded(g, events), NEW e \in events,
         NEW h, h = Apply(g, e)
  PROVE  Grounded(h, events) /\ h.sources = g.sources /\ Known(g) \subseteq Known(h)
  <1>1. EventOk(e, events) /\ IsGraph(g)
    BY DEF Orderly, Grounded
  <1>2. CASE g.sources = {}
    BY <1>2 DEF Apply
  <1>3. CASE g.sources # {} /\ e.op = "build"
    <2>1. h = ApplyBuild(g, e)
      BY <1>3 DEF Apply
    <2>2. /\ IsGraph(h)
          /\ h.sources = g.sources
          /\ h.nodes = (g.nodes \ ClosedNodes(g, e)) \cup FoundNodes(g, e)
          /\ h.dead = g.dead \cup ClosedNodes(g, e)
          /\ h.rels = (g.rels \ ClosedRels(g, e)) \cup FoundRels(g, e, h)
          /\ h.deadRels = g.deadRels \cup ClosedRels(g, e)
      BY <1>1, <2>1, BuildFields
    <2>3. Known(g) \subseteq Known(h)
      BY <2>2 DEF Known
    <2>4. ASSUME NEW n \in Known(h) PROVE n[1] \in h.sources /\ Named(n, events)
      <3>1. n \in Known(g) \/ (n \in e.nodes /\ n[1] \in g.sources)
        BY <2>2 DEF Known, ClosedNodes, FoundNodes
      <3>2. n \in e.nodes => Named(n, events)
        BY <1>3 DEF Named, Builds
      <3> QED BY <2>2, <3>1, <3>2 DEF Grounded
    <2>5. ASSUME NEW s \in h.sources PROVE RootOf(s) \in h.nodes
      <3>1. RootOf(s) \in g.nodes /\ RootOf(s)[1] = s
        BY <2>2 DEF Grounded, RootOf
      <3>2. RootOf(e.source) \in e.nodes
        BY <1>1, <1>3 DEF EventOk
      <3>3. RootOf(s) \notin ClosedNodes(g, e)
        BY <3>1, <3>2 DEF ClosedNodes
      <3> QED BY <2>2, <3>1, <3>3
    <2>6. ASSUME NEW r \in h.rels \cup h.deadRels
          PROVE  /\ EvidenceOf(r) \subseteq h.sources
                 /\ Ends(r) \subseteq Known(h)
                 /\ \E d \in events : r \in d.rels
      <3>1. CASE r \in g.rels \cup g.deadRels
        BY <2>2, <2>3, <3>1 DEF Grounded
      <3>2. CASE r \notin g.rels \cup g.deadRels
        <4>1. r \in e.rels /\ Ends(r) \subseteq Known(h) /\ EvidenceOf(r) \cap g.sources # {}
          BY <2>2, <3>2 DEF ClosedRels, FoundRels
        <4>2. EvidenceOf(r) = {e.source}
          BY <1>1, <1>3, <4>1 DEF EventOk
        <4> QED BY <2>2, <4>1, <4>2
      <3> QED BY <3>1, <3>2
    <2> QED BY <2>2, <2>3, <2>4, <2>5, <2>6 DEF Grounded
  <1>4. CASE g.sources # {} /\ e.op = "linking"
    <2>1. h = ApplyLinking(g, e)
      BY <1>4 DEF Apply
    <2>2. /\ IsGraph(h)
          /\ h.sources = g.sources
          /\ h.nodes = g.nodes
          /\ h.dead = g.dead
          /\ h.rels = (g.rels \ Unlinked(g, e)) \cup Links(g, e)
          /\ h.deadRels = g.deadRels \cup Unlinked(g, e)
      BY <1>1, <2>1, LinkingFields
    <2>3. Known(h) = Known(g)
      BY <2>2 DEF Known
    <2>4. ASSUME NEW r \in h.rels \cup h.deadRels
          PROVE  /\ EvidenceOf(r) \subseteq h.sources
                 /\ Ends(r) \subseteq Known(h)
                 /\ \E d \in events : r \in d.rels
      <3>1. CASE r \in g.rels \cup g.deadRels
        BY <2>2, <2>3, <3>1 DEF Grounded
      <3>2. CASE r \notin g.rels \cup g.deadRels
        BY <2>2, <2>3, <3>2 DEF Unlinked, Links
      <3> QED BY <3>1, <3>2
    <2> QED BY <2>2, <2>3, <2>4 DEF Grounded
  <1> QED BY <1>1, <1>2, <1>3, <1>4 DEF EventOk

\* Of the concepts of a source, a build of it leaves those it found live, and
\* any other event leaves them as they are.
LEMMA ApplyNodes ==
  ASSUME NEW events, Orderly(events), NEW g, Grounded(g, events), NEW e \in events,
         NEW h, h = Apply(g, e), NEW s \in g.sources
  PROVE  {n \in h.nodes : n[1] = s} =
           IF e.op = "build" /\ e.source = s THEN e.nodes ELSE {n \in g.nodes : n[1] = s}
  <1>1. EventOk(e, events) /\ IsGraph(g) /\ g.sources # {}
    BY DEF Orderly, Grounded
  <1>2. CASE e.op = "build"
    <2>1. h = ApplyBuild(g, e)
      BY <1>1, <1>2 DEF Apply
    <2>2. h.nodes = (g.nodes \ ClosedNodes(g, e)) \cup FoundNodes(g, e)
      BY <1>1, <2>1, BuildFields
    <2>3. \A n \in e.nodes : n[1] = e.source
      BY <1>1, <1>2 DEF EventOk
    <2> QED BY <1>2, <2>2, <2>3 DEF ClosedNodes, FoundNodes
  <1>3. CASE e.op = "linking"
    <2>1. h = ApplyLinking(g, e)
      BY <1>1, <1>3 DEF Apply
    <2>2. h.nodes = g.nodes
      BY <1>1, <2>1, LinkingFields
    <2> QED BY <1>3, <2>2
  <1> QED BY <1>1, <1>2, <1>3 DEF EventOk

\* The events that say whether a relation is live.
Touches(e, r) ==
  \/ e.op = "build" /\ e.source \in EvidenceOf(r)
  \/ e.op = "linking" /\ r \in e.targets

\* A relation of the graph's sources is live after an event that touches it
\* just when the event has it and its ends are known; and any other event
\* leaves it as it is.
LEMMA ApplyRels ==
  ASSUME NEW events, Orderly(events), NEW g, Grounded(g, events), NEW e \in events,
         \A n : Named(n, Before(e, events)) /\ n[1] \in g.sources => n \in Known(g),
         NEW h, h = Apply(g, e), NEW r, EvidenceOf(r) \subseteq g.sources
  PROVE  r \in h.rels <=>
           IF Touches(e, r)
           THEN r \in e.rels /\ (e.op = "build" => Ends(r) \subseteq Known(h))
           ELSE r \in g.rels
  <1>0. EvidenceOf(r) # {}
    BY DEF EvidenceOf
  <1>1. EventOk(e, events) /\ IsGraph(g) /\ g.sources # {}
    BY <1>0 DEF Orderly, Grounded
  <1>2. CASE e.op = "build"
    <2>1. h = ApplyBuild(g, e)
      BY <1>1, <1>2 DEF Apply
    <2>2. h.rels = (g.rels \ ClosedRels(g, e)) \cup FoundRels(g, e, h)
      BY <1>1, <2>1, BuildFields
    <2>3. \A q \in e.rels : EvidenceOf(q) = {e.source}
      BY <1>1, <1>2 DEF EventOk
    <2>4. Known(g) \subseteq Known(h)
      BY ApplyKeeps
    <2>5. r \in g.rels => Ends(r) \subseteq Known(h)
      BY <2>4 DEF Grounded
    <2>6. CASE e.source \in EvidenceOf(r)
      <3>1. Touches(e, r)
        BY <1>2, <2>6 DEF Touches
      <3>2. r \in e.rels => EvidenceOf(r) \cap g.sources # {}
        BY <1>0
      <3>3. r \in h.rels <=> r \in e.rels /\ Ends(r) \subseteq Known(h)
        BY <2>2, <2>5, <2>6, <3>2 DEF ClosedRels, FoundRels
      <3> QED BY <1>2, <3>1, <3>3
    <2>7. CASE e.source \notin EvidenceOf(r)
      <3>1. ~Touches(e, r)
        BY <1>2, <2>7 DEF Touches
      <3>2. r \notin e.rels
        BY <2>3, <2>7
      <3>3. r \in h.rels <=> r \in g.rels
        BY <2>2, <2>7, <3>2 DEF ClosedRels, FoundRels
      <3> QED BY <3>1, <3>3
    <2> QED BY <2>6, <2>7
  <1>3. CASE e.op = "linking"
    <2>1. h = ApplyLinking(g, e)
      BY <1>1, <1>3 DEF Apply
    <2>2. h.rels = (g.rels \ Unlinked(g, e)) \cup Links(g, e)
      BY <1>1, <2>1, LinkingFields
    <2>3. r \in e.rels => r \in e.targets /\ CrossSource(r) /\ Ends(r) \subseteq Known(g)
      <3> SUFFICES ASSUME r \in e.rels
                   PROVE  r \in e.targets /\ CrossSource(r) /\ Ends(r) \subseteq Known(g)
        OBVIOUS
      <3>1. r \in e.targets /\ CrossSource(r) /\ \A n \in Ends(r) : Named(n, Before(e, events))
        BY <1>1, <1>3 DEF EventOk
      <3>2. \A n \in Ends(r) : n[1] \in g.sources
        BY DEF Ends, EvidenceOf
      <3> QED BY <3>1, <3>2
    <2>4. Touches(e, r) <=> r \in e.targets
      BY <1>3 DEF Touches
    <2>5. CASE r \in e.targets
      <3>1. r \in h.rels <=> r \in e.rels
        BY <2>2, <2>3, <2>5 DEF Unlinked, Links
      <3> QED BY <1>3, <2>4, <2>5, <3>1
    <2>6. CASE r \notin e.targets
      <3>1. r \in h.rels <=> r \in g.rels
        BY <2>2, <2>3, <2>6 DEF Unlinked, Links
      <3> QED BY <2>4, <2>6, <3>1
    <2> QED BY <2>5, <2>6
  <1> QED BY <1>1, <1>2, <1>3 DEF EventOk
-----------------------------------------------------------------------------
(* All events, one version after the other.                                *)

\* A version has one event, or none and the graph stays.
LEMMA StepIsOfOneEvent ==
  ASSUME NEW events, NEW g, NEW v
  PROVE  \/ /\ \A e \in events : PlaceOf(e) # v
            /\ Step(g, events, v) = g
         \/ \E e \in events : PlaceOf(e) = v /\ Step(g, events, v) = Apply(g, e)
  BY DEF Step

\* The versions of events are those that a run goes through.
LEMMA Versions ==
  ASSUME NEW events, Orderly(events)
  PROVE  /\ Newest(events) \in Nat
         /\ \A e \in events : PlaceOf(e) \in 1 .. Newest(events)
  <1>1. \A e \in events : PlaceOf(e) \in Nat \ {0}
    BY DEF Orderly, EventOk
  <1>2. /\ Newest(events) \in Nat
        /\ \A e \in events : PlaceOf(e) <= Newest(events)
    BY <1>1, NewestIsLast DEF Orderly
  <1> QED BY <1>1, <1>2

\* At version v the graph is of events and sources as before, and knows what
\* the builds up to v have found in its sources.
Reached(run, g, events, v) ==
  /\ Grounded(run[v], events)
  /\ run[v].sources = g.sources
  /\ \A d \in Builds(events) : PlaceOf(d) <= v =>
       \A n \in d.nodes : n[1] \in g.sources => n \in Known(run[v])

\* Every graph a run goes through is one of events, of the same sources.
LEMMA RunReaches ==
  ASSUME NEW events, Orderly(events), NEW g, Grounded(g, events),
         NEW run, IsRun(run, g, events)
  PROVE  \A v \in 0 .. Newest(events) : Reached(run, g, events, v)
  <1> DEFINE N == Newest(events)
             T == {v \in Nat : v <= N => Reached(run, g, events, v)}
  <1>0. N \in Nat /\ \A e \in events : PlaceOf(e) \in 1 .. N
    BY Versions
  <1>1. 0 \in T
    <2>1. \A d \in Builds(events) : PlaceOf(d) \in 1 .. N
      BY <1>0 DEF Builds
    <2>2. \A d \in Builds(events) : ~(PlaceOf(d) <= 0)
      BY <1>0, <2>1
    <2>3. Reached(run, g, events, 0)
      BY <2>2 DEF Reached, IsRun
    <2> QED BY <2>3
  <1>2. ASSUME NEW u \in Nat, u \in T PROVE u + 1 \in T
    <2> DEFINE v == u + 1
    <2> SUFFICES ASSUME v <= N PROVE Reached(run, g, events, v)
      OBVIOUS
    <2>1. v \in 1 .. N /\ v - 1 = u /\ u <= N
      BY <1>0
    <2>2. Reached(run, g, events, u)
      BY <1>2, <2>1
    <2>3. run[v] = Step(run[u], events, v)
      BY <2>1 DEF IsRun
    <2> HIDE DEF v
    <2>4. CASE (\A e \in events : PlaceOf(e) # v) /\ run[v] = run[u]
      <3>1. ASSUME NEW d \in Builds(events), PlaceOf(d) <= v PROVE PlaceOf(d) <= u
        <4>1. d \in events
          BY DEF Builds
        <4>2. PlaceOf(d) # v /\ PlaceOf(d) \in 1 .. N
          BY <1>0, <2>4, <4>1
        <4> QED BY <1>0, <2>1, <3>1, <4>2
      <3> QED BY <2>2, <2>4, <3>1 DEF Reached
    <2>5. ASSUME NEW e \in events, PlaceOf(e) = v, run[v] = Apply(run[u], e)
          PROVE  Reached(run, g, events, v)
      <3>1. /\ Grounded(run[v], events)
            /\ run[v].sources = g.sources
            /\ Known(run[u]) \subseteq Known(run[v])
        BY <2>2, <2>5, ApplyKeeps DEF Reached
      <3>2. ASSUME NEW d \in Builds(events), PlaceOf(d) <= v, NEW n \in d.nodes, n[1] \in g.sources
            PROVE  n \in Known(run[v])
        <4>1. d \in events /\ d.op = "build"
          BY DEF Builds
        <4>2. CASE PlaceOf(d) = v
          <5>1. d = e
            BY <2>5, <4>1, <4>2 DEF Orderly
          <5>2. n[1] = e.source
            BY <4>1, <5>1 DEF Orderly, EventOk
          <5>3. {m \in run[v].nodes : m[1] = n[1]} = e.nodes
            BY <2>2, <2>5, <3>2, <4>1, <5>1, <5>2, ApplyNodes DEF Reached
          <5> QED BY <5>1, <5>3 DEF Known
        <4>3. CASE PlaceOf(d) # v
          <5>1. PlaceOf(d) <= u
            <6>1. PlaceOf(d) \in 1 .. N
              BY <1>0, <4>1
            <6> QED BY <1>0, <2>1, <3>2, <4>3, <6>1
          <5> QED BY <2>2, <3>1, <3>2, <5>1 DEF Reached
        <4> QED BY <4>2, <4>3
      <3> QED BY <3>1, <3>2 DEF Reached
    <2> QED BY <2>3, <2>4, <2>5, StepIsOfOneEvent
  <1>3. Nat \subseteq T
    <2> HIDE DEF T
    <2> QED BY <1>1, <1>2, FromZeroOn
  <1>4. ASSUME NEW v \in 0 .. N PROVE Reached(run, g, events, v)
    <2>1. v \in Nat /\ v <= N
      BY <1>0
    <2> QED BY <1>3, <2>1
  <1> QED BY <1>4

\* The build of a source that was made last.
IsLastBuild(e, events) ==
  /\ e \in Builds(events)
  /\ \A d \in Builds(events) : d.source = e.source => PlaceOf(d) <= PlaceOf(e)

\* From its version on, the concepts of its source are those it found.
LEMMA RunShowsLastBuild ==
  ASSUME NEW events, Orderly(events), NEW g, Grounded(g, events),
         NEW run, IsRun(run, g, events),
         NEW e, IsLastBuild(e, events), e.source \in g.sources
  PROVE  {n \in run[Newest(events)].nodes : n[1] = e.source} = e.nodes
  <1> DEFINE N == Newest(events)
             Shows(v) == {n \in run[v].nodes : n[1] = e.source} = e.nodes
             T == {v \in Nat : v <= N /\ PlaceOf(e) <= v => Shows(v)}
  <1>0. N \in Nat /\ \A d \in events : PlaceOf(d) \in 1 .. N
    BY Versions
  <1>1. e \in events /\ e.op = "build" /\ PlaceOf(e) \in 1 .. N
    BY <1>0 DEF IsLastBuild, Builds
  <1>2. 0 \in T
    BY <1>0, <1>1
  <1>3. ASSUME NEW u \in Nat, u \in T PROVE u + 1 \in T
    <2> DEFINE v == u + 1
    <2> SUFFICES ASSUME v <= N, PlaceOf(e) <= v PROVE Shows(v)
      OBVIOUS
    <2>1. v \in 1 .. N /\ v - 1 = u /\ u \in 0 .. N /\ u <= N
      BY <1>0
    <2>2. Reached(run, g, events, u)
      BY <2>1, RunReaches
    <2>3. run[v] = Step(run[u], events, v)
      BY <2>1 DEF IsRun
    <2>4. PlaceOf(e) <= u \/ PlaceOf(e) = v
      BY <1>0, <1>1, <2>1
    <2>5. PlaceOf(e) <= u => Shows(u)
      BY <1>3, <2>1
    <2> HIDE DEF v, T
    <2>6. CASE (\A d \in events : PlaceOf(d) # v) /\ run[v] = run[u]
      BY <1>1, <2>4, <2>5, <2>6
    <2>7. ASSUME NEW d \in events, PlaceOf(d) = v, run[v] = Apply(run[u], d) PROVE Shows(v)
      <3>1. {n \in run[v].nodes : n[1] = e.source} =
              IF d.op = "build" /\ d.source = e.source THEN d.nodes
              ELSE {n \in run[u].nodes : n[1] = e.source}
        BY <2>2, <2>7, ApplyNodes DEF Reached
      <3>2. CASE d = e
        BY <1>1, <3>1, <3>2
      <3>3. CASE d # e
        <4>1. PlaceOf(e) # v
          BY <1>1, <2>7, <3>3 DEF Orderly
        <4>2. PlaceOf(e) <= u /\ ~(v <= PlaceOf(e))
          BY <1>0, <1>1, <2>1, <2>4, <4>1
        <4>3. ~(d.op = "build" /\ d.source = e.source)
          BY <2>7, <4>2 DEF IsLastBuild, Builds
        <4> QED BY <2>5, <3>1, <4>2, <4>3
      <3> QED BY <3>2, <3>3
    <2> QED BY <2>3, <2>6, <2>7, StepIsOfOneEvent
  <1>4. N \in T
    <2> HIDE DEF T, N
    <2> QED BY <1>0, <1>2, <1>3, FromZeroOn
  <1> QED BY <1>0, <1>1, <1>4

\* The last event that says whether a relation is live.
IsLastWord(e, r, events) ==
  /\ e \in events /\ Touches(e, r)
  /\ \A d \in events : Touches(d, r) => PlaceOf(d) <= PlaceOf(e)

\* A build's relation counts if the builds know its ends.
Says(e, r, events) ==
  r \in e.rels /\ (e.op = "build" => \A n \in Ends(r) : Named(n, events))

\* From that event's version on, the relation is live just if the event has it.
LEMMA RunKeepsLastWord ==
  ASSUME NEW events, Orderly(events), NEW g, Grounded(g, events),
         NEW run, IsRun(run, g, events),
         NEW r, EvidenceOf(r) \subseteq g.sources, NEW e, IsLastWord(e, r, events)
  PROVE  r \in run[Newest(events)].rels <=> Says(e, r, events)
  <1> DEFINE N == Newest(events)
             Agrees(v) == r \in run[v].rels <=> Says(e, r, events)
             T == {v \in Nat : v <= N /\ PlaceOf(e) <= v => Agrees(v)}
  <1>0. N \in Nat /\ \A d \in events : PlaceOf(d) \in 1 .. N
    BY Versions
  <1>1. e \in events /\ Touches(e, r) /\ PlaceOf(e) \in 1 .. N
    BY <1>0 DEF IsLastWord
  <1>2. 0 \in T
    BY <1>0, <1>1
  <1>3. ASSUME NEW u \in Nat, u \in T PROVE u + 1 \in T
    <2> DEFINE v == u + 1
    <2> SUFFICES ASSUME v <= N, PlaceOf(e) <= v PROVE Agrees(v)
      OBVIOUS
    <2>1. v \in 1 .. N /\ v \in 0 .. N /\ v - 1 = u /\ u \in 0 .. N /\ u <= N
      BY <1>0
    <2>2. Reached(run, g, events, u) /\ Reached(run, g, events, v)
      BY <2>1, RunReaches
    <2>3. run[v] = Step(run[u], events, v)
      BY <2>1 DEF IsRun
    <2>4. PlaceOf(e) <= u \/ PlaceOf(e) = v
      BY <1>0, <1>1, <2>1
    <2>5. PlaceOf(e) <= u => Agrees(u)
      BY <1>3, <2>1
    <2> HIDE DEF v, T
    <2>6. CASE (\A d \in events : PlaceOf(d) # v) /\ run[v] = run[u]
      BY <1>1, <2>4, <2>5, <2>6
    <2>7. ASSUME NEW d \in events, PlaceOf(d) = v, run[v] = Apply(run[u], d) PROVE Agrees(v)
      <3>1. \A n : Named(n, Before(d, events)) /\ n[1] \in g.sources => n \in Known(run[u])
        <4> SUFFICES ASSUME NEW n, Named(n, Before(d, events)), n[1] \in g.sources
                     PROVE  n \in Known(run[u])
          OBVIOUS
        <4>1. CASE n = RootOf(n[1])
          BY <2>2, <4>1 DEF Reached, Grounded, Known
        <4>2. ASSUME NEW b \in Builds(Before(d, events)), n \in b.nodes
              PROVE  n \in Known(run[u])
          <5>1. b \in Builds(events) /\ b \in events /\ PlaceOf(b) < v
            BY <2>7 DEF Builds, Before
          <5>2. PlaceOf(b) <= u
            BY <1>0, <2>1, <5>1
          <5> QED BY <2>2, <4>2, <5>1, <5>2 DEF Reached
        <4> QED BY <4>1, <4>2 DEF Named
      <3>2. r \in run[v].rels <=>
              IF Touches(d, r)
              THEN r \in d.rels /\ (d.op = "build" => Ends(r) \subseteq Known(run[v]))
              ELSE r \in run[u].rels
        BY <2>2, <2>7, <3>1, ApplyRels DEF Reached
      <3>3. CASE d = e
        <4>1. ASSUME e.op = "build", r \in e.rels
              PROVE  Ends(r) \subseteq Known(run[v]) <=> \A n \in Ends(r) : Named(n, events)
          <5>1. EvidenceOf(r) = {e.source}
            BY <1>1, <4>1 DEF Orderly, EventOk
          <5>2. ASSUME NEW n \in Ends(r), Named(n, events) PROVE n \in Known(run[v])
            <6>1. n[1] = e.source /\ n[1] \in g.sources
              BY <5>1 DEF Ends, EvidenceOf
            <6>2. CASE n = RootOf(n[1])
              BY <2>2, <6>1, <6>2 DEF Reached, Grounded, Known
            <6>3. ASSUME NEW b \in Builds(events), n \in b.nodes PROVE n \in Known(run[v])
              <7>1. b \in events /\ b.op = "build"
                BY DEF Builds
              <7>2. b.source = e.source
                BY <6>1, <6>3, <7>1 DEF Orderly, EventOk
              <7>3. PlaceOf(b) <= v
                BY <2>7, <3>3, <5>1, <7>1, <7>2 DEF IsLastWord, Touches
              <7> QED BY <2>2, <6>1, <6>3, <7>3 DEF Reached
            <6> QED BY <5>2, <6>2, <6>3 DEF Named
          <5>3. ASSUME NEW n \in Known(run[v]) PROVE Named(n, events)
            BY <2>2 DEF Reached, Grounded
          <5> QED BY <5>2, <5>3
        <4> QED BY <1>1, <3>2, <3>3, <4>1 DEF Says
      <3>4. CASE d # e
        <4>1. PlaceOf(e) # v
          BY <1>1, <2>7, <3>4 DEF Orderly
        <4>2. PlaceOf(e) <= u /\ ~(v <= PlaceOf(e))
          BY <1>0, <1>1, <2>1, <2>4, <4>1
        <4>3. ~Touches(d, r)
          BY <2>7, <4>2 DEF IsLastWord
        <4> QED BY <2>5, <3>2, <4>2, <4>3
      <3> QED BY <3>3, <3>4
    <2> QED BY <2>3, <2>6, <2>7, StepIsOfOneEvent
  <1>4. N \in T
    <2> HIDE DEF T, N
    <2> QED BY <1>0, <1>2, <1>3, FromZeroOn
  <1> QED BY <1>0, <1>1, <1>4
-----------------------------------------------------------------------------
(* What a replay shows depends on events and sources alone.                *)

\* A source that was not built is shown by its own node, and one that was by
\* its last build.
ShownNodes(events, sources) ==
  {RootOf(s) : s \in {t \in sources : \A e \in Builds(events) : e.source # t}}
    \cup UNION {e.nodes : e \in {b \in events : IsLastBuild(b, events) /\ b.source \in sources}}

\* Each relation of the sources is as the last event that touches it says.
ShownRels(events, sources) ==
  {r \in UNION {e.rels : e \in events} :
     /\ EvidenceOf(r) \subseteq sources
     /\ \E e \in events : IsLastWord(e, r, events) /\ Says(e, r, events)}

\* A source has no build, or one of its builds is the last.
LEMMA LastBuildExists ==
  ASSUME NEW events, Orderly(events), NEW d \in Builds(events)
  PROVE  \E e \in events : IsLastBuild(e, events) /\ e.source = d.source
  <1> DEFINE S == {e \in Builds(events) : e.source = d.source}
  <1>1. IsFiniteSet(S) /\ S # {}
    <2>1. S \in SUBSET events
      BY DEF Builds
    <2> QED BY <2>1, FS_Subset DEF Orderly
  <1>2. \A e \in S : PlaceOf(e) \in Nat
    BY DEF Orderly, EventOk, Builds
  <1>3. PICK e \in S : \A b \in S : PlaceOf(b) <= PlaceOf(e)
    <2> HIDE DEF S
    <2> QED BY <1>1, <1>2, HasLast
  <1> QED BY <1>3 DEF IsLastBuild, Builds

\* A relation that an event has was touched by one of them last.
LEMMA LastWordExists ==
  ASSUME NEW events, Orderly(events), NEW d \in events, NEW r \in d.rels
  PROVE  \E e \in events : IsLastWord(e, r, events)
  <1> DEFINE S == {e \in events : Touches(e, r)}
  <1>1. Touches(d, r)
    BY DEF Orderly, EventOk, Touches
  <1>2. IsFiniteSet(S) /\ S # {}
    <2>1. S \in SUBSET events
      OBVIOUS
    <2> QED BY <1>1, <2>1, FS_Subset DEF Orderly
  <1>3. \A e \in S : PlaceOf(e) \in Nat
    BY DEF Orderly, EventOk
  <1>4. PICK e \in S : \A b \in S : PlaceOf(b) <= PlaceOf(e)
    <2> HIDE DEF S
    <2> QED BY <1>2, <1>3, HasLast
  <1> QED BY <1>4 DEF IsLastWord

\* Replaying events over any graph of them shows the same nodes and relations:
\* what the graph was before makes no difference.
LEMMA AppliedShows ==
  ASSUME NEW events, Orderly(events), NEW g, Grounded(g, events),
         NEW h, h = Applied(g, events)
  PROVE  /\ Grounded(h, events)
         /\ h.sources = g.sources
         /\ h.nodes = ShownNodes(events, g.sources)
         /\ h.rels = ShownRels(events, g.sources)
  <1> DEFINE N == Newest(events)
  <1>0. N \in Nat
    BY Versions
  <1>1. PICK run : IsRun(run, g, events) /\ h = run[N]
    BY <1>0, AppliedIsRun
  <1>2. Reached(run, g, events, N)
    BY <1>0, <1>1, RunReaches
  <1>3. Grounded(h, events) /\ h.sources = g.sources
    BY <1>1, <1>2 DEF Reached
  <1>4. ASSUME NEW e \in events, IsLastBuild(e, events), e.source \in g.sources
        PROVE  {n \in h.nodes : n[1] = e.source} = e.nodes
    BY <1>1, <1>4, RunShowsLastBuild
  <1>5. \A n \in h.nodes : n[1] \in g.sources /\ Named(n, events)
    BY <1>3 DEF Grounded, Known
  <1>6. ASSUME NEW n \in h.nodes PROVE n \in ShownNodes(events, g.sources)
    <2>1. CASE \A e \in Builds(events) : e.source # n[1]
      <3>1. ASSUME NEW e \in Builds(events), n \in e.nodes PROVE FALSE
        BY <2>1, <3>1 DEF Builds, Orderly, EventOk
      <3>2. n = RootOf(n[1])
        BY <1>5, <3>1 DEF Named
      <3> QED BY <1>5, <2>1, <3>2 DEF ShownNodes
    <2>2. ASSUME NEW d \in Builds(events), d.source = n[1]
          PROVE  n \in ShownNodes(events, g.sources)
      <3>1. PICK e \in events : IsLastBuild(e, events) /\ e.source = n[1]
        BY <2>2, LastBuildExists
      <3>2. n \in e.nodes
        BY <1>4, <1>5, <3>1
      <3> QED BY <1>5, <3>1, <3>2 DEF ShownNodes
    <2> QED BY <2>1, <2>2
  <1>7. ASSUME NEW n \in ShownNodes(events, g.sources) PROVE n \in h.nodes
    <2>1. ASSUME NEW s \in g.sources, n = RootOf(s) PROVE n \in h.nodes
      BY <1>3, <2>1 DEF Grounded
    <2>2. ASSUME NEW e \in events, IsLastBuild(e, events), e.source \in g.sources, n \in e.nodes
          PROVE  n \in h.nodes
      BY <1>4, <2>2
    <2> QED BY <2>1, <2>2 DEF ShownNodes
  <1>8. ASSUME NEW r, EvidenceOf(r) \subseteq g.sources,
               NEW e \in events, IsLastWord(e, r, events)
        PROVE  r \in h.rels <=> Says(e, r, events)
    BY <1>1, <1>8, RunKeepsLastWord
  <1>9. ASSUME NEW r \in h.rels PROVE r \in ShownRels(events, g.sources)
    <2>1. PICK d \in events : r \in d.rels
      BY <1>3 DEF Grounded
    <2>2. EvidenceOf(r) \subseteq g.sources
      BY <1>3 DEF Grounded
    <2>3. PICK e \in events : IsLastWord(e, r, events)
      BY <2>1, LastWordExists
    <2> QED BY <1>8, <2>1, <2>2, <2>3 DEF ShownRels
  <1>10. ASSUME NEW r \in ShownRels(events, g.sources) PROVE r \in h.rels
    BY <1>8 DEF ShownRels
  <1> QED BY <1>3, <1>6, <1>7, <1>9, <1>10

\* What a replay starts from.
Cleared(g, events, linked, keepRels, keepNodes) ==
  [Clear(g, events, linked, keepRels, keepNodes) EXCEPT !.linked = {}]

\* Clearing before a replay closes and drops, and forgets no node.
LEMMA ClearKeeps ==
  ASSUME NEW events, NEW g, Grounded(g, events),
         NEW linked, NEW keepRels, NEW keepNodes,
         NEW h, h = Cleared(g, events, linked, keepRels, keepNodes)
  PROVE  Grounded(h, events) /\ h.sources = g.sources
  <1> DEFINE builds == {e \in events : e.op = "build"}
             targets == UNION {e.nodes : e \in builds}
             targetRels == UNION {e.rels : e \in builds}
             closed == {n \in g.nodes : ~IsRoot(n) /\ n \in targets /\ n \notin keepNodes}
             closedRels == {r \in g.rels : r \in targetRels /\ r \notin keepRels \cup linked}
             dropped == linked \ keepRels
             c == [g EXCEPT !.nodes = @ \ closed,
                            !.dead = @ \cup closed,
                            !.rels = @ \ (closedRels \cup dropped),
                            !.deadRels = (@ \ dropped) \cup closedRels]
  <1>0. IsGraph(g)
    BY DEF Grounded
  <1>1. h = [g EXCEPT !.linked = {}] \/ h = [c EXCEPT !.linked = {}]
    BY DEF Cleared, Clear
  <1>2. ASSUME h = [g EXCEPT !.linked = {}]
        PROVE  /\ IsGraph(h) /\ h.sources = g.sources /\ h.nodes = g.nodes /\ h.dead = g.dead
               /\ h.rels = g.rels /\ h.deadRels = g.deadRels
    BY <1>0, <1>2 DEF IsGraph
  <1>3. ASSUME NEW x, x = c
        PROVE  /\ IsGraph(x) /\ x.sources = g.sources
               /\ x.nodes = g.nodes \ closed /\ x.dead = g.dead \cup closed
               /\ x.rels = g.rels \ (closedRels \cup dropped)
               /\ x.deadRels = (g.deadRels \ dropped) \cup closedRels
    <2> HIDE DEF closed, closedRels, dropped
    <2> QED BY <1>0, <1>3 DEF IsGraph
  <1>4. ASSUME NEW x, IsGraph(x), h = [x EXCEPT !.linked = {}]
        PROVE  /\ IsGraph(h) /\ h.sources = x.sources /\ h.nodes = x.nodes /\ h.dead = x.dead
               /\ h.rels = x.rels /\ h.deadRels = x.deadRels
    BY <1>4 DEF IsGraph
  <1>5. /\ IsGraph(h) /\ h.sources = g.sources
        /\ g.nodes \ closed \subseteq h.nodes
        /\ h.nodes \cup h.dead = g.nodes \cup g.dead
        /\ h.rels \cup h.deadRels \subseteq g.rels \cup g.deadRels
    <2>1. CASE h = [g EXCEPT !.linked = {}]
      BY <1>2, <2>1
    <2>2. CASE h = [c EXCEPT !.linked = {}]
      <3>1. /\ IsGraph(h) /\ h.sources = c.sources /\ h.nodes = c.nodes /\ h.dead = c.dead
            /\ h.rels = c.rels /\ h.deadRels = c.deadRels
        <4>1. IsGraph(c)
          BY <1>3
        <4> HIDE DEF c
        <4> QED BY <1>4, <2>2, <4>1
      <3>2. closed \subseteq g.nodes /\ closedRels \subseteq g.rels
        OBVIOUS
      <3> HIDE DEF c, closed, closedRels, dropped
      <3> QED BY <1>3, <3>1, <3>2
    <2> QED BY <1>1, <2>1, <2>2
  <1>6. Known(h) = Known(g)
    BY <1>5 DEF Known
  <1>7. \A s \in g.sources : RootOf(s) \in g.nodes \ closed
    BY DEF Grounded, RootOf, IsRoot
  <1> HIDE DEF closed
  <1> QED BY <1>5, <1>6, <1>7 DEF Grounded

\* A replay shows what its events and the graph's sources say.
LEMMA ReplayShows ==
  ASSUME NEW events, Orderly(events), NEW g, Grounded(g, events),
         NEW linked, NEW keepRels, NEW keepNodes,
         NEW h, h = Replay(g, events, linked, keepRels, keepNodes)
  PROVE  /\ Grounded(h, events)
         /\ h.sources = g.sources
         /\ h.nodes = ShownNodes(events, g.sources)
         /\ h.rels = ShownRels(events, g.sources)
  <1> DEFINE c == Cleared(g, events, linked, keepRels, keepNodes)
  <1>1. h = Applied(c, events)
    BY DEF Replay, Cleared
  <1>2. c = Cleared(g, events, linked, keepRels, keepNodes)
    OBVIOUS
  <1> HIDE DEF c
  <1>3. Grounded(c, events) /\ c.sources = g.sources
    BY <1>2, ClearKeeps
  <1> QED BY <1>1, <1>3, AppliedShows

\* So does what a writer makes of the baseline it has read.
LEMMA EffectiveShows ==
  ASSUME NEW events, Orderly(events), NEW base, Grounded(base, events), NEW linked,
         NEW h, h = Effective(base, events, linked)
  PROVE  /\ Grounded(h, events)
         /\ h.sources = base.sources
         /\ h.nodes = ShownNodes(events, base.sources)
         /\ h.rels = ShownRels(events, base.sources)
  <1> DEFINE g == Replay(base, events, linked, ProtectedRels(base, linked),
                         ProtectedNodes(base, linked))
             carried == {r \in linked \cap (g.rels \cup g.deadRels) :
                           /\ Ends(r) \subseteq Known(g)
                           /\ EvidenceOf(r) \subseteq g.sources
                           /\ CrossSource(r)}
  <1>1. h = [g EXCEPT !.linked = @ \cup carried]
    BY DEF Effective
  <1>2. /\ Grounded(g, events)
        /\ g.sources = base.sources
        /\ g.nodes = ShownNodes(events, base.sources)
        /\ g.rels = ShownRels(events, base.sources)
    BY ReplayShows
  <1> HIDE DEF g, carried
  <1>3. /\ IsGraph(h) /\ h.sources = g.sources /\ h.nodes = g.nodes /\ h.dead = g.dead
        /\ h.rels = g.rels /\ h.deadRels = g.deadRels
    <2>1. IsGraph(g)
      BY <1>2 DEF Grounded
    <2> QED BY <1>1, <2>1 DEF IsGraph
  <1>4. Grounded(h, events)
    BY <1>2, <1>3 DEF Grounded, Known
  <1> QED BY <1>2, <1>3, <1>4

\* And so does what is reconstructed from a graph in which everything lives again.
LEMMA ReconstructShows ==
  ASSUME NEW events, Orderly(events), NEW g, Grounded(g, events),
         NEW h, h = Reconstruct(g, events)
  PROVE  /\ h.nodes = ShownNodes(events, g.sources)
         /\ h.rels = ShownRels(events, g.sources)
  <1> DEFINE c == [g EXCEPT !.nodes = @ \cup g.dead, !.rels = @ \cup g.deadRels,
                            !.dead = {}, !.deadRels = {}]
  <1>1. h = Replay(c, events, {}, {}, {})
    BY DEF Reconstruct
  <1>2. ASSUME NEW x, x = c
        PROVE  /\ IsGraph(x) /\ x.sources = g.sources
               /\ x.nodes = g.nodes \cup g.dead /\ x.rels = g.rels \cup g.deadRels
               /\ x.dead = {} /\ x.deadRels = {}
    BY <1>2 DEF Grounded, IsGraph
  <1> HIDE DEF c
  <1>3. Known(c) = Known(g)
    BY <1>2 DEF Known
  <1>4. c.rels \cup c.deadRels = g.rels \cup g.deadRels /\ g.nodes \subseteq c.nodes
    BY <1>2
  <1>5. IsGraph(c) /\ c.sources = g.sources
    BY <1>2
  <1>6. \A s \in c.sources : RootOf(s) \in c.nodes
    BY <1>4, <1>5 DEF Grounded
  <1>7. \A r \in c.rels \cup c.deadRels :
          /\ EvidenceOf(r) \subseteq c.sources
          /\ Ends(r) \subseteq Known(c)
          /\ \E e \in events : r \in e.rels
    BY <1>3, <1>4, <1>5 DEF Grounded
  <1>8. \A n \in Known(c) : n[1] \in c.sources /\ Named(n, events)
    BY <1>3, <1>5 DEF Grounded
  <1>9. Grounded(c, events)
    BY <1>5, <1>6, <1>7, <1>8 DEF Grounded
  <1> QED BY <1>1, <1>5, <1>9, ReplayShows
-----------------------------------------------------------------------------
(* The invariant.                                                          *)

IsCall(k) ==
  k = [stage |-> k.stage, source |-> k.source, base |-> k.base,
       event |-> k.event, built |-> k.built]

\* Events not yet written have places of their own, and link what builds in
\* the log have found.
PendingIsOrderly ==
  /\ IsFiniteSet(Pending)
  /\ \A e \in Pending : EventOk(e, log)
  /\ \A d, e \in log \cup Pending : PlaceOf(d) = PlaceOf(e) => d = e

\* A baseline, however old, is of events that are still in the log, and so is
\* what a process has reported.
BaselinesAreOfLog ==
  /\ call = [c \in Calls |-> call[c]]
  /\ \A c \in Calls :
       /\ IsCall(call[c])
       /\ call[c].base.log \subseteq log
       /\ Grounded(call[c].base.graph, log)
       /\ call[c].stage \in {"extracted", "linked"} => call[c].event # Nothing
       /\ call[c].stage = "extracted" => call[c].event.op = "build"
       /\ call[c].built \in Builds(log) \cup {Nothing}

\* The graph shows what the log and its own sources say.
ViewIsOfLog ==
  /\ Grounded(graph, log)
  /\ graph.nodes = ShownNodes(log, graph.sources)
  /\ graph.rels = ShownRels(log, graph.sources)

IInv ==
  /\ Orderly(log)
  /\ PendingIsOrderly
  /\ BaselinesAreOfLog
  /\ ViewIsOfLog

\* What is named by events is named by more events.
LEMMA MoreEvents ==
  ASSUME NEW events, NEW more, events \subseteq more
  PROVE  /\ \A g : Grounded(g, events) => Grounded(g, more)
         /\ \A e : EventOk(e, events) => EventOk(e, more)
  <1>1. ASSUME NEW n, Named(n, events) PROVE Named(n, more)
    BY <1>1 DEF Named, Builds
  <1>2. ASSUME NEW n, NEW e, Named(n, Before(e, events)) PROVE Named(n, Before(e, more))
    BY <1>2 DEF Named, Builds, Before
  <1>3. ASSUME NEW g, Grounded(g, events) PROVE Grounded(g, more)
    BY <1>1, <1>3 DEF Grounded
  <1>4. ASSUME NEW e, EventOk(e, events) PROVE EventOk(e, more)
    BY <1>2, <1>4 DEF EventOk
  <1> QED BY <1>3, <1>4

\* A graph of sources alone needs no events.
LEMMA BaseIsGrounded ==
  ASSUME NEW sources, NEW events
  PROVE  Grounded(BaseGraph(sources), events)
  <1> DEFINE g == BaseGraph(sources)
  <1>1. /\ IsGraph(g) /\ g.sources = sources /\ g.nodes = {RootOf(s) : s \in sources}
        /\ g.dead = {} /\ g.rels = {} /\ g.deadRels = {}
    BY DEF BaseGraph, IsGraph
  <1> HIDE DEF g
  <1>2. \A s : RootOf(s)[1] = s
    BY DEF RootOf
  <1>3. ASSUME NEW n \in Known(g) PROVE n[1] \in g.sources /\ n = RootOf(n[1])
    BY <1>1, <1>2 DEF Known
  <1> QED BY <1>1, <1>3 DEF Grounded, Named, g

\* Of two seconds the later one has the greater multiple.
LEMMA Multiples ==
  ASSUME NEW v \in Nat, NEW w \in Nat, NEW k \in Nat, w <= v
  PROVE  w * k \in Nat /\ v * k \in Nat /\ w * k <= v * k
  <1>1. PICK d \in Nat : v = w + d
    <2>1. v - w \in Nat /\ v = w + (v - w)
      OBVIOUS
    <2> QED BY <2>1
  <1>2. w * k \in Nat /\ d * k \in Nat
    OBVIOUS
  <1>3. (w + d) * k = w * k + d * k
    OBVIOUS
  <1> QED BY <1>1, <1>2, <1>3

\* An event comes after all that have a smaller id and were not made later.
LEMMA PlacesGoOn ==
  ASSUME NEW v \in Nat \ {0}, NEW i \in BuildIds \cup LinkingIds
  PROVE  /\ Place(v, i) \in Nat \ {0}
         /\ \A w \in Nat, j \in Nat : w <= v /\ j < i => Place(w, j) < Place(v, i)
  <1>1. i \in Nat /\ IdSpace \in Nat /\ IdSpace >= 1
    BY IdsAssumption
  <1>2. v * IdSpace \in Nat /\ v * IdSpace >= 1
    <2>1. 1 * IdSpace \in Nat /\ v * IdSpace \in Nat /\ 1 * IdSpace <= v * IdSpace
      BY <1>1, Multiples
    <2>2. 1 * IdSpace = IdSpace
      BY <1>1
    <2> QED BY <1>1, <2>1, <2>2
  <1>3. ASSUME NEW w \in Nat, NEW j \in Nat, w <= v, j < i
        PROVE  Place(w, j) < Place(v, i)
    <2>1. w * IdSpace \in Nat /\ w * IdSpace <= v * IdSpace
      BY <1>1, <1>3, Multiples
    <2> QED BY <1>1, <1>2, <1>3, <2>1 DEF Place
  <1> QED BY <1>1, <1>2, <1>3 DEF Place

-----------------------------------------------------------------------------
(* What a step does to the processes.                                      *)

\* One process goes on and the others stay.
OneMoves(c) ==
  /\ call' = [d \in Calls |-> call'[d]]
  /\ IsCall(call'[c])
  /\ \A d \in Calls \ {c} : call'[d] = call[d]

\* The baselines of the others stay good, since the log only grows.
LEMMA BaselinesStay ==
  ASSUME BaselinesAreOfLog, NEW c \in Calls, OneMoves(c), log \subseteq log',
         call'[c].base.log \subseteq log', Grounded(call'[c].base.graph, log'),
         call'[c].stage \in {"extracted", "linked"} => call'[c].event # Nothing,
         call'[c].stage = "extracted" => call'[c].event.op = "build",
         call'[c].built \in Builds(log') \cup {Nothing}
  PROVE  BaselinesAreOfLog'
  <1>1. ASSUME NEW d \in Calls
        PROVE  /\ IsCall(call'[d])
               /\ call'[d].base.log \subseteq log'
               /\ Grounded(call'[d].base.graph, log')
               /\ call'[d].stage \in {"extracted", "linked"} => call'[d].event # Nothing
               /\ call'[d].stage = "extracted" => call'[d].event.op = "build"
               /\ call'[d].built \in Builds(log') \cup {Nothing}
    <2>1. CASE d = c
      BY <2>1 DEF OneMoves
    <2>2. CASE d # c
      <3>1. call'[d] = call[d]
        BY <2>2 DEF OneMoves
      <3> QED BY <3>1, MoreEvents DEF BaselinesAreOfLog, Builds
    <2> QED BY <2>1, <2>2
  <1> QED BY <1>1 DEF BaselinesAreOfLog, OneMoves, Builds

\* A process that makes no event leaves the pending ones as they are, but for
\* its own, which it may have written.
LEMMA PendingStays ==
  ASSUME Orderly(log), PendingIsOrderly, NEW c \in Calls, OneMoves(c),
         log \subseteq log', log' \subseteq log \cup Pending,
         call'[c].event \in {Nothing, call[c].event}
  PROVE  PendingIsOrderly'
  <1>1. Pending' \subseteq Pending
    <2> SUFFICES ASSUME NEW d \in Calls, call'[d].event # Nothing
                 PROVE  call'[d].event \in Pending
      BY DEF Pending
    <2>1. call'[d].event = call[d].event
      BY DEF OneMoves
    <2> QED BY <2>1 DEF Pending
  <1>2. IsFiniteSet(Pending')
    BY <1>1, FS_Subset DEF PendingIsOrderly
  <1>3. \A e \in Pending' : EventOk(e, log')
    BY <1>1, MoreEvents DEF PendingIsOrderly
  <1>4. \A d, e \in log' \cup Pending' : PlaceOf(d) = PlaceOf(e) => d = e
    BY <1>1 DEF PendingIsOrderly
  <1> QED BY <1>2, <1>3, <1>4 DEF PendingIsOrderly

\* An event that a process makes has a place of its own.
LEMMA PendingGrows ==
  ASSUME Orderly(log), PendingIsOrderly, NEW c \in Calls, OneMoves(c), UNCHANGED log,
         NEW e, call'[c].event = e, MadeNow(e.second, e.id), EventOk(e, log)
  PROVE  PendingIsOrderly'
  <1>1. Pending' \subseteq Pending \cup {e}
    <2> SUFFICES ASSUME NEW d \in Calls, call'[d].event # Nothing
                 PROVE  call'[d].event \in Pending \cup {e}
      BY DEF Pending
    <2>1. d # c => call'[d].event = call[d].event
      BY DEF OneMoves
    <2> QED BY <2>1 DEF Pending
  <1>2. IsFiniteSet(Pending')
    <2>1. IsFiniteSet(Pending \cup {e})
      BY FS_AddElement DEF PendingIsOrderly
    <2> QED BY <1>1, <2>1, FS_Subset
  <1>3. \A d \in Pending' : EventOk(d, log')
    BY <1>1 DEF PendingIsOrderly
  <1>4. ASSUME NEW d \in log' \cup Pending', NEW f \in log' \cup Pending', PlaceOf(d) = PlaceOf(f)
        PROVE  d = f
    <2>1. d \in log \cup Pending \cup {e} /\ f \in log \cup Pending \cup {e}
      BY <1>1
    <2>2. \A b \in log \cup Pending : PlaceOf(b) # PlaceOf(e)
      BY DEF MadeNow, PlaceOf
    <2> QED BY <1>4, <2>1, <2>2 DEF PendingIsOrderly
  <1> QED BY <1>2, <1>3, <1>4 DEF PendingIsOrderly

\* A write of a process, over its baseline, of its event or of none.
LEMMA WriteShows ==
  ASSUME IInv, NEW c \in Calls, NEW events, events \subseteq Pending,
         Write(call[c].base, events), events = {} \/ events = {call[c].event}
  PROVE  /\ log \subseteq log' /\ log' \subseteq log \cup Pending
         /\ Orderly(log')
         /\ ViewIsOfLog'
  <1>1. log' = log \cup events
    BY DEF Write, MergedLog, IInv, BaselinesAreOfLog
  <1>2. IsFiniteSet(log')
    <2>1. IsFiniteSet(events)
      BY FS_EmptySet, FS_Singleton
    <2> QED BY <1>1, <2>1, FS_Union DEF IInv, Orderly
  <1>3. \A d, e \in log' : PlaceOf(d) = PlaceOf(e) => d = e
    BY <1>1 DEF IInv, PendingIsOrderly
  <1>4. \A e \in log' : EventOk(e, log')
    BY <1>1, MoreEvents DEF IInv, PendingIsOrderly, Orderly
  <1>5. Orderly(log')
    BY <1>2, <1>3, <1>4 DEF Orderly
  <1>6. Grounded(call[c].base.graph, log')
    BY <1>1, MoreEvents DEF IInv, BaselinesAreOfLog
  <1>7. graph' = Effective(call[c].base.graph, log', graph.linked)
    BY DEF Write
  <1>8. /\ Grounded(graph', log')
        /\ graph'.sources = call[c].base.graph.sources
        /\ graph'.nodes = ShownNodes(log', call[c].base.graph.sources)
        /\ graph'.rels = ShownRels(log', call[c].base.graph.sources)
    BY <1>5, <1>6, <1>7, EffectiveShows
  <1> QED BY <1>1, <1>5, <1>8 DEF ViewIsOfLog

-----------------------------------------------------------------------------
(* The steps.                                                              *)

\* One process: its other fields stay as they are.
LEMMA StepInv == IInv /\ [Next]_vars => IInv' /\ log \subseteq log'
  <1> SUFFICES ASSUME IInv, [Next]_vars PROVE IInv' /\ log \subseteq log'
    OBVIOUS
  <1>0. /\ Orderly(log) /\ PendingIsOrderly /\ BaselinesAreOfLog /\ ViewIsOfLog
        /\ \A c \in Calls : IsCall(call[c]) /\ call[c].base.log \subseteq log
                            /\ Grounded(call[c].base.graph, log)
                            /\ call[c].built \in Builds(log) \cup {Nothing}
        /\ call = [c \in Calls |-> call[c]]
    BY DEF IInv, BaselinesAreOfLog
  <1>1. ASSUME UNCHANGED <<log, graph>>, NEW c \in Calls, OneMoves(c),
               call'[c].event \in {Nothing, call[c].event},
               call'[c].base.log \subseteq log, Grounded(call'[c].base.graph, log),
               call'[c].built = call[c].built,
               call'[c].stage \notin {"extracted", "linked"}
        PROVE  IInv' /\ log \subseteq log'
    <2>1. PendingIsOrderly'
      BY <1>0, <1>1, PendingStays
    <2>2. BaselinesAreOfLog'
      BY <1>0, <1>1, BaselinesStay
    <2> QED BY <1>0, <1>1, <2>1, <2>2 DEF IInv, ViewIsOfLog
  <1>2. ASSUME UNCHANGED <<log, graph>>, NEW c \in Calls, OneMoves(c),
               call'[c].base = call[c].base, call'[c].built = call[c].built,
               MadeNow(call'[c].event.second, call'[c].event.id),
               call'[c].stage = "extracted" => call'[c].event.op = "build",
               call'[c].event # Nothing, EventOk(call'[c].event, log)
        PROVE  IInv' /\ log \subseteq log'
    <2>1. PendingIsOrderly'
      BY <1>0, <1>2, PendingGrows
    <2>2. BaselinesAreOfLog'
      BY <1>0, <1>2, BaselinesStay
    <2> QED BY <1>0, <1>2, <2>1, <2>2 DEF IInv, ViewIsOfLog
  <1>3. ASSUME NEW c \in Calls, OneMoves(c), NEW events, Write(call[c].base, events),
               events = {} \/ (events = {call[c].event} /\ call[c].event # Nothing),
               call'[c].event \in {Nothing, call[c].event},
               call'[c].base = NoBase, call'[c].stage \notin {"extracted", "linked"},
               \/ call'[c].built = call[c].built
               \/ call'[c].built \in events /\ call'[c].built.op = "build"
        PROVE  IInv' /\ log \subseteq log'
    <2>1. events \subseteq Pending
      BY <1>3 DEF Pending
    <2>2. /\ log \subseteq log' /\ log' \subseteq log \cup Pending
          /\ Orderly(log')
          /\ ViewIsOfLog'
      BY <1>3, <2>1, WriteShows
    <2>3. PendingIsOrderly'
      BY <1>0, <1>3, <2>2, PendingStays
    <2>4. call'[c].base.log \subseteq log' /\ Grounded(call'[c].base.graph, log')
      BY <1>3, BaseIsGrounded DEF NoBase
    <2>5. call'[c].built \in Builds(log') \cup {Nothing}
      <3>1. events \subseteq log'
        BY <1>3 DEF Write, MergedLog
      <3> QED BY <1>0, <1>3, <2>2, <3>1 DEF Builds
    <2>6. BaselinesAreOfLog'
      BY <1>0, <1>3, <2>2, <2>4, <2>5, BaselinesStay
    <2> QED BY <2>2, <2>3, <2>6 DEF IInv
  <1>4. ASSUME NEW c
        PROVE  /\ IsCall(Ended(c)) /\ Ended(c).base = NoBase /\ Ended(c).event = Nothing
               /\ Ended(c).stage = "ended" /\ Ended(c).built = call[c].built
    <2>1. /\ IsCall(Idle) /\ Idle.base = NoBase /\ Idle.event = Nothing
      BY DEF IsCall, Idle
    <2> DEFINE r == call[c].built
    <2> HIDE DEF r
    <2>2. Ended(c) = [Idle EXCEPT !.stage = "ended", !.built = r]
      BY DEF Ended, r
    <2>3. ASSUME NEW k, k = [Idle EXCEPT !.stage = "ended", !.built = r]
          PROVE  /\ IsCall(k) /\ k.base = NoBase /\ k.event = Nothing
                 /\ k.stage = "ended" /\ k.built = r
      BY <2>1, <2>3 DEF IsCall
    <2> QED BY <2>2, <2>3 DEF r
  <1>5. NoBase.log = {} /\ \A events : Grounded(NoBase.graph, events)
    BY BaseIsGrounded DEF NoBase
  <1>6. ASSUME NEW c \in Calls, NEW s \in Sources, SaveRow(c, s) PROVE IInv' /\ log \subseteq log'
    <2>1. /\ OneMoves(c)
          /\ call'[c].event = call[c].event /\ call'[c].base = call[c].base
          /\ call'[c].built = call[c].built /\ call'[c].stage = "saved"
      BY <1>0, <1>6 DEF SaveRow, OneMoves, IsCall
    <2> QED BY <1>0, <1>1, <1>6, <2>1 DEF SaveRow
  <1>7. ASSUME NEW c \in Calls, ReadRows(c) PROVE IInv' /\ log \subseteq log'
    <2>1. /\ OneMoves(c)
          /\ call'[c].event = call[c].event
          /\ call'[c].base = [graph |-> BaseGraph(saved), log |-> {}]
          /\ call'[c].stage = "rows" /\ call'[c].built = call[c].built
      <3> DEFINE b == [graph |-> BaseGraph(saved), log |-> {}]
      <3>1. call' = [call EXCEPT ![c].stage = "rows", ![c].base = b]
        BY <1>7 DEF ReadRows
      <3> HIDE DEF b
      <3>0. call = [d \in Calls |-> call[d]] /\ IsCall(call[c])
        BY <1>0
      <3>2. /\ OneMoves(c) /\ call'[c].event = call[c].event
            /\ call'[c].base = b /\ call'[c].stage = "rows" /\ call'[c].built = call[c].built
        BY <3>0, <3>1 DEF OneMoves, IsCall
      <3> QED BY <3>2 DEF b
    <2>2. call'[c].base.log \subseteq log /\ Grounded(call'[c].base.graph, log)
      BY <2>1, BaseIsGrounded
    <2> QED BY <1>1, <1>7, <2>1, <2>2 DEF ReadRows
  <1>8. ASSUME NEW c \in Calls, WriteRows(c) PROVE IInv' /\ log \subseteq log'
    <2>1. /\ OneMoves(c)
          /\ call'[c].event \in {Nothing, call[c].event} /\ call'[c].base = NoBase
          /\ call'[c].stage \in {"materialized", "ended"} /\ call'[c].built = call[c].built
      <3>1. CASE c \in Deleters
        <4>1. call' = [call EXCEPT ![c] = Ended(c)]
          BY <1>8, <3>1 DEF WriteRows
        <4> QED BY <1>0, <1>4, <4>1 DEF OneMoves
      <3>2. CASE c \notin Deleters
        <4>1. call' = [call EXCEPT ![c] = [call[c] EXCEPT !.stage = "materialized", !.base = NoBase]]
          BY <1>8, <3>2 DEF WriteRows
        <4>2. IsCall(call[c])
          BY <1>0
        <4>3. ASSUME NEW k, k = [call[c] EXCEPT !.stage = "materialized", !.base = NoBase]
              PROVE  /\ IsCall(k)
                     /\ k.stage = "materialized" /\ k.base = NoBase /\ k.event = call[c].event
                     /\ k.built = call[c].built
          BY <4>2, <4>3 DEF IsCall
        <4>4. /\ call'[c] = [call[c] EXCEPT !.stage = "materialized", !.base = NoBase]
              /\ call' = [d \in Calls |-> call'[d]]
              /\ \A d \in Calls \ {c} : call'[d] = call[d]
          BY <1>0, <4>1
        <4> QED BY <4>3, <4>4 DEF OneMoves
      <3> QED BY <3>1, <3>2
    <2> QED BY <1>3, <1>8, <2>1 DEF WriteRows
  <1>9. ASSUME NEW c \in Calls, ReadBaseline(c) PROVE IInv' /\ log \subseteq log'
    <2>1. /\ OneMoves(c)
          /\ call'[c].event = call[c].event
          /\ call'[c].base = [graph |-> graph, log |-> log]
          /\ call'[c].stage \in {"linking", "extracting"} /\ call'[c].built = call[c].built
      <3> DEFINE b == [graph |-> graph, log |-> log]
                 st == IF call[c].stage = "built" THEN "linking" ELSE "extracting"
      <3>1. call' = [call EXCEPT ![c].stage = st, ![c].base = b]
        BY <1>9 DEF ReadBaseline
      <3>2. st \in {"linking", "extracting"}
        OBVIOUS
      <3> HIDE DEF b, st
      <3>0. call = [d \in Calls |-> call[d]] /\ IsCall(call[c])
        BY <1>0
      <3>3. /\ OneMoves(c) /\ call'[c].event = call[c].event
            /\ call'[c].base = b /\ call'[c].stage = st /\ call'[c].built = call[c].built
        BY <3>0, <3>1 DEF OneMoves, IsCall
      <3> QED BY <3>2, <3>3 DEF b
    <2>2. call'[c].base.log \subseteq log /\ Grounded(call'[c].base.graph, log)
      BY <1>0, <2>1 DEF ViewIsOfLog
    <2> QED BY <1>1, <1>9, <2>1, <2>2 DEF ReadBaseline
  <1>10. ASSUME NEW c \in Calls, Extract(c) PROVE IInv' /\ log \subseteq log'
    <2>1. PICK x \in Extractions, second \in 1 .. MaxSecond, id \in BuildIds :
            /\ MadeNow(second, id)
            /\ call' = [call EXCEPT ![c].stage = "extracted",
                                    ![c].event = BuildOf(call[c].source, x, second, id)]
      BY <1>10 DEF Extract
    <2> DEFINE e == BuildOf(call[c].source, x, second, id)
    <2>2. /\ OneMoves(c) /\ call'[c].event = e /\ call'[c].base = call[c].base
          /\ call'[c].built = call[c].built
      <3> HIDE DEF e
      <3>1. call' = [call EXCEPT ![c].stage = "extracted", ![c].event = e]
        BY <2>1 DEF e
      <3>2. call = [d \in Calls |-> call[d]] /\ IsCall(call[c])
        BY <1>0
      <3> QED BY <3>1, <3>2 DEF OneMoves, IsCall
    <2>3. /\ e.op = "build" /\ e.source = call[c].source /\ e.second = second /\ e.id = id
          /\ RootOf(call[c].source) \in e.nodes
          /\ \A n \in e.nodes : n[1] = call[c].source
          /\ \A r \in e.rels : EvidenceOf(r) = {call[c].source}
      BY DEF BuildOf, RootOf, EvidenceOf
    <2> HIDE DEF e
    <2>4. EventOk(e, log) /\ e # Nothing
      <3>1. second \in Nat \ {0}
        BY IdsAssumption
      <3>2. PlaceOf(e) \in Nat \ {0}
        BY <2>3, <3>1, PlacesGoOn DEF PlaceOf
      <3> QED BY <2>3, <3>1, <3>2 DEF EventOk, Nothing
    <2> QED BY <1>2, <1>10, <2>1, <2>2, <2>3, <2>4 DEF Extract
  <1>11. ASSUME NEW c \in Calls, WriteBuild(c) PROVE IInv' /\ log \subseteq log'
    <2>1. /\ OneMoves(c)
          /\ call'[c].event = Nothing /\ call'[c].base = NoBase /\ call'[c].stage = "built"
          /\ call'[c].built = call[c].event
      <3> DEFINE e == call[c].event
                 n == Nothing
      <3>1. call' = [call EXCEPT ![c].stage = "built", ![c].base = NoBase,
                                 ![c].event = n, ![c].built = e]
        BY <1>11 DEF WriteBuild
      <3>2. call = [d \in Calls |-> call[d]] /\ IsCall(call[c])
        BY <1>0
      <3> HIDE DEF e, n
      <3>3. /\ OneMoves(c) /\ call'[c].stage = "built" /\ call'[c].base = NoBase
            /\ call'[c].event = n /\ call'[c].built = e
        BY <3>1, <3>2 DEF OneMoves, IsCall
      <3> QED BY <3>3 DEF e, n
    <2>2. call[c].event # Nothing /\ call[c].event.op = "build"
      BY <1>0, <1>11 DEF WriteBuild, BaselinesAreOfLog
    <2> QED BY <1>3, <1>11, <2>1, <2>2 DEF WriteBuild
  <1>12. ASSUME NEW c \in Calls, Link(c) PROVE IInv' /\ log \subseteq log'
    <2> DEFINE g == call[c].base.graph
               s == call[c].source
    <2>1. PICK links \in SUBSET Linkable(g, s), verified \in SUBSET g.rels,
               second \in 1 .. MaxSecond, id \in LinkingIds :
            /\ MadeNow(second, id)
            /\ call' = [call EXCEPT ![c].stage = "linked",
                                    ![c].event = [op |-> "linking", source |-> s,
                                                  second |-> second, id |-> id, rels |-> links,
                                                  targets |-> links \cup Unverified(g, s, verified)]]
      BY <1>12 DEF Link
    <2> DEFINE e == [op |-> "linking", source |-> s, second |-> second, id |-> id, rels |-> links,
                     targets |-> links \cup Unverified(g, s, verified)]
    <2>2. /\ OneMoves(c) /\ call'[c].event = e /\ call'[c].base = call[c].base
          /\ call'[c].built = call[c].built /\ call'[c].stage = "linked"
      <3> HIDE DEF e
      <3>1. call' = [call EXCEPT ![c].stage = "linked", ![c].event = e]
        BY <2>1 DEF e
      <3>2. call = [d \in Calls |-> call[d]] /\ IsCall(call[c])
        BY <1>0
      <3> QED BY <3>1, <3>2 DEF OneMoves, IsCall
    <2>3. /\ e.op = "linking" /\ e.second = second /\ e.id = id
          /\ e.rels = links /\ links \subseteq e.targets
      OBVIOUS
    <2> HIDE DEF e
    <2>4. ASSUME NEW r \in links
          PROVE  CrossSource(r) /\ \A n \in Ends(r) : n \in g.nodes
      BY DEF Linkable, Ends
    <2>a. second \in Nat \ {0}
      BY IdsAssumption
    <2>5. ASSUME NEW n \in g.nodes PROVE Named(n, Before(e, log))
      <3>1. Named(n, log)
        BY <1>0 DEF Grounded, Known
      <3>2. ASSUME NEW b \in Builds(log) PROVE b \in Before(e, log)
        <4>1. b.second \in Nat /\ b.id \in BuildIds /\ b.second <= second
          BY <1>0, <2>1 DEF Builds, Orderly, EventOk, MadeNow
        <4>2. b.id \in Nat /\ b.id < id
          BY <4>1, IdsAssumption
        <4>3. Place(b.second, b.id) < Place(second, id)
          BY <2>a, <4>1, <4>2, PlacesGoOn
        <4> QED BY <2>3, <4>3 DEF PlaceOf, Before, Builds
      <3> QED BY <3>1, <3>2 DEF Named, Builds
    <2>6. EventOk(e, log) /\ e # Nothing
      <3>1. PlaceOf(e) \in Nat \ {0}
        BY <2>a, <2>3, PlacesGoOn DEF PlaceOf
      <3>2. \A r \in e.rels : \A n \in Ends(r) : Named(n, Before(e, log))
        BY <2>3, <2>4, <2>5
      <3> HIDE DEF g, s
      <3> QED BY <2>a, <2>3, <2>4, <3>1, <3>2 DEF EventOk, Nothing
    <2> QED BY <1>2, <1>12, <2>1, <2>2, <2>3, <2>6 DEF Link
  <1>13. ASSUME NEW c \in Calls, WriteLinks(c) PROVE IInv' /\ log \subseteq log'
    <2>1. OneMoves(c) /\ call'[c] = Ended(c)
      BY <1>0, <1>4, <1>13 DEF WriteLinks, OneMoves
    <2>2. call[c].event # Nothing
      BY <1>0, <1>13 DEF WriteLinks, BaselinesAreOfLog
    <2> QED BY <1>3, <1>4, <1>13, <2>1, <2>2 DEF WriteLinks
  <1>14. ASSUME NEW c \in Calls, GiveUp(c) PROVE IInv' /\ log \subseteq log'
    <2>1. OneMoves(c) /\ call'[c] = Ended(c)
      BY <1>0, <1>4, <1>14 DEF GiveUp, OneMoves
    <2>2. call'[c].base.log \subseteq log /\ Grounded(call'[c].base.graph, log)
      BY <1>4, <1>5, <2>1
    <2> QED BY <1>1, <1>4, <1>14, <2>1, <2>2 DEF GiveUp
  <1>15. CASE UNCHANGED vars
    <2>1. log' = log /\ graph' = graph /\ call' = call
      BY <1>15 DEF vars
    <2>2. Pending' = Pending
      BY <2>1 DEF Pending
    <2> QED BY <1>0, <2>1, <2>2 DEF IInv, PendingIsOrderly, BaselinesAreOfLog, ViewIsOfLog
  <1> QED BY <1>6, <1>7, <1>8, <1>9, <1>10, <1>11, <1>12, <1>13, <1>14, <1>15 DEF Next

\* Before anything is imported there is nothing to show.
LEMMA InitInv == Init => IInv
  <1> SUFFICES ASSUME Init PROVE IInv
    OBVIOUS
  <1>1. log = {} /\ graph = BaseGraph({}) /\ call = [c \in Calls |-> Idle]
    BY DEF Init
  <1>2. Pending = {}
    BY <1>1 DEF Pending, Idle
  <1>3. Orderly(log) /\ PendingIsOrderly
    BY <1>1, <1>2, FS_EmptySet DEF Orderly, PendingIsOrderly
  <1>4. /\ IsCall(Idle) /\ Idle.stage = "idle"
        /\ Idle.base.log = {} /\ Grounded(Idle.base.graph, log) /\ Idle.built = Nothing
    BY BaseIsGrounded DEF IsCall, Idle, NoBase
  <1>5. BaselinesAreOfLog
    BY <1>1, <1>4 DEF BaselinesAreOfLog
  <1>6. graph.sources = {} /\ graph.nodes = {} /\ graph.rels = {} /\ Grounded(graph, log)
    BY <1>1, BaseIsGrounded DEF BaseGraph
  <1>7. ShownNodes(log, {}) = {} /\ ShownRels(log, {}) = {}
    BY <1>1 DEF ShownNodes, ShownRels
  <1> QED BY <1>3, <1>5, <1>6, <1>7 DEF IInv, ViewIsOfLog

\* The graph shows of its sources what the last events of the log say of them:
\* the inductive invariant.
THEOREM Inductive == Spec => []IInv
  BY InitInv, StepInv, PTL DEF Spec

\* A published source shows the concepts of the build of it that was made last.
THEOREM LatestBuildWins == Spec => []LatestBuildIsShown
  <1>1. IInv => LatestBuildIsShown
    <2> SUFFICES ASSUME IInv, NEW s \in graph.sources, NEW e \in BuildsFor(s),
                        \A d \in BuildsFor(s) : PlaceOf(d) <= PlaceOf(e)
                 PROVE  ConceptsOf(graph, s) = e.nodes
      BY DEF LatestBuildIsShown
    <2>1. e \in log /\ e.source = s /\ IsLastBuild(e, log)
      BY DEF BuildsFor, IsLastBuild, Builds
    <2>2. \A b \in log : IsLastBuild(b, log) /\ b.source = s => b = e
      <3> SUFFICES ASSUME NEW b \in log, IsLastBuild(b, log), b.source = s PROVE b = e
        OBVIOUS
      <3>1. PlaceOf(b) <= PlaceOf(e) /\ PlaceOf(e) <= PlaceOf(b)
        BY <2>1 DEF IsLastBuild
      <3>2. PlaceOf(b) \in Nat /\ PlaceOf(e) \in Nat
        BY <2>1 DEF IInv, Orderly, EventOk
      <3>3. PlaceOf(b) = PlaceOf(e)
        BY <3>1, <3>2
      <3> QED BY <2>1, <3>3 DEF IInv, Orderly
    <2>3. \A b \in Builds(log) : \A n \in b.nodes : n[1] = b.source
      BY DEF IInv, Orderly, EventOk, Builds
    <2>4. graph.nodes = ShownNodes(log, graph.sources)
      BY DEF IInv, ViewIsOfLog
    <2>5. ASSUME NEW n \in graph.nodes, n[1] = s PROVE n \in e.nodes
      <3>1. ASSUME NEW t \in graph.sources, \A b \in Builds(log) : b.source # t, n = RootOf(t)
            PROVE  FALSE
        BY <2>1, <2>5, <3>1 DEF RootOf, IsLastBuild
      <3>2. ASSUME NEW b \in log, IsLastBuild(b, log), n \in b.nodes PROVE n \in e.nodes
        BY <2>2, <2>3, <2>5, <3>2 DEF IsLastBuild
      <3> QED BY <2>4, <3>1, <3>2 DEF ShownNodes
    <2>6. ASSUME NEW n \in e.nodes PROVE n \in graph.nodes /\ n[1] = s
      BY <2>1, <2>3, <2>4 DEF ShownNodes, IsLastBuild
    <2> QED BY <2>5, <2>6 DEF ConceptsOf
  <1> QED BY <1>1, Inductive, PTL

\* What an import has reported stays shown until a later build of its source.
THEOREM ReportsHold == Spec => []ReportedBuildsAreShown
  <1>1. IInv /\ LatestBuildIsShown => ReportedBuildsAreShown
    <2> SUFFICES ASSUME IInv, LatestBuildIsShown, NEW c \in Importers,
                        NEW e, e = call[c].built, e # Nothing, e.source \in graph.sources,
                        \A d \in BuildsFor(e.source) : ~(PlaceOf(d) > PlaceOf(e))
                 PROVE  ConceptsOf(graph, e.source) = e.nodes
      BY DEF ReportedBuildsAreShown
    <2>1. e \in Builds(log)
      BY DEF IInv, BaselinesAreOfLog, Calls
    <2>2. e \in BuildsFor(e.source)
      BY <2>1 DEF Builds, BuildsFor
    <2>3. \A d \in BuildsFor(e.source) : PlaceOf(d) \in Nat /\ PlaceOf(e) \in Nat
      BY <2>2 DEF BuildsFor, IInv, Orderly, EventOk
    <2>4. \A d \in BuildsFor(e.source) : PlaceOf(d) <= PlaceOf(e)
      BY <2>3
    <2> QED BY <2>2, <2>4 DEF LatestBuildIsShown
  <1> QED BY <1>1, Inductive, LatestBuildWins, PTL

\* A replay of the log over the bare sources shows what is shown: it is the same
\* whatever baselines the writers had.
THEOREM ViewComesFromLog == Spec => []ViewIsFunctionOfLog
  <1>1. IInv => ViewIsFunctionOfLog
    <2> SUFFICES ASSUME IInv PROVE ViewIsFunctionOfLog
      OBVIOUS
    <2> DEFINE h == Effective(BaseGraph(graph.sources), log, {})
    <2>1. Orderly(log) /\ ViewIsOfLog
      BY DEF IInv
    <2>2. Grounded(BaseGraph(graph.sources), log) /\ BaseGraph(graph.sources).sources = graph.sources
      BY BaseIsGrounded DEF BaseGraph
    <2>3. /\ h.nodes = ShownNodes(log, graph.sources)
          /\ h.rels = ShownRels(log, graph.sources)
      BY <2>1, <2>2, EffectiveShows
    <2> HIDE DEF h
    <2>4. SameView(graph, h)
      BY <2>1, <2>3 DEF SameView, ViewIsOfLog
    <2> QED BY <2>4 DEF ViewIsFunctionOfLog, h
  <1> QED BY <1>1, Inductive, PTL

\* A reconstruction that revives every record of the graph shows the same too.
THEOREM ReconstructionIsExact == Spec => []ReconstructionAgrees
  <1>1. IInv => ReconstructionAgrees
    <2> SUFFICES ASSUME IInv PROVE ReconstructionAgrees
      OBVIOUS
    <2> DEFINE h == Reconstruct(graph, log)
    <2>1. Orderly(log) /\ ViewIsOfLog /\ Grounded(graph, log)
      BY DEF IInv, ViewIsOfLog
    <2>2. /\ h.nodes = ShownNodes(log, graph.sources)
          /\ h.rels = ShownRels(log, graph.sources)
      BY <2>1, ReconstructShows
    <2> HIDE DEF h
    <2>3. SameView(graph, h)
      BY <2>1, <2>2 DEF SameView, ViewIsOfLog
    <2> QED BY <2>3 DEF ReconstructionAgrees, h
  <1> QED BY <1>1, Inductive, PTL

-----------------------------------------------------------------------------
(* ImportLifecycle: types.                                                 *)

\* A retry has found its import, and an engine process has its source.
RetryIsOfAnImport == tool.at # "idle" => tool.id \in Ids
CompilesHaveSources == \A k \in Callers : calls[k].at # "none" => calls[k].source \in KnownSources

Types == TypeOK /\ RetryIsOfAnImport /\ CompilesHaveSources

\* An entry stays one, whatever its import reports.
LEMMA UpdatedIsEntry ==
  ASSUME NEW old \in Entries, NEW e \in Entries
  PROVE  Updated(old, e) \in Entries
  BY DEF Updated, Entries, Statuses, Terminal

\* The three ids an entry is looked up by are ids of the registry.
LEMMA IdsOfSources ==
  /\ \A j \in Jobs : Own(j) \in Ids /\ j \in KnownSources /\ j \in Callers
  /\ \A s \in KnownSources : ByRow(s) \in Ids
  /\ \A id \in Ids : id[1] \in KnownSources
  /\ "tool" \in Callers
  /\ \A j \in Jobs, s \in KnownSources : Own(j) # ByRow(s)
  /\ \A i, j \in Jobs : Own(i) = Own(j) => i = j
  BY DEF Own, ByRow, Ids, KnownSources, Callers

\* What the database knows makes an entry.
LEMMA FromRowIsEntry ==
  ASSUME NEW r \in Rows
  PROVE  FromRow(r) \in Entries
  BY DEF FromRow, Rows, Entries, Statuses, Terminal, Graphs

\* Rows of the workspace keep their types when a graph makes them ready.
LEMMA MarkedReadyTypes ==
  ASSUME rows \in [KnownSources -> Rows]
  PROVE  MarkedReady \in [KnownSources -> Rows]
  BY DEF MarkedReady, Rows, Statuses, Terminal, Graphs

LEMMA PersistedTypes ==
  ASSUME rows \in [KnownSources -> Rows], NEW s \in KnownSources, NEW e \in Entries
  PROVE  Persisted(s, e) \in [KnownSources -> Rows]
  BY DEF Persisted, Rows, Entries, Graphs

LEMMA NoThingTypes ==
  /\ NoEntry \in Entries /\ NoRow \in Rows /\ NoThread \in Threads /\ NoRetry \in Tools
  /\ NoCall \in CompileCalls
  BY DEF NoEntry, NoRow, NoThread, NoRetry, NoCall, Entries, Rows, Threads, Tools,
         CompileCalls, Statuses, Terminal, Graphs, ThreadStages, ToolStages, CallStages

LEMMA InitTypes == ImportInit => Types
  <1> SUFFICES ASSUME ImportInit PROVE Types
    OBVIOUS
  <1>1. [status |-> "graph_pending", citation |-> TRUE, graph |-> "pending"] \in Rows
    BY DEF Rows, Statuses, Terminal, Graphs
  <1>2. /\ registry \in [Ids -> Entries] /\ rows \in [KnownSources -> Rows]
        /\ threads \in [Jobs -> Threads] /\ tool \in Tools
        /\ calls \in [Callers -> CompileCalls]
    BY <1>1, NoThingTypes DEF ImportInit
  <1>3. retries \in 0 .. MaxRetries /\ restarts \in 0 .. MaxRestarts
    BY BoundsAssumption DEF ImportInit
  <1>4. RetryIsOfAnImport /\ CompilesHaveSources
    BY DEF ImportInit, RetryIsOfAnImport, CompilesHaveSources, NoRetry, NoCall
  <1> QED BY <1>2, <1>3, <1>4 DEF Types, TypeOK

\* A thread at a stage it may be at.
LEMMA ThreadMoves ==
  ASSUME threads \in [Jobs -> Threads], NEW j \in Jobs, NEW stage \in ThreadStages,
         To(j, stage)
  PROVE  threads' \in [Jobs -> Threads]
  BY DEF To, Threads

\* One entry is written.
LEMMA EntryMoves ==
  ASSUME registry \in [Ids -> Entries], NEW id \in Ids, NEW e \in Entries,
         UpdateActive(id, e)
  PROVE  registry' \in [Ids -> Entries]
  BY UpdatedIsEntry DEF UpdateActive

\* A compile begins, or is over and gone.
LEMMA CompileBegins ==
  ASSUME calls \in [Callers -> CompileCalls], CompilesHaveSources,
         NEW k \in Callers, NEW s \in KnownSources, NEW skip \in BOOLEAN,
         StartCompile(k, s, skip)
  PROVE  calls' \in [Callers -> CompileCalls] /\ CompilesHaveSources'
  BY DEF StartCompile, CompileCalls, CallStages, Graphs, CompilesHaveSources

LEMMA CompileGone ==
  ASSUME calls \in [Callers -> CompileCalls], CompilesHaveSources, NEW k \in Callers, Hang(k)
  PROVE  calls' \in [Callers -> CompileCalls] /\ CompilesHaveSources'
  BY NoThingTypes DEF Hang, NoCall, CompilesHaveSources

\* An engine process writes rows and its own progress.
LEMMA EngineTypes ==
  ASSUME Types, NEW k \in Callers, Engine(k)
  PROVE  Types'
  <1> DEFINE s == calls[k].source
  <1>0. /\ registry \in [Ids -> Entries] /\ rows \in [KnownSources -> Rows]
        /\ calls \in [Callers -> CompileCalls] /\ calls[k] \in CompileCalls
    BY DEF Types, TypeOK
  <1>1. SUFFICES /\ rows' \in [KnownSources -> Rows]
                 /\ calls' \in [Callers -> CompileCalls] /\ CompilesHaveSources'
    <2>1. UNCHANGED <<registry, threads, tool, retries, restarts>>
      BY DEF Engine, Save, Materialize, Generate, CompileFails, Forgotten
    <2> QED BY <2>1 DEF Types, TypeOK, RetryIsOfAnImport
  <1>2. ASSUME NEW stage \in CallStages, NEW outcome \in Graphs, calls[k].at # "none",
               \/ calls' = [calls EXCEPT ![k].at = stage]
               \/ calls' = [calls EXCEPT ![k].at = stage, ![k].outcome = outcome]
        PROVE  calls' \in [Callers -> CompileCalls] /\ CompilesHaveSources'
    <2>1. PICK done \in CompileCalls :
            calls' = [calls EXCEPT ![k] = done] /\ done.source = calls[k].source
      <3>1. CASE calls' = [calls EXCEPT ![k].at = stage]
        <4>1. [calls[k] EXCEPT !.at = stage] \in CompileCalls
              /\ [calls[k] EXCEPT !.at = stage].source = calls[k].source
          BY <1>0 DEF CompileCalls
        <4> QED BY <3>1, <4>1
      <3>2. CASE calls' = [calls EXCEPT ![k].at = stage, ![k].outcome = outcome]
        <4>1. [calls[k] EXCEPT !.at = stage, !.outcome = outcome] \in CompileCalls
              /\ [calls[k] EXCEPT !.at = stage, !.outcome = outcome].source = calls[k].source
          BY <1>0 DEF CompileCalls
        <4> QED BY <1>0, <3>2, <4>1
      <3> QED BY <1>2, <3>1, <3>2
    <2>2. calls'[k] = done /\ \A d \in Callers : d # k => calls'[d] = calls[d]
      BY <1>0, <2>1
    <2>3. calls' \in [Callers -> CompileCalls]
      BY <1>0, <2>1
    <2>4. CompilesHaveSources'
      BY <1>2, <2>1, <2>2 DEF Types, CompilesHaveSources
    <2> QED BY <2>3, <2>4
  <1>3. {"materializing", "generating", "answered", "failed"} \subseteq CallStages
    BY DEF CallStages
  <1>4. "ready" \in Graphs
    BY DEF Graphs
  <1>5. CASE Save(k)
    <2>1. PICK cites \in IF rows[s].status = "absent" THEN BOOLEAN ELSE {rows[s].citation} :
            rows' = [rows EXCEPT ![s].status = IF cites THEN "ingested" ELSE "failed",
                                 ![s].citation = cites]
      BY <1>5 DEF Save
    <2>2. s \in KnownSources
      BY <1>5 DEF Save, Types, CompilesHaveSources
    <2>3. cites \in BOOLEAN
      BY <1>0, <2>2 DEF Rows
    <2>4. rows' \in [KnownSources -> Rows]
      BY <1>0, <2>1, <2>2, <2>3 DEF Rows, Statuses, Terminal
    <2> QED BY <1>2, <1>3, <1>4, <1>5, <2>4 DEF Save
  <1>6. CASE Materialize(k)
    <2>1. rows' \in [KnownSources -> Rows]
      BY <1>0, <1>6, MarkedReadyTypes DEF Materialize
    <2>2. PICK stage \in {"generating", "answered"} : calls' = [calls EXCEPT ![k].at = stage]
      BY <1>6 DEF Materialize
    <2> QED BY <1>2, <1>3, <1>4, <1>6, <2>1, <2>2 DEF Materialize
  <1>7. ASSUME NEW outcome \in Graphs, NEW partly \in BOOLEAN, Generate(k, outcome, partly)
        PROVE  /\ rows' \in [KnownSources -> Rows]
               /\ calls' \in [Callers -> CompileCalls] /\ CompilesHaveSources'
    <2>1. StatusOf(outcome) \in Statuses
      BY DEF StatusOf, Statuses, Terminal
    <2>2. PICK written \in [KnownSources -> Rows] :
            rows' = IF written[s].citation
                    THEN [written EXCEPT ![s].status = StatusOf(outcome), ![s].graph = outcome]
                    ELSE written
      BY <1>0, <1>7, MarkedReadyTypes DEF Generate
    <2>3. CASE ~written[s].citation
      <3>1. rows' \in [KnownSources -> Rows]
        BY <2>2, <2>3
      <3> QED BY <1>2, <1>3, <1>7, <3>1 DEF Generate
    <2>4. CASE written[s].citation
      <3>1. ASSUME s \in KnownSources
            PROVE  [written[s] EXCEPT !.status = StatusOf(outcome), !.graph = outcome] \in Rows
        BY <2>1, <3>1 DEF Rows
      <3>2. rows' = [written EXCEPT ![s] =
                       [written[s] EXCEPT !.status = StatusOf(outcome), !.graph = outcome]]
        BY <2>2, <2>4
      <3>3. rows' \in [KnownSources -> Rows]
        BY <2>2, <3>1, <3>2
      <3> QED BY <1>2, <1>3, <1>7, <3>3 DEF Generate
    <2> QED BY <2>3, <2>4
  <1>8. CASE CompileFails(k)
    BY <1>0, <1>2, <1>3, <1>4, <1>8 DEF CompileFails
  <1>9. CASE Forgotten(k)
    BY <1>0, <1>9, CompileGone DEF Forgotten, Types
  <1> QED BY <1>5, <1>6, <1>7, <1>8, <1>9 DEF Engine

\* The thread of an import writes its entry, its row and its own state.
LEMMA ThreadTypes ==
  ASSUME Types, NEW j \in Jobs,
         \/ Thread(j)
         \/ \E skip \in BOOLEAN : ImportSource(j, skip)
         \/ \E status \in Statuses : Progress(j, status)
  PROVE  Types'
  <1>0. /\ registry \in [Ids -> Entries] /\ rows \in [KnownSources -> Rows]
        /\ threads \in [Jobs -> Threads] /\ calls \in [Callers -> CompileCalls]
        /\ CompilesHaveSources /\ RetryIsOfAnImport
        /\ Own(j) \in Ids /\ j \in KnownSources /\ j \in Callers
        /\ registry[Own(j)] \in Entries /\ threads[j] \in Threads /\ calls[j] \in CompileCalls
    BY IdsOfSources DEF Types, TypeOK
  <1>1. ASSUME registry' \in [Ids -> Entries], rows' \in [KnownSources -> Rows],
               threads' \in [Jobs -> Threads],
               calls' \in [Callers -> CompileCalls], CompilesHaveSources',
               UNCHANGED <<tool, retries, restarts>>
        PROVE  Types'
    BY <1>1 DEF Types, TypeOK, RetryIsOfAnImport
  <1>2. UNCHANGED calls => calls' \in [Callers -> CompileCalls] /\ CompilesHaveSources'
    BY <1>0 DEF CompilesHaveSources
  <1>3. ASSUME NEW from, NEW status \in Statuses, NEW to \in ThreadStages,
               Report(j, from, status, to)
        PROVE  Types'
    <2>1. [registry[Own(j)] EXCEPT !.status = status] \in Entries
      BY <1>0 DEF Entries
    <2>2. registry' \in [Ids -> Entries]
      BY <1>0, <1>3, <2>1, EntryMoves DEF Report
    <2>3. threads' \in [Jobs -> Threads]
      BY <1>0, <1>3, ThreadMoves DEF Report
    <2> QED BY <1>0, <1>1, <1>2, <1>3, <2>2, <2>3 DEF Report
  <1>4. ASSUME NEW skip \in BOOLEAN, ImportSource(j, skip) PROVE Types'
    <2>1. [NoEntry EXCEPT !.status = "imported"] \in Entries
      BY NoThingTypes DEF Entries, Statuses
    <2>2. registry' \in [Ids -> Entries]
      BY <1>0, <1>4, <2>1 DEF ImportSource
    <2>3. threads' \in [Jobs -> Threads]
      BY <1>0, <1>4 DEF ImportSource, Threads, ThreadStages
    <2> QED BY <1>0, <1>1, <1>2, <1>4, <2>2, <2>3 DEF ImportSource
  <1>5. CASE Check(j)
    <2>1. threads[j].at \in DOMAIN AfterCheck /\ AfterCheck[threads[j].at] \in ThreadStages
      BY <1>5 DEF Check, AfterCheck, ThreadStages
    <2>2. CASE registry[Own(j)].cancel
      <3>1. registry' \in [Ids -> Entries]
        BY <1>0, <1>5, <2>2 DEF Check, Entries, Statuses, Terminal
      <3>2. threads' \in [Jobs -> Threads]
        BY <1>0, <1>5, <2>2, ThreadMoves DEF Check, ThreadStages
      <3> QED BY <1>0, <1>1, <1>2, <1>5, <2>2, <3>1, <3>2 DEF Check
    <2>3. CASE ~registry[Own(j)].cancel
      <3>1. PICK stage \in ThreadStages : To(j, stage)
        <4>1. "ended" \in ThreadStages
          BY DEF ThreadStages
        <4> QED BY <1>5, <2>1, <2>3, <4>1 DEF Check
      <3>2. threads' \in [Jobs -> Threads]
        BY <1>0, <3>1, ThreadMoves
      <3>3. calls' \in [Callers -> CompileCalls] /\ CompilesHaveSources'
        <4>1. CASE StartCompile(j, j, threads[j].at = "packaged")
          BY <1>0, <4>1, CompileBegins
        <4>2. CASE UNCHANGED calls
          BY <1>2, <4>2
        <4> QED BY <1>5, <2>3, <4>1, <4>2 DEF Check
      <3> QED BY <1>0, <1>1, <1>5, <2>3, <3>2, <3>3 DEF Check
    <2> QED BY <2>2, <2>3
  <1>6. ASSUME NEW status \in Statuses, Progress(j, status) PROVE Types'
    BY <1>3, <1>6 DEF Progress, ThreadStages
  <1>7. ASSUME \/ Report(j, "starting", "parsing", "parsing")
               \/ Report(j, "packaging", "packaging", "packaged")
               \/ Report(j, "materializing", "citation_ready", "planned")
        PROVE  Types'
    BY <1>3, <1>7 DEF Statuses, ThreadStages
  <1>8. CASE Fail(j)
    <2>1. registry' \in [Ids -> Entries]
      BY <1>0, <1>8 DEF Fail, FailedEntry, Entries, Statuses, Terminal
    <2>2. threads' \in [Jobs -> Threads]
      BY <1>0, <1>8, ThreadMoves DEF Fail, ThreadStages
    <2>3. calls' \in [Callers -> CompileCalls] /\ CompilesHaveSources'
      BY <1>0, <1>8, CompileGone DEF Fail
    <2> QED BY <1>0, <1>1, <1>8, <2>1, <2>2, <2>3 DEF Fail
  <1>9. CASE Parsed(j)
    <2>1. threads' \in [Jobs -> Threads]
      BY <1>0, <1>9, ThreadMoves DEF Parsed, ThreadStages
    <2> QED BY <1>0, <1>1, <1>2, <1>9, <2>1 DEF Parsed
  <1>10. CASE Compiled(j)
    <2>1. threads' \in [Jobs -> Threads]
      BY <1>0, <1>10, ThreadMoves DEF Compiled, ThreadStages
    <2>2. calls' \in [Callers -> CompileCalls] /\ CompilesHaveSources'
      BY <1>0, <1>10, CompileGone DEF Compiled
    <2> QED BY <1>0, <1>1, <1>10, <2>1, <2>2 DEF Compiled
  <1>11. ASSUME NEW cites \in BOOLEAN, Cite(j, cites) PROVE Types'
    <2> DEFINE e == [registry[Own(j)] EXCEPT !.status = "citation_ready", !.citation = cites]
    <2>1. e \in Entries
      BY <1>0 DEF Entries, Statuses
    <2>2. [e EXCEPT !.status = "graph_skipped", !.graph = "skipped"] \in Entries
      BY <2>1 DEF Entries, Statuses, Terminal, Graphs
    <2>3. registry' \in [Ids -> Entries]
      BY <1>0, <1>11, <2>1, <2>2, EntryMoves DEF Cite
    <2>4. threads' \in [Jobs -> Threads]
      <3>1. CASE threads[j].skip
        BY <1>0, <1>11, <3>1 DEF Cite, Threads, ThreadStages
      <3>2. CASE ~threads[j].skip
        BY <1>0, <1>11, <3>2, ThreadMoves DEF Cite, ThreadStages
      <3> QED BY <3>1, <3>2
    <2> QED BY <1>0, <1>1, <1>2, <1>11, <2>3, <2>4 DEF Cite
  <1>12. ASSUME NEW retryable \in BOOLEAN, GraphFailed(j, retryable) PROVE Types'
    <2> DEFINE again == retryable /\ threads[j].attempt < MaxAttempts
    <2>1. MarkedPending(registry[Own(j)], again) \in Entries
      BY <1>0 DEF MarkedPending, Entries, Statuses, Terminal, Graphs
    <2>2. registry' \in [Ids -> Entries]
      BY <1>0, <1>12, <2>1, EntryMoves DEF GraphFailed
    <2>3. PICK attempt \in Nat, outcome \in Graphs, next \in ThreadStages :
            threads' = [threads EXCEPT ![j].at = "marked", ![j].attempt = attempt,
                                       ![j].outcome = outcome, ![j].next = next]
      <3>1. /\ threads[j].attempt \in Nat /\ threads[j].attempt + 1 \in Nat
            /\ threads[j].outcome \in Graphs /\ "pending" \in Graphs
            /\ {"resuming", "graphed"} \subseteq ThreadStages
        BY <1>0 DEF Threads, Graphs, ThreadStages
      <3>2. CASE again
        BY <1>12, <3>1, <3>2 DEF GraphFailed
      <3>3. CASE ~again
        BY <1>12, <3>1, <3>3 DEF GraphFailed
      <3> QED BY <3>2, <3>3
    <2>5. threads' \in [Jobs -> Threads]
      BY <1>0, <2>3 DEF Threads, ThreadStages
    <2>4. calls' \in [Callers -> CompileCalls] /\ CompilesHaveSources'
      BY <1>0, <1>12, CompileGone DEF GraphFailed
    <2> QED BY <1>0, <1>1, <1>12, <2>2, <2>4, <2>5 DEF GraphFailed
  <1>13. CASE ReadBack(j)
    <2>1. threads' \in [Jobs -> Threads]
      BY <1>0, <1>13 DEF ReadBack, Threads, ThreadStages
    <2> QED BY <1>0, <1>1, <1>2, <1>13, <2>1 DEF ReadBack
  <1>14. ASSUME NEW lost \in BOOLEAN, Persist(j, lost) PROVE Types'
    <2>1. threads[j].seen \in Entries
      BY <1>0 DEF Threads
    <2>2. rows' \in [KnownSources -> Rows]
      BY <1>0, <1>14, <2>1, PersistedTypes DEF Persist
    <2>3. threads' \in [Jobs -> Threads]
      BY <1>0, <1>14, NoThingTypes DEF Persist, Threads
    <2> QED BY <1>0, <1>1, <1>2, <1>14, <2>2, <2>3 DEF Persist
  <1>15. CASE Resume(j)
    <2>1. [registry[Own(j)] EXCEPT !.status = "citation_ready"] \in Entries
      BY <1>0 DEF Entries, Statuses
    <2>2. registry' \in [Ids -> Entries]
      BY <1>0, <1>15, <2>1, EntryMoves DEF Resume
    <2>3. threads' \in [Jobs -> Threads]
      BY <1>0, <1>15, ThreadMoves DEF Resume, ThreadStages
    <2>4. calls' \in [Callers -> CompileCalls] /\ CompilesHaveSources'
      BY <1>0, <1>15, CompileBegins DEF Resume
    <2> QED BY <1>0, <1>1, <1>15, <2>2, <2>3, <2>4 DEF Resume
  <1>16. CASE GraphAnswered(j)
    <2>1. threads' \in [Jobs -> Threads]
      BY <1>0, <1>16 DEF GraphAnswered, Threads, ThreadStages, CompileCalls
    <2>2. calls' \in [Callers -> CompileCalls] /\ CompilesHaveSources'
      BY <1>0, <1>16, CompileGone DEF GraphAnswered
    <2> QED BY <1>0, <1>1, <1>16, <2>1, <2>2 DEF GraphAnswered
  <1>17. CASE Finish(j)
    <2> DEFINE g == threads[j].outcome
    <2>1. [registry[Own(j)] EXCEPT !.graph = g, !.status = StatusOf(g)] \in Entries
      BY <1>0 DEF Entries, Threads, StatusOf, Statuses, Terminal
    <2>2. registry' \in [Ids -> Entries]
      BY <1>0, <1>17, <2>1, EntryMoves DEF Finish
    <2>3. threads' \in [Jobs -> Threads]
      BY <1>0, <1>17, ThreadMoves DEF Finish, ThreadStages
    <2> QED BY <1>0, <1>1, <1>2, <1>17, <2>2, <2>3 DEF Finish
  <1> QED BY <1>4, <1>5, <1>6, <1>7, <1>8, <1>9, <1>10, <1>11, <1>12, <1>13, <1>14, <1>15,
             <1>16, <1>17 DEF Thread

\* The tools write an entry of the registry and the state of a retry.
LEMMA ToolTypes ==
  ASSUME Types,
         \/ \E s \in KnownSources : ImportStatus(s) \/ RetryBySource(s)
         \/ \E id \in Ids : ImportCancel(id) \/ RetryById(id)
         \/ Retry
         \/ Restart
  PROVE  Types'
  <1>0. /\ registry \in [Ids -> Entries] /\ rows \in [KnownSources -> Rows]
        /\ threads \in [Jobs -> Threads] /\ calls \in [Callers -> CompileCalls]
        /\ CompilesHaveSources /\ RetryIsOfAnImport /\ tool \in Tools
        /\ retries \in 0 .. MaxRetries /\ restarts \in 0 .. MaxRestarts
        /\ MaxRetries \in Nat /\ MaxRestarts \in Nat
    BY BoundsAssumption DEF Types, TypeOK
  <1>1. ASSUME registry' \in [Ids -> Entries], rows' \in [KnownSources -> Rows],
               tool' \in Tools, tool'.at # "idle" => tool'.id \in Ids,
               calls' \in [Callers -> CompileCalls], CompilesHaveSources',
               UNCHANGED <<threads, retries, restarts>>
        PROVE  Types'
    BY <1>0, <1>1 DEF Types, TypeOK, RetryIsOfAnImport
  <1>2. UNCHANGED calls => calls' \in [Callers -> CompileCalls] /\ CompilesHaveSources'
    BY <1>0 DEF CompilesHaveSources
  <1>3. \A s \in KnownSources : ByRow(s) \in Ids /\ FromRow(rows[s]) \in Entries
    BY <1>0, IdsOfSources, FromRowIsEntry
  <1>4. ASSUME NEW s \in KnownSources, ImportStatus(s) PROVE Types'
    <2>1. registry' \in [Ids -> Entries]
      BY <1>0, <1>3, <1>4 DEF ImportStatus
    <2> QED BY <1>0, <1>1, <1>2, <1>4, <2>1 DEF ImportStatus, RetryIsOfAnImport
  <1>5. ASSUME NEW id \in Ids, NEW e, RetryFinds(id, e), registry' \in [Ids -> Entries]
        PROVE  Types'
    <2>1. /\ tool' \in Tools /\ tool'.id = id
      BY <1>0, <1>5 DEF RetryFinds, Tools, ToolStages
    <2>2. retries' \in 0 .. MaxRetries
      BY <1>0, <1>5 DEF RetryFinds
    <2>3. UNCHANGED <<rows, threads, calls, restarts>>
      BY <1>5 DEF RetryFinds
    <2> QED BY <1>0, <1>2, <1>5, <2>1, <2>2, <2>3 DEF Types, TypeOK, RetryIsOfAnImport
  <1>6. ASSUME NEW s \in KnownSources, RetryBySource(s) PROVE Types'
    <2>1. registry' \in [Ids -> Entries]
      BY <1>0, <1>3, <1>6 DEF RetryBySource
    <2> QED BY <1>3, <1>5, <1>6, <2>1 DEF RetryBySource
  <1>7. ASSUME NEW id \in Ids, RetryById(id) PROVE Types'
    <2>1. registry' \in [Ids -> Entries]
      BY <1>0, <1>7 DEF RetryById
    <2> QED BY <1>5, <1>7, <2>1 DEF RetryById
  <1>8. ASSUME NEW id \in Ids, ImportCancel(id) PROVE Types'
    <2>0. PICK status \in Statuses \cup {"absent"} :
            registry' = [registry EXCEPT ![id].cancel = TRUE, ![id].status = status]
      <3>1. "cancelled" \in Statuses /\ registry[id].status \in Statuses \cup {"absent"}
        BY <1>0, <1>8 DEF Entries, Statuses, Terminal
      <3>2. CASE registry[id].status = "imported"
        BY <1>8, <3>1, <3>2 DEF ImportCancel
      <3>3. CASE registry[id].status # "imported"
        BY <1>8, <3>1, <3>3 DEF ImportCancel
      <3> QED BY <3>2, <3>3
    <2>1. [registry[id] EXCEPT !.cancel = TRUE, !.status = status] \in Entries
      BY <1>0, <2>0 DEF Entries
    <2>2. registry' = [registry EXCEPT ![id] =
                         [registry[id] EXCEPT !.cancel = TRUE, !.status = status]]
      BY <1>0, <2>0
    <2>3. registry' \in [Ids -> Entries]
      BY <1>0, <2>1, <2>2
    <2> QED BY <1>0, <1>1, <1>2, <1>8, <2>3 DEF ImportCancel, RetryIsOfAnImport
  <1>9. CASE Retry
    <2>0. tool.at # "idle" /\ tool.id \in Ids /\ tool.id[1] \in KnownSources
      BY <1>0, <1>9, IdsOfSources DEF Retry, RetryMarks, RetryAnswered, RetryFailed, RetryReadsBack,
                        RetryPersists, RetryIsOfAnImport
    <2>1. registry[tool.id] \in Entries /\ tool.seen \in Entries /\ calls["tool"] \in CompileCalls
      BY <1>0, <2>0, IdsOfSources DEF Tools
    <2>2. ASSUME NEW stage \in ToolStages, tool' = [tool EXCEPT !.at = stage]
          PROVE  tool' \in Tools /\ tool'.id \in Ids
      BY <1>0, <2>0, <2>2 DEF Tools
    <2>3. {"compiling", "marked", "persisting"} \subseteq ToolStages
      BY DEF ToolStages
    <2>4. NoRetry \in Tools /\ NoRetry.at = "idle"
      BY NoThingTypes DEF NoRetry
    <2>5. CASE RetryMarks
      <3>1. registry' \in [Ids -> Entries]
        BY <1>0, <2>0, <2>1, <2>5 DEF RetryMarks, Entries, Statuses
      <3>2. calls' \in [Callers -> CompileCalls] /\ CompilesHaveSources'
        BY <1>0, <2>0, <2>5, CompileBegins, IdsOfSources DEF RetryMarks
      <3>3. tool' \in Tools /\ tool'.id \in Ids
        BY <2>2, <2>3, <2>5 DEF RetryMarks
      <3> QED BY <1>0, <1>1, <2>5, <3>1, <3>2, <3>3 DEF RetryMarks
    <2>6. CASE RetryAnswered
      <3>1. registry' \in [Ids -> Entries]
        BY <1>0, <2>0, <2>1, <2>6
           DEF RetryAnswered, Entries, Statuses, Terminal, CompileCalls
      <3>2. calls' \in [Callers -> CompileCalls] /\ CompilesHaveSources'
        BY <1>0, <2>6, CompileGone, IdsOfSources DEF RetryAnswered
      <3> QED BY <1>0, <1>1, <2>4, <2>6, <3>1, <3>2 DEF RetryAnswered
    <2>7. CASE RetryFailed
      <3>1. MarkedPending(registry[tool.id], FALSE) \in Entries
        BY <2>1 DEF MarkedPending, Entries, Statuses, Terminal, Graphs
      <3>2. registry' \in [Ids -> Entries]
        BY <1>0, <2>0, <2>7, <3>1, EntryMoves DEF RetryFailed
      <3>3. calls' \in [Callers -> CompileCalls] /\ CompilesHaveSources'
        BY <1>0, <2>7, CompileGone, IdsOfSources DEF RetryFailed
      <3>4. tool' \in Tools /\ tool'.id \in Ids
        BY <2>2, <2>3, <2>7 DEF RetryFailed
      <3> QED BY <1>0, <1>1, <2>7, <3>2, <3>3, <3>4 DEF RetryFailed
    <2>8. CASE RetryReadsBack
      <3>1. tool' \in Tools /\ tool'.id \in Ids
        BY <1>0, <2>0, <2>1, <2>3, <2>8 DEF RetryReadsBack, Tools
      <3> QED BY <1>0, <1>1, <1>2, <2>8, <3>1 DEF RetryReadsBack
    <2>9. ASSUME NEW lost \in BOOLEAN, RetryPersists(lost) PROVE Types'
      <3>1. rows' \in [KnownSources -> Rows]
        BY <1>0, <2>0, <2>1, <2>9, PersistedTypes DEF RetryPersists
      <3> QED BY <1>0, <1>1, <1>2, <2>4, <2>9, <3>1 DEF RetryPersists
    <2> QED BY <1>9, <2>5, <2>6, <2>7, <2>8, <2>9 DEF Retry
  <1>10. CASE Restart
    <2>1. registry' \in [Ids -> Entries] /\ tool' \in Tools /\ tool'.at = "idle"
      BY <1>10, NoThingTypes DEF Restart, NoRetry
    <2>2. threads' \in [Jobs -> Threads]
      BY <1>10, NoThingTypes DEF Restart, Threads, ThreadStages
    <2>3. calls' \in [Callers -> CompileCalls] /\ CompilesHaveSources'
      BY <1>0, <1>10, NoThingTypes DEF Restart, CompilesHaveSources, NoCall
    <2>4. restarts' \in 0 .. MaxRestarts
      BY <1>0, <1>10 DEF Restart
    <2> QED BY <1>0, <1>10, <2>1, <2>2, <2>3, <2>4
            DEF Restart, Types, TypeOK, RetryIsOfAnImport
  <1> QED BY <1>4, <1>6, <1>7, <1>8, <1>9, <1>10

LEMMA StepImportTypes == Types /\ [ImportNext]_importVars => Types'
  <1> SUFFICES ASSUME Types, [ImportNext]_importVars PROVE Types'
    OBVIOUS
  <1>1. CASE UNCHANGED importVars
    BY <1>1 DEF importVars, Types, TypeOK, RetryIsOfAnImport, CompilesHaveSources
  <1>2. CASE ImportNext
    BY <1>2, EngineTypes, ThreadTypes, ToolTypes DEF ImportNext
  <1> QED BY <1>1, <1>2

\* Registry, rows, threads and calls are well typed, for any number of
\* imports, attempts, retries and restarts.
THEOREM ImportsTypeCorrect == ImportSpec => []TypeOK
  <1>1. Types => TypeOK
    BY DEF Types
  <1> QED BY <1>1, InitTypes, StepImportTypes, PTL DEF ImportSpec

-----------------------------------------------------------------------------
(* ImportLifecycle: ended imports, and those to be cancelled.              *)

\* Stages of a thread before its source can be cited.
Early == {"idle", "spawned", "starting", "parsing", "parsed", "packaging", "packaged",
          "compiling", "reading"}

\* An import has no entry before it begins.  Until its source can be cited a
\* thread fails an import only if it has none of the statuses that follow, and
\* nobody retries its graph.
NotBegun(j) == threads[j].at = "idle" => registry[Own(j)] = NoEntry
Uncited(j) ==
  threads[j].at \in Early =>
    /\ ~registry[Own(j)].citation
    /\ registry[Own(j)].status \in {"absent", "imported", "parsing", "packaging",
                                    "failed", "cancelled"}
    /\ ~(tool.at # "idle" /\ tool.id = Own(j))

\* A thread that has marked its import goes on past the citation.
GoesOn(j) ==
  threads[j].at \in {"marked", "persisting"} =>
    threads[j].next \in {"cited", "resuming", "graphed"}

ImportInv == Types /\ \A j \in Jobs : NotBegun(j) /\ Uncited(j) /\ GoesOn(j)

\* What one step may make of the status of an import.
StatusKept(j) ==
  LET old == registry[Own(j)]
      new == registry'[Own(j)]
  IN  new.status # old.status =>
        \/ old.status \notin Terminal /\ (old.cancel => new.status \in {"cancelled", "failed"})
        \/ Retrying(Own(j))
        \/ Lost

\* All of it, of one import.
Kept(j) == NotBegun(j)' /\ Uncited(j)' /\ GoesOn(j)' /\ StatusKept(j)

\* A report leaves an ended import as it is, and obeys a cancellation.
LEMMA UpdatedKeeps ==
  ASSUME NEW old \in Entries, NEW e \in Entries, NEW u, u = Updated(old, e)
  PROVE  /\ u.status # old.status => old.status \notin Terminal
         /\ u.status # old.status /\ old.cancel => u.status = "cancelled"
         /\ u.status \in {old.status, "cancelled", e.status}
         /\ u.citation \in {old.citation, e.citation}
  BY DEF Updated, Entries

\* Most steps leave an import, its thread and the retry alone.
LEMMA AloneIsKept ==
  ASSUME ImportInv, NEW j \in Jobs,
         registry'[Own(j)] = registry[Own(j)], threads'[j] = threads[j],
         tool'.at # "idle" /\ tool'.id = Own(j) =>
           \/ tool.at # "idle" /\ tool.id = Own(j)
           \/ registry[Own(j)].citation
  PROVE  Kept(j)
  BY DEF ImportInv, NotBegun, Uncited, GoesOn, Kept, StatusKept

\* The thread of an import writes no entry but its own.
LEMMA ThreadOfAnother ==
  ASSUME ImportInv, NEW i \in Jobs, NEW j \in Jobs, i # j,
         \/ Thread(i)
         \/ \E skip \in BOOLEAN : ImportSource(i, skip)
         \/ \E status \in Statuses : Progress(i, status)
  PROVE  Kept(j)
  <1>0. /\ registry \in [Ids -> Entries] /\ threads \in [Jobs -> Threads]
        /\ Own(i) # Own(j) /\ Own(i) \in Ids /\ Own(j) \in Ids
    BY IdsOfSources DEF ImportInv, Types, TypeOK
  <1>1. UNCHANGED tool
    BY DEF Thread, ImportSource, Progress, Report, Check, Fail, Parsed, Compiled, Cite,
           GraphFailed, ReadBack, Persist, Resume, GraphAnswered, Finish
  <1>2. threads'[j] = threads[j]
    BY <1>0 DEF Thread, ImportSource, Progress, Report, Check, Fail, Parsed, Compiled, Cite,
           GraphFailed, ReadBack, Persist, Resume, GraphAnswered, Finish, To
  <1>3. registry'[Own(j)] = registry[Own(j)]
    BY <1>0 DEF Thread, ImportSource, Progress, Report, Check, Fail, Parsed, Compiled, Cite,
           GraphFailed, ReadBack, Persist, Resume, GraphAnswered, Finish, UpdateActive
  <1> QED BY <1>1, <1>2, <1>3, AloneIsKept

\* What the thread of an import does to its own entry.
LEMMA ThreadKeeps ==
  ASSUME ImportInv, NEW j \in Jobs,
         \/ Thread(j)
         \/ \E skip \in BOOLEAN : ImportSource(j, skip)
         \/ \E status \in Statuses : Progress(j, status)
  PROVE  Kept(j)
  <1> DEFINE old == registry[Own(j)]
             new == registry'[Own(j)]
  <1>0. /\ registry \in [Ids -> Entries] /\ threads \in [Jobs -> Threads]
        /\ Own(j) \in Ids /\ old \in Entries /\ threads[j] \in Threads
        /\ NotBegun(j) /\ Uncited(j) /\ GoesOn(j)
    BY IdsOfSources DEF ImportInv, Types, TypeOK
  <1>1. UNCHANGED tool
    BY DEF Thread, ImportSource, Progress, Report, Check, Fail, Parsed, Compiled, Cite,
           GraphFailed, ReadBack, Persist, Resume, GraphAnswered, Finish
  <1>2. ASSUME new = old, threads'[j].at # "idle",
               threads'[j].at \in Early => threads[j].at \in Early,
               GoesOn(j)'
        PROVE  Kept(j)
    BY <1>0, <1>1, <1>2 DEF NotBegun, Uncited, Kept, StatusKept
  <1>3. ASSUME NEW e \in Entries, UpdateActive(Own(j), e), threads'[j].at \notin Early,
               GoesOn(j)'
        PROVE  Kept(j)
    <2>1. new = Updated(old, e)
      BY <1>0, <1>3 DEF UpdateActive
    <2>2. StatusKept(j)
      BY <1>0, <2>1, UpdatedKeeps DEF StatusKept
    <2> QED BY <1>3, <2>2 DEF NotBegun, Uncited, Kept, Early
  <1>4. ASSUME NEW from, NEW status \in Statuses, NEW to \in ThreadStages \ {"idle", "marked", "persisting"},
               Report(j, from, status, to),
               to \in Early => from \in Early /\ status \in {"imported", "parsing", "packaging", "failed"}
        PROVE  Kept(j)
    <2> DEFINE e == [old EXCEPT !.status = status]
    <2>1. e \in Entries /\ e.status = status /\ e.citation = old.citation
      BY <1>0 DEF Entries
    <2>2. new = Updated(old, e)
      BY <1>0, <1>4 DEF Report, UpdateActive
    <2>3. threads'[j].at = to
      BY <1>0, <1>4 DEF Report, To, Threads
    <2> HIDE DEF e
    <2>4. /\ new.status # old.status => old.status \notin Terminal
          /\ new.status # old.status /\ old.cancel => new.status = "cancelled"
          /\ new.status \in {old.status, "cancelled", status}
          /\ new.citation = old.citation
      BY <1>0, <2>1, <2>2, UpdatedKeeps
    <2>5. StatusKept(j)
      BY <2>4 DEF StatusKept
    <2>6. NotBegun(j)' /\ GoesOn(j)'
      BY <1>4, <2>3 DEF NotBegun, GoesOn
    <2>7. Uncited(j)'
      BY <1>0, <1>1, <1>4, <2>3, <2>4 DEF Uncited, Report, At
    <2> QED BY <2>5, <2>6, <2>7 DEF Kept
  <1>5. ASSUME NEW skip \in BOOLEAN, ImportSource(j, skip) PROVE Kept(j)
    <2>1. old = NoEntry /\ threads[j].at = "idle"
      BY <1>0, <1>5 DEF ImportSource, At, NotBegun
    <2>2. new = [NoEntry EXCEPT !.status = "imported"]
      BY <1>0, <1>5 DEF ImportSource
    <2>3. threads'[j].at = "spawned"
      BY <1>0, <1>5 DEF ImportSource, Threads
    <2> QED BY <1>0, <1>1, <2>1, <2>2, <2>3
            DEF NoEntry, Early, Terminal, NotBegun, Uncited, GoesOn, Kept, StatusKept
  <1>6. CASE Check(j)
    <2>1. threads[j].at \in DOMAIN AfterCheck
      BY <1>6 DEF Check
    <2>2. CASE old.cancel
      <3>1. /\ new.citation = old.citation
            /\ new.status = IF old.status \in Terminal THEN old.status ELSE "cancelled"
        BY <1>0, <1>6, <2>2 DEF Check, Entries
      <3>2. threads'[j].at = "ended"
        BY <1>0, <1>6, <2>2 DEF Check, To, Threads
      <3> QED BY <3>1, <3>2 DEF Early, NotBegun, Uncited, GoesOn, Kept, StatusKept
    <2>3. CASE ~old.cancel
      <3>1. UNCHANGED registry
        BY <1>6, <2>3 DEF Check
      <3>2. threads'[j].at \in {"ended", AfterCheck[threads[j].at]}
        BY <1>0, <1>6, <2>3 DEF Check, To, Threads
      <3>3. /\ threads'[j].at # "idle"
            /\ threads'[j].at \in Early => threads[j].at \in Early
            /\ threads'[j].at \notin {"marked", "persisting"}
        BY <2>1, <3>2 DEF AfterCheck, Early
      <3> QED BY <1>2, <3>1, <3>3 DEF GoesOn
    <2> QED BY <2>2, <2>3
  <1>7. ASSUME NEW status \in Statuses, Progress(j, status) PROVE Kept(j)
    BY <1>4, <1>7 DEF Progress, ThreadStages, Early
  <1>8. CASE Report(j, "starting", "parsing", "parsing")
    BY <1>4, <1>8 DEF ThreadStages, Early, Statuses
  <1>9. CASE Report(j, "packaging", "packaging", "packaged")
    BY <1>4, <1>9 DEF ThreadStages, Early, Statuses
  <1>10. CASE Report(j, "materializing", "citation_ready", "planned")
    BY <1>4, <1>10 DEF ThreadStages, Early, Statuses
  <1>11. CASE Fail(j)
    <2>1. threads[j].at \in Early /\ threads'[j].at = "ended"
      BY <1>0, <1>11 DEF Fail, At, To, GoesOn, Early, Threads
    <2>2. new = FailedEntry(old)
      BY <1>0, <1>11 DEF Fail
    <2>3. /\ new.status \in {old.status, "failed"}
          /\ old.status = "cancelled" => new.status = "cancelled"
      BY <1>0, <2>2 DEF FailedEntry, Entries
    <2>4. old.status \in Terminal => old.status \in {"failed", "cancelled"}
      BY <1>0, <2>1 DEF Uncited, Terminal
    <2>5. StatusKept(j)
      BY <2>3, <2>4 DEF StatusKept
    <2> QED BY <2>1, <2>5 DEF Early, NotBegun, Uncited, GoesOn, Kept
  <1>12. CASE Parsed(j)
    BY <1>0, <1>2, <1>12 DEF Parsed, At, To, GoesOn, Early, Threads
  <1>13. CASE Compiled(j)
    BY <1>0, <1>2, <1>13 DEF Compiled, At, To, GoesOn, Early, Threads
  <1>14. ASSUME NEW cites \in BOOLEAN, Cite(j, cites) PROVE Kept(j)
    <2> DEFINE e == [old EXCEPT !.status = "citation_ready", !.citation = cites]
    <2>1. e \in Entries
      BY <1>0 DEF Entries, Statuses
    <2>2. [e EXCEPT !.status = "graph_skipped", !.graph = "skipped"] \in Entries
      BY <2>1 DEF Entries, Statuses, Terminal, Graphs
    <2>3. /\ threads'[j].at \in {"marked", "cited"}
          /\ threads'[j].at = "marked" => threads'[j].next = "cited"
      BY <1>0, <1>14 DEF Cite, To, Threads
    <2> QED BY <1>3, <1>14, <2>1, <2>2, <2>3 DEF Cite, GoesOn, Early
  <1>15. ASSUME NEW retryable \in BOOLEAN, GraphFailed(j, retryable) PROVE Kept(j)
    <2> DEFINE again == retryable /\ threads[j].attempt < MaxAttempts
    <2>1. MarkedPending(old, again) \in Entries
      BY <1>0 DEF MarkedPending, Entries, Statuses, Terminal, Graphs
    <2>2. threads'[j].at = "marked" /\ threads'[j].next \in {"resuming", "graphed"}
      BY <1>0, <1>15 DEF GraphFailed, Threads
    <2> QED BY <1>3, <1>15, <2>1, <2>2 DEF GraphFailed, GoesOn, Early
  <1>16. CASE ReadBack(j)
    BY <1>0, <1>2, <1>16 DEF ReadBack, At, To, GoesOn, Early, Threads
  <1>17. ASSUME NEW lost \in BOOLEAN, Persist(j, lost) PROVE Kept(j)
    BY <1>0, <1>2, <1>17 DEF Persist, At, To, GoesOn, Early, Threads
  <1>18. CASE Resume(j)
    <2>1. [old EXCEPT !.status = "citation_ready"] \in Entries
      BY <1>0 DEF Entries, Statuses
    <2>2. threads'[j].at = "graphing"
      BY <1>0, <1>18 DEF Resume, To, Threads
    <2> QED BY <1>3, <1>18, <2>1, <2>2 DEF Resume, GoesOn, Early
  <1>19. CASE GraphAnswered(j)
    BY <1>0, <1>2, <1>19 DEF GraphAnswered, At, To, GoesOn, Early, Threads
  <1>20. CASE Finish(j)
    <2> DEFINE g == threads[j].outcome
    <2>1. [old EXCEPT !.graph = g, !.status = StatusOf(g)] \in Entries
      BY <1>0 DEF Entries, Threads, StatusOf, Statuses, Terminal
    <2>2. threads'[j].at = "ended"
      BY <1>0, <1>20 DEF Finish, To, Threads
    <2> QED BY <1>3, <1>20, <2>1, <2>2 DEF Finish, GoesOn, Early
  <1> QED BY <1>5, <1>6, <1>7, <1>8, <1>9, <1>10, <1>11, <1>12, <1>13, <1>14, <1>15, <1>16,
             <1>17, <1>18, <1>19, <1>20 DEF Thread

\* What the tools, and a restart, do to an import.
LEMMA ToolKeeps ==
  ASSUME ImportInv, NEW j \in Jobs,
         \/ \E s \in KnownSources : ImportStatus(s) \/ RetryBySource(s)
         \/ \E id \in Ids : ImportCancel(id) \/ RetryById(id)
         \/ Retry
         \/ Restart
  PROVE  Kept(j)
  <1> DEFINE old == registry[Own(j)]
             new == registry'[Own(j)]
  <1>0. /\ registry \in [Ids -> Entries] /\ threads \in [Jobs -> Threads]
        /\ Own(j) \in Ids /\ old \in Entries /\ threads[j] \in Threads
        /\ tool \in Tools /\ (tool.at # "idle" => tool.id \in Ids)
        /\ NotBegun(j) /\ Uncited(j) /\ GoesOn(j)
    BY IdsOfSources DEF ImportInv, Types, TypeOK, RetryIsOfAnImport
  <1>1. ASSUME NEW s \in KnownSources, ImportStatus(s) \/ RetryBySource(s)
        PROVE  /\ new = old /\ threads'[j] = threads[j]
               /\ tool'.at # "idle" => tool'.id # Own(j)
    <2>1. Own(j) # ByRow(s)
      BY IdsOfSources
    <2>2. new = old /\ threads'[j] = threads[j]
      BY <1>0, <1>1, <2>1 DEF ImportStatus, RetryBySource, RetryFinds
    <2>3. ASSUME ImportStatus(s) PROVE tool'.at = "idle"
      BY <2>3 DEF ImportStatus
    <2>4. ASSUME RetryBySource(s) PROVE tool'.id = ByRow(s)
      BY <1>0, <2>4 DEF RetryBySource, RetryFinds, Tools
    <2> QED BY <1>1, <2>1, <2>2, <2>3, <2>4
  <1>2. ASSUME NEW id \in Ids, RetryById(id) PROVE Kept(j)
    <2>1. new = old /\ threads'[j] = threads[j] /\ tool'.id = id /\ registry[id].citation
      BY <1>0, <1>2 DEF RetryById, RetryFinds, Tools
    <2> QED BY <2>1, AloneIsKept
  <1>3. ASSUME NEW id \in Ids, ImportCancel(id) PROVE Kept(j)
    <2>1. UNCHANGED <<threads, tool>>
      BY <1>3 DEF ImportCancel
    <2>2. CASE id # Own(j)
      <3>1. new = old
        BY <1>0, <1>3, <2>2 DEF ImportCancel
      <3> QED BY <2>1, <3>1, AloneIsKept
    <2>3. CASE id = Own(j)
      <3>1. /\ old.status \notin Terminal \cup {"absent"}
            /\ new.citation = old.citation
            /\ new.status = IF old.status = "imported" THEN "cancelled" ELSE old.status
        BY <1>0, <1>3, <2>3 DEF ImportCancel, Entries
      <3>2. old # NoEntry
        BY <3>1 DEF NoEntry
      <3> QED BY <1>0, <2>1, <3>1, <3>2 DEF NotBegun, Uncited, GoesOn, Kept, StatusKept
    <2> QED BY <2>2, <2>3
  <1>4. CASE Retry
    <2>1. /\ UNCHANGED threads
          /\ tool.at # "idle"
          /\ tool'.at = "idle" \/ tool'.id = tool.id
      <3>1. UNCHANGED threads /\ tool.at # "idle"
        BY <1>4 DEF Retry, RetryMarks, RetryAnswered, RetryFailed, RetryReadsBack,
                    RetryPersists
      <3>2. \/ tool' = NoRetry
            \/ \E stage \in ToolStages : tool' = [tool EXCEPT !.at = stage]
            \/ tool' = [tool EXCEPT !.at = "persisting", !.seen = registry[tool.id]]
        BY <1>4 DEF Retry, RetryMarks, RetryAnswered, RetryFailed, RetryReadsBack,
                    RetryPersists, ToolStages
      <3>3. NoRetry.at = "idle"
        BY DEF NoRetry
      <3>4. (\E stage \in ToolStages : tool' = [tool EXCEPT !.at = stage])
               => tool'.id = tool.id
        BY <1>0 DEF Tools
      <3>5. tool' = [tool EXCEPT !.at = "persisting", !.seen = registry[tool.id]]
               => tool'.id = tool.id
        BY <1>0 DEF Tools
      <3> QED BY <3>1, <3>2, <3>3, <3>4, <3>5
    <2>2. CASE tool.id # Own(j)
      <3>1. new = old
        BY <1>0, <1>4, <2>2 DEF Retry, RetryMarks, RetryAnswered, RetryFailed, RetryReadsBack,
                                RetryPersists, UpdateActive
      <3> QED BY <2>1, <2>2, <3>1, AloneIsKept
    <2>3. CASE tool.id = Own(j)
      <3>1. threads[j].at \notin Early /\ threads' = threads
        BY <1>0, <2>1, <2>3 DEF Uncited
      <3>2. NotBegun(j)' /\ Uncited(j)' /\ GoesOn(j)'
        BY <1>0, <3>1 DEF NotBegun, Uncited, GoesOn, Early
      <3>3. CASE tool.at \in {"marking", "compiling"}
        BY <2>3, <3>2, <3>3 DEF Kept, StatusKept, Retrying
      <3>4. CASE tool.at \notin {"marking", "compiling"}
        <4>1. UNCHANGED registry
          BY <1>4, <3>4 DEF Retry, RetryMarks, RetryAnswered, RetryFailed, RetryReadsBack,
                            RetryPersists
        <4> QED BY <3>2, <4>1 DEF Kept, StatusKept
      <3> QED BY <3>3, <3>4
    <2> QED BY <2>2, <2>3
  <1>5. CASE Restart
    <2>1. new = NoEntry /\ Lost /\ tool'.at = "idle"
      BY <1>0, <1>5 DEF Restart, Lost, NoRetry
    <2>2. threads'[j].at \in {"idle", "ended"}
      BY <1>0, <1>5 DEF Restart, NoThread
    <2> QED BY <2>1, <2>2 DEF NoEntry, NotBegun, Uncited, GoesOn, Kept, StatusKept
  <1> QED BY <1>0, <1>1, <1>2, <1>3, <1>4, <1>5, AloneIsKept

\* No step does anything else to an import, and the invariant lasts.
LEMMA ImportStep ==
  ImportInv /\ [ImportNext]_importVars => ImportInv' /\ \A j \in Jobs : StatusKept(j)
  <1> SUFFICES ASSUME ImportInv, [ImportNext]_importVars
               PROVE  ImportInv' /\ \A j \in Jobs : StatusKept(j)
    OBVIOUS
  <1>1. Types'
    BY StepImportTypes DEF ImportInv
  <1>2. ASSUME NEW j \in Jobs PROVE Kept(j)
    <2>1. ASSUME UNCHANGED <<registry, threads, tool>> PROVE Kept(j)
      BY <2>1, AloneIsKept
    <2>2. ASSUME NEW k \in Callers, Engine(k) PROVE Kept(j)
      <3>1. UNCHANGED <<registry, threads, tool>>
        BY <2>2 DEF Engine, Save, Materialize, Generate, CompileFails, Forgotten
      <3> QED BY <2>1, <3>1
    <2>3. ASSUME NEW i \in Jobs,
                 \/ \E skip \in BOOLEAN : ImportSource(i, skip)
                 \/ Thread(i)
                 \/ \E status \in Statuses : Progress(i, status)
          PROVE  Kept(j)
      <3>1. CASE i = j
        BY <2>3, <3>1, ThreadKeeps
      <3>2. CASE i # j
        BY <2>3, <3>2, ThreadOfAnother
      <3> QED BY <3>1, <3>2
    <2>4. CASE UNCHANGED importVars
      BY <2>1, <2>4 DEF importVars
    <2> QED BY <2>2, <2>3, <2>4, ToolKeeps DEF ImportNext
  <1> QED BY <1>1, <1>2 DEF Kept, ImportInv

\* A server that starts has no imports.
LEMMA InitImport == ImportInit => ImportInv
  <1> SUFFICES ASSUME ImportInit, NEW j \in Jobs
               PROVE  NotBegun(j) /\ Uncited(j) /\ GoesOn(j)
    BY InitTypes DEF ImportInv
  <1>1. registry[Own(j)] = NoEntry /\ threads[j] = NoThread /\ tool = NoRetry
    BY IdsOfSources DEF ImportInit
  <1> QED BY <1>1 DEF NoThread, NoEntry, NoRetry, NotBegun, Uncited, GoesOn

\* No import is cited, retried or given a later status before its thread has
\* read its evidence back, in any state of the server.
THEOREM CitedInOrder == ImportSpec => []ImportInv
  BY InitImport, ImportStep, PTL DEF ImportSpec

\* However many imports, retries and restarts there are, an import that has
\* ended keeps its status until its graph is retried or the server restarts.
THEOREM EndedImportsStay == ImportSpec => EndedStays
  <1>1. ImportInv /\ [ImportNext]_importVars
          => [\A j \in Jobs :
                /\ registry[Own(j)].status \in Terminal
                /\ registry'[Own(j)].status # registry[Own(j)].status
                => Retrying(Own(j)) \/ Lost]_importVars
    BY ImportStep DEF StatusKept
  <1> QED BY <1>1, InitImport, ImportStep, PTL DEF ImportSpec, EndedStays

\* And one that was asked to cancel ends as cancelled, or failed.
THEOREM CancellationsAreHonoured == ImportSpec => CancelIsHonoured
  <1>1. ImportInv /\ [ImportNext]_importVars
          => [\A j \in Jobs :
                /\ registry[Own(j)].cancel
                /\ registry'[Own(j)].status # registry[Own(j)].status
                => \/ registry'[Own(j)].status \in {"cancelled", "failed"}
                   \/ Retrying(Own(j))
                   \/ Lost]_importVars
    BY ImportStep DEF StatusKept
  <1> QED BY <1>1, InitImport, ImportStep, PTL DEF ImportSpec, CancelIsHonoured

-----------------------------------------------------------------------------
(* ImportLifecycle: no import is abandoned.                                *)

\* A thread that skips the graph has nothing to do after the citation.
SkipEnds(j) ==
  threads[j].skip =>
    /\ threads[j].at \in (Early \ {"idle"}) \cup {"marked", "persisting", "cited", "ended"}
    /\ threads[j].at \in {"marked", "persisting"} => threads[j].next = "cited"

\* An import that has not ended has somebody who will report its end: its
\* thread, which still has a report to make, or a retry that compiles.
Attended(j) ==
  registry[Own(j)].status \notin Terminal \cup {"absent"} =>
    \/ /\ threads[j].at \notin {"idle", "ended"}
       /\ threads[j].skip => threads[j].at \in Early
    \/ tool.at = "compiling" /\ tool.id = Own(j)

AttendedInv == ImportInv /\ \A j \in Jobs : SkipEnds(j) /\ Attended(j)

\* What ends an import ends it for good or as cancelled.
LEMMA UpdatedEnds ==
  ASSUME NEW old \in Entries, NEW e \in Entries, e.status \in Terminal
  PROVE  Updated(old, e).status \in Terminal
  BY DEF Updated, Entries, Terminal

\* Most steps leave an import, its thread and a retry of it alone.
LEMMA AloneIsAttended ==
  ASSUME NEW j \in Jobs, SkipEnds(j), Attended(j),
         registry'[Own(j)] = registry[Own(j)], threads'[j] = threads[j],
         tool.at = "compiling" /\ tool.id = Own(j) => tool' = tool
  PROVE  SkipEnds(j)' /\ Attended(j)'
  BY DEF SkipEnds, Attended

\* The thread of an import goes on, or leaves an entry that says it has ended.
LEMMA ThreadAttends ==
  ASSUME ImportInv, NEW j \in Jobs, SkipEnds(j), Attended(j),
         \/ Thread(j)
         \/ \E skip \in BOOLEAN : ImportSource(j, skip)
         \/ \E status \in Statuses : Progress(j, status)
  PROVE  SkipEnds(j)' /\ Attended(j)'
  <1> DEFINE old == registry[Own(j)]
             new == registry'[Own(j)]
  <1>0. /\ registry \in [Ids -> Entries] /\ threads \in [Jobs -> Threads]
        /\ Own(j) \in Ids /\ old \in Entries /\ threads[j] \in Threads
        /\ NotBegun(j) /\ Uncited(j) /\ GoesOn(j)
    BY IdsOfSources DEF ImportInv, Types, TypeOK
  <1>1. UNCHANGED tool
    BY DEF Thread, ImportSource, Progress, Report, Check, Fail, Parsed, Compiled, Cite,
           GraphFailed, ReadBack, Persist, Resume, GraphAnswered, Finish
  <1>2. ASSUME threads'[j].skip = threads[j].skip,
               threads'[j].at \in (Early \ {"idle"}) \cup {"marked", "persisting", "cited"},
               threads'[j].at \in {"marked", "persisting"} /\ threads[j].skip
                 => threads'[j].next = "cited",
               threads[j].skip => threads'[j].at \in Early \/ new.status \in Terminal
        PROVE  SkipEnds(j)' /\ Attended(j)'
    BY <1>2 DEF SkipEnds, Attended, Early
  <1>3. ASSUME threads'[j].skip = threads[j].skip, ~threads[j].skip,
               threads'[j].at \notin {"idle", "ended"}
        PROVE  SkipEnds(j)' /\ Attended(j)'
    BY <1>3 DEF SkipEnds, Attended
  <1>4. ASSUME threads'[j].skip = threads[j].skip, threads'[j].at = "ended",
               new.status \in Terminal
        PROVE  SkipEnds(j)' /\ Attended(j)'
    BY <1>4 DEF SkipEnds, Attended
  <1>5. ASSUME NEW skip \in BOOLEAN, ImportSource(j, skip) PROVE SkipEnds(j)' /\ Attended(j)'
    <2>1. threads'[j].at = "spawned"
      BY <1>0, <1>5 DEF ImportSource, Threads
    <2> QED BY <2>1 DEF SkipEnds, Attended, Early
  <1>6. CASE Check(j)
    <2>1. threads[j].at \in DOMAIN AfterCheck
      BY <1>6 DEF Check
    <2>2. CASE old.cancel
      <3>1. threads'[j].at = "ended" /\ threads'[j].skip = threads[j].skip
        BY <1>0, <1>6, <2>2 DEF Check, To, Threads
      <3>2. new.status \in Terminal
        BY <1>0, <1>6, <2>2 DEF Check, Entries, Terminal
      <3> QED BY <1>4, <3>1, <3>2
    <2>3. CASE ~old.cancel
      <3>1. new = old
        BY <1>6, <2>3 DEF Check
      <3>2. CASE threads[j].at = "cited" /\ threads[j].skip
        <4>0. threads' = [threads EXCEPT ![j].at = "ended"]
          BY <1>6, <2>3, <3>2 DEF Check, To
        <4>1. threads'[j].at = "ended" /\ threads'[j].skip = threads[j].skip
          BY <1>0, <4>0 DEF Threads
        <4> QED BY <1>1, <3>1, <3>2, <4>1 DEF SkipEnds, Attended, Early
      <3>3. CASE ~(threads[j].at = "cited" /\ threads[j].skip)
        <4>1. /\ threads'[j].at = AfterCheck[threads[j].at]
              /\ threads'[j].skip = threads[j].skip
          BY <1>0, <1>6, <2>3, <3>3 DEF Check, To, Threads
        <4>2. CASE threads[j].skip
          <5>1. threads'[j].at \in Early \ {"idle"}
            BY <2>1, <3>3, <4>1, <4>2 DEF AfterCheck, SkipEnds, Early
          <5> QED BY <1>2, <4>1, <5>1 DEF Early
        <4>3. CASE ~threads[j].skip
          <5>1. threads'[j].at \notin {"idle", "ended"}
            BY <2>1, <4>1 DEF AfterCheck
          <5> QED BY <1>3, <4>1, <4>3, <5>1
        <4> QED BY <4>2, <4>3
      <3> QED BY <3>2, <3>3
    <2> QED BY <2>2, <2>3
  <1>7. ASSUME NEW from, NEW status, NEW to \in ThreadStages \ {"idle", "ended"},
               Report(j, from, status, to), to \in Early \/ from \notin Early,
               from \notin {"marked", "persisting", "cited", "ended"}
        PROVE  SkipEnds(j)' /\ Attended(j)'
    <2>1. threads[j].at = from /\ threads'[j].at = to /\ threads'[j].skip = threads[j].skip
      BY <1>0, <1>7 DEF Report, At, To, Threads
    <2>2. CASE to \in Early
      BY <1>2, <1>7, <2>1, <2>2 DEF Early
    <2>3. CASE to \notin Early
      BY <1>3, <1>7, <2>1, <2>3 DEF SkipEnds
    <2> QED BY <2>2, <2>3
  <1>8. ASSUME NEW status \in Statuses, Progress(j, status) PROVE SkipEnds(j)' /\ Attended(j)'
    BY <1>7, <1>8 DEF Progress, ThreadStages, Early
  <1>9. CASE \/ Report(j, "starting", "parsing", "parsing")
             \/ Report(j, "packaging", "packaging", "packaged")
             \/ Report(j, "materializing", "citation_ready", "planned")
    BY <1>7, <1>9 DEF ThreadStages, Early
  <1>10. CASE Fail(j)
    <2>1. threads'[j].at = "ended" /\ threads'[j].skip = threads[j].skip
      BY <1>0, <1>10 DEF Fail, To, Threads
    <2>2. new = FailedEntry(old)
      BY <1>0, <1>10 DEF Fail
    <2>3. new.status \in Terminal
      BY <1>0, <2>2 DEF FailedEntry, Entries, Terminal
    <2> QED BY <1>4, <2>1, <2>3
  <1>11. CASE Parsed(j) \/ Compiled(j)
    <2>1. threads'[j].at \in Early \ {"idle"} /\ threads'[j].skip = threads[j].skip
      BY <1>0, <1>11 DEF Parsed, Compiled, To, Early, Threads
    <2> QED BY <1>2, <2>1 DEF Early
  <1>12. ASSUME NEW cites \in BOOLEAN, Cite(j, cites) PROVE SkipEnds(j)' /\ Attended(j)'
    <2> DEFINE e == [old EXCEPT !.status = "citation_ready", !.citation = cites]
               skipped == [e EXCEPT !.status = "graph_skipped", !.graph = "skipped"]
    <2>1. /\ threads'[j].at \in {"marked", "cited"} /\ threads'[j].skip = threads[j].skip
          /\ threads[j].skip => threads'[j].next = "cited"
      BY <1>0, <1>12 DEF Cite, To, Threads
    <2>2. CASE threads[j].skip
      <3>1. e \in Entries
        BY <1>0 DEF Entries, Statuses
      <3>2. skipped \in Entries /\ skipped.status \in Terminal
        BY <3>1 DEF Entries, Statuses, Terminal, Graphs
      <3>3. new = Updated(old, skipped)
        BY <1>0, <1>12, <2>2 DEF Cite, UpdateActive
      <3>4. new.status \in Terminal
        BY <1>0, <3>2, <3>3, UpdatedEnds
      <3> QED BY <1>2, <2>1, <3>4
    <2>3. CASE ~threads[j].skip
      BY <1>3, <2>1, <2>3
    <2> QED BY <2>2, <2>3
  <1>13. ASSUME NEW retryable \in BOOLEAN, GraphFailed(j, retryable)
         PROVE  SkipEnds(j)' /\ Attended(j)'
    <2>1. ~threads[j].skip
      BY <1>13 DEF GraphFailed, At, SkipEnds, Early
    <2>2. threads'[j].at = "marked" /\ threads'[j].skip = threads[j].skip
      BY <1>0, <1>13 DEF GraphFailed, Threads
    <2> QED BY <1>3, <2>1, <2>2
  <1>14. CASE ReadBack(j)
    <2>1. /\ threads[j].at = "marked" /\ threads'[j].at = "persisting"
          /\ threads'[j].skip = threads[j].skip /\ threads'[j].next = threads[j].next
          /\ new = old
      BY <1>0, <1>14 DEF ReadBack, At, Threads
    <2> QED BY <1>1, <2>1 DEF SkipEnds, Attended, Early
  <1>15. ASSUME NEW lost \in BOOLEAN, Persist(j, lost) PROVE SkipEnds(j)' /\ Attended(j)'
    <2>1. /\ threads[j].at = "persisting" /\ threads'[j].at = threads[j].next
          /\ threads'[j].skip = threads[j].skip /\ new = old
      BY <1>0, <1>15 DEF Persist, At, Threads
    <2>2. threads[j].next \in {"cited", "resuming", "graphed"}
      BY <1>0, <2>1 DEF GoesOn
    <2>3. CASE ~threads[j].skip
      BY <1>3, <2>1, <2>2, <2>3
    <2>4. CASE threads[j].skip /\ threads[j].next = "cited"
      BY <1>1, <2>1, <2>4 DEF SkipEnds, Attended, Early
    <2> QED BY <2>1, <2>3, <2>4 DEF SkipEnds
  <1>16. CASE Resume(j) \/ GraphAnswered(j)
    <2>1. ~threads[j].skip
      BY <1>16 DEF Resume, GraphAnswered, At, SkipEnds, Early
    <2>2. CASE Resume(j)
      <3>1. threads'[j].at = "graphing" /\ threads'[j].skip = threads[j].skip
        BY <1>0, <2>2 DEF Resume, To, Threads
      <3> QED BY <1>3, <2>1, <3>1
    <2>3. CASE GraphAnswered(j)
      <3>1. threads'[j].at = "graphed" /\ threads'[j].skip = threads[j].skip
        BY <1>0, <2>3 DEF GraphAnswered, Threads
      <3> QED BY <1>3, <2>1, <3>1
    <2> QED BY <1>16, <2>2, <2>3
  <1>17. CASE Finish(j)
    <2> DEFINE g == threads[j].outcome
               e == [old EXCEPT !.graph = g, !.status = StatusOf(g)]
    <2>1. e \in Entries /\ e.status \in Terminal
      BY <1>0 DEF Entries, Threads, StatusOf, Statuses, Terminal
    <2>2. threads'[j].at = "ended" /\ threads'[j].skip = threads[j].skip
      BY <1>0, <1>17 DEF Finish, To, Threads
    <2>3. new = Updated(old, e)
      BY <1>0, <1>17 DEF Finish, UpdateActive
    <2> HIDE DEF e
    <2>4. new.status \in Terminal
      BY <1>0, <2>1, <2>3, UpdatedEnds
    <2> QED BY <1>4, <2>2, <2>4
  <1> QED BY <1>5, <1>6, <1>8, <1>9, <1>10, <1>11, <1>12, <1>13, <1>14, <1>15, <1>16, <1>17
          DEF Thread

\* A tool call leaves an import to its thread, or ends it itself.
LEMMA ToolAttends ==
  ASSUME ImportInv, NEW j \in Jobs, SkipEnds(j), Attended(j),
         \/ \E s \in KnownSources : ImportStatus(s) \/ RetryBySource(s)
         \/ \E id \in Ids : ImportCancel(id) \/ RetryById(id)
         \/ Retry
         \/ Restart
  PROVE  SkipEnds(j)' /\ Attended(j)'
  <1> DEFINE old == registry[Own(j)]
             new == registry'[Own(j)]
  <1>0. /\ registry \in [Ids -> Entries] /\ threads \in [Jobs -> Threads]
        /\ Own(j) \in Ids /\ old \in Entries /\ threads[j] \in Threads
        /\ tool \in Tools /\ (tool.at # "idle" => tool.id \in Ids)
        /\ calls \in [Callers -> CompileCalls]
    BY IdsOfSources DEF ImportInv, Types, TypeOK, RetryIsOfAnImport
  <1>1. ASSUME NEW s \in KnownSources, ImportStatus(s) \/ RetryBySource(s)
        PROVE  SkipEnds(j)' /\ Attended(j)'
    <2>1. Own(j) # ByRow(s)
      BY IdsOfSources
    <2>2. new = old /\ threads'[j] = threads[j] /\ tool.at = "idle"
      BY <1>0, <1>1, <2>1 DEF ImportStatus, RetryBySource, RetryFinds
    <2> QED BY <2>2, AloneIsAttended
  <1>2. ASSUME NEW id \in Ids, RetryById(id) PROVE SkipEnds(j)' /\ Attended(j)'
    <2>1. new = old /\ threads'[j] = threads[j] /\ tool.at = "idle"
      BY <1>0, <1>2 DEF RetryById, RetryFinds
    <2> QED BY <2>1, AloneIsAttended
  <1>3. ASSUME NEW id \in Ids, ImportCancel(id) PROVE SkipEnds(j)' /\ Attended(j)'
    <2>1. UNCHANGED <<threads, tool>>
      BY <1>3 DEF ImportCancel
    <2>2. new.status \in {old.status, "cancelled"}
      BY <1>0, <1>3 DEF ImportCancel, Entries
    <2> QED BY <2>1, <2>2 DEF SkipEnds, Attended, Terminal
  <1>4. CASE Retry
    <2>1. UNCHANGED threads
      BY <1>4 DEF Retry, RetryMarks, RetryAnswered, RetryFailed, RetryReadsBack, RetryPersists
    <2>2. CASE tool.id # Own(j)
      <3>1. new = old
        BY <1>0, <1>4, <2>2 DEF Retry, RetryMarks, RetryAnswered, RetryFailed, RetryReadsBack,
                                RetryPersists, UpdateActive
      <3> QED BY <2>1, <2>2, <3>1, AloneIsAttended
    <2>3. CASE tool.id = Own(j) /\ RetryMarks
      <3>1. tool'.at = "compiling" /\ tool'.id = Own(j)
        BY <1>0, <2>3 DEF RetryMarks, Tools
      <3> QED BY <2>1, <3>1 DEF SkipEnds, Attended
    <2>4. CASE tool.id = Own(j) /\ RetryAnswered
      <3>1. new.status \in {"context_ready", "graph_pending"}
        BY <1>0, <2>4 DEF RetryAnswered, Entries
      <3> QED BY <2>1, <3>1 DEF SkipEnds, Attended, Terminal
    <2>5. CASE tool.id = Own(j) /\ RetryFailed
      <3> DEFINE e == MarkedPending(old, FALSE)
      <3>1. e \in Entries /\ e.status \in Terminal
        BY <1>0 DEF MarkedPending, Entries, Statuses, Terminal, Graphs
      <3>2. new = Updated(old, e)
        BY <1>0, <2>5 DEF RetryFailed, UpdateActive
      <3> HIDE DEF e
      <3>3. new.status \in Terminal
        BY <1>0, <3>1, <3>2, UpdatedEnds
      <3> QED BY <2>1, <3>3 DEF SkipEnds, Attended
    <2>6. CASE RetryReadsBack \/ \E lost \in BOOLEAN : RetryPersists(lost)
      <3>1. new = old /\ tool.at # "compiling"
        BY <2>6 DEF RetryReadsBack, RetryPersists
      <3> QED BY <2>1, <3>1, AloneIsAttended
    <2> QED BY <1>4, <2>2, <2>3, <2>4, <2>5, <2>6 DEF Retry
  <1>5. CASE Restart
    <2>1. new.status = "absent"
      BY <1>0, <1>5 DEF Restart, NoEntry
    <2>2. threads'[j].at \in {"idle", "ended"} /\ threads'[j].skip = FALSE
      BY <1>0, <1>5 DEF Restart, NoThread
    <2> QED BY <2>1, <2>2 DEF SkipEnds, Attended
  <1> QED BY <1>1, <1>2, <1>3, <1>4, <1>5

\* A thread has nothing to do with the import of another one.
LEMMA OtherAttends ==
  ASSUME ImportInv, NEW i \in Jobs, NEW j \in Jobs, i # j, SkipEnds(j), Attended(j),
         \/ Thread(i)
         \/ \E skip \in BOOLEAN : ImportSource(i, skip)
         \/ \E status \in Statuses : Progress(i, status)
  PROVE  SkipEnds(j)' /\ Attended(j)'
  <1>0. /\ registry \in [Ids -> Entries] /\ threads \in [Jobs -> Threads]
        /\ Own(i) # Own(j) /\ Own(i) \in Ids /\ Own(j) \in Ids
    BY IdsOfSources DEF ImportInv, Types, TypeOK
  <1>1. UNCHANGED tool
    BY DEF Thread, ImportSource, Progress, Report, Check, Fail, Parsed, Compiled, Cite,
           GraphFailed, ReadBack, Persist, Resume, GraphAnswered, Finish
  <1>2. threads'[j] = threads[j]
    BY <1>0 DEF Thread, ImportSource, Progress, Report, Check, Fail, Parsed, Compiled, Cite,
           GraphFailed, ReadBack, Persist, Resume, GraphAnswered, Finish, To
  <1>3. registry'[Own(j)] = registry[Own(j)]
    BY <1>0 DEF Thread, ImportSource, Progress, Report, Check, Fail, Parsed, Compiled, Cite,
           GraphFailed, ReadBack, Persist, Resume, GraphAnswered, Finish, UpdateActive
  <1> QED BY <1>1, <1>2, <1>3, AloneIsAttended

\* Whoever takes a step, every import keeps somebody who will end it.
LEMMA AttendedStep == AttendedInv /\ [ImportNext]_importVars => AttendedInv'
  <1> SUFFICES ASSUME AttendedInv, [ImportNext]_importVars PROVE AttendedInv'
    OBVIOUS
  <1>1. ImportInv /\ ImportInv'
    BY ImportStep DEF AttendedInv
  <1>2. ASSUME NEW j \in Jobs PROVE SkipEnds(j)' /\ Attended(j)'
    <2>0. SkipEnds(j) /\ Attended(j)
      BY DEF AttendedInv
    <2>1. ASSUME UNCHANGED <<registry, threads, tool>> PROVE SkipEnds(j)' /\ Attended(j)'
      BY <2>0, <2>1, AloneIsAttended
    <2>2. ASSUME NEW k \in Callers, Engine(k) PROVE SkipEnds(j)' /\ Attended(j)'
      <3>1. UNCHANGED <<registry, threads, tool>>
        BY <2>2 DEF Engine, Save, Materialize, Generate, CompileFails, Forgotten
      <3> QED BY <2>1, <3>1
    <2>3. ASSUME NEW i \in Jobs,
                 \/ \E skip \in BOOLEAN : ImportSource(i, skip)
                 \/ Thread(i)
                 \/ \E status \in Statuses : Progress(i, status)
          PROVE  SkipEnds(j)' /\ Attended(j)'
      <3>1. CASE i = j
        BY <1>1, <2>0, <2>3, <3>1, ThreadAttends
      <3>2. CASE i # j
        BY <1>1, <2>0, <2>3, <3>2, OtherAttends
      <3> QED BY <3>1, <3>2
    <2>4. CASE UNCHANGED importVars
      BY <2>1, <2>4 DEF importVars
    <2> QED BY <1>1, <2>0, <2>2, <2>3, <2>4, ToolAttends DEF ImportNext
  <1> QED BY <1>1, <1>2 DEF AttendedInv

\* Whatever was cancelled, failed, lost or restarted before, an import that has
\* not ended has a thread with a report to make, or a retry of it that compiles:
\* update_active and the checks for cancellation drop no report it needs.
THEOREM NoImportIsAbandoned == ImportSpec => [](\A j \in Jobs : Attended(j))
  <1>1. ImportInit => AttendedInv
    <2> SUFFICES ASSUME ImportInit, NEW j \in Jobs PROVE SkipEnds(j) /\ Attended(j)
      BY InitImport DEF AttendedInv
    <2>1. registry[Own(j)] = NoEntry /\ threads[j] = NoThread
      BY IdsOfSources DEF ImportInit
    <2> QED BY <2>1 DEF NoThread, NoEntry, SkipEnds, Attended
  <1>2. AttendedInv => \A j \in Jobs : Attended(j)
    BY DEF AttendedInv
  <1> QED BY <1>1, <1>2, AttendedStep, PTL DEF ImportSpec
=============================================================================
