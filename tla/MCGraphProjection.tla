------------------------- MODULE MCGraphProjection --------------------------
(***************************************************************************)
(* Instance of GraphProjection for TLC: two nodes and a relation, and the  *)
(* calls the cfg names, of which a group at a time is made, about the ids  *)
(* of the group.  The other calls have failed before the behaviour begins, *)
(* which every call may.                                                   *)
(***************************************************************************)
EXTENDS GraphProjection

CONSTANTS node, peer, relation, Groups, Pair, Narrow

MCIds == {node, peer, relation}
MCTableOf == [i \in MCIds |-> IF i = relation THEN 2 ELSE 1]

\* Two replacements compete for two rows of one table; other calls are about
\* rows of two tables, one upsert about the relation only.
IdsOf(c) ==
  CASE c \in Pair -> {node, peer}
    [] c \in Narrow -> {relation}
    [] OTHER -> {node, relation}
MCAbout == [c \in Calls |-> IdsOf(c)]

MCInit ==
  \E together \in Groups :
    /\ \E seeded \in SUBSET (UNION {IdsOf(c) : c \in together}) :
         rows = {[id |-> i, from |-> 1, to |-> Live, by |-> Seed] : i \in seeded}
    /\ call = [c \in Calls |->
                 IF c \in together THEN Idle ELSE [Idle EXCEPT !.step = "failed"]]

MCSpec == MCInit /\ [][Next]_vars /\ Fairness
=============================================================================
