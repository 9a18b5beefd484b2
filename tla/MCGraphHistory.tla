--------------------------- MODULE MCGraphHistory ---------------------------
(***************************************************************************)
(* Instance of GraphHistory for TLC.  It begins where an import of each of *)
(* two sources has ended and the second one's row is being deleted, so     *)
(* that what follows are imports of sources that have been built and       *)
(* linked before, one of which may be published or not.                    *)
(***************************************************************************)
EXTENDS GraphHistory, TLC

CONSTANTS a, b, x, y

MCExtractions ==
  {[keys |-> {y}, ties |-> {}], [keys |-> {x, y}, ties |-> {<<x, y>>}]}
MCSimilar == {{<<a, x>>, <<b, x>>}}

EarlierLink == << <<b, x>>, <<a, x>> >>
Earlier ==
  LET all == [keys |-> {x, y}, ties |-> {}]
  IN {BuildOf(a, all, 1, 0), BuildOf(b, all, 1, 1),
      [op |-> "linking", source |-> b, second |-> 1, id |-> 2,
       rels |-> {EarlierLink}, targets |-> {EarlierLink}]}

MCInit ==
  /\ saved = {a}
  /\ log = Earlier
  /\ graph = Effective(BaseGraph({a, b}), log, {})
  /\ call = [c \in Calls |->
       IF c \in Deleters THEN [Idle EXCEPT !.stage = "saved", !.source = b] ELSE Idle]
MCSpec == MCInit /\ [][Next]_vars

Symmetric == Permutations(Importers)
=============================================================================
