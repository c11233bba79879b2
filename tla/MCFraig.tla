------------------------------- MODULE MCFraig -------------------------------
(***************************************************************************)
(* Two inputs and up to three ANDs, in graphs built so that they hold      *)
(* equal nodes, complements and constants.                                 *)
(***************************************************************************)
EXTENDS AigSim, Fraig

Graph(ands) == [inputs |-> 2, ands |-> ands]

(* x AND y with the complements cx and cy.                                 *)
And(x, cx, y, cy) == <<Edge(x, cx), Edge(y, cy)>>

Handmade == {
  \* (a & b) and (a & b) & a: a node equal to one below it
  Graph(<<And(1, FALSE, 2, FALSE), And(1, FALSE, 3, FALSE)>>),
  \* (a & b) & (!a & b): a constant
  Graph(<<And(1, FALSE, 2, FALSE), And(1, TRUE, 2, FALSE), And(3, FALSE, 4, FALSE)>>),
  \* !(a & b) & !(a & !b): an input complemented
  Graph(<<And(1, FALSE, 2, FALSE), And(1, FALSE, 2, TRUE), And(3, TRUE, 4, TRUE)>>),
  \* three equal nodes
  Graph(<<And(1, FALSE, 2, FALSE), And(1, FALSE, 3, FALSE), And(2, FALSE, 4, FALSE)>>) }

SmallCircuits == {Circuit(g) : g \in Handmade}
=============================================================================
