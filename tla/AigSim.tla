------------------------------- MODULE AigSim --------------------------------
(***************************************************************************)
(* And-inverter graphs and their simulation, as the sweep sees them        *)
(* (src/src/SATEngine/Fraig.cpp). Node 0 is the constant 0, nodes          *)
(* 1..inputs are the inputs, every later node is the AND of two edges to   *)
(* nodes of lower index, each possibly complemented. An assignment is the  *)
(* set of inputs that are 1.                                               *)
(***************************************************************************)
EXTENDS Integers, Sequences

Edge(node, compl) == [node |-> node, compl |-> compl]

(* The value of every node under one assignment, from low index to high.   *)
Simulated(aig, assignment) ==
  LET last == aig.inputs + Len(aig.ands)
      value[i \in 0..last] ==
        CASE i = 0 -> FALSE
          [] i \in 1..aig.inputs -> i \in assignment
          [] OTHER -> \A e \in {aig.ands[i - aig.inputs][k] : k \in 1..2} :
                        value[e.node] # e.compl
  IN value

(* What the sweep is given: the nodes, and for each node the assignments   *)
(* under which it is 1.                                                    *)
Circuit(aig) ==
  LET last == aig.inputs + Len(aig.ands)
      assignments == SUBSET (1..aig.inputs)
      sim == [a \in assignments |-> Simulated(aig, a)]
  IN [last |-> last,
      inputs |-> 1..aig.inputs,
      on |-> [i \in 0..last |-> {a \in assignments : sim[a][i]}]]

=============================================================================
