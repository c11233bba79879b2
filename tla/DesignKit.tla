------------------------------ MODULE DesignKit ------------------------------
(***************************************************************************)
(* Small well-formed netlists for the model-checking modules: what the     *)
(* Verilog reader can leave in the session, one driver per net, load lists *)
(* read off the pins, constants as the nets "1'b0" and "1'b1".             *)
(***************************************************************************)
EXTENDS Netlist, Sequences

Port   == [pi |-> TRUE,  con |-> "none"]
Zero   == [pi |-> FALSE, con |-> "zero"]
One    == [pi |-> FALSE, con |-> "one"]
Wire   == [pi |-> FALSE, con |-> "none"]

(* A gate without its output net: gate k of a design drives header net k.  *)
Cell(type, ins) == [type |-> type, ins |-> ins]

(* head: the undriven nets; gate k drives net Len(head) + k, pos are POs.  *)
MakeDesign(head, cells, pos) ==
  LET base == Len(head)
      NetAt(n) == [driver |-> IF n > base THEN n - base ELSE None,
                   loads |-> <<>>, removed |-> FALSE, po |-> n \in pos,
                   pi  |-> n <= base /\ head[n].pi,
                   con |-> IF n <= base THEN head[n].con ELSE "none"]
  IN Rebuild([gates |-> [k \in DOMAIN cells |->
                [type |-> cells[k].type, ins |-> cells[k].ins, out |-> base + k]],
              nets |-> [n \in 1 .. base + Len(cells) |-> NetAt(n)]])

(* Ascending pairs and triples: the gates modelled here are symmetric.     *)
Pairs(S)   == {<<p[1], p[2]>> : p \in {q \in S \X S : q[1] < q[2]}}
Triples(S) == {<<p[1], p[2], p[3]>> :
                 p \in {q \in S \X S \X S : q[1] <= q[2] /\ q[2] <= q[3]}}

Cells(unary, binary, S) ==
  {Cell(t, <<n>>) : t \in unary, n \in S} \cup {Cell(t, p) : t \in binary, p \in Pairs(S)}

=============================================================================
