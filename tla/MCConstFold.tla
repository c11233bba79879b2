----------------------------- MODULE MCConstFold -----------------------------
(***************************************************************************)
(* Instances of ConstFold. Order is the bound that matters: whether the    *)
(* driver of a net always has a lower gate id than the gates it feeds.     *)
(***************************************************************************)
EXTENDS ConstFold, DesignKit

Heads == {<<Port, Zero, One>>, <<Port, Zero, Port>>, <<Port, Port, One>>}

(* Three gates written in driver-before-load order, as a netlister emits   *)
(* them, the last an output port and the first perhaps another.            *)
InOrder ==
  {MakeDesign(h, <<g1, g2, g3>>, pos) :
     h \in Heads, pos \in {{6}, {4, 6}},
     g1 \in Cells({"NOT"}, {"AND", "NOR", "XNOR"}, 1 .. 3),
     g2 \in Cells({"NOT"}, {"NAND", "XOR"}, 1 .. 4),
     g3 \in Cells({}, {"AND", "OR", "XOR"}, 2 .. 5)}

(* Every gate type, three pins, and a flip-flop that closes a loop.        *)
WideAndSequential ==
  {MakeDesign(<<Port, Zero, One>>, <<g1, g2, Cell("DFF", <<5, 1>>)>>, {5}) :
     g1 \in Cells({"NOT", "BUF"}, {"AND"}, {1, 2, 3, 6}) \cup
            {Cell(t, p) : t \in CombTypes \ {"NOT", "BUF"}, p \in Triples({1, 2, 3, 6})},
     g2 \in Cells({"BUF"}, {"AND", "XNOR"}, 1 .. 4)}

InOrderFamilies == {InOrder, WideAndSequential}

(* They are what the theorems about the fold ask for.                      *)
ASSUME InOrderAssumption ==
  \A family \in InOrderFamilies : \A d \in family : DriversFirst(d) /\ FloatingPins(d) = {}

(* The same gates listed in the other order, which Verilog allows.         *)
LoadsFirst ==
  {MakeDesign(<<Port, Zero, One>>, <<g1, g2, g3>>, {4}) :
     g1 \in Cells({}, {"AND"}, {1, 5, 6}),
     g2 \in Cells({}, {"AND"}, {1, 3, 6}),
     g3 \in Cells({}, {"AND"}, 1 .. 3)}

LoadsFirstFamily == {LoadsFirst}
=============================================================================
