-------------------------- MODULE MCWholeEquivalence -------------------------
(***************************************************************************)
(* WholeEquivalence on pairs of small designs: two inputs, flip-flops f    *)
(* and g with output nets q and s, an undriven net u, a constant k, and    *)
(* two gates x and y of every type and up to three inputs. Both are        *)
(* outputs, x also goes to f and y to g. Some pairs differ in their        *)
(* interface or in the names of their nets, some have an open pin or       *)
(* nothing to compare.                                                     *)
(***************************************************************************)
EXTENDS WholeEquivalence, CrossSat, TLC

Cell(type, ins) == [type |-> type, ins |-> ins]

Design(x, y) ==
  [inputs |-> {"a", "b"}, outputs |-> {"x", "y"},
   gates  |-> ("x" :> x) @@ ("y" :> y),
   consts |-> ("k" :> TRUE),
   dffs   |-> ("f" :> [d |-> "x", q |-> "q"]) @@ ("g" :> [d |-> "y", q |-> "s"])]

Unary    == {Cell(t, <<n>>) : t \in {"NOT", "BUF", "XNOR"}, n \in {"a", "q", "u"}}
Binary   == {Cell(t, ins) : t \in {"AND", "NAND", "OR", "NOR", "XOR", "XNOR"},
                            ins \in {<<"a", "b">>, <<"b", "q">>}}
Outputs  == {Cell(t, ins) : t \in {"AND", "NOR", "XOR", "XNOR"},
                            ins \in {<<"x", "k">>, <<"a", "b", "q">>, <<"x", "b", "u">>}}

Originals == {Design(x, y) : x \in {Cell("AND", <<"a", "b">>), Cell("NOT", <<"q">>)},
                             y \in {Cell("XOR", <<"a", "b", "q">>), Cell("AND", <<"x", "k">>)}}

(* y as its inverse inverted, through a net of its own.                    *)
Rewritten(d) ==
  LET g == d.gates["y"]
      inverse == CASE g.type = "XOR" -> "XNOR" [] OTHER -> "NAND"
  IN [d EXCEPT !.gates = ("z" :> Cell(inverse, g.ins)) @@ ("y" :> Cell("NOT", <<"z">>)) @@ @]

(* The flip-flops exchange the names of their output nets.                 *)
StatesRenamed(d) ==
  LET Other(n)  == CASE n = "q" -> "s" [] n = "s" -> "q" [] OTHER -> n
      Renamed(g) == [g EXCEPT !.ins = [i \in DOMAIN @ |-> Other(@[i])]]
  IN [d EXCEPT !.gates = [n \in DOMAIN @ |-> Renamed(@[n])],
               !.dffs = [f \in DOMAIN @ |-> [@[f] EXCEPT !.q = Other(@)]]]

Variants(d) ==
  {d, Rewritten(d), StatesRenamed(d),
   [d EXCEPT !.outputs = {"y"}], [d EXCEPT !.inputs = {"a"}],
   [d EXCEPT !.dffs = ("f" :> [d |-> "x", q |-> "q"])],
   [d EXCEPT !.dffs["f"].d = Open], [d EXCEPT !.gates["x"].ins[1] = Open]}

Bare == [Design(Cell("NOT", <<"a">>), Cell("NOT", <<"b">>))
              EXCEPT !.outputs = {}, !.dffs = <<>>]

Pairs == UNION {{<<o, c>> : c \in Variants(o)} : o \in Originals}
         \cup {<<o, Design(x, o.gates["y"])>> : o \in Originals, x \in Unary \cup Binary}
         \cup {<<o, Design(o.gates["x"], y)>> : o \in Originals, y \in Outputs}
         \cup {<<Bare, Bare>>}

(* What the theorems about the formula ask for.                            *)
ASSUME PairsAssumption == \A p \in Pairs : IsDesign(p[1]) /\ IsDesign(p[2])

SmallComparisons == {Comparison(p[1], p[2]) : p \in Pairs}
=============================================================================
