--------------------------- MODULE GateFunctions ----------------------------
(***************************************************************************)
(* What the gates of a netlist compute, the reference every rewrite is     *)
(* held to. A net carries 0, 1 or Undefined; the pins of a gate are a      *)
(* function from positions to what they carry.                             *)
(***************************************************************************)
EXTENDS Integers, FiniteSets, FiniteSetsExt, Functions

CombTypes == {"AND", "OR", "NAND", "NOR", "XOR", "XNOR", "NOT", "BUF"}

Undefined == 2
Signals == {0, 1, Undefined}

Kleene(vals, absorbing) ==
  IF absorbing \in Range(vals) THEN absorbing
  ELSE IF Undefined \in Range(vals) THEN Undefined ELSE 1 - absorbing

Negate(v) == IF v = Undefined THEN Undefined ELSE 1 - v

Parity(vals) ==
  IF Undefined \in Range(vals) THEN Undefined
  ELSE Cardinality({i \in DOMAIN vals : vals[i] = 1}) % 2

(* A wire or an inverter has one pin.                                      *)
Copy(vals) == CHOOSE v \in Range(vals) : TRUE

GateValue(type, vals) ==
  CASE type = "AND"  -> Kleene(vals, 0)
    [] type = "NAND" -> Negate(Kleene(vals, 0))
    [] type = "OR"   -> Kleene(vals, 1)
    [] type = "NOR"  -> Negate(Kleene(vals, 1))
    [] type = "XOR"  -> Parity(vals)
    [] type = "XNOR" -> Negate(Parity(vals))
    [] type = "NOT"  -> Negate(Copy(vals))
    [] type = "BUF"  -> Copy(vals)
    [] OTHER         -> Undefined

=============================================================================
