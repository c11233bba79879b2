------------------------------ MODULE CrossSat -------------------------------
(***************************************************************************)
(* Two designs in one formula (WholeDesignEquivalence.cpp): each net of    *)
(* each design is a variable, and nets that stand for the same free value  *)
(* share one. What the formula says of an endpoint is set beside what the  *)
(* two designs compute.                                                    *)
(*                                                                         *)
(* A design is a record of                                                 *)
(*   inputs, outputs  sets of nets; a net is its name                      *)
(*   gates            net -> [type, ins], the gate that drives it          *)
(*   consts           net -> BOOLEAN                                       *)
(*   dffs             instance -> [d, q]                                   *)
(* A pin of a gate or a flip-flop is on a net, or Open.                    *)
(***************************************************************************)
EXTENDS GateFunctions, SequencesExt

Open  == "open"          \* a pin that hangs on no net
Sides == {"original", "current"}

Wired(d) == (d.inputs \cup d.outputs \cup DOMAIN d.gates \cup DOMAIN d.consts
              \cup (UNION {ToSet(d.gates[n].ins) : n \in DOMAIN d.gates})
              \cup {d.dffs[f].d : f \in DOMAIN d.dffs}
              \cup {d.dffs[f].q : f \in DOMAIN d.dffs}) \ {Open}

isDffOutputNet(d, n) == \E f \in DOMAIN d.dffs : d.dffs[f].q = n
DffOf(d, n)          == CHOOSE f \in DOMAIN d.dffs : d.dffs[f].q = n
Undriven(d, n)       == n \notin DOMAIN d.gates \cup DOMAIN d.consts

-----------------------------------------------------------------------------
(* The formula.                                                            *)

(* Mutant: a flip-flop is its output net.                                  *)
netVarByNetName(d, n, side) ==
  IF n \in d.inputs THEN <<"PI", n>>
  ELSE IF isDffOutputNet(d, n) THEN <<"DFFQ", n>>
  ELSE IF Undriven(d, n) THEN <<"UNDRIVEN", n>> ELSE <<side, n>>

(* sharedLeafKey, netVar: inputs and undriven nets are shared by name,     *)
(* outputs of flip-flops by instance; any other net is its side's own.     *)
netVar(d, n, side) ==
  IF n \in d.inputs THEN <<"PI", n>>
  ELSE IF isDffOutputNet(d, n) THEN <<"DFFQ", DffOf(d, n)>>
  ELSE IF Undriven(d, n) THEN <<"UNDRIVEN", n>> ELSE <<side, n>>

Vars(d, side) == {netVar(d, n, side) : n \in Wired(d)}

(* Mutant: a chain ends uninverted.                                        *)
XorChainUninverted(type, out, ins) ==
  \E chain \in [DOMAIN ins -> BOOLEAN] :
    /\ chain[1] = ins[1]
    /\ \A i \in DOMAIN ins \ {1} : chain[i] = (chain[i - 1] # ins[i])
    /\ out = chain[Len(ins)]

(* Exclusive ors are chained, by a new variable for every input but the    *)
(* last.                                                                   *)
XorChain(type, out, ins) ==
  \E chain \in [DOMAIN ins -> BOOLEAN] :
    /\ chain[1] = ins[1]
    /\ \A i \in DOMAIN ins \ {1} : chain[i] = (chain[i - 1] # ins[i])
    /\ ((type = "XNOR") # out) = chain[Len(ins)]

(* addGateClauses, for the values of a gate's output and inputs.           *)
GateClauses(type, out, ins) ==
  CASE type = "BUF" -> out = ins[1]
    [] type = "NOT" -> out # ins[1]
    [] type \in {"AND", "NAND"} ->
         LET and == (type = "NAND") # out
         IN (\A i \in DOMAIN ins : ins[i] \/ ~and) /\ (and \/ \E i \in DOMAIN ins : ~ins[i])
    [] type \in {"OR", "NOR"} ->
         LET or == (type = "NOR") # out
         IN (\A i \in DOMAIN ins : ~ins[i] \/ or) /\ (~or \/ \E i \in DOMAIN ins : ins[i])
    [] OTHER -> XorChain(type, out, ins)

(* encodeDesign: what an assignment of the variables has to satisfy.       *)
encodeDesign(m, d, side) ==
  /\ \A n \in DOMAIN d.consts : m[netVar(d, n, side)] = d.consts[n]
  /\ \A n \in DOMAIN d.gates :
       LET g == d.gates[n]
       IN GateClauses(g.type, m[netVar(d, n, side)],
                      [i \in DOMAIN g.ins |-> m[netVar(d, g.ins[i], side)]])

Models(o, c) ==
  {m \in [Vars(o, "original") \cup Vars(c, "current") -> BOOLEAN] :
     encodeDesign(m, o, "original") /\ encodeDesign(m, c, "current")}

-----------------------------------------------------------------------------
(* What is compared.                                                       *)

PO(n) == <<"PO", n>>
FF(f) == <<"DffD", f>>

(* diffNames: inputs, outputs and flip-flops are the same by name.         *)
SameInterface(o, c) ==
  /\ o.inputs = c.inputs /\ o.outputs = c.outputs
  /\ DOMAIN o.dffs = DOMAIN c.dffs

(* Output ports first, then the data pins of the flip-flops.               *)
Endpoints(o) ==
  SetToSeq({PO(n) : n \in o.outputs}) \o SetToSeq({FF(f) : f \in DOMAIN o.dffs})

EndpointNet(d, e) == IF e[1] = "PO" THEN e[2] ELSE d.dffs[e[2]].d

(* What addGateClauses makes clauses of.                                   *)
EncodableGate(g) ==
  /\ g.ins # <<>> /\ Open \notin ToSet(g.ins)
  /\ g.type \in {"NOT", "BUF"} => Len(g.ins) = 1

(* An open pin cannot be encoded.                                          *)
Encodable(o, c) ==
  /\ \A d \in {o, c} : \A n \in DOMAIN d.gates : EncodableGate(d.gates[n])
  /\ \A e \in ToSet(Endpoints(o)) : Open \notin {EndpointNet(o, e), EndpointNet(c, e)}

(* The endpoints whose difference the formula can satisfy.                 *)
Satisfiable(o, c) ==
  LET models == Models(o, c)
  IN {e \in ToSet(Endpoints(o)) : \E m \in models :
        m[netVar(o, EndpointNet(o, e), "original")]
          # m[netVar(c, EndpointNet(c, e), "current")]}

-----------------------------------------------------------------------------
(* What the designs compute, as a reference: the value of each net under   *)
(* values of inputs, states and undriven nets.                             *)

Leaf(d, n) ==
  IF n \in d.inputs THEN <<"PI", n>>
  ELSE IF isDffOutputNet(d, n) THEN <<"DFFQ", DffOf(d, n)>> ELSE <<"UNDRIVEN", n>>

Leaves(d) == {Leaf(d, n) : n \in {w \in Wired(d) : Undriven(d, w)}}

Bit(b) == IF b THEN 1 ELSE 0

Start(d, env) ==
  [n \in Wired(d) |->
     IF n \in DOMAIN d.consts THEN Bit(d.consts[n])
     ELSE IF n \in DOMAIN d.gates THEN Undefined ELSE Bit(env[Leaf(d, n)])]

(* The pins of the gate that drives n, when the nets carry v.              *)
PinsOf(d, n, v) == [i \in DOMAIN d.gates[n].ins |-> v[d.gates[n].ins[i]]]

Sweep(d, v) ==
  [n \in Wired(d) |->
     IF n \in DOMAIN d.gates THEN GateValue(d.gates[n].type, PinsOf(d, n, v)) ELSE v[n]]

(* As many sweeps as there are gates.                                      *)
Values(d, env) ==
  LET N == Cardinality(DOMAIN d.gates)
      after[k \in 0 .. N] ==
        IF k = 0 THEN Start(d, env) ELSE LET v == after[k - 1] IN Sweep(d, v)
  IN after[N]

Unequal(o, c) ==
  {e \in ToSet(Endpoints(o)) :
     \E env \in [Leaves(o) \cup Leaves(c) -> BOOLEAN] :
       Values(o, env)[EndpointNet(o, e)] # Values(c, env)[EndpointNet(c, e)]}

(* Gates form no loop: there is an order in which every gate comes after   *)
(* those it reads.                                                         *)
LoopFree(d) ==
  \E rank \in [DOMAIN d.gates -> 1 .. Cardinality(DOMAIN d.gates)] :
    \A n \in DOMAIN d.gates : \A m \in ToSet(d.gates[n].ins) \cap DOMAIN d.gates :
      rank[m] < rank[n]

(* The designs the formula is meant for: a net has one driver, and inputs  *)
(* have none.                                                              *)
IsDesign(d) ==
  /\ \A S \in {d.outputs, DOMAIN d.dffs, DOMAIN d.gates} : IsFiniteSet(S)
  /\ \A n \in DOMAIN d.gates :
       d.gates[n].type \in CombTypes /\ d.gates[n].ins \in Seq(ToSet(d.gates[n].ins))
  /\ \A n \in DOMAIN d.consts : d.consts[n] \in BOOLEAN
  /\ DOMAIN d.gates \cap DOMAIN d.consts = {}
  /\ \A n \in DOMAIN d.gates \cup DOMAIN d.consts :
       n # Open /\ n \notin d.inputs /\ ~isDffOutputNet(d, n)
  /\ LoopFree(d)

(* All that a comparison of two designs depends on.                        *)
Comparison(o, c) ==
  LET decidable == SameInterface(o, c) /\ Encodable(o, c)
  IN [sameInterface |-> SameInterface(o, c),
      endpoints     |-> Endpoints(o),
      encodable     |-> decidable,
      satisfiable   |-> IF decidable THEN Satisfiable(o, c) ELSE {},
      unequal       |-> IF decidable THEN Unequal(o, c) ELSE {}]

=============================================================================
