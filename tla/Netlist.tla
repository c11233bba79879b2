------------------------------- MODULE Netlist -------------------------------
(***************************************************************************)
(* The gate-level netlist (include/core/NetlistTypes.h, Netlist.h) and the *)
(* primitives every edit is built from, as operators on a value            *)
(*                                                                         *)
(*    nl = [gates |-> [ids -> gate], nets |-> [ids -> net]]                *)
(*                                                                         *)
(* Gates and nets are named by their position, as in the code; the code's  *)
(* id -1 is None here and ids start at 1. A removed gate stays in place as *)
(* a tombstone of type "UNKNOWN". The pins of a gate are a function from   *)
(* the positions they were read at to nets, so a gate that drops a pin     *)
(* drops a point of it. loads is the code's loadGateIds as a bag: how many *)
(* entries, one per input PIN, a net has of each gate; nothing depends on  *)
(* the order of the list.                                                  *)
(*                                                                         *)
(* The same graph is thus stored twice, in the pins of the gates and in    *)
(* the loads of the nets, and every primitive must keep the two agreeing.  *)
(***************************************************************************)
EXTENDS GateFunctions

None == 0

GateTypes == CombTypes \cup {"DFF", "UNKNOWN"}
ConstKinds == {"none", "zero", "one"}

GateIds(nl) == DOMAIN nl.gates
NetIds(nl)  == DOMAIN nl.nets

Gate(type, ins, out) == [type |-> type, ins |-> ins, out |-> out]
WithLoads(net, loads)   == [net EXCEPT !.loads = loads]
WithDriver(net, driver) == [net EXCEPT !.driver = driver]

Live(nl, g)   == nl.gates[g].type # "UNKNOWN"
Comb(nl, g)   == nl.gates[g].type \in CombTypes
Active(nl, n) == n # None /\ ~nl.nets[n].removed

IsGate(nl, g) ==
  /\ g.type \in GateTypes
  /\ IsFiniteSet(DOMAIN g.ins)
  /\ g.ins \in [DOMAIN g.ins -> {None} \cup NetIds(nl)]
  /\ g.out \in {None} \cup NetIds(nl)

IsNet(nl, n) ==
  n \in [driver : {None} \cup GateIds(nl), loads : [GateIds(nl) -> Nat],
         con : ConstKinds, pi : BOOLEAN, po : BOOLEAN, removed : BOOLEAN]

(* The ids of a table of so many entries.                                  *)
AreIds(S) == IsFiniteSet(S) /\ S = 1 .. Cardinality(S)

IsNetlist(nl) ==
  /\ AreIds(GateIds(nl)) /\ AreIds(NetIds(nl))
  /\ nl.gates = [g \in GateIds(nl) |-> nl.gates[g]]
  /\ nl.nets = [n \in NetIds(nl) |-> nl.nets[n]]
  /\ \A g \in GateIds(nl) : IsGate(nl, nl.gates[g])
  /\ \A n \in NetIds(nl)  : IsNet(nl, nl.nets[n])

-----------------------------------------------------------------------------
(* Pins and loads.                                                         *)

PinsOn(nl, g, n) == {i \in DOMAIN nl.gates[g].ins : nl.gates[g].ins[i] = n}

Pins(nl) == UNION {{g} \X DOMAIN nl.gates[g].ins : g \in GateIds(nl)}

(* What loadGateIds of net n ought to be, read off the pins.               *)
PinLoads(nl, n) ==
  [g \in GateIds(nl) |-> IF Live(nl, g) THEN Cardinality(PinsOn(nl, g, n)) ELSE 0]

NoLoads(nl) == [g \in GateIds(nl) |-> 0]

(* rebuildNetLoadGateIds: throw every load list away and read it off the   *)
(* pins of the live gates; pins on removed nets are not recorded.          *)
Rebuild(nl) ==
  [gates |-> nl.gates,
   nets |-> [n \in NetIds(nl) |->
     WithLoads(nl.nets[n], IF Active(nl, n) THEN PinLoads(nl, n) ELSE NoLoads(nl))]]

-----------------------------------------------------------------------------
(* collectStructureViolations: one counter per category. The categories    *)
(* about ids out of range are left out: IsNetlist rules them out.          *)

StructureViolations(nl) ==
  LET live == {g \in GateIds(nl) : Live(nl, g)}
      nets == {n \in NetIds(nl) : Active(nl, n)}
  IN [gateMissingOutput |-> Cardinality({g \in live :
        nl.gates[g].out = None /\ nl.gates[g].type # "DFF"}),
      gateOutputNotDriver |-> Cardinality({g \in live :
        nl.gates[g].out # None /\ nl.nets[nl.gates[g].out].driver # g}),
      gateInputRemoved |-> Cardinality({p \in Pins(nl) :
        LET n == nl.gates[p[1]].ins[p[2]]
        IN Live(nl, p[1]) /\ n # None /\ ~Active(nl, n)}),
      netDriverRemoved |-> Cardinality({n \in nets :
        nl.nets[n].driver # None /\ ~Live(nl, nl.nets[n].driver)}),
      netDriverOutputMismatch |-> Cardinality({n \in nets :
        /\ nl.nets[n].driver # None
        /\ Live(nl, nl.nets[n].driver)
        /\ nl.gates[nl.nets[n].driver].out # n}),
      netLoadMissingInput |-> Cardinality(UNION {
        {<<e, k>> : k \in 1 .. nl.nets[e[1]].loads[e[2]]} :
          e \in {x \in nets \X GateIds(nl) : PinsOn(nl, x[2], x[1]) = {}}}),
      netLoadMultiplicity |-> Cardinality({n \in nets :
        nl.nets[n].loads # PinLoads(nl, n)})]

(* validateEditResult, the Problem A part: a PO needs a driver, unless it  *)
(* is an input or a constant itself, and a DFF needs an output net.        *)
ProblemAViolations(nl) ==
  {<<"PO", n>> : n \in {m \in NetIds(nl) :
      /\ Active(nl, m) /\ nl.nets[m].po
      /\ nl.nets[m].driver = None /\ ~nl.nets[m].pi /\ nl.nets[m].con = "none"}}
  \cup
  {<<"DFF", g>> : g \in {h \in GateIds(nl) :
      nl.gates[h].type = "DFF" /\ nl.gates[h].out = None}}

(* hasStructureRegression and the comparison of Problem A findings: an     *)
(* edit is refused only for what it made worse than its baseline.          *)
EditRegresses(before, after) ==
  \/ \E c \in DOMAIN StructureViolations(after) :
       StructureViolations(after)[c] > StructureViolations(before)[c]
  \/ ~(ProblemAViolations(after) \subseteq ProblemAViolations(before))

-----------------------------------------------------------------------------
(* Primitives.                                                             *)

(* replaceAllLoadsOfNet while load-list maintenance is deferred: move every *)
(* pin the load list of old KNOWS of over to new. New's list does not      *)
(* learn of them, and old's is emptied.                                    *)
MoveLoads(nl, old, new) ==
  IF old = new THEN nl
  ELSE [gates |-> [g \in GateIds(nl) |->
          LET h == nl.gates[g] IN
          IF nl.nets[old].loads[g] = 0 THEN h
          ELSE Gate(h.type, [i \in DOMAIN h.ins |-> IF h.ins[i] = old THEN new ELSE h.ins[i]],
                    h.out)],
        nets |-> [nl.nets EXCEPT ![old] = WithLoads(@, NoLoads(nl))]]

Tombstone == Gate("UNKNOWN", <<>>, None)

(* Mutant: the gate's net keeps the tombstone for its driver.              *)
BuryGateStillDriver(nl, g) == [nl EXCEPT !.gates[g] = Tombstone]

(* The tombstone a gate that has an output net leaves behind.              *)
BuryGate(nl, g) ==
  [gates |-> [nl.gates EXCEPT ![g] = Tombstone],
   nets |-> [nl.nets EXCEPT ![nl.gates[g].out] = WithDriver(@, None)]]

-----------------------------------------------------------------------------
(* The Boolean function of a netlist, the reference every rewrite is held  *)
(* to. A net no gate, port or constant drives is Undefined, and so is what *)
(* depends on it.                                                          *)

CombDriven(nl, n)  == nl.nets[n].driver # None /\ Comb(nl, nl.nets[n].driver)
DrivenByDff(nl, n) == nl.nets[n].driver # None
                      /\ nl.gates[nl.nets[n].driver].type = "DFF"

(* The free variables: input ports and the outputs of the flip-flops.      *)
Sources(nl) == {n \in NetIds(nl) : nl.nets[n].pi \/ DrivenByDff(nl, n)}

(* The cut points whose value is the function: output ports and DFF pins.  *)
OutputPorts(nl) == {n \in NetIds(nl) : nl.nets[n].po}
DffPins(nl) == {p \in Pins(nl) : nl.gates[p[1]].type = "DFF"}

(* The values of the nets that no gate computes.                           *)
Start(nl, env) ==
  [n \in NetIds(nl) |->
     CASE nl.nets[n].con = "zero" -> 0
       [] nl.nets[n].con = "one"  -> 1
       [] OTHER -> IF n \in DOMAIN env THEN env[n] ELSE Undefined]

(* What pins carry when the nets carry v.                                  *)
PinValues(ins, v) == [i \in DOMAIN ins |-> IF ins[i] = None THEN Undefined ELSE v[ins[i]]]

(* Every gate computes once, from the values v.                            *)
Sweep(nl, env, v) ==
  [n \in NetIds(nl) |->
     IF CombDriven(nl, n)
     THEN LET g == nl.gates[nl.nets[n].driver] IN GateValue(g.type, PinValues(g.ins, v))
     ELSE Start(nl, env)[n]]

(* Every net's value under env, by as many sweeps as there are gates.      *)
Settle(nl, env) ==
  LET N == Cardinality(GateIds(nl))
      value[k \in 0 .. N] ==
        IF k = 0 THEN Start(nl, env) ELSE LET v == value[k - 1] IN Sweep(nl, env, v)
  IN value[N]

(* The value a pin sees.                                                   *)
Seen(nl, p, v) == PinValues(nl.gates[p[1]].ins, v)[p[2]]

(* after computes what before computed, wherever before was defined.       *)
SameFunction(before, after) ==
  /\ Sources(before) = Sources(after)
  /\ OutputPorts(before) = OutputPorts(after)
  /\ DffPins(before) = DffPins(after)
  /\ \A env \in [Sources(before) -> {0, 1}] :
       LET old == Settle(before, env)
           new == Settle(after, env)
       IN /\ \A n \in OutputPorts(before) : old[n] \in {Undefined, new[n]}
          /\ \A p \in DffPins(before) :
               Seen(before, p, old) \in {Undefined, Seen(after, p, new)}

(* A net that has a value at all.                                          *)
HasValue(nl, n) ==
  /\ Active(nl, n)
  /\ nl.nets[n].driver # None \/ nl.nets[n].pi \/ nl.nets[n].con # "none"

(* The pins that hang on a net nothing drives. No violation category of    *)
(* the code counts them.                                                   *)
FloatingPins(nl) ==
  {p \in Pins(nl) : Live(nl, p[1]) /\ ~HasValue(nl, nl.gates[p[1]].ins[p[2]])}

-----------------------------------------------------------------------------
(* The designs an edit is handed: what the Verilog reader makes of a       *)
(* source with one driver to a net (connectGateInput, connectGateOutput),  *)
(* constants as nets of their own, and what the edits are meant to keep.   *)

GateConsistent(nl, g) ==
  LET h == nl.gates[g] IN
  /\ h.type = "UNKNOWN" => DOMAIN h.ins = {} /\ h.out = None
  /\ h.type \in CombTypes => h.out # None
  /\ h.type = "BUF" => DOMAIN h.ins = {1}
  /\ h.type = "NOT" => Cardinality(DOMAIN h.ins) = 1
  /\ h.type \in CombTypes \ {"NOT", "BUF"} => Cardinality(DOMAIN h.ins) > 1
  /\ h.out # None => Active(nl, h.out) /\ nl.nets[h.out].driver = g
  /\ \A i \in DOMAIN h.ins : h.ins[i] # None => Active(nl, h.ins[i])

NetConsistent(nl, n) ==
  LET w == nl.nets[n] IN
  /\ w.driver # None => nl.gates[w.driver].out = n
  /\ w.con # "none" => w.driver = None /\ Active(nl, n)
  /\ \A m \in NetIds(nl) : nl.nets[m].con = w.con /\ w.con # "none" => m = n

Consistent(nl) ==
  /\ IsNetlist(nl)
  /\ \A g \in GateIds(nl) : GateConsistent(nl, g)
  /\ \A n \in NetIds(nl) : NetConsistent(nl, n)

LoadsCurrent(nl) ==
  \A n \in NetIds(nl) : Active(nl, n) => nl.nets[n].loads = PinLoads(nl, n)

WellFormed(nl) == Consistent(nl) /\ LoadsCurrent(nl)

(* The driver of every net has a lower id than the gates it feeds: the     *)
(* order of a source that declares a gate before it is used.               *)
DriversFirst(nl) ==
  \A p \in Pins(nl) :
    LET n == nl.gates[p[1]].ins[p[2]]
    IN Comb(nl, p[1]) /\ n # None /\ CombDriven(nl, n) => nl.nets[n].driver < p[1]

=============================================================================
