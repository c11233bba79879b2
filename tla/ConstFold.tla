------------------------------ MODULE ConstFold ------------------------------
(***************************************************************************)
(* simplifyGatesWithConstants and its reporting twin: constant propagation *)
(* over the netlist, run in rounds to a fixpoint, then validated against   *)
(* the netlist it started from and rolled back when it made it worse.      *)
(*                                                                         *)
(* A round repairs the load lists, collects its candidates, and visits     *)
(* them in id order with load-list maintenance DEFERRED: a pin that moves  *)
(* to another net is not entered in that net's load list until the next    *)
(* round. One visit of one candidate is one step, so what an earlier visit *)
(* of the round leaves stale is what a later visit of it reads.            *)
(***************************************************************************)
EXTENDS Netlist

CONSTANT Families   \* sets of netlists a fold may be asked to work on

ASSUME FamiliesAssumption == \A family \in Families : \A d \in family : WellFormed(d)

VARIABLES
  nl,        \* the session's netlist, edited in place
  before,    \* cloneForRollback(), taken on entry
  phase,     \* "scan", "visit", "validate" or "done"
  cands,     \* the candidates of this round not yet visited
  progress,  \* did any visit of this round change the netlist
  verdict    \* "pending", or what the report says: "certified", "rolledBack"

vars == <<nl, before, phase, cands, progress, verdict>>

-----------------------------------------------------------------------------
(* One gate: simplifyGateWithConstant.                                     *)

Kind(d, n)    == IF n = None THEN "none" ELSE d.nets[n].con
IsConst(d, n) == Kind(d, n) # "none"

(* getConst0NetId, getConst1NetId: None when the design has no such net.   *)
ConstNet(d, kind) ==
  LET hits == {n \in NetIds(d) : d.nets[n].con = kind}
  IN IF hits = {} THEN None ELSE CHOOSE n \in hits : TRUE

Inverted(kind) == IF kind = "zero" THEN "one" ELSE "zero"

Unchanged(d)  == [nl |-> d, changed |-> FALSE]

Rewritten(d, g, type, ins) ==
  [nl |-> [gates |-> [d.gates EXCEPT ![g] = Gate(type, ins, d.gates[g].out)],
           nets |-> d.nets],
   changed |-> TRUE]

(* Mutant: without the early return for a rewrite that changes nothing.    *)
RewriteGateAlways(d, g, type, ins) == Rewritten(d, g, type, ins)

RewriteGate(d, g, type, ins) ==
  IF d.gates[g].type = type /\ d.gates[g].ins = ins THEN Unchanged(d)
  ELSE Rewritten(d, g, type, ins)

(* The output net of g takes over src. The driver of an output port stays, *)
(* as a buffer; any other gate is buried once its loads have moved.        *)
ReplaceGateWithNet(d, g, src) ==
  LET out == d.gates[g].out IN
  IF src = None THEN Unchanged(d)
  ELSE IF d.nets[out].po THEN RewriteGate(d, g, "BUF", <<src>>)
  ELSE [nl |-> BuryGate(MoveLoads(d, out, src), g), changed |-> TRUE]

(* The pins whose net is not a constant, and the net of the one pin left.  *)
VaryingPins(d, g) ==
  LET ins == d.gates[g].ins IN Restrict(ins, {i \in DOMAIN ins : ~IsConst(d, ins[i])})
OnlyNet(ins)      == CHOOSE n \in Range(ins) : TRUE

FoldUnary(d, g) ==
  LET t    == d.gates[g].type
      kind == Kind(d, OnlyNet(d.gates[g].ins))
  IN IF kind = "none" THEN Unchanged(d)
     ELSE ReplaceGateWithNet(d, g,
            ConstNet(d, IF t = "NOT" THEN Inverted(kind) ELSE kind))

(* What the pins that vary leave of a gate: a wire, an inverter, or a      *)
(* smaller gate.                                                           *)
Reduce(d, g, type, inverted) ==
  LET rest == VaryingPins(d, g)
  IN IF Cardinality(DOMAIN rest) > 1 THEN RewriteGate(d, g, type, rest)
     ELSE IF inverted THEN RewriteGate(d, g, "NOT", rest)
     ELSE ReplaceGateWithNet(d, g, OnlyNet(rest))

(* AND and OR families: an absorbing input decides the gate, an identity   *)
(* input is dropped.                                                       *)
Absorbing(t) == IF t \in {"AND", "NAND"} THEN "zero" ELSE "one"
Inverts(t)   == t \in {"NAND", "NOR"}

FoldLattice(d, g) ==
  LET t            == d.gates[g].type
      kinds        == {Kind(d, n) : n \in Range(d.gates[g].ins)}
      Signed(kind) == IF Inverts(t) THEN Inverted(kind) ELSE kind
  IN CASE kinds = {"none"} -> Unchanged(d)
       [] Absorbing(t) \in kinds -> ReplaceGateWithNet(d, g, ConstNet(d, Signed(Absorbing(t))))
       [] kinds = {Inverted(Absorbing(t))} ->
            ReplaceGateWithNet(d, g, ConstNet(d, Signed(Inverted(Absorbing(t)))))
       [] OTHER -> Reduce(d, g, t, Inverts(t))

(* Mutant: a gate left with one input becomes a wire whatever its phase.   *)
FoldParityNoInvert(d, g) ==
  IF Cardinality(DOMAIN VaryingPins(d, g)) = 1 /\ VaryingPins(d, g) # d.gates[g].ins
  THEN Reduce(d, g, "XOR", FALSE) ELSE Unchanged(d)

(* The pins at the constant one, and whether they leave a gate inverted.   *)
Ones(d, g)         == {i \in DOMAIN d.gates[g].ins : Kind(d, d.gates[g].ins[i]) = "one"}
ParityInverts(d, g) == (d.gates[g].type = "XNOR") # (Cardinality(Ones(d, g)) % 2 = 1)

FoldParity(d, g) ==
  LET kinds == {Kind(d, n) : n \in Range(d.gates[g].ins)}
  IN CASE kinds = {"none"} -> Unchanged(d)
       [] "none" \notin kinds ->
            ReplaceGateWithNet(d, g, ConstNet(d, IF ParityInverts(d, g) THEN "one" ELSE "zero"))
       [] OTHER -> Reduce(d, g, IF ParityInverts(d, g) THEN "XNOR" ELSE "XOR",
                          ParityInverts(d, g))

SimplifyGate(d, g) ==
  LET t    == d.gates[g].type
      pins == Cardinality(DOMAIN d.gates[g].ins)
  IN CASE t \in {"UNKNOWN", "DFF"} \/ d.gates[g].out = None -> Unchanged(d)
       [] t \in {"NOT", "BUF"} -> IF pins = 1 THEN FoldUnary(d, g) ELSE Unchanged(d)
       [] OTHER -> IF pins < 2 THEN Unchanged(d)
                   ELSE IF t \in {"XOR", "XNOR"} THEN FoldParity(d, g) ELSE FoldLattice(d, g)

(* findConstantSimplificationCandidates with no filter: the combinational  *)
(* gates with a constant pin.                                              *)
Candidates(d) ==
  {g \in GateIds(d) : /\ Comb(d, g)
                      /\ \E n \in Range(d.gates[g].ins) : Active(d, n) /\ IsConst(d, n)}

(* Mutant: the candidates are visited from the last gate to the first.     *)
NextCandidateBackwards(S) == Max(S)

(* They are visited in id order.                                           *)
NextCandidate(S) == Min(S)

-----------------------------------------------------------------------------
Init ==
  /\ \E family \in Families : nl \in family
  /\ before = nl
  /\ phase = "scan" /\ cands = {} /\ progress = FALSE /\ verdict = "pending"

(* Repair the load lists, then look for candidates.                        *)
Scan ==
  /\ phase = "scan"
  /\ nl' = Rebuild(nl)
  /\ cands' = Candidates(nl')
  /\ progress' = FALSE
  /\ phase' = IF cands' = {} THEN "validate" ELSE "visit"
  /\ UNCHANGED <<before, verdict>>

(* The next candidate of the round. It may have been rewritten since the   *)
(* candidates were collected.                                              *)
Visit ==
  /\ phase = "visit" /\ cands # {}
  /\ LET r == SimplifyGate(nl, NextCandidate(cands)) IN
       /\ nl' = r.nl
       /\ progress' = (progress \/ r.changed)
  /\ cands' = cands \ {NextCandidate(cands)}
  /\ UNCHANGED <<before, phase, verdict>>

(* Mutant: one round only.                                                 *)
EndRoundOnce ==
  /\ phase = "visit" /\ cands = {}
  /\ phase' = "validate"
  /\ UNCHANGED <<nl, before, cands, progress, verdict>>

(* End of the round: another one if this one changed anything.             *)
EndRound ==
  /\ phase = "visit" /\ cands = {}
  /\ phase' = IF progress THEN "scan" ELSE "validate"
  /\ UNCHANGED <<nl, before, cands, progress, verdict>>

(* Load lists are repaired once more; finalizeEditReport compares the      *)
(* result with the clone, certifies it or restores the clone.              *)
Validate ==
  /\ phase = "validate"
  /\ LET final == Rebuild(nl) IN
       IF EditRegresses(before, final)
       THEN nl' = before /\ verdict' = "rolledBack"
       ELSE nl' = final  /\ verdict' = "certified"
  /\ phase' = "done"
  /\ UNCHANGED <<before, cands, progress>>

Done == phase = "done" /\ UNCHANGED vars

Next == Scan \/ Visit \/ EndRound \/ Validate \/ Done

Spec == Init /\ [][Next]_vars

-----------------------------------------------------------------------------
(* Between any two visits the netlist agrees with itself, its load lists   *)
(* apart: a gate is a tombstone without pins and output or a whole gate of *)
(* its type, it and its net name each other, no net names a tombstone as   *)
(* its driver, and no pin is on a removed net (simplifyGateWithConstant,   *)
(* which edits both sides of each link in place).                          *)
TypeOK ==
  /\ Consistent(nl) /\ Consistent(before)
  /\ phase \in {"scan", "visit", "validate", "done"}
  /\ cands \subseteq GateIds(nl)
  /\ progress \in BOOLEAN
  /\ verdict \in {"pending", "certified", "rolledBack"}

(* Constant folding never changes what the design computes: at every step  *)
(* between two visits the output ports and flip-flop pins carry the values *)
(* they carried in the netlist handed in, wherever those were defined.     *)
(* simplifyGateWithConstant, NetlistOptimization.cpp:1272.                 *)
FunctionPreserved == SameFunction(before, nl)

(* No visit leaves an input pin on a net that nothing drives any more. The *)
(* validation that decides on rollback has no counter for this, so only    *)
(* the fold itself can keep it (replaceAllLoadsOfNet, :1009).              *)
NoPinLeftFloating == FloatingPins(nl) \subseteq FloatingPins(before)

(* The folding has nothing to do at gate g: it is the buffer of an output  *)
(* port, or its folded value may have no net in this design.               *)
Folded(d, g) ==
  \/ d.gates[g].type = "BUF" /\ d.nets[d.gates[g].out].po
  \/ ConstNet(d, "zero") = None
  \/ ConstNet(d, "one") = None

(* The rounds stop only when they are really done: every constant pin left *)
(* is the pin of an output port's buffer, or belongs to a gate whose       *)
(* folded value has no net in this design (:2693 asks for the fixpoint).   *)
FullyFolded == phase = "done" => \A g \in Candidates(nl) : Folded(nl, g)

(* How much there is left to fold: input pins, and gates that compute.     *)
Work(d) ==
  Cardinality(Pins(d)) + Cardinality({g \in GateIds(d) : d.gates[g].type \notin {"BUF", "UNKNOWN"}})

(* The rounds come to an end, although no deadline stops them (:2650): a   *)
(* visit that changes the netlist, or says that it did and so calls for    *)
(* another round, leaves strictly less work than it found.                 *)
EveryChangeShrinks ==
  [][phase = "visit" /\ (nl' # nl \/ (progress' /\ ~progress)) => Work(nl') < Work(nl)]_vars

(* What the report tells the user: a certified result is equivalent.       *)
(* NetlistOptimization.cpp:2767 "Equivalence certified by local            *)
(* constant-folding Boolean identities."                                   *)
CertifiedIsEquivalent == verdict = "certified" => SameFunction(before, nl)

=============================================================================
