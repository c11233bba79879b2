----------------------- MODULE WholeEquivalence_proofs -----------------------
(***************************************************************************)
(* For every set of pairs of loop-free designs: what the formula lets      *)
(* differ is what differs in what the designs compute; wherever the time   *)
(* runs out, a report has each endpoint in one list; what it lists is      *)
(* right, and a complete reply is the truth.                               *)
(***************************************************************************)
EXTENDS WholeEquivalence, CrossSat, FiniteSetTheorems, SequenceTheorems,
        WellFoundedInduction, TLAPS

-----------------------------------------------------------------------------
(* Induction without an operator: the least natural number a set misses.   *)

LEMMA LeastNatural ==
  ASSUME NEW T, T \subseteq Nat, T # {}
  PROVE  \E x \in T : \A y \in T : x <= y
<1>1. \E x \in T : \A y \in T : ~(<<y, x>> \in OpToRel(<, Nat))
  BY NatLessThanWellFounded, WFMin, Zenon
<1>2. \A x \in Nat : \A y \in Nat : (y < x) => <<y, x>> \in {ss \in Nat \X Nat : ss[1] < ss[2]}
  BY SMT
<1>3. \E x \in T : \A y \in T : ~(y < x)
  BY <1>1, <1>2, Zenon DEF OpToRel
<1> QED
  BY <1>3

LEMMA Climb ==
  ASSUME NEW S, NEW N \in Nat, 0 \in S, \A k \in 0 .. N : k \in S /\ k < N => k + 1 \in S
  PROVE  0 .. N \subseteq S
<1> DEFINE T == 0 .. N \ S
<1> SUFFICES ASSUME T # {}
             PROVE  FALSE
  OBVIOUS
<1> T \subseteq Nat
  OBVIOUS
<1>1. PICK x \in T : \A y \in T : x <= y
  BY LeastNatural
<1>2. x - 1 \in 0 .. N /\ x - 1 \notin T
  BY <1>1
<1> QED
  BY <1>2

-----------------------------------------------------------------------------
(* The clauses of a gate.                                                  *)

LEMMA BitFacts ==
  /\ \A b \in BOOLEAN : Bit(b) \in {0, 1} /\ (Bit(b) = 1 <=> b) /\ (Bit(b) = 0 <=> ~b)
  /\ \A a \in BOOLEAN : \A b \in BOOLEAN : Bit(a) = Bit(b) <=> (a <=> b)
BY DEF Bit

Bits(ins) == [i \in DOMAIN ins |-> Bit(ins[i])]

LEMMA BitsFacts ==
  ASSUME NEW ins \in Seq(BOOLEAN), ins # <<>>
  PROVE  /\ Undefined \notin Range(Bits(ins))
         /\ 0 \in Range(Bits(ins)) <=> \E i \in DOMAIN ins : ~ins[i]
         /\ 1 \in Range(Bits(ins)) <=> \E i \in DOMAIN ins : ins[i]
         /\ DOMAIN ins = 1 .. Len(ins) /\ Len(ins) \in Nat \ {0}
         /\ \A i \in DOMAIN ins : ins[i] \in BOOLEAN
<1>1. DOMAIN ins = 1 .. Len(ins) /\ Len(ins) \in Nat \ {0} /\ \A i \in DOMAIN ins : ins[i] \in BOOLEAN
  OBVIOUS
<1>2. DOMAIN Bits(ins) = DOMAIN ins /\ \A i \in DOMAIN ins : Bits(ins)[i] = Bit(ins[i])
  BY DEF Bits
<1>3. \A x : x \in Range(Bits(ins)) <=> \E i \in DOMAIN ins : x = Bit(ins[i])
  BY <1>2 DEF Range
<1> QED
  BY <1>1, <1>3, BitFacts DEF Undefined

(* The inputs at one among the first k.                                    *)
Ones(ins, k) == {i \in 1 .. k : ins[i]}
Odd(ins, k)  == Cardinality(Ones(ins, k)) % 2 = 1

LEMMA OddStep ==
  ASSUME NEW ins \in Seq(BOOLEAN), NEW k \in Nat, k < Len(ins)
  PROVE  Odd(ins, k + 1) <=> ~(Odd(ins, k) <=> ins[k + 1])
<1>1. Ones(ins, k) \subseteq 1 .. k /\ IsFiniteSet(1 .. k)
  BY FS_Interval DEF Ones
<1>2. IsFiniteSet(Ones(ins, k)) /\ Cardinality(Ones(ins, k)) \in Nat
  BY <1>1, FS_Subset, FS_CardinalityType
<1>3. ins[k + 1] \in BOOLEAN
  OBVIOUS
<1>4. CASE ins[k + 1]
  <2>1. Ones(ins, k + 1) = Ones(ins, k) \cup {k + 1} /\ k + 1 \notin Ones(ins, k)
    BY <1>4 DEF Ones
  <2>2. Cardinality(Ones(ins, k + 1)) = Cardinality(Ones(ins, k)) + 1
    BY <1>2, <2>1, FS_AddElement
  <2> QED
    BY <1>2, <1>4, <2>2 DEF Odd
<1>5. CASE ~ins[k + 1]
  <2>1. Ones(ins, k + 1) = Ones(ins, k)
    BY <1>5 DEF Ones
  <2> QED
    BY <1>5, <2>1 DEF Odd
<1> QED
  BY <1>3, <1>4, <1>5

LEMMA OddStart ==
  ASSUME NEW ins
  PROVE  ~Odd(ins, 0)
<1>1. Ones(ins, 0) = {}
  BY DEF Ones
<1>2. Cardinality(Ones(ins, 0)) = 0
  BY <1>1, FS_EmptySet, Zenon
<1> QED
  BY <1>2 DEF Odd

(* What holds of a chain of exclusive ors.                                 *)
Chains(ins, chain) ==
  /\ chain \in [DOMAIN ins -> BOOLEAN]
  /\ chain[1] = ins[1]
  /\ \A i \in DOMAIN ins \ {1} : chain[i] = (chain[i - 1] # ins[i])

LEMMA ChainIsOdd ==
  ASSUME NEW ins \in Seq(BOOLEAN), ins # <<>>, NEW chain, Chains(ins, chain)
  PROVE  chain[Len(ins)] <=> Odd(ins, Len(ins))
<1> DEFINE N == Len(ins)
<1>1. N \in Nat \ {0} /\ DOMAIN ins = 1 .. N /\ \A i \in 1 .. N : ins[i] \in BOOLEAN
  OBVIOUS
<1>2. \A i \in 1 .. N : chain[i] \in BOOLEAN
  BY <1>1 DEF Chains
<1> DEFINE S == {k \in 0 .. N : k = 0 \/ (chain[k] <=> Odd(ins, k))}
<1>3. 0 \in S
  BY <1>1
<1>4. ASSUME NEW k \in 0 .. N, k \in S, k < N
      PROVE  k + 1 \in S
  <2>1. Odd(ins, k + 1) <=> ~(Odd(ins, k) <=> ins[k + 1])
    BY <1>1, <1>4, OddStep
  <2>2. CASE k = 0
    <3>1. Odd(ins, 1) <=> ~(FALSE <=> ins[1])
      BY <2>1, <2>2, OddStart
    <3>2. chain[1] = ins[1] /\ ins[1] \in BOOLEAN
      BY <1>1 DEF Chains
    <3>3. k + 1 = 1 /\ k + 1 \in 0 .. N
      BY <1>1, <1>4, <2>2
    <3>4. chain[1] <=> Odd(ins, 1)
      BY <3>1, <3>2
    <3>5. \A j \in 0 .. N : j = 1 => j \in S
      BY <3>4
    <3> QED
      BY <3>3, <3>5
  <2>3. CASE k # 0
    <3>1. k + 1 \in 2 .. N /\ (k + 1) - 1 = k /\ k \in 1 .. N
      BY <1>1, <1>4, <2>3
    <3>2. chain[k + 1] = (chain[k] # ins[k + 1])
      BY <1>1, <3>1 DEF Chains
    <3>3. chain[k] <=> Odd(ins, k)
      BY <1>4, <2>3
    <3>4. chain[k + 1] \in BOOLEAN /\ chain[k] \in BOOLEAN /\ ins[k + 1] \in BOOLEAN
      BY <1>1, <1>2, <3>1
    <3>5. chain[k + 1] <=> ~(chain[k] <=> ins[k + 1])
      BY <3>2, <3>4
    <3>6. chain[k + 1] <=> Odd(ins, k + 1)
      BY <2>1, <3>3, <3>5
    <3>7. \A j \in 0 .. N : j = k + 1 => j \in S
      BY <3>6
    <3> QED
      BY <3>1, <3>7
  <2> QED
    BY <2>2, <2>3
<1>5. 0 .. N \subseteq S
  <2> HIDE DEF S
  <2> QED
    BY <1>1, <1>3, <1>4, Climb
<1> QED
  BY <1>1, <1>5

LEMMA ChainExists ==
  ASSUME NEW ins \in Seq(BOOLEAN), ins # <<>>
  PROVE  \E chain : Chains(ins, chain)
<1> DEFINE chain == [k \in DOMAIN ins |-> Odd(ins, k)]
<1>1. Len(ins) \in Nat \ {0} /\ DOMAIN ins = 1 .. Len(ins)
      /\ \A i \in 1 .. Len(ins) : ins[i] \in BOOLEAN
  OBVIOUS
<1>2. \A k \in DOMAIN ins : chain[k] = Odd(ins, k) /\ Odd(ins, k) \in BOOLEAN
  BY DEF Odd
<1>3. chain \in [DOMAIN ins -> BOOLEAN]
  BY <1>2
<1> HIDE DEF chain
<1>4. chain[1] = ins[1]
  <2>1. Odd(ins, 0 + 1) <=> ~(Odd(ins, 0) <=> ins[0 + 1])
    BY <1>1, OddStep
  <2> QED
    BY <1>1, <1>2, <2>1, OddStart
<1>5. ASSUME NEW i \in DOMAIN ins \ {1}
      PROVE  chain[i] = (chain[i - 1] # ins[i])
  <2>1. i - 1 \in Nat /\ i - 1 < Len(ins) /\ (i - 1) + 1 = i /\ i - 1 \in DOMAIN ins
    BY <1>1
  <2>2. Odd(ins, i) <=> ~(Odd(ins, i - 1) <=> ins[i])
    BY <2>1, OddStep
  <2>3. chain[i] = Odd(ins, i) /\ chain[i - 1] = Odd(ins, i - 1) /\ ins[i] \in BOOLEAN
        /\ Odd(ins, i) \in BOOLEAN /\ Odd(ins, i - 1) \in BOOLEAN
    BY <1>1, <1>2, <2>1
  <2> QED
    BY <2>2, <2>3
<1> QED
  BY <1>3, <1>4, <1>5 DEF Chains

LEMMA XorChainFacts ==
  ASSUME NEW type, NEW out \in BOOLEAN, NEW ins \in Seq(BOOLEAN), ins # <<>>
  PROVE  XorChain(type, out, ins) <=> (out <=> ~(type = "XNOR" <=> Odd(ins, Len(ins))))
<1>1. PICK good : Chains(ins, good)
  BY ChainExists
<1>2. \A chain : Chains(ins, chain) => (chain[Len(ins)] <=> Odd(ins, Len(ins)))
  BY ChainIsOdd
<1>3. \A chain : Chains(ins, chain) => chain[Len(ins)] \in BOOLEAN
  <2>1. Len(ins) \in DOMAIN ins
    OBVIOUS
  <2> QED
    BY <2>1 DEF Chains
<1>4. XorChain(type, out, ins) <=>
        \E chain : Chains(ins, chain) /\ ((type = "XNOR") # out) = chain[Len(ins)]
  BY DEF XorChain, Chains
<1>5. (type = "XNOR") \in BOOLEAN /\ Odd(ins, Len(ins)) \in BOOLEAN
  BY DEF Odd
<1> QED
  BY <1>1, <1>2, <1>3, <1>4, <1>5

LEMMA KleeneBits ==
  ASSUME NEW ins \in Seq(BOOLEAN), ins # <<>>
  PROVE  /\ Kleene(Bits(ins), 0) = Bit(\A i \in DOMAIN ins : ins[i])
         /\ Kleene(Bits(ins), 1) = Bit(\E i \in DOMAIN ins : ins[i])
<1>1. /\ Undefined \notin Range(Bits(ins))
      /\ 0 \in Range(Bits(ins)) <=> \E i \in DOMAIN ins : ~ins[i]
      /\ 1 \in Range(Bits(ins)) <=> \E i \in DOMAIN ins : ins[i]
  BY BitsFacts
<1>2. Kleene(Bits(ins), 0) = IF 0 \in Range(Bits(ins)) THEN 0 ELSE 1
  BY <1>1 DEF Kleene
<1>3. Kleene(Bits(ins), 1) = IF 1 \in Range(Bits(ins)) THEN 1 ELSE 0
  BY <1>1 DEF Kleene
<1> QED
  BY <1>1, <1>2, <1>3 DEF Bit

LEMMA NegateBit ==
  ASSUME NEW b \in BOOLEAN
  PROVE  Negate(Bit(b)) = Bit(~b)
BY DEF Negate, Bit, Undefined

LEMMA ParityBits ==
  ASSUME NEW ins \in Seq(BOOLEAN), ins # <<>>
  PROVE  Parity(Bits(ins)) = Bit(Odd(ins, Len(ins)))
<1>1. Undefined \notin Range(Bits(ins)) /\ DOMAIN ins = 1 .. Len(ins)
  BY BitsFacts
<1>2. {i \in DOMAIN Bits(ins) : Bits(ins)[i] = 1} = Ones(ins, Len(ins))
  <2>1. DOMAIN Bits(ins) = 1 .. Len(ins) /\ \A i \in 1 .. Len(ins) : Bits(ins)[i] = Bit(ins[i])
    BY <1>1 DEF Bits
  <2>2. \A i \in 1 .. Len(ins) : ins[i] \in BOOLEAN
    OBVIOUS
  <2> QED
    BY <2>1, <2>2, BitFacts DEF Ones
<1>3. Parity(Bits(ins)) = Cardinality(Ones(ins, Len(ins))) % 2
  BY <1>1, <1>2 DEF Parity
<1>4. Cardinality(Ones(ins, Len(ins))) \in Nat
  <2>1. Ones(ins, Len(ins)) \subseteq 1 .. Len(ins) /\ IsFiniteSet(1 .. Len(ins))
    BY FS_Interval DEF Ones
  <2> QED
    BY <2>1, FS_Subset, FS_CardinalityType
<1> QED
  BY <1>3, <1>4 DEF Odd, Bit

LEMMA CopyBit ==
  ASSUME NEW ins \in Seq(BOOLEAN), Len(ins) = 1
  PROVE  Copy(Bits(ins)) = Bit(ins[1])
<1>1. DOMAIN Bits(ins) = {1} /\ Bits(ins)[1] = Bit(ins[1])
  BY DEF Bits
<1>2. Range(Bits(ins)) = {Bit(ins[1])}
  BY <1>1 DEF Range
<1> QED
  BY <1>2 DEF Copy

(* The Boolean function of a gate.                                         *)
Output(type, ins) ==
  CASE type = "BUF"  -> ins[1]
    [] type = "NOT"  -> ~ins[1]
    [] type = "AND"  -> \A i \in DOMAIN ins : ins[i]
    [] type = "NAND" -> ~\A i \in DOMAIN ins : ins[i]
    [] type = "OR"   -> \E i \in DOMAIN ins : ins[i]
    [] type = "NOR"  -> ~\E i \in DOMAIN ins : ins[i]
    [] type = "XOR"  -> Odd(ins, Len(ins))
    [] type = "XNOR" -> ~Odd(ins, Len(ins))

FitsType(type, ins) ==
  /\ type \in CombTypes /\ ins \in Seq(BOOLEAN) /\ ins # <<>>
  /\ type \in {"NOT", "BUF"} => Len(ins) = 1

LEMMA GateOutput ==
  ASSUME NEW type, NEW ins, FitsType(type, ins)
  PROVE  Output(type, ins) \in BOOLEAN /\ GateValue(type, Bits(ins)) = Bit(Output(type, ins))
<1>0. ins \in Seq(BOOLEAN) /\ ins # <<>> /\ ins[1] \in BOOLEAN
  BY DEF FitsType
<1> DEFINE all  == \A i \in DOMAIN ins : ins[i]
           some == \E i \in DOMAIN ins : ins[i]
           odd  == Odd(ins, Len(ins))
<1>1. odd \in BOOLEAN /\ all \in BOOLEAN /\ some \in BOOLEAN
  BY DEF Odd
<1>2. /\ Negate(Bit(ins[1])) = Bit(~ins[1]) /\ Negate(Bit(all)) = Bit(~all)
      /\ Negate(Bit(some)) = Bit(~some) /\ Negate(Bit(odd)) = Bit(~odd)
  BY <1>0, <1>1, NegateBit
<1>3. /\ Kleene(Bits(ins), 0) = Bit(all) /\ Kleene(Bits(ins), 1) = Bit(some)
      /\ Parity(Bits(ins)) = Bit(odd)
  BY <1>0, KleeneBits, ParityBits
<1>4. CASE type \in {"NOT", "BUF"}
  <2>1. Copy(Bits(ins)) = Bit(ins[1])
    BY <1>0, <1>4, CopyBit DEF FitsType
  <2> QED
    BY <1>0, <1>2, <1>4, <2>1 DEF GateValue, Output
<1>5. CASE type \in {"AND", "NAND", "OR", "NOR"}
  <2> HIDE DEF odd
  <2> QED
    BY <1>1, <1>2, <1>3, <1>5 DEF GateValue, Output
<1>6. CASE type \in {"XOR", "XNOR"}
  <2> HIDE DEF all, some
  <2> QED
    BY <1>1, <1>2, <1>3, <1>6 DEF GateValue, Output
<1> QED
  BY <1>4, <1>5, <1>6 DEF FitsType, CombTypes

LEMMA ClausesOutput ==
  ASSUME NEW type, NEW ins, FitsType(type, ins), NEW out \in BOOLEAN
  PROVE  GateClauses(type, out, ins) <=> (out <=> Output(type, ins))
<1>0. /\ ins \in Seq(BOOLEAN) /\ ins # <<>> /\ ins[1] \in BOOLEAN
      /\ \A i \in DOMAIN ins : ins[i] \in BOOLEAN
  BY DEF FitsType
<1>1. CASE type = "BUF" \/ type = "NOT"
  BY <1>0, <1>1 DEF GateClauses, Output
<1>2. CASE type = "AND" \/ type = "NAND"
  BY <1>0, <1>2 DEF GateClauses, Output
<1>3. CASE type = "OR" \/ type = "NOR"
  BY <1>0, <1>3 DEF GateClauses, Output
<1>4. CASE type = "XOR" \/ type = "XNOR"
  <2>1. XorChain(type, out, ins) <=> (out <=> ~(type = "XNOR" <=> Odd(ins, Len(ins))))
    BY <1>0, XorChainFacts
  <2>2. GateClauses(type, out, ins) <=> XorChain(type, out, ins)
    BY <1>4 DEF GateClauses
  <2> QED
    BY <1>4, <2>1, <2>2 DEF Output
<1> QED
  BY <1>1, <1>2, <1>3, <1>4 DEF FitsType, CombTypes

(* The clauses of a gate allow the values it computes and no others.       *)
LEMMA ClausesExact ==
  ASSUME NEW type, NEW ins, FitsType(type, ins), NEW out \in BOOLEAN
  PROVE  /\ GateClauses(type, out, ins) <=> Bit(out) = GateValue(type, Bits(ins))
         /\ GateValue(type, Bits(ins)) \in {0, 1}
<1>1. Output(type, ins) \in BOOLEAN /\ GateValue(type, Bits(ins)) = Bit(Output(type, ins))
  BY GateOutput
<1>2. GateClauses(type, out, ins) <=> (out <=> Output(type, ins))
  BY ClausesOutput
<1> QED
  BY <1>1, <1>2, BitFacts

-----------------------------------------------------------------------------
(* Designs, and the nets an endpoint is on.                                *)

LEMMA DesignFacts ==
  ASSUME NEW d, IsDesign(d)
  PROVE  /\ IsFiniteSet(d.outputs) /\ IsFiniteSet(DOMAIN d.dffs)
         /\ Cardinality(DOMAIN d.gates) \in Nat
         /\ DOMAIN d.gates \cap DOMAIN d.consts = {}
         /\ \A n \in DOMAIN d.consts : d.consts[n] \in BOOLEAN
         /\ \A n \in DOMAIN d.gates \cup DOMAIN d.consts :
              n \in Wired(d) /\ n \notin d.inputs /\ ~isDffOutputNet(d, n)
<1>1. IsFiniteSet(d.outputs) /\ IsFiniteSet(DOMAIN d.dffs) /\ IsFiniteSet(DOMAIN d.gates)
  BY DEF IsDesign
<1>2. Cardinality(DOMAIN d.gates) \in Nat
  BY <1>1, FS_CardinalityType
<1>3. \A n \in DOMAIN d.gates \cup DOMAIN d.consts : n # Open /\ n \notin d.inputs /\ ~isDffOutputNet(d, n)
  BY DEF IsDesign
<1>4. DOMAIN d.gates \cap DOMAIN d.consts = {} /\ \A n \in DOMAIN d.consts : d.consts[n] \in BOOLEAN
  BY DEF IsDesign
<1> QED
  BY <1>1, <1>2, <1>3, <1>4 DEF Wired

LEMMA WiredFacts ==
  ASSUME NEW d
  PROVE  /\ \A n \in d.outputs : n # Open => n \in Wired(d)
         /\ \A f \in DOMAIN d.dffs : d.dffs[f].d # Open => d.dffs[f].d \in Wired(d)
         /\ \A n \in DOMAIN d.gates : \A i \in DOMAIN d.gates[n].ins :
              d.gates[n].ins[i] # Open => d.gates[n].ins[i] \in Wired(d)
<1>1. \A n \in d.outputs : n # Open => n \in Wired(d)
  BY DEF Wired
<1>2. ASSUME NEW h \in DOMAIN d.dffs, d.dffs[h].d # Open
      PROVE  d.dffs[h].d \in Wired(d)
  <2>1. d.dffs[h].d \in {d.dffs[f].d : f \in DOMAIN d.dffs}
    OBVIOUS
  <2> QED
    BY <1>2, <2>1 DEF Wired
<1>3. ASSUME NEW n \in DOMAIN d.gates, NEW i \in DOMAIN d.gates[n].ins, d.gates[n].ins[i] # Open
      PROVE  d.gates[n].ins[i] \in Wired(d)
  <2>1. d.gates[n].ins[i] \in ToSet(d.gates[n].ins)
    BY DEF ToSet
  <2> DEFINE pins == UNION {ToSet(d.gates[m].ins) : m \in DOMAIN d.gates}
  <2>2. d.gates[n].ins[i] \in pins
    BY <2>1
  <2>3. pins \ {Open} \subseteq Wired(d)
    BY Zenon DEF Wired
  <2> HIDE DEF pins
  <2> QED
    BY <1>3, <2>2, <2>3
<1> QED
  BY <1>1, <1>2, <1>3

LEMMA RankFacts ==
  ASSUME NEW d, IsDesign(d)
  PROVE  \E rank : \A n \in DOMAIN d.gates :
           /\ rank[n] \in 1 .. Cardinality(DOMAIN d.gates)
           /\ \A i \in DOMAIN d.gates[n].ins :
                d.gates[n].ins[i] \in DOMAIN d.gates => rank[d.gates[n].ins[i]] < rank[n]
<1>1. LoopFree(d)
  BY DEF IsDesign
<1>2. PICK rank \in [DOMAIN d.gates -> 1 .. Cardinality(DOMAIN d.gates)] :
         \A n \in DOMAIN d.gates : \A m \in ToSet(d.gates[n].ins) \cap DOMAIN d.gates :
           rank[m] < rank[n]
  BY <1>1 DEF LoopFree
<1>3. \A n \in DOMAIN d.gates : \A i \in DOMAIN d.gates[n].ins :
        d.gates[n].ins[i] \in ToSet(d.gates[n].ins)
  BY DEF ToSet
<1> QED
  BY <1>2, <1>3

LEMMA ElementsOfSet ==
  ASSUME NEW S, IsFiniteSet(S)
  PROVE  SetToSeq(S) \in Seq(S) /\ IsInjective(SetToSeq(S))
<1>1. Cardinality(S) \in Nat /\ ExistsBijection(1 .. Cardinality(S), S)
  BY FS_CardinalityType
<1>2. \E f \in [1 .. Cardinality(S) -> S] : IsInjective(f)
  BY <1>1 DEF ExistsBijection, Bijection, Injection, IsInjective
<1>3. SetToSeq(S) \in [1 .. Cardinality(S) -> S] /\ IsInjective(SetToSeq(S))
  BY <1>2 DEF SetToSeq
<1>4. \A n \in Nat : \A f \in [1 .. n -> S] : f \in Seq(S)
  OBVIOUS
<1> QED
  BY <1>1, <1>3, <1>4

LEMMA EndpointsFinite ==
  ASSUME NEW o, IsDesign(o)
  PROVE  IsFiniteSet({PO(n) : n \in o.outputs}) /\ IsFiniteSet({FF(f) : f \in DOMAIN o.dffs})
<1> DEFINE P == {PO(n) : n \in o.outputs}
           F == {FF(f) : f \in DOMAIN o.dffs}
<1>1. IsFiniteSet(o.outputs) /\ IsFiniteSet(DOMAIN o.dffs)
  BY DesignFacts
<1>2. [n \in o.outputs |-> PO(n)] \in Surjection(o.outputs, P)
  BY DEF Surjection
<1>3. [f \in DOMAIN o.dffs |-> FF(f)] \in Surjection(DOMAIN o.dffs, F)
  BY DEF Surjection
<1> QED
  BY <1>1, <1>2, <1>3, FS_Surjection

LEMMA EndpointNets ==
  ASSUME NEW o, NEW c, IsDesign(o), SameInterface(o, c), Encodable(o, c),
         NEW e \in ToSet(Endpoints(o))
  PROVE  EndpointNet(o, e) \in Wired(o) /\ EndpointNet(c, e) \in Wired(c)
<1> DEFINE P == {PO(n) : n \in o.outputs}
           F == {FF(f) : f \in DOMAIN o.dffs}
<1>1. IsFiniteSet(P) /\ IsFiniteSet(F)
  BY EndpointsFinite
<1> HIDE DEF P, F
<1>2. SetToSeq(P) \in Seq(P) /\ SetToSeq(F) \in Seq(F)
  BY <1>1, ElementsOfSet
<1>3. Endpoints(o) \in Seq(P \cup F)
  <2>1. Endpoints(o) = SetToSeq(P) \o SetToSeq(F)
    BY DEF Endpoints, P, F
  <2>2. SetToSeq(P) \o SetToSeq(F) \in Seq(P \cup F)
    BY <1>2
  <2> QED
    BY <2>1, <2>2
<1>4. e \in P \cup F
  BY <1>3 DEF ToSet
<1>5. EndpointNet(o, e) # Open /\ EndpointNet(c, e) # Open
  BY DEF Encodable
<1>6. CASE e \in P
  BY <1>5, <1>6 DEF P, PO, EndpointNet, Wired, SameInterface
<1>7. CASE e \in F
  <2>1. PICK f \in DOMAIN o.dffs : e = <<"DffD", f>>
    BY <1>7 DEF F, FF
  <2>2. EndpointNet(o, e) = o.dffs[f].d /\ EndpointNet(c, e) = c.dffs[f].d /\ f \in DOMAIN c.dffs
    BY <2>1 DEF EndpointNet, SameInterface
  <2> QED
    BY <1>5, <2>1, <2>2, WiredFacts
<1> QED
  BY <1>4, <1>6, <1>7

-----------------------------------------------------------------------------
(* What a design computes: the one assignment of its nets that every gate  *)
(* agrees with.                                                            *)

Solution(d, env, v) ==
  /\ v \in [Wired(d) -> {0, 1}]
  /\ \A n \in DOMAIN d.gates : v[n] = GateValue(d.gates[n].type, PinsOf(d, n, v))
  /\ \A n \in Wired(d) \ DOMAIN d.gates : v[n] = Start(d, env)[n]

GivesLeaves(d, env) == \A l \in Leaves(d) : env[l] \in BOOLEAN

AllEncodable(d) == \A n \in DOMAIN d.gates : EncodableGate(d.gates[n])

LEMMA GateFacts ==
  ASSUME NEW d, IsDesign(d), AllEncodable(d), NEW n \in DOMAIN d.gates
  PROVE  /\ d.gates[n].type \in CombTypes
         /\ Len(d.gates[n].ins) \in Nat \ {0}
         /\ DOMAIN d.gates[n].ins = 1 .. Len(d.gates[n].ins)
         /\ d.gates[n].type \in {"NOT", "BUF"} => Len(d.gates[n].ins) = 1
         /\ \A i \in DOMAIN d.gates[n].ins : d.gates[n].ins[i] \in Wired(d)
<1>1. d.gates[n].type \in CombTypes /\ d.gates[n].ins \in Seq(ToSet(d.gates[n].ins))
  BY DEF IsDesign
<1>2. /\ d.gates[n].ins # <<>> /\ Open \notin ToSet(d.gates[n].ins)
      /\ d.gates[n].type \in {"NOT", "BUF"} => Len(d.gates[n].ins) = 1
  BY DEF AllEncodable, EncodableGate
<1>3. Len(d.gates[n].ins) \in Nat \ {0} /\ DOMAIN d.gates[n].ins = 1 .. Len(d.gates[n].ins)
  BY <1>1, <1>2
<1>4. \A i \in DOMAIN d.gates[n].ins : d.gates[n].ins[i] # Open
  BY <1>2 DEF ToSet
<1> QED
  BY <1>1, <1>2, <1>3, <1>4, WiredFacts

(* The pins of a gate that all carry a bit.                                *)
LEMMA PinsFit ==
  ASSUME NEW d, IsDesign(d), AllEncodable(d), NEW n \in DOMAIN d.gates, NEW b,
         \A i \in DOMAIN d.gates[n].ins : b[d.gates[n].ins[i]] \in BOOLEAN
  PROVE  FitsType(d.gates[n].type, [i \in DOMAIN d.gates[n].ins |-> b[d.gates[n].ins[i]]])
<1> DEFINE ins  == d.gates[n].ins
           type == d.gates[n].type
           bits == [i \in DOMAIN ins |-> b[ins[i]]]
<1>1. /\ type \in CombTypes /\ Len(ins) \in Nat \ {0} /\ DOMAIN ins = 1 .. Len(ins)
      /\ type \in {"NOT", "BUF"} => Len(ins) = 1
  BY GateFacts
<1> HIDE DEF ins, type
<1>2. \A i \in 1 .. Len(ins) : b[ins[i]] \in BOOLEAN
  BY <1>1 DEF ins
<1>3. bits \in Seq(BOOLEAN) /\ Len(bits) = Len(ins)
  BY <1>1, <1>2
<1>4. bits # <<>>
  BY <1>1, <1>3
<1> QED
  BY <1>1, <1>3, <1>4 DEF FitsType, ins, type

LEMMA ComputesBit ==
  ASSUME NEW d, IsDesign(d), AllEncodable(d), NEW n \in DOMAIN d.gates, NEW v,
         \A i \in DOMAIN d.gates[n].ins : v[d.gates[n].ins[i]] \in {0, 1}
  PROVE  GateValue(d.gates[n].type, PinsOf(d, n, v)) \in {0, 1}
<1> DEFINE b == [m \in Wired(d) |-> v[m] = 1]
           bits == [i \in DOMAIN d.gates[n].ins |-> b[d.gates[n].ins[i]]]
<1>1. \A i \in DOMAIN d.gates[n].ins : /\ d.gates[n].ins[i] \in Wired(d)
                                       /\ b[d.gates[n].ins[i]] \in BOOLEAN
                                       /\ Bit(b[d.gates[n].ins[i]]) = v[d.gates[n].ins[i]]
  BY GateFacts DEF Bit
<1> HIDE DEF b
<1>2. FitsType(d.gates[n].type, bits)
  BY <1>1, PinsFit
<1>3. Bits(bits) = PinsOf(d, n, v)
  BY <1>1 DEF Bits, PinsOf
<1> HIDE DEF bits
<1>4. GateValue(d.gates[n].type, Bits(bits)) \in {0, 1}
  BY <1>2, ClausesExact
<1> QED
  BY <1>3, <1>4

LEMMA StartFacts ==
  ASSUME NEW d, IsDesign(d), NEW env, GivesLeaves(d, env), NEW n \in Wired(d)
  PROVE  /\ n \in DOMAIN d.consts => Start(d, env)[n] = Bit(d.consts[n])
         /\ Undriven(d, n) => Start(d, env)[n] = Bit(env[Leaf(d, n)]) /\ env[Leaf(d, n)] \in BOOLEAN
         /\ n \notin DOMAIN d.gates => Start(d, env)[n] \in {0, 1}
<1>1. Undriven(d, n) => Leaf(d, n) \in Leaves(d)
  BY DEF Leaves
<1>2. Undriven(d, n) => env[Leaf(d, n)] \in BOOLEAN
  BY <1>1 DEF GivesLeaves
<1>3. Start(d, env)[n] =
        IF n \in DOMAIN d.consts THEN Bit(d.consts[n])
        ELSE IF n \in DOMAIN d.gates THEN Undefined ELSE Bit(env[Leaf(d, n)])
  BY DEF Start
<1>4. n \in DOMAIN d.consts => d.consts[n] \in BOOLEAN
  BY DesignFacts
<1>5. n \in DOMAIN d.consts => Start(d, env)[n] = Bit(d.consts[n])
  BY <1>3
<1>6. Undriven(d, n) => Start(d, env)[n] = Bit(env[Leaf(d, n)])
  BY <1>3 DEF Undriven
<1> QED
  BY <1>2, <1>4, <1>5, <1>6, BitFacts DEF Undriven

(* Two assignments that all gates agree with are the same: otherwise take  *)
(* a gate of the least rank at which they differ.                          *)
LEMMA OneSolution ==
  ASSUME NEW d, IsDesign(d), AllEncodable(d), NEW env, NEW u, NEW v,
         Solution(d, env, u), Solution(d, env, v)
  PROVE  u = v
<1> DEFINE differ == {n \in DOMAIN d.gates : u[n] # v[n]}
<1>1. PICK rank : \A n \in DOMAIN d.gates :
         /\ rank[n] \in 1 .. Cardinality(DOMAIN d.gates)
         /\ \A i \in DOMAIN d.gates[n].ins :
              d.gates[n].ins[i] \in DOMAIN d.gates => rank[d.gates[n].ins[i]] < rank[n]
  BY RankFacts
<1>2. differ = {}
  <2> SUFFICES ASSUME differ # {}
               PROVE  FALSE
    OBVIOUS
  <2> DEFINE T == {rank[n] : n \in differ}
  <2>1. T \subseteq Nat /\ T # {}
    BY <1>1, DesignFacts
  <2>2. PICK x \in T : \A y \in T : x <= y
    BY <2>1, LeastNatural
  <2>3. PICK n \in differ : x = rank[n]
    OBVIOUS
  <2>4. \A m \in differ : rank[n] <= rank[m]
    BY <2>2, <2>3
  <2>5. ASSUME NEW i \in DOMAIN d.gates[n].ins
        PROVE  u[d.gates[n].ins[i]] = v[d.gates[n].ins[i]]
    <3>1. d.gates[n].ins[i] \in Wired(d)
      BY GateFacts
    <3>2. CASE d.gates[n].ins[i] \in DOMAIN d.gates
      <4>1. rank[d.gates[n].ins[i]] < rank[n] /\ rank[d.gates[n].ins[i]] \in Nat /\ rank[n] \in Nat
        BY <1>1, <3>2, DesignFacts
      <4> QED
        BY <2>4, <3>2, <4>1
    <3>3. CASE d.gates[n].ins[i] \notin DOMAIN d.gates
      BY <3>1, <3>3 DEF Solution
    <3> QED
      BY <3>2, <3>3
  <2>6. PinsOf(d, n, u) = PinsOf(d, n, v)
    BY <2>5 DEF PinsOf
  <2> QED
    BY <2>6 DEF Solution
<1>3. \A n \in Wired(d) : u[n] = v[n]
  BY <1>2 DEF Solution
<1>4. u \in [Wired(d) -> {0, 1}] /\ v \in [Wired(d) -> {0, 1}]
  BY DEF Solution
<1> QED
  BY <1>3, <1>4

(* h lists the first N sweeps of Values.                                   *)
Sweeps(d, env, N, h) ==
  h = [k \in 0 .. N |-> IF k = 0 THEN Start(d, env) ELSE Sweep(d, h[k - 1])]

LEMMA SweepsExist ==
  ASSUME NEW d, NEW env, NEW N \in Nat
  PROVE  \E h : Sweeps(d, env, N, h)
<1> DEFINE S == {n \in 0 .. N : \E h : h = [k \in 0 .. n |->
                   IF k = 0 THEN Start(d, env) ELSE Sweep(d, h[k - 1])]}
<1>1. 0 \in S
  <2>1. \E h : h = [k \in 0 .. 0 |-> IF k = 0 THEN Start(d, env) ELSE Sweep(d, h[k - 1])]
    <3> DEFINE h == [k \in 0 .. 0 |-> Start(d, env)]
    <3>1. h = [k \in 0 .. 0 |-> IF k = 0 THEN Start(d, env) ELSE Sweep(d, h[k - 1])]
      OBVIOUS
    <3> QED
      BY <3>1
  <2> QED
    BY <2>1
<1>2. ASSUME NEW n \in 0 .. N, n \in S, n < N
      PROVE  n + 1 \in S
  <2>1. PICK h : h = [k \in 0 .. n |-> IF k = 0 THEN Start(d, env) ELSE Sweep(d, h[k - 1])]
    BY <1>2
  <2> DEFINE f == [k \in 0 .. n + 1 |-> IF k <= n THEN h[k] ELSE Sweep(d, h[n])]
  <2>2. ASSUME NEW k \in 0 .. n + 1
        PROVE  f[k] = IF k = 0 THEN Start(d, env) ELSE Sweep(d, f[k - 1])
    <3>1. CASE k = 0
      <4>1. h[0] = Start(d, env)
        BY <2>1, <1>2
      <4> QED
        BY <3>1, <4>1, <1>2
    <3>2. CASE k \in 1 .. n
      <4>1. h[k] = Sweep(d, h[k - 1])
        BY <2>1, <1>2, <3>2
      <4>2. f[k - 1] = h[k - 1] /\ f[k] = h[k]
        BY <1>2, <3>2
      <4> QED
        BY <4>1, <4>2, <3>2
    <3>3. CASE k = n + 1
      <4>1. f[k] = Sweep(d, h[n]) /\ f[k - 1] = h[n] /\ k # 0
        BY <1>2, <3>3
      <4> QED
        BY <4>1
    <3> QED
      BY <3>1, <3>2, <3>3, <1>2
  <2>3. f = [k \in 0 .. n + 1 |-> f[k]]
    OBVIOUS
  <2> HIDE DEF f
  <2>4. f = [k \in 0 .. n + 1 |-> IF k = 0 THEN Start(d, env) ELSE Sweep(d, f[k - 1])]
    BY <2>2, <2>3
  <2> QED
    BY <2>4, <1>2
<1>3. 0 .. N \subseteq S
  <2> HIDE DEF S
  <2> QED
    BY <1>1, <1>2, Climb
<1> QED
  BY <1>3 DEF Sweeps

LEMMA ValuesSweeps ==
  ASSUME NEW d, NEW env, Cardinality(DOMAIN d.gates) \in Nat
  PROVE  LET N == Cardinality(DOMAIN d.gates) IN
         \E h : /\ h[0] = Start(d, env)
                /\ \A k \in 0 .. N : k < N => h[k + 1] = Sweep(d, h[k])
                /\ Values(d, env) = h[N]
<1> DEFINE N == Cardinality(DOMAIN d.gates)
           F == CHOOSE h : Sweeps(d, env, N, h)
<1>1. Values(d, env) = F[N]
  BY DEF Values, Sweeps
<1> HIDE DEF N
<1>2. \E h : Sweeps(d, env, N, h)
  BY SweepsExist DEF N
<1>3. Sweeps(d, env, N, F)
  BY <1>2
<1> HIDE DEF F
<1>4. \A k \in 0 .. N : F[k] = IF k = 0 THEN Start(d, env) ELSE Sweep(d, F[k - 1])
  BY <1>3 DEF Sweeps
<1>5. F[0] = Start(d, env)
  BY <1>4 DEF N
<1>6. ASSUME NEW k \in 0 .. N, k < N
      PROVE  F[k + 1] = Sweep(d, F[k])
  <2>1. k + 1 \in 0 .. N /\ k + 1 # 0 /\ (k + 1) - 1 = k
    BY <1>6 DEF N
  <2> QED
    BY <1>4, <2>1
<1> QED
  BY <1>1, <1>5, <1>6 DEF N

(* What sweep k has settled: the nets of inputs and constants, and the     *)
(* gates up to rank k.                                                     *)
Settled(d, env, v, n) ==
  /\ v[n] \in {0, 1}
  /\ IF n \in DOMAIN d.gates THEN v[n] = GateValue(d.gates[n].type, PinsOf(d, n, v))
     ELSE v[n] = Start(d, env)[n]

LEMMA SweepFacts ==
  ASSUME NEW d, NEW v, NEW n \in Wired(d)
  PROVE  /\ n \in DOMAIN d.gates => Sweep(d, v)[n] = GateValue(d.gates[n].type, PinsOf(d, n, v))
         /\ n \notin DOMAIN d.gates => Sweep(d, v)[n] = v[n]
BY DEF Sweep

(* A sweep leaves alone what is settled, and settles a gate whose pins are.*)
LEMMA SweepSettles ==
  ASSUME NEW d, IsDesign(d), AllEncodable(d), NEW env, GivesLeaves(d, env), NEW v, NEW n \in Wired(d),
         n \in DOMAIN d.gates =>
           \A i \in DOMAIN d.gates[n].ins : Settled(d, env, v, d.gates[n].ins[i]),
         n \notin DOMAIN d.gates => Settled(d, env, v, n)
  PROVE  Settled(d, env, Sweep(d, v), n)
<1> DEFINE w == Sweep(d, v)
<1>1. CASE n \notin DOMAIN d.gates
  BY <1>1, SweepFacts DEF Settled
<1>2. CASE n \in DOMAIN d.gates
  <2>1. ASSUME NEW i \in DOMAIN d.gates[n].ins
        PROVE  w[d.gates[n].ins[i]] = v[d.gates[n].ins[i]] /\ v[d.gates[n].ins[i]] \in {0, 1}
    <3>1. d.gates[n].ins[i] \in Wired(d)
      BY <1>2, GateFacts
    <3>2. Settled(d, env, v, d.gates[n].ins[i])
      BY <1>2
    <3> QED
      BY <3>1, <3>2, SweepFacts DEF Settled
  <2>2. PinsOf(d, n, w) = PinsOf(d, n, v)
    BY <2>1 DEF PinsOf
  <2>3. w[n] = GateValue(d.gates[n].type, PinsOf(d, n, v))
    BY <1>2, SweepFacts
  <2>4. GateValue(d.gates[n].type, PinsOf(d, n, v)) \in {0, 1}
    BY <1>2, <2>1, ComputesBit
  <2> QED
    BY <1>2, <2>2, <2>3, <2>4 DEF Settled
<1> QED
  BY <1>1, <1>2

LEMMA ValuesSolve ==
  ASSUME NEW d, IsDesign(d), AllEncodable(d), NEW env, GivesLeaves(d, env)
  PROVE  Solution(d, env, Values(d, env))
<1> DEFINE N == Cardinality(DOMAIN d.gates)
<1>1. N \in Nat
  BY DesignFacts
<1>2. PICK h : /\ h[0] = Start(d, env)
               /\ \A k \in 0 .. N : k < N => h[k + 1] = Sweep(d, h[k])
               /\ Values(d, env) = h[N]
  BY <1>1, ValuesSweeps
<1>3. PICK rank : \A n \in DOMAIN d.gates :
         /\ rank[n] \in 1 .. N
         /\ \A i \in DOMAIN d.gates[n].ins :
              d.gates[n].ins[i] \in DOMAIN d.gates => rank[d.gates[n].ins[i]] < rank[n]
  BY RankFacts
<1> DEFINE Level(n) == IF n \in DOMAIN d.gates THEN rank[n] ELSE 0
<1> HIDE DEF N
<1>4. \A n : Level(n) \in 0 .. N /\ (Level(n) = 0 => n \notin DOMAIN d.gates)
  BY <1>1, <1>3
<1>5. \A n \in DOMAIN d.gates : \A i \in DOMAIN d.gates[n].ins : Level(d.gates[n].ins[i]) < Level(n)
  BY <1>1, <1>3
<1> HIDE DEF Level
<1> DEFINE S == {k \in 0 .. N : \A n \in Wired(d) : Level(n) <= k => Settled(d, env, h[k], n)}
<1>6. 0 \in S
  <2>1. ASSUME NEW n \in Wired(d), Level(n) <= 0
        PROVE  Settled(d, env, h[0], n)
    <3>1. n \notin DOMAIN d.gates
      BY <1>1, <1>4, <2>1
    <3> QED
      BY <1>2, <3>1, StartFacts DEF Settled
  <2> QED
    BY <1>1, <2>1
<1>7. ASSUME NEW k \in 0 .. N, k \in S, k < N
      PROVE  k + 1 \in S
  <2>1. ASSUME NEW n \in Wired(d), Level(n) <= k + 1
        PROVE  Settled(d, env, Sweep(d, h[k]), n)
    <3>1. ASSUME n \in DOMAIN d.gates, NEW i \in DOMAIN d.gates[n].ins
          PROVE  Settled(d, env, h[k], d.gates[n].ins[i])
      <4>1. d.gates[n].ins[i] \in Wired(d)
        BY <3>1, GateFacts
      <4>2. Level(d.gates[n].ins[i]) <= k
        BY <1>1, <1>4, <1>5, <2>1, <3>1
      <4> QED
        BY <1>7, <4>1, <4>2
    <3>2. ASSUME n \notin DOMAIN d.gates
          PROVE  Settled(d, env, h[k], n)
      <4>1. Level(n) <= k
        BY <1>1, <3>2 DEF Level
      <4> QED
        BY <1>7, <4>1
    <3> QED
      BY <3>1, <3>2, SweepSettles
  <2>2. h[k + 1] = Sweep(d, h[k])
    BY <1>2, <1>7
  <2>3. k + 1 \in 0 .. N
    BY <1>1, <1>7
  <2> QED
    BY <2>1, <2>2, <2>3
<1>8. N \in S
  <2> HIDE DEF S
  <2>1. 0 .. N \subseteq S
    BY <1>1, <1>6, <1>7, Climb
  <2> QED
    BY <1>1, <2>1
<1>9. \A n \in Wired(d) : Settled(d, env, Values(d, env), n)
  BY <1>1, <1>2, <1>4, <1>8
<1>10. Values(d, env) = [n \in Wired(d) |-> Values(d, env)[n]]
  <2>1. Start(d, env) = [n \in Wired(d) |-> Start(d, env)[n]]
    BY DEF Start
  <2>2. \A v : Sweep(d, v) = [n \in Wired(d) |-> Sweep(d, v)[n]]
    BY DEF Sweep
  <2>3. CASE N = 0
    BY <1>2, <2>1, <2>3
  <2>4. CASE N # 0
    <3>1. N - 1 \in 0 .. N /\ N - 1 < N /\ (N - 1) + 1 = N
      BY <1>1, <2>4
    <3>2. Values(d, env) = Sweep(d, h[N - 1])
      BY <1>2, <3>1
    <3> QED
      BY <2>2, <3>2
  <2> QED
    BY <2>3, <2>4
<1> QED
  <2>1. Values(d, env) \in [Wired(d) -> {0, 1}]
    BY <1>9, <1>10 DEF Settled
  <2>2. DOMAIN d.gates \subseteq Wired(d)
    BY DesignFacts
  <2> QED
    BY <1>9, <2>1, <2>2 DEF Settled, Solution

-----------------------------------------------------------------------------
(* The formula has the solutions of the two designs for its models.        *)

LEMMA NetVarFacts ==
  ASSUME NEW d, IsDesign(d), NEW side, NEW n \in Wired(d)
  PROVE  /\ netVar(d, n, side) = IF Undriven(d, n) THEN Leaf(d, n) ELSE <<side, n>>
         /\ netVar(d, n, side) \in Vars(d, side)
<1>1. ~Undriven(d, n) => n \notin d.inputs /\ ~isDffOutputNet(d, n)
  BY DesignFacts DEF Undriven
<1>2. netVar(d, n, side) = IF Undriven(d, n) THEN Leaf(d, n) ELSE <<side, n>>
  BY <1>1 DEF netVar, Leaf
<1> QED
  BY <1>2 DEF Vars

LEMMA LeafFacts ==
  ASSUME NEW d, IsDesign(d), NEW side, NEW l \in Leaves(d)
  PROVE  /\ l \in Vars(d, side) /\ l[1] \notin Sides
         /\ \E n \in Wired(d) : Undriven(d, n) /\ l = Leaf(d, n) /\ netVar(d, n, side) = l
<1>1. PICK n \in Wired(d) : Undriven(d, n) /\ l = Leaf(d, n)
  BY DEF Leaves
<1>2. netVar(d, n, side) = l
  BY <1>1, NetVarFacts
<1>3. l[1] \notin Sides
  BY <1>1 DEF Leaf, Sides
<1> QED
  BY <1>1, <1>2, <1>3, NetVarFacts

(* The values of a design's nets under an assignment of the variables.     *)
NetsOf(m, d, side) == [n \in Wired(d) |-> Bit(m[netVar(d, n, side)])]

LEMMA ClausesOfGate ==
  ASSUME NEW d, IsDesign(d), AllEncodable(d), NEW side, NEW m, NEW n \in DOMAIN d.gates,
         \A v \in Vars(d, side) : m[v] \in BOOLEAN
  PROVE  GateClauses(d.gates[n].type, m[netVar(d, n, side)],
                     [i \in DOMAIN d.gates[n].ins |-> m[netVar(d, d.gates[n].ins[i], side)]])
           <=> NetsOf(m, d, side)[n]
                 = GateValue(d.gates[n].type, PinsOf(d, n, NetsOf(m, d, side)))
<1> DEFINE b == [w \in Wired(d) |-> m[netVar(d, w, side)]]
           pins == [i \in DOMAIN d.gates[n].ins |-> b[d.gates[n].ins[i]]]
<1>1. n \in Wired(d) /\ \A i \in DOMAIN d.gates[n].ins : d.gates[n].ins[i] \in Wired(d)
  BY DesignFacts, GateFacts
<1>2. \A w \in Wired(d) : /\ b[w] = m[netVar(d, w, side)] /\ b[w] \in BOOLEAN
                          /\ NetsOf(m, d, side)[w] = Bit(b[w])
  BY NetVarFacts DEF NetsOf
<1> HIDE DEF b
<1>3. FitsType(d.gates[n].type, pins)
  BY <1>1, <1>2, PinsFit
<1>4. Bits(pins) = PinsOf(d, n, NetsOf(m, d, side))
  BY <1>1, <1>2 DEF Bits, PinsOf
<1>5. pins = [i \in DOMAIN d.gates[n].ins |-> m[netVar(d, d.gates[n].ins[i], side)]]
  BY <1>1, <1>2
<1> HIDE DEF pins
<1>6. GateClauses(d.gates[n].type, b[n], pins)
        <=> Bit(b[n]) = GateValue(d.gates[n].type, Bits(pins))
  BY <1>1, <1>2, <1>3, ClausesExact
<1> QED
  BY <1>1, <1>2, <1>4, <1>5, <1>6

(* The clauses of a design allow what it computes and nothing else.        *)
LEMMA ClausesSolve ==
  ASSUME NEW d, IsDesign(d), AllEncodable(d), NEW side, NEW m, NEW env,
         \A v \in Vars(d, side) : m[v] \in BOOLEAN,
         \A l \in Leaves(d) : env[l] = m[l]
  PROVE  /\ GivesLeaves(d, env)
         /\ encodeDesign(m, d, side) <=> Solution(d, env, NetsOf(m, d, side))
<1> DEFINE v == NetsOf(m, d, side)
<1>1. GivesLeaves(d, env)
  BY LeafFacts DEF GivesLeaves
<1>2. \A n \in Wired(d) : v[n] = Bit(m[netVar(d, n, side)]) /\ m[netVar(d, n, side)] \in BOOLEAN
  BY NetVarFacts DEF NetsOf
<1>3. v \in [Wired(d) -> {0, 1}]
  BY <1>2, BitFacts DEF NetsOf
<1> HIDE DEF v
<1>4. ASSUME NEW n \in DOMAIN d.consts
      PROVE  m[netVar(d, n, side)] = d.consts[n] <=> v[n] = Start(d, env)[n]
  <2>1. n \in Wired(d) /\ d.consts[n] \in BOOLEAN
    BY DesignFacts
  <2>2. Start(d, env)[n] = Bit(d.consts[n])
    BY <1>1, <2>1, StartFacts
  <2>3. Bit(m[netVar(d, n, side)]) = Bit(d.consts[n]) <=> (m[netVar(d, n, side)] <=> d.consts[n])
    BY <1>2, <2>1, BitFacts
  <2> QED
    BY <1>2, <2>1, <2>2, <2>3
<1>5. ASSUME NEW n \in Wired(d), Undriven(d, n)
      PROVE  v[n] = Start(d, env)[n]
  <2>1. netVar(d, n, side) = Leaf(d, n) /\ Leaf(d, n) \in Leaves(d)
    BY <1>5, NetVarFacts DEF Leaves
  <2>2. Start(d, env)[n] = Bit(env[Leaf(d, n)])
    BY <1>1, <1>5, StartFacts
  <2> QED
    BY <1>2, <2>1, <2>2
<1>6. encodeDesign(m, d, side) <=>
        /\ \A n \in DOMAIN d.consts : v[n] = Start(d, env)[n]
        /\ \A n \in DOMAIN d.gates : v[n] = GateValue(d.gates[n].type, PinsOf(d, n, v))
  <2> DEFINE Clauses(n) ==
        GateClauses(d.gates[n].type, m[netVar(d, n, side)],
                    [i \in DOMAIN d.gates[n].ins |-> m[netVar(d, d.gates[n].ins[i], side)]])
  <2>1. \A n \in DOMAIN d.gates :
          Clauses(n) <=> v[n] = GateValue(d.gates[n].type, PinsOf(d, n, v))
    BY ClausesOfGate DEF v
  <2>2. encodeDesign(m, d, side) <=>
          /\ \A n \in DOMAIN d.consts : m[netVar(d, n, side)] = d.consts[n]
          /\ \A n \in DOMAIN d.gates : Clauses(n)
    BY Zenon DEF encodeDesign
  <2> HIDE DEF Clauses
  <2> QED
    BY <1>4, <2>1, <2>2
<1>7. \A n : n \in Wired(d) \ DOMAIN d.gates <=>
               n \in DOMAIN d.consts \/ (n \in Wired(d) /\ Undriven(d, n))
  BY DesignFacts DEF Undriven
<1>8. Solution(d, env, v) <=>
        /\ \A n \in DOMAIN d.consts : v[n] = Start(d, env)[n]
        /\ \A n \in DOMAIN d.gates : v[n] = GateValue(d.gates[n].type, PinsOf(d, n, v))
  BY <1>3, <1>5, <1>7 DEF Solution
<1> QED
  BY <1>1, <1>6, <1>8 DEF v

(* A model of the formula is a run of each design.                         *)
LEMMA ModelIsRun ==
  ASSUME NEW d, IsDesign(d), AllEncodable(d), NEW side, NEW m, NEW env,
         \A v \in Vars(d, side) : m[v] \in BOOLEAN,
         \A l \in Leaves(d) : env[l] = m[l],
         encodeDesign(m, d, side), NEW n \in Wired(d)
  PROVE  Values(d, env)[n] = Bit(m[netVar(d, n, side)])
<1>1. GivesLeaves(d, env) /\ Solution(d, env, NetsOf(m, d, side))
  BY ClausesSolve
<1>2. Solution(d, env, Values(d, env))
  BY <1>1, ValuesSolve
<1>3. Values(d, env) = NetsOf(m, d, side)
  BY <1>1, <1>2, OneSolution
<1> QED
  BY <1>3 DEF NetsOf

(* A run of a design is a model of its clauses.                            *)
LEMMA RunIsModel ==
  ASSUME NEW d, IsDesign(d), AllEncodable(d), NEW side, NEW m, NEW env, GivesLeaves(d, env),
         \A n \in Wired(d) :
           m[netVar(d, n, side)] =
             IF Undriven(d, n) THEN env[Leaf(d, n)] ELSE Values(d, env)[n] = 1
  PROVE  /\ \A v \in Vars(d, side) : m[v] \in BOOLEAN
         /\ \A n \in Wired(d) : Values(d, env)[n] = Bit(m[netVar(d, n, side)])
         /\ encodeDesign(m, d, side)
<1>1. Solution(d, env, Values(d, env))
  BY ValuesSolve
<1>2. ASSUME NEW n \in Wired(d)
      PROVE  /\ m[netVar(d, n, side)] \in BOOLEAN
             /\ Values(d, env)[n] = Bit(m[netVar(d, n, side)])
  <2>1. CASE Undriven(d, n)
    <3>1. Start(d, env)[n] = Bit(env[Leaf(d, n)]) /\ env[Leaf(d, n)] \in BOOLEAN
      BY <2>1, StartFacts
    <3>2. Values(d, env)[n] = Start(d, env)[n]
      BY <1>1, <2>1 DEF Solution, Undriven
    <3> QED
      BY <2>1, <3>1, <3>2
  <2>2. CASE ~Undriven(d, n)
    <3>1. m[netVar(d, n, side)] = (Values(d, env)[n] = 1)
      BY <2>2
    <3>2. Values(d, env)[n] \in {0, 1}
      BY <1>1 DEF Solution
    <3> QED
      BY <3>1, <3>2 DEF Bit
  <2> QED
    BY <2>1, <2>2
<1>3. \A v \in Vars(d, side) : m[v] \in BOOLEAN
  BY <1>2 DEF Vars
<1>4. \A l \in Leaves(d) : env[l] = m[l]
  <2> SUFFICES ASSUME NEW l \in Leaves(d)
               PROVE  env[l] = m[l]
    OBVIOUS
  <2>1. PICK n \in Wired(d) : Undriven(d, n) /\ l = Leaf(d, n) /\ netVar(d, n, side) = l
    BY LeafFacts
  <2> QED
    BY <2>1
<1>5. Values(d, env) = NetsOf(m, d, side)
  BY <1>1, <1>2 DEF Solution, NetsOf
<1> QED
  BY <1>1, <1>2, <1>3, <1>4, <1>5, ClausesSolve

LEMMA FormulaOfPair ==
  ASSUME NEW o, NEW c, IsDesign(o), IsDesign(c), SameInterface(o, c), Encodable(o, c)
  PROVE  Satisfiable(o, c) = Unequal(o, c)
<1>1. AllEncodable(o) /\ AllEncodable(c)
  BY DEF Encodable, AllEncodable
<1>2. \A e \in ToSet(Endpoints(o)) : EndpointNet(o, e) \in Wired(o) /\ EndpointNet(c, e) \in Wired(c)
  BY EndpointNets
<1>3. ASSUME NEW e \in Satisfiable(o, c)
      PROVE  e \in Unequal(o, c)
  <2>1. PICK m \in Models(o, c) :
           m[netVar(o, EndpointNet(o, e), "original")] # m[netVar(c, EndpointNet(c, e), "current")]
    BY DEF Satisfiable
  <2>2. /\ \A v \in Vars(o, "original") : m[v] \in BOOLEAN
        /\ \A v \in Vars(c, "current") : m[v] \in BOOLEAN
        /\ encodeDesign(m, o, "original") /\ encodeDesign(m, c, "current")
    BY DEF Models
  <2>3. e \in ToSet(Endpoints(o))
    BY DEF Satisfiable
  <2> DEFINE env == [l \in Leaves(o) \cup Leaves(c) |-> m[l]]
  <2>4. /\ \A l \in Leaves(o) : env[l] = m[l] /\ m[l] \in BOOLEAN
        /\ \A l \in Leaves(c) : env[l] = m[l] /\ m[l] \in BOOLEAN
    BY <2>2, LeafFacts
  <2>5. env \in [Leaves(o) \cup Leaves(c) -> BOOLEAN]
    BY <2>4
  <2> HIDE DEF env
  <2>6. Values(o, env)[EndpointNet(o, e)] = Bit(m[netVar(o, EndpointNet(o, e), "original")])
    BY <1>1, <1>2, <2>2, <2>3, <2>4, ModelIsRun
  <2>7. Values(c, env)[EndpointNet(c, e)] = Bit(m[netVar(c, EndpointNet(c, e), "current")])
    BY <1>1, <1>2, <2>2, <2>3, <2>4, ModelIsRun
  <2>8. /\ m[netVar(o, EndpointNet(o, e), "original")] \in BOOLEAN
        /\ m[netVar(c, EndpointNet(c, e), "current")] \in BOOLEAN
    BY <1>2, <2>2, <2>3, NetVarFacts
  <2>9. Values(o, env)[EndpointNet(o, e)] # Values(c, env)[EndpointNet(c, e)]
    BY <2>1, <2>6, <2>7, <2>8, BitFacts
  <2> QED
    BY <2>3, <2>5, <2>9 DEF Unequal
<1>4. ASSUME NEW e \in Unequal(o, c)
      PROVE  e \in Satisfiable(o, c)
  <2>1. e \in ToSet(Endpoints(o))
    BY DEF Unequal
  <2>2. PICK env \in [Leaves(o) \cup Leaves(c) -> BOOLEAN] :
           Values(o, env)[EndpointNet(o, e)] # Values(c, env)[EndpointNet(c, e)]
    BY DEF Unequal
  <2>3. GivesLeaves(o, env) /\ GivesLeaves(c, env)
    BY DEF GivesLeaves
  <2> DEFINE m == [v \in Vars(o, "original") \cup Vars(c, "current") |->
                     IF v[1] = "original" THEN Values(o, env)[v[2]] = 1
                     ELSE IF v[1] = "current" THEN Values(c, env)[v[2]] = 1 ELSE env[v]]
  <2>4. ASSUME NEW n \in Wired(o)
        PROVE  m[netVar(o, n, "original")] =
                 IF Undriven(o, n) THEN env[Leaf(o, n)] ELSE Values(o, env)[n] = 1
    <3>1. /\ netVar(o, n, "original") = IF Undriven(o, n) THEN Leaf(o, n) ELSE <<"original", n>>
          /\ netVar(o, n, "original") \in Vars(o, "original")
      BY NetVarFacts
    <3>2. Undriven(o, n) => Leaf(o, n)[1] \notin Sides
      BY DEF Leaf, Sides
    <3> QED
      BY <3>1, <3>2 DEF Sides
  <2>5. ASSUME NEW n \in Wired(c)
        PROVE  m[netVar(c, n, "current")] =
                 IF Undriven(c, n) THEN env[Leaf(c, n)] ELSE Values(c, env)[n] = 1
    <3>1. /\ netVar(c, n, "current") = IF Undriven(c, n) THEN Leaf(c, n) ELSE <<"current", n>>
          /\ netVar(c, n, "current") \in Vars(c, "current")
      BY NetVarFacts
    <3>2. Undriven(c, n) => Leaf(c, n)[1] \notin Sides
      BY DEF Leaf, Sides
    <3> QED
      BY <3>1, <3>2 DEF Sides
  <2>6. m = [v \in Vars(o, "original") \cup Vars(c, "current") |-> m[v]]
    OBVIOUS
  <2> HIDE DEF m
  <2>7. /\ \A v \in Vars(o, "original") : m[v] \in BOOLEAN
        /\ \A n \in Wired(o) : Values(o, env)[n] = Bit(m[netVar(o, n, "original")])
        /\ encodeDesign(m, o, "original")
    BY <1>1, <2>3, <2>4, RunIsModel
  <2>8. /\ \A v \in Vars(c, "current") : m[v] \in BOOLEAN
        /\ \A n \in Wired(c) : Values(c, env)[n] = Bit(m[netVar(c, n, "current")])
        /\ encodeDesign(m, c, "current")
    BY <1>1, <2>3, <2>5, RunIsModel
  <2>9. m \in Models(o, c)
    BY <2>6, <2>7, <2>8 DEF Models
  <2>10. m[netVar(o, EndpointNet(o, e), "original")] # m[netVar(c, EndpointNet(c, e), "current")]
    BY <1>2, <2>1, <2>2, <2>7, <2>8
  <2> QED
    BY <2>1, <2>9, <2>10 DEF Satisfiable
<1> QED
  BY <1>3, <1>4

(* A sequence is one over its own elements.                                *)
LEMMA OwnElements ==
  ASSUME NEW S, NEW s \in Seq(S)
  PROVE  s \in Seq(ToSet(s))
<1>1. s \in [1 .. Len(s) -> S] /\ Len(s) \in Nat /\ DOMAIN s = 1 .. Len(s)
  BY LenProperties
<1>2. \A i \in 1 .. Len(s) : s[i] \in ToSet(s)
  BY <1>1 DEF ToSet
<1>3. s \in [1 .. Len(s) -> ToSet(s)]
  BY <1>1, <1>2
<1>4. \A T : \A n \in Nat : \A f \in [1 .. n -> T] : f \in Seq(T)
  OBVIOUS
<1> QED
  BY <1>1, <1>3, <1>4

(* Every endpoint is listed once.                                          *)
LEMMA EndpointsDiffer ==
  ASSUME NEW o, IsDesign(o)
  PROVE  Endpoints(o) \in Seq(ToSet(Endpoints(o))) /\ IsInjective(Endpoints(o))
<1> DEFINE P == {PO(n) : n \in o.outputs}
           F == {FF(f) : f \in DOMAIN o.dffs}
<1>1. IsFiniteSet(P) /\ IsFiniteSet(F)
  BY EndpointsFinite
<1>2. P \cap F = {}
  BY DEF PO, FF
<1> HIDE DEF P, F
<1> DEFINE p == SetToSeq(P)
           f == SetToSeq(F)
<1>3. p \in Seq(P) /\ f \in Seq(F) /\ IsInjective(p) /\ IsInjective(f)
  BY <1>1, ElementsOfSet
<1>4. Endpoints(o) = p \o f
  BY DEF Endpoints, P, F
<1> HIDE DEF p, f
<1>5. IsInjective(p \o f)
  <2> SUFFICES ASSUME NEW i \in DOMAIN (p \o f), NEW j \in DOMAIN (p \o f),
                      (p \o f)[i] = (p \o f)[j]
               PROVE  i = j
    BY DEF IsInjective
  <2>1. /\ Len(p) \in Nat /\ Len(f) \in Nat /\ Len(p \o f) = Len(p) + Len(f)
        /\ DOMAIN p = 1 .. Len(p) /\ DOMAIN f = 1 .. Len(f)
        /\ DOMAIN (p \o f) = 1 .. Len(p) + Len(f)
    BY <1>3
  <2>2. \A k \in 1 .. Len(p) : (p \o f)[k] = p[k] /\ p[k] \in P
    BY <1>3
  <2>3. \A k \in 1 .. Len(p) + Len(f) : k > Len(p) =>
          /\ (p \o f)[k] = f[k - Len(p)] /\ f[k - Len(p)] \in F /\ k - Len(p) \in 1 .. Len(f)
    BY <1>3
  <2>4. CASE i <= Len(p) /\ j <= Len(p)
    BY <1>3, <2>1, <2>2, <2>4 DEF IsInjective
  <2>5. CASE i > Len(p) /\ j > Len(p)
    <3>1. i - Len(p) = j - Len(p)
      BY <1>3, <2>1, <2>3, <2>5 DEF IsInjective
    <3> QED
      BY <2>1, <3>1
  <2>6. CASE ~(i <= Len(p) <=> j <= Len(p))
    BY <1>2, <2>1, <2>2, <2>3, <2>6
  <2> QED
    BY <2>1, <2>4, <2>5, <2>6
<1>6. p \o f \in Seq(ToSet(p \o f))
  <2>1. p \o f \in Seq(P \cup F)
    BY <1>3
  <2> QED
    BY <2>1, OwnElements
<1> QED
  BY <1>4, <1>5, <1>6

(* What a query is told about two designs is what ComparisonsAssumption    *)
(* asks for, and the formula is right about them (encodeDesign).           *)
THEOREM ComparisonOfDesigns ==
  ASSUME NEW o, NEW d, IsDesign(o), IsDesign(d)
  PROVE  LET c == Comparison(o, d)
         IN /\ c.endpoints \in Seq(ToSet(c.endpoints)) /\ IsInjective(c.endpoints)
            /\ c.satisfiable \subseteq ToSet(c.endpoints)
            /\ c.encodable => c.satisfiable = c.unequal
<1> DEFINE c == Comparison(o, d)
           decidable == SameInterface(o, d) /\ Encodable(o, d)
<1>1. /\ c.endpoints = Endpoints(o) /\ c.encodable = decidable
      /\ c.satisfiable = IF decidable THEN Satisfiable(o, d) ELSE {}
      /\ c.unequal = IF decidable THEN Unequal(o, d) ELSE {}
  BY DEF Comparison
<1> HIDE DEF c
<1>2. Satisfiable(o, d) \subseteq ToSet(Endpoints(o))
  BY DEF Satisfiable
<1>3. decidable => Satisfiable(o, d) = Unequal(o, d)
  BY FormulaOfPair
<1> QED
  BY <1>1, <1>2, <1>3, EndpointsDiffer DEF c

-----------------------------------------------------------------------------
(* The inductive invariant.                                                *)

Fresh == /\ next = 1 /\ matched = {} /\ mismatched = {} /\ skipped = {}
         /\ failed = FALSE /\ exceeded = FALSE

Asked == {endpoints[i] : i \in 1 .. next - 1}

Listed(asked) ==
  /\ matched \cup mismatched \cup skipped = asked
  /\ matched \cap mismatched = {}
  /\ skipped \cap (matched \cup mismatched) = {}

(* How much of the report is there, by the place the query has reached;    *)
(* a skipped endpoint always comes with an error or with the time budget.  *)
Progress ==
  /\ pc = "idle" => comparison = Nothing
  /\ pc # "idle" => comparison \in Comparisons
  /\ pc \in {"idle", "interface", "global"} => Fresh
  /\ pc \in {"global", "endpoints"} => comparison.encodable
  /\ pc \in {"global", "endpoints", "report"} => comparison.sameInterface /\ ToSet(endpoints) # {}
  /\ pc = "endpoints" => Listed(Asked) /\ ~exceeded
  /\ pc = "report" => Listed(ToSet(endpoints))
  /\ skipped # {} => failed \/ exceeded
  /\ exceeded => skipped # {}
  /\ pc # "done" => reply = NoReply

(* The lists follow the answers of the solver, which are there only for a  *)
(* pair that could be encoded.                                             *)
AsSolved ==
  /\ matched \cap comparison.satisfiable = {}
  /\ mismatched \subseteq comparison.satisfiable
  /\ matched \cup mismatched # {} => comparison.encodable

(* A complete reply says whether the formula has a difference.             *)
ReplyAsSolved ==
  reply.given =>
    /\ reply.complete =>
         \/ ~comparison.sameInterface /\ ~reply.equivalent
         \/ /\ comparison.sameInterface /\ comparison.encodable
            /\ reply.equivalent <=> comparison.satisfiable = {}
    /\ reply.equivalent => reply.complete

IInv == TypeOK /\ Progress /\ AsSolved /\ ReplyAsSolved

-----------------------------------------------------------------------------
LEMMA EndpointFacts ==
  ASSUME comparison \in Comparisons \cup {Nothing}
  PROVE  /\ endpoints \in Seq(ToSet(endpoints))
         /\ ToSet(endpoints) = {endpoints[i] : i \in 1 .. Len(endpoints)}
         /\ \A i, j \in 1 .. Len(endpoints) : endpoints[i] = endpoints[j] => i = j
         /\ comparison.satisfiable \subseteq ToSet(endpoints)
<1>1. CASE comparison \in Comparisons
  <2>1. /\ endpoints \in Seq(ToSet(endpoints)) /\ IsInjective(endpoints)
        /\ comparison.satisfiable \subseteq ToSet(endpoints)
    BY <1>1, ComparisonsAssumption DEF endpoints
  <2> DEFINE S == ToSet(endpoints)
  <2> HIDE DEF S
  <2>2. DOMAIN endpoints = 1 .. Len(endpoints)
    <3>1. endpoints \in Seq(S)
      BY <2>1 DEF S
    <3> QED
      BY <3>1
  <2>3. ToSet(endpoints) = {endpoints[i] : i \in 1 .. Len(endpoints)}
    BY <2>2, Zenon DEF ToSet
  <2>4. \A i, j \in 1 .. Len(endpoints) : endpoints[i] = endpoints[j] => i = j
    BY <2>1, <2>2, Zenon DEF IsInjective
  <2> QED
    BY <2>1, <2>3, <2>4
<1>2. CASE comparison = Nothing
  BY <1>2 DEF endpoints, ToSet, Nothing
<1> QED
  BY <1>1, <1>2

LEMMA NotEmpty ==
  ASSUME comparison \in Comparisons, endpoints # <<>>
  PROVE  ToSet(endpoints) # {}
<1>1. \A S : endpoints \in Seq(S) => Len(endpoints) \in Nat /\ Len(endpoints) # 0
  OBVIOUS
<1>2. 1 \in 1 .. Len(endpoints)
  BY <1>1, EndpointFacts
<1> QED
  BY <1>2, EndpointFacts

(* The endpoint asked about has not been asked about before.               *)
LEMMA AskedFacts ==
  ASSUME comparison \in Comparisons, next \in 1 .. Len(endpoints)
  PROVE  /\ endpoints[next] \in ToSet(endpoints) \ Asked
         /\ {endpoints[i] : i \in 1 .. next} = Asked \cup {endpoints[next]}
         /\ Asked \cup Rest = ToSet(endpoints)
         /\ Asked \cap Rest = {}
<1> DEFINE E == endpoints
           L == Len(endpoints)
<1>1. /\ ToSet(E) = {E[i] : i \in 1 .. L}
      /\ \A i, j \in 1 .. L : E[i] = E[j] => i = j
  BY EndpointFacts
<1>2. L \in Nat
  <2>1. \A S : endpoints \in Seq(S) => Len(endpoints) \in Nat
    OBVIOUS
  <2> QED
    BY <2>1, EndpointFacts
<1>3. Asked = {E[i] : i \in 1 .. next - 1} /\ Rest = {E[i] : i \in next .. L}
  BY DEF Asked, Rest
<1> HIDE DEF E, L
<1>4. E[next] \in ToSet(E) \ Asked
  BY <1>1, <1>2, <1>3 DEF L
<1>5. {E[i] : i \in 1 .. next} = Asked \cup {E[next]}
  BY <1>2, <1>3 DEF L
<1>6. Asked \cup Rest = ToSet(E)
  BY <1>1, <1>2, <1>3 DEF L
<1>7. Asked \cap Rest = {}
  BY <1>1, <1>2, <1>3 DEF L
<1> QED
  BY <1>4, <1>5, <1>6, <1>7 DEF E

LEMMA InitInvariant == Init => IInv
<1> SUFFICES ASSUME Init PROVE IInv
  OBVIOUS
<1> comparison = Nothing
  BY DEF Init
<1> endpoints = <<>> /\ Len(endpoints) = 0
  BY DEF endpoints, Nothing
<1>1. TypeOK
  <2>1. reply.given = FALSE /\ reply.status = "ok"
    BY DEF Init, NoReply
  <2>2. next \in 1 .. Len(endpoints) + 1
    BY DEF Init
  <2> QED
    BY <2>1, <2>2 DEF Init, TypeOK, Statuses
<1>2. Progress
  BY DEF Init, Progress, Fresh
<1>3. AsSolved /\ ReplyAsSolved
  BY DEF Init, AsSolved, ReplyAsSolved, NoReply
<1> QED
  BY <1>1, <1>2, <1>3 DEF IInv

-----------------------------------------------------------------------------
(* Every step keeps the invariant: one lemma for the steps outside the     *)
(* solver, one for the global question, one for the endpoints.             *)

LEMMA OutsideSteps ==
  ASSUME IInv, Ask \/ Expire \/ InterfaceDiffers \/ NothingToCompare \/ Encode \/ Return
  PROVE  IInv'
<1> USE DEF IInv
<1>1. CASE Ask
  <2>1. TypeOK'
    <3>1. comparison' \in Comparisons
      BY <1>1 DEF Ask
    <3>2. next = 1 /\ matched = {} /\ mismatched = {} /\ skipped = {}
      BY <1>1 DEF Ask, Progress, Fresh
    <3>3. Len(endpoints') \in Nat
      <4>1. \A S : endpoints' \in Seq(S) => Len(endpoints') \in Nat
        OBVIOUS
      <4> QED
        BY <4>1, <3>1, ComparisonsAssumption DEF endpoints
    <3> QED
      BY <1>1, <3>2, <3>3 DEF Ask, TypeOK, progress
  <2>2. Progress'
    BY <1>1 DEF Ask, Progress, Fresh, progress
  <2>3. AsSolved' /\ ReplyAsSolved'
    BY <1>1 DEF Ask, AsSolved, ReplyAsSolved, Progress, Fresh, NoReply, progress
  <2> QED
    BY <2>1, <2>2, <2>3
<1>2. CASE Expire
  <2> USE <1>2 DEF Expire, progress
  <2>1. TypeOK'
    BY DEF TypeOK, endpoints
  <2>2. Progress'
    BY DEF Progress, Fresh, Listed, Asked, endpoints
  <2>3. AsSolved' /\ ReplyAsSolved'
    BY DEF AsSolved, ReplyAsSolved
  <2> QED
    BY <2>1, <2>2, <2>3
<1>3. CASE InterfaceDiffers
  <2> USE <1>3 DEF InterfaceDiffers, progress
  <2>1. TypeOK'
    BY DEF TypeOK, endpoints, Reply, Statuses
  <2>2. Progress'
    BY DEF Progress, Fresh
  <2>3. AsSolved' /\ ReplyAsSolved'
    BY DEF AsSolved, ReplyAsSolved, Reply
  <2> QED
    BY <2>1, <2>2, <2>3
<1>4. CASE NothingToCompare
  <2> USE <1>4 DEF NothingToCompare, progress
  <2>1. TypeOK'
    BY DEF TypeOK, endpoints, Reply, Statuses
  <2>2. Progress'
    BY DEF Progress, Fresh
  <2>3. AsSolved' /\ ReplyAsSolved'
    BY DEF AsSolved, ReplyAsSolved, Reply
  <2> QED
    BY <2>1, <2>2, <2>3
<1>5. CASE Encode
  <2> USE <1>5 DEF Encode, progress
  <2>1. TypeOK'
    BY DEF TypeOK, endpoints
  <2>2. ToSet(endpoints)' # {}
    BY NotEmpty DEF Progress, endpoints
  <2>3. Progress'
    BY <2>2 DEF Progress, Fresh
  <2>4. AsSolved' /\ ReplyAsSolved'
    BY DEF AsSolved, ReplyAsSolved
  <2> QED
    BY <2>1, <2>3, <2>4
<1>6. CASE Return
  <2>1. Init'
    BY <1>6 DEF Return, Init
  <2> QED
    BY <2>1, InitInvariant, PTL
<1> QED
  BY <1>1, <1>2, <1>3, <1>4, <1>5, <1>6

LEMMA GlobalSteps ==
  ASSUME IInv, CannotEncode \/ GlobalUnsat \/ GlobalUnknown \/ GlobalSat
  PROVE  IInv'
<1> USE DEF IInv
<1> pc \in {"interface", "global"} /\ Fresh /\ comparison \in Comparisons
  BY DEF CannotEncode, GlobalUnsat, GlobalUnknown, GlobalSat, Progress
<1>1. CASE CannotEncode \/ GlobalUnknown
  <2> USE <1>1 DEF CannotEncode, GlobalUnknown
  <2> ToSet(endpoints) # {}
    BY NotEmpty DEF Progress
  <2>1. TypeOK'
    BY DEF TypeOK, endpoints
  <2>2. Progress'
    BY DEF Progress, Fresh, Listed, endpoints
  <2>3. AsSolved' /\ ReplyAsSolved'
    BY DEF AsSolved, ReplyAsSolved
  <2> QED
    BY <2>1, <2>2, <2>3
<1>2. CASE GlobalUnsat
  <2> USE <1>2 DEF GlobalUnsat
  <2>1. TypeOK'
    BY DEF TypeOK, endpoints
  <2>2. Progress'
    BY DEF Progress, Fresh, Listed, endpoints
  <2>3. AsSolved' /\ ReplyAsSolved'
    BY DEF AsSolved, ReplyAsSolved, Progress, Fresh
  <2> QED
    BY <2>1, <2>2, <2>3
<1>3. CASE GlobalSat
  <2> USE <1>3 DEF GlobalSat, progress
  <2>1. TypeOK'
    BY DEF TypeOK, endpoints
  <2>2. Asked = {}
    BY DEF Fresh, Asked
  <2>3. Progress'
    BY <2>2 DEF Progress, Fresh, Listed, Asked, endpoints
  <2>4. AsSolved' /\ ReplyAsSolved'
    BY DEF AsSolved, ReplyAsSolved
  <2> QED
    BY <2>1, <2>3, <2>4
<1> QED
  BY <1>1, <1>2, <1>3

(* One endpoint gets a place in one list.                                  *)
LEMMA EndpointSteps ==
  ASSUME IInv, OutOfTime \/ Solve \/ GiveUp \/ AllAsked
  PROVE  IInv'
<1> USE DEF IInv
<1>1. /\ pc = "endpoints" /\ comparison \in Comparisons /\ comparison' = comparison
      /\ comparison.encodable /\ Listed(Asked) /\ ~exceeded
  BY DEF OutOfTime, Solve, GiveUp, AllAsked, Progress
<1>2. Len(endpoints) \in Nat /\ next \in 1 .. Len(endpoints) + 1
  <2>1. \A S : endpoints \in Seq(S) => Len(endpoints) \in Nat
    OBVIOUS
  <2> QED
    BY <2>1, <1>1, EndpointFacts DEF TypeOK
<1>3. endpoints' = endpoints
  BY <1>1 DEF endpoints
<1>4. CASE OutOfTime
  <2> USE <1>4 DEF OutOfTime
  <2>1. Asked \cup Rest = ToSet(endpoints) /\ Asked \cap Rest = {}
    BY <1>1, <1>2, AskedFacts
  <2>2. TypeOK'
    BY <1>1, <1>3, <2>1 DEF TypeOK
  <2>3. Listed(ToSet(endpoints))'
    BY <1>1, <1>3, <2>1 DEF Listed
  <2>4. Rest # {}
    <3>1. next \in next .. Len(endpoints)
      BY <1>2
    <3> QED
      BY <3>1 DEF Rest
  <2>5. Progress'
    BY <1>1, <1>3, <2>3, <2>4 DEF Progress
  <2>6. AsSolved' /\ ReplyAsSolved'
    BY <1>1 DEF AsSolved, ReplyAsSolved
  <2> QED
    BY <2>2, <2>5, <2>6
<1>5. CASE Solve \/ GiveUp
  <2>1. /\ endpoints[next] \in ToSet(endpoints) \ Asked
        /\ {endpoints[i] : i \in 1 .. next} = Asked \cup {endpoints[next]}
    BY <1>1, <1>2, <1>5, AskedFacts DEF Solve, GiveUp
  <2>2. next' = next + 1 /\ next' - 1 = next /\ next' \in 1 .. Len(endpoints) + 1
    BY <1>2, <1>5 DEF Solve, GiveUp
  <2>3. Asked' = Asked \cup {endpoints[next]}
    BY <1>3, <2>1, <2>2 DEF Asked
  <2>4. pc' = "endpoints" /\ exceeded' = exceeded /\ reply' = reply
    BY <1>1, <1>5 DEF Solve, GiveUp
  <2>5. CASE Solve
    <3>1. TypeOK'
      BY <1>1, <1>3, <2>1, <2>2, <2>5 DEF TypeOK, Solve
    <3>2. Listed(Asked)'
      BY <1>1, <2>1, <2>3, <2>5 DEF Listed, Solve
    <3>3. Progress'
      BY <1>1, <1>3, <2>4, <2>5, <3>2 DEF Progress, Solve
    <3>4. AsSolved' /\ ReplyAsSolved'
      BY <1>1, <2>4, <2>5 DEF AsSolved, ReplyAsSolved, Solve
    <3> QED
      BY <3>1, <3>3, <3>4
  <2>6. CASE GiveUp
    <3>1. TypeOK'
      BY <1>1, <1>3, <2>1, <2>2, <2>6 DEF TypeOK, GiveUp
    <3>2. Listed(Asked)'
      BY <1>1, <2>1, <2>3, <2>6 DEF Listed, GiveUp
    <3>3. Progress'
      BY <1>1, <1>3, <2>4, <2>6, <3>2 DEF Progress, GiveUp
    <3>4. AsSolved' /\ ReplyAsSolved'
      BY <1>1, <2>4, <2>6 DEF AsSolved, ReplyAsSolved, GiveUp
    <3> QED
      BY <3>1, <3>3, <3>4
  <2> QED
    BY <1>5, <2>5, <2>6
<1>6. CASE AllAsked
  <2> USE <1>6 DEF AllAsked, progress
  <2>1. TypeOK'
    BY <1>3 DEF TypeOK
  <2>2. Asked = ToSet(endpoints)
    <3>1. next - 1 = Len(endpoints)
      BY <1>2
    <3> QED
      BY <1>1, <3>1, EndpointFacts DEF Asked
  <2>3. Listed(ToSet(endpoints))'
    BY <1>1, <1>3, <2>2 DEF Listed
  <2>4. Progress'
    BY <1>1, <1>3, <2>3 DEF Progress
  <2>5. AsSolved' /\ ReplyAsSolved'
    BY <1>1 DEF AsSolved, ReplyAsSolved
  <2> QED
    BY <2>1, <2>4, <2>5
<1> QED
  BY <1>4, <1>5, <1>6

(* A reply is complete only when every endpoint was settled; with none     *)
(* mismatched, the formula then has no difference.                         *)
LEMMA ReportStep ==
  ASSUME IInv, Report
  PROVE  IInv'
<1> USE DEF IInv, Report, progress
<1>1. comparison \in Comparisons /\ comparison.sameInterface /\ Listed(ToSet(endpoints))
  BY DEF Progress
<1>2. ReportStatus \in Statuses \ {"partial"} /\ (ReportStatus = "ok" => ok)
  BY DEF ReportStatus, Statuses, TypeOK, Progress, ok
<1>3. TypeOK'
  BY <1>2 DEF TypeOK, endpoints, Reply
<1>4. Progress' /\ AsSolved'
  BY DEF Progress, AsSolved
<1>5. ReplyAsSolved'
  <2>1. reply'.complete <=> ReportStatus = "ok"
    BY DEF Reply
  <2>2. reply'.equivalent <=> equivalent
    BY DEF Reply
  <2>3. ok => (mismatched = {} <=> comparison.satisfiable = {})
    BY <1>1, EndpointFacts DEF ok, Listed, AsSolved
  <2>4. equivalent => ReportStatus = "ok"
    BY DEF equivalent, ok, ReportStatus, Progress, TypeOK
  <2>5. ok => comparison.encodable
    BY <1>1 DEF ok, Listed, AsSolved, Progress
  <2>6. comparison' = comparison
    OBVIOUS
  <2> QED
    BY <1>1, <1>2, <2>1, <2>2, <2>3, <2>4, <2>5, <2>6, Zenon DEF ReplyAsSolved, equivalent
<1> QED
  BY <1>3, <1>4, <1>5

-----------------------------------------------------------------------------
LEMMA Invariant == Spec => []IInv
<1>1. IInv /\ [Next]_vars => IInv'
  <2> SUFFICES ASSUME IInv, [Next]_vars PROVE IInv'
    OBVIOUS
  <2>1. CASE UNCHANGED vars
    BY <2>1 DEF vars, progress, IInv, TypeOK, Progress, Fresh, Listed, Asked, AsSolved,
                ReplyAsSolved, endpoints
  <2>2. CASE Next
    BY <2>2, OutsideSteps, GlobalSteps, EndpointSteps, ReportStep DEF Next
  <2> QED
    BY <2>1, <2>2
<1> QED
  BY InitInvariant, <1>1, PTL DEF Spec

(* No reply has the status partial: what is skipped always comes with an   *)
(* error or with the time budget (tools.cpp).                              *)
THEOREM NoReplyIsPartial == Spec => []TypeOK
<1>1. IInv => TypeOK
  BY DEF IInv
<1> QED
  BY Invariant, <1>1, PTL

(* However many endpoints there are and wherever the time runs out, each   *)
(* is in exactly one list of the report (compareEndpointsBySat).           *)
THEOREM ReportIsPartition == Spec => []EveryEndpointOnce
<1>1. IInv => EveryEndpointOnce
  BY DEF IInv, Progress, Listed, EveryEndpointOnce
<1> QED
  BY Invariant, <1>1, PTL

(* What is compared are designs: a net has one driver, inputs have none,   *)
(* gates form no loop.                                                     *)
OfDesigns ==
  \A c \in Comparisons : \E o, d : IsDesign(o) /\ IsDesign(d) /\ c = Comparison(o, d)

(* The formula of a pair that can be encoded has the differences that the  *)
(* designs have.                                                           *)
EncodingExact == \A c \in Comparisons : c.encodable => c.satisfiable = c.unequal

(* However many gates and nets there are: an assignment that satisfies the *)
(* clauses of two designs and tells an endpoint apart is an assignment of  *)
(* inputs, states and undriven nets under which they compute different     *)
(* values, and the other way round (encodeDesign, addGateClauses, netVar). *)
THEOREM FormulaExact ==
  ASSUME OfDesigns
  PROVE  EncodingExact
BY OfDesigns, ComparisonOfDesigns, Zenon DEF OfDesigns, EncodingExact

(* No endpoint is listed wrongly, also in a report that was cut short      *)
(* (compareEndpointsBySat).                                                *)
THEOREM ListsAreRight ==
  ASSUME OfDesigns
  PROVE  Spec => []EndpointsRight
<1>1. EncodingExact
  BY FormulaExact
<1>2. IInv => EndpointsRight
  BY <1>1 DEF IInv, Progress, AsSolved, EndpointsRight, EncodingExact, Nothing
<1> QED
  BY Invariant, <1>2, PTL

(* A complete reply is the truth and an incomplete one does not say that   *)
(* the designs are equivalent (equiv_query).                               *)
THEOREM CompleteVerdictIsTrue ==
  ASSUME OfDesigns
  PROVE  Spec => []VerdictRight
<1>1. IInv => VerdictRight
  <2> SUFFICES ASSUME IInv, reply.given PROVE VerdictRight
    BY DEF VerdictRight
  <2>1. EncodingExact
    BY FormulaExact
  <2>2. comparison \in Comparisons
    BY DEF IInv, Progress, NoReply
  <2> QED
    BY <2>1, <2>2 DEF IInv, ReplyAsSolved, VerdictRight, EncodingExact
<1> QED
  BY Invariant, <1>1, PTL

=============================================================================
