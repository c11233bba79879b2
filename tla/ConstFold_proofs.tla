------------------------- MODULE ConstFold_proofs ---------------------------
(***************************************************************************)
(* Proofs about ConstFold, for designs of any size: what a design computes *)
(* is the one solution of its gates' equations, and no visit of the fold   *)
(* changes that solution at a port or a flip-flop pin.                     *)
(***************************************************************************)
EXTENDS ConstFold, FiniteSetTheorems, WellFoundedInduction, TLAPS

-----------------------------------------------------------------------------
(* Induction without an operator: the least natural number a set misses.   *)

(* The least element of a set of naturals.                                 *)
LEMMA LeastNatural ==
  ASSUME NEW T, T \subseteq Nat, T # {}
  PROVE  \E x \in T : \A y \in T : x <= y
<1>1. \E x \in T : \A y \in T : ~(<<y, x>> \in OpToRel(<, Nat))
  BY NatLessThanWellFounded, WFMin, Zenon
<1>2. \A x \in Nat : \A y \in Nat : (y < x) => <<y, x>> \in {ss \in Nat \X Nat : ss[1] < ss[2]}
  BY SMT
<1>3. \E x \in T : \A y \in T : ~(y < x)
  BY <1>1, <1>2, Zenon DEF OpToRel
<1> QED
  BY <1>3

(* A set that has 0 and every successor up to a bound has all up to it.    *)
LEMMA Climb ==
  ASSUME NEW S, NEW N \in Nat, 0 \in S, \A k \in 0 .. N : k \in S /\ k < N => k + 1 \in S
  PROVE  0 .. N \subseteq S
<1> DEFINE T == 0 .. N \ S
<1> SUFFICES ASSUME T # {}
             PROVE  FALSE
  OBVIOUS
<1> T \subseteq Nat
  OBVIOUS
<1>1. PICK x \in T : \A y \in T : x <= y
  BY LeastNatural
<1>2. x - 1 \in 0 .. N /\ x - 1 \notin T
  BY <1>1
<1> QED
  BY <1>2


-----------------------------------------------------------------------------
(* What a gate computes when pins are dropped from it.                     *)

LEMMA RestrictFacts ==
  ASSUME NEW f, NEW S
  PROVE  DOMAIN Restrict(f, S) = S /\ \A x \in S : Restrict(f, S)[x] = f[x]
BY DEF Restrict

(* A gate with pins carries a signal.                                      *)
LEMMA GateValueType ==
  ASSUME NEW D, IsFiniteSet(D), NEW vals \in [D -> Signals], NEW type,
         type \in {"NOT", "BUF"} => D # {}
  PROVE  GateValue(type, vals) \in Signals
<1>1. \A a \in {0, 1} : Kleene(vals, a) \in Signals
  BY DEF Kleene, Signals, Undefined
<1>2. Parity(vals) \in Signals
  <2>1. Cardinality({i \in DOMAIN vals : vals[i] = 1}) \in Nat
    BY FS_Subset, FS_CardinalityType
  <2> QED
    BY <2>1 DEF Parity, Signals, Undefined
<1>3. D # {} => Copy(vals) \in Signals
  BY DEF Copy, Range
<1>4. \A v \in Signals : Negate(v) \in Signals
  BY DEF Negate, Signals, Undefined
<1> QED
  BY <1>1, <1>2, <1>3, <1>4 DEF GateValue, Signals, Undefined

(* An absorbing value decides an AND or an OR, whatever the other pins.    *)
LEMMA KleeneAbsorbed ==
  ASSUME NEW vals, NEW a, NEW i \in DOMAIN vals, vals[i] = a
  PROVE  Kleene(vals, a) = a
BY DEF Kleene, Range

(* Pins at the identity do not count.                                      *)
LEMMA KleeneRest ==
  ASSUME NEW D, NEW vals \in [D -> Signals], NEW a \in {0, 1}, NEW S \in SUBSET D,
         \A i \in D \ S : vals[i] = 1 - a
  PROVE  /\ Kleene(vals, a) = Kleene(Restrict(vals, S), a)
         /\ S = {} => Kleene(vals, a) = 1 - a
<1> DEFINE rest == Restrict(vals, S)
<1>1. DOMAIN rest = S /\ \A i \in S : rest[i] = vals[i]
  BY RestrictFacts
<1>2. \A x \in Range(rest) : x \in Range(vals)
  BY <1>1 DEF Range
<1>3. \A x \in Range(vals) : x \in Range(rest) \/ x = 1 - a
  BY <1>1 DEF Range
<1>4. 1 - a # a /\ 1 - a # Undefined
  BY DEF Undefined
<1>5. S = {} => Range(rest) = {}
  BY <1>1 DEF Range
<1> HIDE DEF rest
<1>6. Kleene(vals, a) = Kleene(rest, a)
  BY <1>2, <1>3, <1>4 DEF Kleene
<1>7. S = {} => Kleene(rest, a) = 1 - a
  BY <1>5 DEF Kleene
<1> QED
  BY <1>6, <1>7 DEF rest

(* With one pin left all gates are wires or inverters.                     *)
LEMMA OnePin ==
  ASSUME NEW vals, NEW x \in Signals, DOMAIN vals # {}, \A i \in DOMAIN vals : vals[i] = x
  PROVE  Copy(vals) = x /\ \A a \in {0, 1} : Kleene(vals, a) = x
<1>1. Range(vals) = {x}
  BY DEF Range
<1> QED
  BY <1>1 DEF Copy, Kleene, Signals, Undefined

LEMMA OnePinParity ==
  ASSUME NEW vals, NEW x \in Signals, NEW i, DOMAIN vals = {i}, vals[i] = x
  PROVE  Parity(vals) = x
<1>1. Range(vals) = {x}
  BY DEF Range
<1>2. {j \in DOMAIN vals : vals[j] = 1} = IF x = 1 THEN {i} ELSE {}
  OBVIOUS
<1>3. Cardinality({j \in DOMAIN vals : vals[j] = 1}) = IF x = 1 THEN 1 ELSE 0
  BY <1>2, FS_EmptySet, FS_Singleton
<1> QED
  BY <1>1, <1>3 DEF Parity, Signals, Undefined

(* Dropping pins with a value turns a parity once for every 1 among them.  *)
LEMMA ParityRest ==
  ASSUME NEW D, IsFiniteSet(D), NEW vals \in [D -> Signals], NEW S \in SUBSET D,
         \A i \in D \ S : vals[i] \in {0, 1},
         NEW ones, ones = {i \in D \ S : vals[i] = 1}
  PROVE  /\ Cardinality(ones) \in Nat
         /\ Parity(vals) = IF Cardinality(ones) % 2 = 1 THEN Negate(Parity(Restrict(vals, S)))
                           ELSE Parity(Restrict(vals, S))
<1> DEFINE rest == Restrict(vals, S)
           A == {i \in DOMAIN vals : vals[i] = 1}
           B == {i \in DOMAIN rest : rest[i] = 1}
<1>1. DOMAIN rest = S /\ \A i \in S : rest[i] = vals[i]
  BY RestrictFacts
<1>2. Undefined \in Range(vals) <=> Undefined \in Range(rest)
  BY <1>1 DEF Range, Undefined
<1>3. A = B \cup ones /\ B \cap ones = {} /\ B \subseteq D /\ ones \subseteq D
  BY <1>1
<1>4. IsFiniteSet(B) /\ IsFiniteSet(ones)
  BY <1>3, FS_Subset
<1>5. Cardinality(A) = Cardinality(B) + Cardinality(ones) - Cardinality({})
  BY <1>3, <1>4, FS_Union
<1>6. Cardinality(B) \in Nat /\ Cardinality(ones) \in Nat /\ Cardinality({}) = 0
  BY <1>4, FS_CardinalityType, FS_EmptySet
<1> DEFINE b == Cardinality(B)
           c == Cardinality(ones)
<1>7. \A k, l \in Nat : (k + l) % 2 = IF l % 2 = 1 THEN 1 - (k % 2) ELSE k % 2
  OBVIOUS
<1>8. Cardinality(A) % 2 = IF c % 2 = 1 THEN 1 - (b % 2) ELSE b % 2
  BY <1>5, <1>6, <1>7
<1>9. b % 2 # Undefined
  BY <1>6 DEF Undefined
<1>10. Parity(vals) = IF Undefined \in Range(rest) THEN Undefined ELSE Cardinality(A) % 2
  BY <1>2 DEF Parity
<1>11. Parity(rest) = IF Undefined \in Range(rest) THEN Undefined ELSE b % 2
  BY DEF Parity
<1> QED
  BY <1>6, <1>8, <1>9, <1>10, <1>11 DEF Negate

-----------------------------------------------------------------------------
(* The parts of a netlist.                                                 *)

LEMMA IdFacts ==
  ASSUME NEW d, IsNetlist(d)
  PROVE  /\ Cardinality(GateIds(d)) \in Nat
         /\ GateIds(d) \subseteq 1 .. Cardinality(GateIds(d)) /\ GateIds(d) \subseteq Nat
         /\ IsFiniteSet(GateIds(d)) /\ IsFiniteSet(NetIds(d))
         /\ NetIds(d) \subseteq Nat /\ None \notin GateIds(d) /\ None \notin NetIds(d)
<1>1. AreIds(GateIds(d)) /\ AreIds(NetIds(d))
  BY DEF IsNetlist
<1>2. Cardinality(GateIds(d)) \in Nat /\ Cardinality(NetIds(d)) \in Nat
  BY <1>1, FS_CardinalityType DEF AreIds
<1> HIDE DEF GateIds, NetIds
<1> QED
  BY <1>1, <1>2 DEF AreIds, None

LEMMA GateFacts ==
  ASSUME NEW d, IsNetlist(d), NEW g \in GateIds(d)
  PROVE  /\ d.gates[g].type \in GateTypes
         /\ IsFiniteSet(DOMAIN d.gates[g].ins)
         /\ d.gates[g].ins \in [DOMAIN d.gates[g].ins -> {None} \cup NetIds(d)]
         /\ d.gates[g].out \in {None} \cup NetIds(d)
BY DEF IsNetlist, IsGate

LEMMA NetFacts ==
  ASSUME NEW d, IsNetlist(d), NEW n \in NetIds(d)
  PROVE  /\ d.nets[n].driver \in {None} \cup GateIds(d)
         /\ d.nets[n].loads \in [GateIds(d) -> Nat]
         /\ d.nets[n].con \in ConstKinds
BY DEF IsNetlist, IsNet

-----------------------------------------------------------------------------
(* Settle is the one solution of the gates' equations.                     *)

Solution(d, env, v) ==
  /\ v \in [NetIds(d) -> Signals]
  /\ \A n \in NetIds(d) : v[n] = Sweep(d, env, v)[n]

LEMMA SweepFacts ==
  ASSUME NEW d, NEW env, NEW v, NEW n \in NetIds(d)
  PROVE  Sweep(d, env, v)[n] =
           IF CombDriven(d, n)
           THEN GateValue(d.gates[d.nets[n].driver].type, PinValues(d.gates[d.nets[n].driver].ins, v))
           ELSE Start(d, env)[n]
BY DEF Sweep

(* h lists the first N sweeps of Settle.                                   *)
Sweeps(d, env, N, h) ==
  h = [k \in 0 .. N |-> IF k = 0 THEN Start(d, env) ELSE Sweep(d, env, h[k - 1])]

LEMMA SweepsExist ==
  ASSUME NEW d, NEW env, NEW N \in Nat
  PROVE  \E h : Sweeps(d, env, N, h)
<1> DEFINE S == {n \in 0 .. N : \E h : h = [k \in 0 .. n |->
                   IF k = 0 THEN Start(d, env) ELSE Sweep(d, env, h[k - 1])]}
<1>1. 0 \in S
  <2>1. \E h : h = [k \in 0 .. 0 |-> IF k = 0 THEN Start(d, env) ELSE Sweep(d, env, h[k - 1])]
    <3> DEFINE h == [k \in 0 .. 0 |-> Start(d, env)]
    <3>1. h = [k \in 0 .. 0 |-> IF k = 0 THEN Start(d, env) ELSE Sweep(d, env, h[k - 1])]
      OBVIOUS
    <3> QED
      BY <3>1
  <2> QED
    BY <2>1
<1>2. ASSUME NEW n \in 0 .. N, n \in S, n < N
      PROVE  n + 1 \in S
  <2>1. PICK h : h = [k \in 0 .. n |-> IF k = 0 THEN Start(d, env) ELSE Sweep(d, env, h[k - 1])]
    BY <1>2
  <2> DEFINE f == [k \in 0 .. n + 1 |-> IF k <= n THEN h[k] ELSE Sweep(d, env, h[n])]
  <2>2. ASSUME NEW k \in 0 .. n + 1
        PROVE  f[k] = IF k = 0 THEN Start(d, env) ELSE Sweep(d, env, f[k - 1])
    <3>1. CASE k = 0
      <4>1. h[0] = Start(d, env)
        BY <2>1, <1>2
      <4> QED
        BY <3>1, <4>1, <1>2
    <3>2. CASE k \in 1 .. n
      <4>1. h[k] = Sweep(d, env, h[k - 1])
        BY <2>1, <1>2, <3>2
      <4>2. f[k - 1] = h[k - 1] /\ f[k] = h[k]
        BY <1>2, <3>2
      <4> QED
        BY <4>1, <4>2, <3>2
    <3>3. CASE k = n + 1
      <4>1. f[k] = Sweep(d, env, h[n]) /\ f[k - 1] = h[n] /\ k # 0
        BY <1>2, <3>3
      <4> QED
        BY <4>1
    <3> QED
      BY <3>1, <3>2, <3>3, <1>2
  <2>3. f = [k \in 0 .. n + 1 |-> f[k]]
    OBVIOUS
  <2> HIDE DEF f
  <2>4. f = [k \in 0 .. n + 1 |-> IF k = 0 THEN Start(d, env) ELSE Sweep(d, env, f[k - 1])]
    BY <2>2, <2>3
  <2> QED
    BY <2>4, <1>2
<1>3. 0 .. N \subseteq S
  <2> HIDE DEF S
  <2> QED
    BY <1>1, <1>2, Climb
<1> QED
  BY <1>3 DEF Sweeps

LEMMA SettleSweeps ==
  ASSUME NEW d, NEW env, Cardinality(GateIds(d)) \in Nat
  PROVE  LET N == Cardinality(GateIds(d)) IN
         \E h : /\ \A k \in 0 .. N :
                     h[k] = IF k = 0 THEN Start(d, env) ELSE Sweep(d, env, h[k - 1])
                /\ Settle(d, env) = h[N]
<1> DEFINE N == Cardinality(GateIds(d))
           F == CHOOSE h : Sweeps(d, env, N, h)
<1>1. Settle(d, env) = F[N]
  BY DEF Settle, Sweeps
<1> HIDE DEF N
<1>2. \E h : Sweeps(d, env, N, h)
  BY SweepsExist DEF N
<1>3. Sweeps(d, env, N, F)
  BY <1>2
<1> HIDE DEF F
<1>4. \A k \in 0 .. N : F[k] = IF k = 0 THEN Start(d, env) ELSE Sweep(d, env, F[k - 1])
  BY <1>3 DEF Sweeps
<1> QED
  BY <1>1, <1>4 DEF N

(* The gate that computes a net, or 0: in a design that lists drivers      *)
(* first, a gate reads only nets of a lower level than its own.            *)
Level(d, n) == IF CombDriven(d, n) THEN d.nets[n].driver ELSE 0

LEMMA LevelFacts ==
  ASSUME NEW d, IsNetlist(d), NEW n \in NetIds(d)
  PROVE  /\ Level(d, n) \in 0 .. Cardinality(GateIds(d))
         /\ CombDriven(d, n) => d.nets[n].driver \in GateIds(d) /\ Level(d, n) > 0
<1>1. d.nets[n].driver \in {None} \cup GateIds(d)
  BY NetFacts
<1>2. GateIds(d) \subseteq 1 .. Cardinality(GateIds(d)) /\ Cardinality(GateIds(d)) \in Nat
  BY IdFacts
<1> QED
  BY <1>1, <1>2 DEF Level, CombDriven, None

LEMMA LowerPins ==
  ASSUME NEW d, IsNetlist(d), DriversFirst(d), NEW n \in NetIds(d), CombDriven(d, n),
         NEW i \in DOMAIN d.gates[d.nets[n].driver].ins,
         d.gates[d.nets[n].driver].ins[i] # None
  PROVE  /\ d.gates[d.nets[n].driver].ins[i] \in NetIds(d)
         /\ Level(d, d.gates[d.nets[n].driver].ins[i]) < Level(d, n)
<1> DEFINE g == d.nets[n].driver
           m == d.gates[g].ins[i]
<1>1. g \in GateIds(d) /\ Level(d, n) > 0 /\ Level(d, n) = g
  BY LevelFacts DEF Level
<1>2. m \in NetIds(d)
  BY <1>1, GateFacts
<1>3. <<g, i>> \in Pins(d)
  BY <1>1 DEF Pins
<1>4. CombDriven(d, m) => d.nets[m].driver < g
  <2>1. Comb(d, g) /\ m # None /\ CombDriven(d, m) => d.nets[m].driver < g
    BY <1>3 DEF DriversFirst
  <2> QED
    BY <2>1 DEF CombDriven
<1> QED
  BY <1>1, <1>2, <1>4 DEF Level

(* A gate sees the same when the nets at its pins carry the same.          *)
LEMMA PinsAgree ==
  ASSUME NEW ins, NEW v, NEW w, \A i \in DOMAIN ins : ins[i] # None => v[ins[i]] = w[ins[i]]
  PROVE  PinValues(ins, v) = PinValues(ins, w)
BY DEF PinValues

LEMMA OneSolution ==
  ASSUME NEW d, IsNetlist(d), DriversFirst(d), NEW env,
         NEW v, Solution(d, env, v), NEW w, Solution(d, env, w)
  PROVE  v = w
<1> DEFINE D == {n \in NetIds(d) : v[n] # w[n]}
           T == {Level(d, n) : n \in D}
<1>1. D = {}
  <2> SUFFICES ASSUME D # {}
               PROVE  FALSE
    OBVIOUS
  <2>1. T \subseteq Nat /\ T # {}
    <3>1. \A n \in D : Level(d, n) \in 0 .. Cardinality(GateIds(d))
      BY LevelFacts
    <3>2. Cardinality(GateIds(d)) \in Nat
      BY IdFacts
    <3> QED
      BY <3>1, <3>2
  <2>2. PICK x \in T : \A y \in T : x <= y
    <3> HIDE DEF T
    <3> QED
      BY <2>1, LeastNatural
  <2>3. PICK n \in D : x = Level(d, n)
    OBVIOUS
  <2>4. v[n] = Sweep(d, env, v)[n] /\ w[n] = Sweep(d, env, w)[n]
    BY DEF Solution
  <2>5. CombDriven(d, n)
    BY <2>3, <2>4, SweepFacts
  <2> DEFINE g == d.nets[n].driver
  <2>6. ASSUME NEW i \in DOMAIN d.gates[g].ins, d.gates[g].ins[i] # None
        PROVE  v[d.gates[g].ins[i]] = w[d.gates[g].ins[i]]
    <3> DEFINE m == d.gates[g].ins[i]
    <3>1. m \in NetIds(d) /\ Level(d, m) < x
      BY <2>3, <2>5, <2>6, LowerPins
    <3>2. Level(d, m) \in Nat /\ x \in Nat
      BY <3>1, <2>1, LevelFacts, IdFacts
    <3>3. ASSUME v[m] # w[m]
          PROVE  FALSE
      <4>1. Level(d, m) \in T
        BY <3>1, <3>3
      <4> HIDE DEF T
      <4>2. x <= Level(d, m)
        BY <2>2, <4>1
      <4> QED
        BY <3>1, <3>2, <4>2
    <3> QED
      BY <3>3
  <2>7. PinValues(d.gates[g].ins, v) = PinValues(d.gates[g].ins, w)
    BY <2>6, PinsAgree
  <2>8. v[n] = w[n]
    BY <2>4, <2>5, <2>7, SweepFacts
  <2> QED
    BY <2>3, <2>8
<1> QED
  BY <1>1 DEF Solution

LEMMA PinValuesType ==
  ASSUME NEW d, IsNetlist(d), NEW g \in GateIds(d), NEW v \in [NetIds(d) -> Signals]
  PROVE  PinValues(d.gates[g].ins, v) \in [DOMAIN d.gates[g].ins -> Signals]
<1>1. \A i \in DOMAIN d.gates[g].ins : d.gates[g].ins[i] \in {None} \cup NetIds(d)
  BY GateFacts
<1> QED
  BY <1>1 DEF PinValues, Signals

(* An inverter or a wire has a pin.                                        *)
LEMMA UnaryHasPin ==
  ASSUME NEW d, Consistent(d), NEW g \in GateIds(d), d.gates[g].type \in {"NOT", "BUF"}
  PROVE  DOMAIN d.gates[g].ins # {}
<1>1. GateConsistent(d, g)
  BY DEF Consistent
<1>2. d.gates[g].type = "NOT" => Cardinality(DOMAIN d.gates[g].ins) = 1
  BY <1>1 DEF GateConsistent
<1>3. d.gates[g].type = "BUF" => DOMAIN d.gates[g].ins = {1}
  BY <1>1 DEF GateConsistent
<1>4. CASE d.gates[g].type = "NOT"
  <2>1. Cardinality(DOMAIN d.gates[g].ins) # 0
    BY <1>2, <1>4
  <2> QED
    BY <2>1, FS_EmptySet, Zenon
<1>5. CASE d.gates[g].type = "BUF"
  BY <1>3, <1>5
<1> QED
  BY <1>4, <1>5

LEMMA StartType ==
  ASSUME NEW d, NEW env \in [Sources(d) -> {0, 1}]
  PROVE  Start(d, env) \in [NetIds(d) -> Signals]
BY DEF Start, Signals, Undefined

LEMMA SweepType ==
  ASSUME NEW d, Consistent(d), NEW env \in [Sources(d) -> {0, 1}],
         NEW v \in [NetIds(d) -> Signals]
  PROVE  Sweep(d, env, v) \in [NetIds(d) -> Signals]
<1>1. IsNetlist(d)
  BY DEF Consistent
<1>2. ASSUME NEW n \in NetIds(d)
      PROVE  Sweep(d, env, v)[n] \in Signals
  <2>1. CASE CombDriven(d, n)
    <3> DEFINE g == d.nets[n].driver
    <3>1. g \in GateIds(d)
      BY <1>1, <2>1, LevelFacts
    <3>2. PinValues(d.gates[g].ins, v) \in [DOMAIN d.gates[g].ins -> Signals]
      BY <1>1, <3>1, PinValuesType
    <3>3. IsFiniteSet(DOMAIN d.gates[g].ins)
      BY <1>1, <3>1, GateFacts
    <3>4. d.gates[g].type \in {"NOT", "BUF"} => DOMAIN d.gates[g].ins # {}
      BY <3>1, UnaryHasPin
    <3>5. GateValue(d.gates[g].type, PinValues(d.gates[g].ins, v)) \in Signals
      BY <3>2, <3>3, <3>4, GateValueType
    <3> QED
      BY <2>1, <3>5, SweepFacts
  <2>2. CASE ~CombDriven(d, n)
    BY <2>2, SweepFacts, StartType
  <2> QED
    BY <2>1, <2>2
<1>3. Sweep(d, env, v) = [n \in NetIds(d) |-> Sweep(d, env, v)[n]]
  BY DEF Sweep
<1> QED
  BY <1>2, <1>3

(* With drivers first, as many sweeps as there are gates settle a design.  *)
LEMMA SettleSolves ==
  ASSUME NEW d, Consistent(d), DriversFirst(d), NEW env \in [Sources(d) -> {0, 1}]
  PROVE  Solution(d, env, Settle(d, env))
<1> DEFINE N == Cardinality(GateIds(d))
<1>1. IsNetlist(d)
  BY DEF Consistent
<1>2. N \in Nat
  BY <1>1, IdFacts
<1>3. PICK h : /\ \A k \in 0 .. N : h[k] = IF k = 0 THEN Start(d, env) ELSE Sweep(d, env, h[k - 1])
               /\ Settle(d, env) = h[N]
  BY <1>2, SettleSweeps
<1> HIDE DEF N
<1>4. h[0] = Start(d, env) /\ \A k \in 0 .. N : k < N => h[k + 1] = Sweep(d, env, h[k])
  <2>1. h[0] = Start(d, env)
    BY <1>2, <1>3
  <2>2. ASSUME NEW k \in 0 .. N, k < N
        PROVE  h[k + 1] = Sweep(d, env, h[k])
    <3>1. k + 1 \in 0 .. N /\ k + 1 # 0 /\ (k + 1) - 1 = k
      BY <1>2, <2>2
    <3> QED
      BY <1>3, <3>1
  <2> QED
    BY <2>1, <2>2
<1> DEFINE S == {k \in 0 .. N :
                   /\ h[k] \in [NetIds(d) -> Signals]
                   /\ \A n \in NetIds(d) : Level(d, n) <= k => h[k][n] = Sweep(d, env, h[k])[n]}
<1>5. 0 \in S
  <2>1. h[0] \in [NetIds(d) -> Signals]
    BY <1>4, StartType
  <2>2. ASSUME NEW n \in NetIds(d), Level(d, n) <= 0
        PROVE  h[0][n] = Sweep(d, env, h[0])[n]
    <3>1. ~CombDriven(d, n)
      BY <1>1, <1>2, <2>2, LevelFacts DEF N
    <3> QED
      BY <3>1, <1>4, SweepFacts
  <2> QED
    BY <1>2, <2>1, <2>2
<1>6. ASSUME NEW k \in 0 .. N, k \in S, k < N
      PROVE  k + 1 \in S
  <2>1. h[k + 1] \in [NetIds(d) -> Signals]
    BY <1>4, <1>6, SweepType
  <2>2. ASSUME NEW n \in NetIds(d), Level(d, n) <= k + 1
        PROVE  h[k + 1][n] = Sweep(d, env, h[k + 1])[n]
    <3>1. h[k + 1] = Sweep(d, env, h[k])
      BY <1>4, <1>6
    <3>2. CASE ~CombDriven(d, n)
      BY <3>1, <3>2, SweepFacts
    <3>3. CASE CombDriven(d, n)
      <4> DEFINE g == d.nets[n].driver
      <4>1. ASSUME NEW i \in DOMAIN d.gates[g].ins, d.gates[g].ins[i] # None
            PROVE  h[k][d.gates[g].ins[i]] = h[k + 1][d.gates[g].ins[i]]
        <5> DEFINE m == d.gates[g].ins[i]
        <5>1. m \in NetIds(d) /\ Level(d, m) < Level(d, n)
          BY <1>1, <3>3, <4>1, LowerPins
        <5>2. Level(d, m) \in Nat /\ Level(d, n) \in Nat /\ k \in Nat
          BY <1>1, <1>2, <5>1, LevelFacts DEF N
        <5>3. Level(d, m) <= k
          BY <2>2, <5>1, <5>2
        <5>4. h[k][m] = Sweep(d, env, h[k])[m]
          BY <1>6, <5>1, <5>3
        <5> QED
          BY <3>1, <5>4
      <4>2. PinValues(d.gates[g].ins, h[k]) = PinValues(d.gates[g].ins, h[k + 1])
        BY <4>1, PinsAgree
      <4> QED
        BY <3>1, <3>3, <4>2, SweepFacts
    <3> QED
      BY <3>2, <3>3
  <2> QED
    BY <1>2, <1>6, <2>1, <2>2
<1>7. N \in S
  <2> HIDE DEF S
  <2>1. 0 .. N \subseteq S
    BY <1>2, <1>5, <1>6, Climb
  <2> QED
    BY <1>2, <2>1
<1>8. \A n \in NetIds(d) : Level(d, n) <= N
  BY <1>1, <1>2, LevelFacts DEF N
<1> QED
  BY <1>3, <1>7, <1>8 DEF Solution

-----------------------------------------------------------------------------
(* What the primitives change.                                             *)

(* e is d but for the load counts.                                         *)
SameButLoads(d, e) ==
  /\ GateIds(e) = GateIds(d) /\ NetIds(e) = NetIds(d)
  /\ e.gates = d.gates
  /\ \A n \in NetIds(d) : /\ e.nets[n].driver = d.nets[n].driver
                          /\ e.nets[n].con = d.nets[n].con
                          /\ e.nets[n].pi = d.nets[n].pi
                          /\ e.nets[n].po = d.nets[n].po
                          /\ e.nets[n].removed = d.nets[n].removed

LEMMA PinLoadsType ==
  ASSUME NEW d, IsNetlist(d), NEW n
  PROVE  /\ PinLoads(d, n) \in [GateIds(d) -> Nat]
         /\ NoLoads(d) \in [GateIds(d) -> Nat]
         /\ \A g \in GateIds(d) : Live(d, g) /\ PinsOn(d, g, n) # {} => PinLoads(d, n)[g] > 0
<1>1. ASSUME NEW g \in GateIds(d)
      PROVE  /\ Cardinality(PinsOn(d, g, n)) \in Nat
             /\ PinsOn(d, g, n) # {} => Cardinality(PinsOn(d, g, n)) > 0
  <2>1. IsFiniteSet(DOMAIN d.gates[g].ins)
    BY GateFacts
  <2>2. IsFiniteSet(PinsOn(d, g, n))
    BY <2>1, FS_Subset DEF PinsOn
  <2> QED
    BY <2>2, FS_CardinalityType, FS_EmptySet
<1> QED
  BY <1>1 DEF PinLoads, NoLoads

(* The fields of a net whose loads or driver are replaced.                 *)
LEMMA NetUpdate ==
  ASSUME NEW d, NEW w, IsNet(d, w), NEW x
  PROVE  /\ WithLoads(w, x).driver = w.driver
         /\ WithLoads(w, x).con = w.con
         /\ WithLoads(w, x).pi = w.pi
         /\ WithLoads(w, x).po = w.po
         /\ WithLoads(w, x).removed = w.removed
         /\ WithLoads(w, x).loads = x
         /\ WithDriver(w, x).driver = x
         /\ WithDriver(w, x).con = w.con
         /\ WithDriver(w, x).pi = w.pi
         /\ WithDriver(w, x).po = w.po
         /\ WithDriver(w, x).removed = w.removed
         /\ WithDriver(w, x).loads = w.loads
BY DEF IsNet, WithLoads, WithDriver

LEMMA NetUpdateType ==
  ASSUME NEW d, NEW w, IsNet(d, w)
  PROVE  /\ \A x \in [GateIds(d) -> Nat] : IsNet(d, WithLoads(w, x))
         /\ \A x \in {None} \cup GateIds(d) : IsNet(d, WithDriver(w, x))
BY DEF IsNet, WithLoads, WithDriver

LEMMA RebuildFacts ==
  ASSUME NEW d, IsNetlist(d)
  PROVE  /\ SameButLoads(d, Rebuild(d))
         /\ \A n \in NetIds(d) :
              /\ IsNet(d, Rebuild(d).nets[n])
              /\ Active(d, n) => Rebuild(d).nets[n].loads = PinLoads(d, n)
         /\ Rebuild(d).nets = [n \in NetIds(d) |-> Rebuild(d).nets[n]]
<1> DEFINE new(n) == IF Active(d, n) THEN PinLoads(d, n) ELSE NoLoads(d)
           e == Rebuild(d)
<1>1. e.gates = d.gates /\ NetIds(e) = NetIds(d) /\ GateIds(e) = GateIds(d)
  BY DEF Rebuild, NetIds, GateIds
<1>2. \A n \in NetIds(d) : e.nets[n] = WithLoads(d.nets[n], new(n))
  BY DEF Rebuild
<1>3. \A n \in NetIds(d) : IsNet(d, d.nets[n]) /\ new(n) \in [GateIds(d) -> Nat]
  BY PinLoadsType DEF IsNetlist
<1>4. e.nets = [n \in NetIds(d) |-> e.nets[n]]
  BY DEF Rebuild
<1> HIDE DEF e, new
<1>5. ASSUME NEW n \in NetIds(d)
      PROVE  /\ IsNet(d, e.nets[n])
             /\ e.nets[n].driver = d.nets[n].driver
             /\ e.nets[n].con = d.nets[n].con
             /\ e.nets[n].pi = d.nets[n].pi
             /\ e.nets[n].po = d.nets[n].po
             /\ e.nets[n].removed = d.nets[n].removed
             /\ e.nets[n].loads = new(n)
  BY <1>2, <1>3, NetUpdate, NetUpdateType
<1>6. SameButLoads(d, e)
  BY <1>1, <1>5 DEF SameButLoads
<1>7. \A n \in NetIds(d) : Active(d, n) => e.nets[n].loads = PinLoads(d, n)
  BY <1>5 DEF new
<1> QED
  BY <1>4, <1>5, <1>6, <1>7 DEF e

(* Nothing but the loads count depends on the loads.                       *)
LEMMA SameActive ==
  ASSUME NEW d, NEW e, SameButLoads(d, e), NEW n, n # None => n \in NetIds(d)
  PROVE  Active(e, n) <=> Active(d, n)
BY DEF SameButLoads, Active

LEMMA RebuildConsistent ==
  ASSUME NEW d, Consistent(d)
  PROVE  Consistent(Rebuild(d)) /\ LoadsCurrent(Rebuild(d)) /\ SameButLoads(d, Rebuild(d))
<1> DEFINE e == Rebuild(d)
<1>1. IsNetlist(d)
  BY DEF Consistent
<1>2. SameButLoads(d, e)
  BY <1>1, RebuildFacts
<1>3. \A n \in NetIds(d) : IsNet(d, e.nets[n]) /\ (Active(d, n) => e.nets[n].loads = PinLoads(d, n))
  BY <1>1, RebuildFacts
<1>4. e.nets = [n \in NetIds(d) |-> e.nets[n]]
  BY <1>1, RebuildFacts
<1> HIDE DEF e
<1>5. GateIds(e) = GateIds(d) /\ NetIds(e) = NetIds(d) /\ e.gates = d.gates
  BY <1>2 DEF SameButLoads
<1>6. IsNetlist(e)
  <2>1. AreIds(GateIds(e)) /\ AreIds(NetIds(e))
    BY <1>1, <1>5 DEF IsNetlist
  <2>2. e.gates = [g \in GateIds(e) |-> e.gates[g]]
    BY <1>1, <1>5 DEF IsNetlist
  <2>3. e.nets = [n \in NetIds(e) |-> e.nets[n]]
    BY <1>4, <1>5
  <2>4. \A g \in GateIds(e) : IsGate(e, e.gates[g])
    BY <1>1, <1>5 DEF IsNetlist, IsGate
  <2>5. \A n \in NetIds(e) : IsNet(e, e.nets[n])
    BY <1>3, <1>5 DEF IsNet
  <2> QED
    BY <2>1, <2>2, <2>3, <2>4, <2>5 DEF IsNetlist
<1>7. \A n \in {None} \cup NetIds(d) : Active(e, n) <=> Active(d, n)
  BY <1>2, SameActive
<1>8. ASSUME NEW g \in GateIds(e)
      PROVE  GateConsistent(e, g)
  <2>1. GateConsistent(d, g)
    BY <1>5, <1>8 DEF Consistent
  <2>2. /\ d.gates[g].ins \in [DOMAIN d.gates[g].ins -> {None} \cup NetIds(d)]
        /\ d.gates[g].out \in {None} \cup NetIds(d)
    BY <1>1, <1>5, <1>8, GateFacts
  <2>3. d.gates[g].out # None => e.nets[d.gates[g].out].driver = d.nets[d.gates[g].out].driver
    BY <1>2, <2>2 DEF SameButLoads
  <2> QED
    BY <1>5, <1>7, <2>1, <2>2, <2>3 DEF GateConsistent
<1>9. ASSUME NEW n \in NetIds(e)
      PROVE  NetConsistent(e, n)
  <2>1. NetConsistent(d, n)
    BY <1>5, <1>9 DEF Consistent
  <2>2. \A m \in NetIds(d) : e.nets[m].con = d.nets[m].con /\ e.nets[m].driver = d.nets[m].driver
    BY <1>2 DEF SameButLoads
  <2> QED
    BY <1>5, <1>7, <1>9, <2>1, <2>2 DEF NetConsistent
<1>10. Consistent(e)
  BY <1>6, <1>8, <1>9 DEF Consistent
<1>11. LoadsCurrent(e)
  <2>1. \A n : PinLoads(e, n) = PinLoads(d, n)
    BY <1>5 DEF PinLoads, Live, PinsOn
  <2> QED
    BY <1>3, <1>5, <1>7, <2>1 DEF LoadsCurrent
<1> QED
  BY <1>2, <1>10, <1>11 DEF e

-----------------------------------------------------------------------------
(* A gate rewritten in place.                                              *)

(* A type and pins a combinational gate may have.                          *)
FitsGate(d, type, ins) ==
  /\ type \in CombTypes
  /\ IsFiniteSet(DOMAIN ins) /\ ins \in [DOMAIN ins -> {None} \cup NetIds(d)]
  /\ \A i \in DOMAIN ins : ins[i] # None => Active(d, ins[i])
  /\ type = "BUF" => DOMAIN ins = {1}
  /\ type = "NOT" => Cardinality(DOMAIN ins) = 1
  /\ type \in CombTypes \ {"NOT", "BUF"} => Cardinality(DOMAIN ins) > 1

LEMMA RewrittenFacts ==
  ASSUME NEW d, IsNetlist(d), NEW g \in GateIds(d), NEW type, NEW ins, NEW e,
         e = Rewritten(d, g, type, ins).nl
  PROVE  /\ GateIds(e) = GateIds(d) /\ NetIds(e) = NetIds(d) /\ e.nets = d.nets
         /\ e.gates = [h \in GateIds(d) |-> e.gates[h]]
         /\ \A h \in GateIds(d) \ {g} : e.gates[h] = d.gates[h]
         /\ e.gates[g].type = type /\ e.gates[g].ins = ins /\ e.gates[g].out = d.gates[g].out
<1>1. d.gates = [h \in GateIds(d) |-> d.gates[h]]
  BY DEF IsNetlist
<1>2. e.nets = d.nets /\ e.gates = [d.gates EXCEPT ![g] = Gate(type, ins, d.gates[g].out)]
  BY DEF Rewritten
<1>3. e.gates[g] = Gate(type, ins, d.gates[g].out)
  BY <1>2 DEF GateIds
<1>4. DOMAIN e.gates = DOMAIN d.gates /\ \A h \in GateIds(d) \ {g} : e.gates[h] = d.gates[h]
  BY <1>2 DEF GateIds
<1>5. e.gates = [h \in GateIds(d) |-> e.gates[h]]
  BY <1>2 DEF GateIds
<1> QED
  BY <1>2, <1>3, <1>4, <1>5 DEF Gate, GateIds, NetIds

LEMMA RewrittenConsistent ==
  ASSUME NEW d, Consistent(d), NEW g \in GateIds(d), Comb(d, g),
         NEW type, NEW ins, FitsGate(d, type, ins), NEW e, e = Rewritten(d, g, type, ins).nl
  PROVE  Consistent(e)
<1>1. IsNetlist(d)
  BY DEF Consistent
<1>2. /\ GateIds(e) = GateIds(d) /\ NetIds(e) = NetIds(d) /\ e.nets = d.nets
      /\ e.gates = [h \in GateIds(d) |-> e.gates[h]]
      /\ \A h \in GateIds(d) \ {g} : e.gates[h] = d.gates[h]
      /\ e.gates[g].type = type /\ e.gates[g].ins = ins /\ e.gates[g].out = d.gates[g].out
  BY <1>1, RewrittenFacts
<1>3. \A h \in GateIds(d) : e.gates[h].out = d.gates[h].out
  BY <1>2
<1>4. GateConsistent(d, g)
  BY DEF Consistent
<1>5. IsNetlist(e)
  <2>1. AreIds(GateIds(e)) /\ AreIds(NetIds(e)) /\ e.nets = [n \in NetIds(e) |-> e.nets[n]]
    BY <1>1, <1>2 DEF IsNetlist
  <2>2. \A h \in GateIds(e) \ {g} : IsGate(e, e.gates[h])
    BY <1>1, <1>2 DEF IsNetlist, IsGate
  <2>3. IsGate(e, e.gates[g])
    <3>1. d.gates[g].out \in {None} \cup NetIds(d)
      BY <1>1, GateFacts
    <3> QED
      BY <1>2, <3>1 DEF IsGate, FitsGate, GateTypes
  <2>4. \A n \in NetIds(e) : IsNet(e, e.nets[n])
    BY <1>1, <1>2 DEF IsNetlist, IsNet
  <2> QED
    BY <1>2, <2>1, <2>2, <2>3, <2>4 DEF IsNetlist
<1>6. \A n : Active(e, n) <=> Active(d, n)
  BY <1>2 DEF Active
<1>7. \A h \in GateIds(e) \ {g} : GateConsistent(e, h)
  <2>1. \A h \in GateIds(e) \ {g} : GateConsistent(d, h)
    BY <1>2 DEF Consistent
  <2> QED
    BY <1>2, <1>6, <2>1 DEF GateConsistent
<1>8. GateConsistent(e, g)
  <2>1. type # "UNKNOWN"
    BY DEF FitsGate, CombTypes
  <2>2. d.gates[g].out # None /\ Active(d, d.gates[g].out) /\ d.nets[d.gates[g].out].driver = g
    BY <1>4 DEF GateConsistent, Comb
  <2> QED
    BY <1>2, <1>6, <2>1, <2>2 DEF GateConsistent, FitsGate
<1>9. \A n \in NetIds(e) : NetConsistent(e, n)
  <2>1. ASSUME NEW n \in NetIds(e)
        PROVE  NetConsistent(e, n)
    <3>1. NetConsistent(d, n)
      BY <1>2 DEF Consistent
    <3>2. d.nets[n].driver # None => d.nets[n].driver \in GateIds(d)
      BY <1>1, <1>2, NetFacts
    <3> QED
      BY <1>2, <1>3, <1>6, <3>1, <3>2 DEF NetConsistent
  <2> QED
    BY <2>1
<1> QED
  BY <1>5, <1>7, <1>8, <1>9 DEF Consistent

-----------------------------------------------------------------------------
(* A gate whose loads have moved to another net, and which is buried.      *)

Buried(d, g, src) == BuryGate(MoveLoads(d, d.gates[g].out, src), g)

(* The net of a pin on net n once the known loads of out have moved.       *)
Moved(d, h, n, out, src) == IF n = out /\ d.nets[out].loads[h] # 0 THEN src ELSE n
MovedPins(d, h, out, src) ==
  [i \in DOMAIN d.gates[h].ins |-> Moved(d, h, d.gates[h].ins[i], out, src)]

(* The net of a buried gate is d's but for its driver and its loads.       *)
LEMMA BuriedNet ==
  ASSUME NEW d, NEW w, IsNet(d, w), IsNetlist(d), NEW u,
         u = WithDriver(WithLoads(w, NoLoads(d)), None)
  PROVE  /\ IsNet(d, u)
         /\ u.driver = None /\ u.loads = NoLoads(d)
         /\ u.con = w.con /\ u.pi = w.pi /\ u.po = w.po /\ u.removed = w.removed
<1>1. NoLoads(d) \in [GateIds(d) -> Nat]
  BY PinLoadsType
<1>2. PICK x : x = WithLoads(w, NoLoads(d))
  OBVIOUS
<1>3. /\ x.driver = w.driver /\ x.loads = NoLoads(d)
      /\ x.con = w.con /\ x.pi = w.pi /\ x.po = w.po /\ x.removed = w.removed
  BY <1>2, NetUpdate
<1>4. IsNet(d, x)
  BY <1>1, <1>2, NetUpdateType
<1>5. u = WithDriver(x, None)
  BY <1>2
<1>6. /\ u.driver = None /\ u.loads = x.loads
      /\ u.con = x.con /\ u.pi = x.pi /\ u.po = x.po /\ u.removed = x.removed
  BY <1>4, <1>5, NetUpdate
<1>7. IsNet(d, u)
  BY <1>4, <1>5, NetUpdateType
<1> QED
  BY <1>3, <1>6, <1>7

(* What is left of d when gate g has been buried and src took over its net. *)
BuriedShape(d, g, out, src, e) ==
  /\ GateIds(e) = GateIds(d) /\ NetIds(e) = NetIds(d)
  /\ e.gates = [h \in GateIds(d) |-> e.gates[h]]
  /\ e.nets = [n \in NetIds(d) |-> e.nets[n]]
  /\ e.gates[g] = Tombstone
  /\ \A h \in GateIds(d) \ {g} :
       /\ e.gates[h].type = d.gates[h].type
       /\ e.gates[h].out = d.gates[h].out
       /\ e.gates[h].ins = MovedPins(d, h, out, src)
  /\ \A n \in NetIds(d) :
       /\ IsNet(d, e.nets[n])
       /\ e.nets[n].driver = IF n = out THEN None ELSE d.nets[n].driver
       /\ n # out => e.nets[n].loads = d.nets[n].loads
       /\ e.nets[n].con = d.nets[n].con
       /\ e.nets[n].pi = d.nets[n].pi
       /\ e.nets[n].po = d.nets[n].po
       /\ e.nets[n].removed = d.nets[n].removed

LEMMA BuriedElsewhere ==
  ASSUME NEW d, Consistent(d), NEW g \in GateIds(d), NEW out, out = d.gates[g].out, out # None,
         NEW src, src # out, NEW e, e = Buried(d, g, src)
  PROVE  BuriedShape(d, g, out, src, e)
<1> DEFINE b == MoveLoads(d, out, src)
<1>1. IsNetlist(d)
  BY DEF Consistent
<1>2. out \in NetIds(d)
  BY <1>1, GateFacts
<1>3. /\ b.gates = [h \in GateIds(d) |->
           IF d.nets[out].loads[h] = 0 THEN d.gates[h]
           ELSE Gate(d.gates[h].type,
                     [i \in DOMAIN d.gates[h].ins |->
                        IF d.gates[h].ins[i] = out THEN src ELSE d.gates[h].ins[i]],
                     d.gates[h].out)]
      /\ b.nets = [d.nets EXCEPT ![out] = WithLoads(d.nets[out], NoLoads(d))]
  BY DEF MoveLoads
<1> HIDE DEF b
<1>4. /\ e.gates = [b.gates EXCEPT ![g] = Tombstone]
      /\ e.nets = [b.nets EXCEPT ![b.gates[g].out] = WithDriver(b.nets[b.gates[g].out], None)]
  <2>1. e = BuryGate(b, g)
    BY DEF Buried, b
  <2> QED
    BY <2>1 DEF BuryGate
<1>5. b.gates[g].out = out
  <2>1. CASE d.nets[out].loads[g] = 0
    <3>1. b.gates[g] = d.gates[g]
      BY <1>3, <2>1
    <3> QED
      BY <3>1
  <2>2. CASE d.nets[out].loads[g] # 0
    <3>1. b.gates[g] = Gate(d.gates[g].type,
                            [i \in DOMAIN d.gates[g].ins |->
                               IF d.gates[g].ins[i] = out THEN src ELSE d.gates[g].ins[i]],
                            d.gates[g].out)
      BY <1>3, <2>2
    <3> QED
      BY <3>1 DEF Gate
  <2> QED
    BY <2>1, <2>2
<1>6. DOMAIN e.gates = GateIds(d) /\ e.gates = [h \in GateIds(d) |-> e.gates[h]]
  BY <1>3, <1>4
<1>7. DOMAIN d.nets = NetIds(d) /\ DOMAIN e.nets = NetIds(d) /\ e.nets = [n \in NetIds(d) |-> e.nets[n]]
  BY <1>3, <1>4 DEF NetIds
<1>8. /\ \A n \in NetIds(d) \ {out} : e.nets[n] = d.nets[n]
      /\ e.nets[out] = WithDriver(WithLoads(d.nets[out], NoLoads(d)), None)
  BY <1>2, <1>3, <1>4, <1>5, <1>7
<1>9. e.gates[g] = Tombstone
  BY <1>3, <1>4
<1>10. ASSUME NEW h \in GateIds(d) \ {g}
       PROVE  /\ e.gates[h].type = d.gates[h].type
              /\ e.gates[h].out = d.gates[h].out
              /\ e.gates[h].ins = MovedPins(d, h, out, src)
  <2>1. e.gates[h] = b.gates[h]
    BY <1>3, <1>4
  <2>2. CASE d.nets[out].loads[h] = 0
    <3>1. e.gates[h] = d.gates[h]
      BY <1>3, <2>1, <2>2
    <3>2. d.gates[h].ins = [i \in DOMAIN d.gates[h].ins |-> d.gates[h].ins[i]]
      BY <1>1, GateFacts
    <3> QED
      BY <2>2, <3>1, <3>2 DEF Moved, MovedPins
  <2>3. CASE d.nets[out].loads[h] # 0
    <3>1. e.gates[h] = Gate(d.gates[h].type,
                            [i \in DOMAIN d.gates[h].ins |->
                               IF d.gates[h].ins[i] = out THEN src ELSE d.gates[h].ins[i]],
                            d.gates[h].out)
      BY <1>3, <2>1, <2>3
    <3> QED
      BY <2>3, <3>1 DEF Gate, Moved, MovedPins
  <2> QED
    BY <2>2, <2>3
<1>13. \A n \in NetIds(d) : IsNet(d, d.nets[n])
  BY <1>1 DEF IsNetlist
<1>14. /\ IsNet(d, e.nets[out])
       /\ e.nets[out].driver = None /\ e.nets[out].loads = NoLoads(d)
       /\ e.nets[out].con = d.nets[out].con
       /\ e.nets[out].pi = d.nets[out].pi /\ e.nets[out].po = d.nets[out].po
       /\ e.nets[out].removed = d.nets[out].removed
  BY <1>1, <1>2, <1>8, <1>13, BuriedNet
<1>15. GateIds(e) = GateIds(d) /\ NetIds(e) = NetIds(d)
  BY <1>6, <1>7 DEF GateIds, NetIds
<1> QED
  BY <1>6, <1>7, <1>8, <1>9, <1>10, <1>13, <1>14, <1>15 DEF BuriedShape

LEMMA BuriedFacts ==
  ASSUME NEW d, Consistent(d), NEW g \in GateIds(d), NEW out, out = d.gates[g].out, out # None,
         NEW src, NEW e, e = Buried(d, g, src)
  PROVE  BuriedShape(d, g, out, src, e)
<1>1. CASE src # out
  BY <1>1, BuriedElsewhere
<1>2. CASE src = out
  <2>1. IsNetlist(d)
    BY DEF Consistent
  <2>2. out \in NetIds(d)
    BY <2>1, GateFacts
  <2>3. /\ e.gates = [d.gates EXCEPT ![g] = Tombstone]
        /\ e.nets = [d.nets EXCEPT ![out] = WithDriver(d.nets[out], None)]
    BY <1>2 DEF Buried, MoveLoads, BuryGate
  <2>4. /\ GateIds(e) = GateIds(d) /\ NetIds(e) = NetIds(d)
        /\ e.gates = [h \in GateIds(d) |-> e.gates[h]]
        /\ e.nets = [n \in NetIds(d) |-> e.nets[n]]
    BY <2>1, <2>3 DEF IsNetlist, GateIds, NetIds
  <2>5. /\ e.gates[g] = Tombstone
        /\ \A h \in GateIds(d) \ {g} : e.gates[h] = d.gates[h]
    BY <2>3 DEF GateIds
  <2>6. /\ \A n \in NetIds(d) \ {out} : e.nets[n] = d.nets[n]
        /\ e.nets[out] = WithDriver(d.nets[out], None)
    BY <2>2, <2>3 DEF NetIds
  <2>7. \A n \in NetIds(d) : IsNet(d, d.nets[n])
    BY <2>1 DEF IsNetlist
  <2>8. /\ IsNet(d, e.nets[out])
        /\ e.nets[out].driver = None
        /\ e.nets[out].con = d.nets[out].con
        /\ e.nets[out].pi = d.nets[out].pi /\ e.nets[out].po = d.nets[out].po
        /\ e.nets[out].removed = d.nets[out].removed
    BY <2>2, <2>6, <2>7, NetUpdate, NetUpdateType
  <2>9. ASSUME NEW h \in GateIds(d) \ {g}
        PROVE  d.gates[h].ins = MovedPins(d, h, out, src)
    <3>1. d.gates[h].ins = [i \in DOMAIN d.gates[h].ins |-> d.gates[h].ins[i]]
      BY <2>1, GateFacts
    <3> QED
      BY <1>2, <3>1 DEF Moved, MovedPins
  <2>10. \A h \in GateIds(d) \ {g} :
           /\ e.gates[h].type = d.gates[h].type
           /\ e.gates[h].out = d.gates[h].out
           /\ e.gates[h].ins = MovedPins(d, h, out, src)
    BY <2>5, <2>9
  <2>11. \A n \in NetIds(d) :
           /\ IsNet(d, e.nets[n])
           /\ e.nets[n].driver = IF n = out THEN None ELSE d.nets[n].driver
           /\ n # out => e.nets[n].loads = d.nets[n].loads
           /\ e.nets[n].con = d.nets[n].con
           /\ e.nets[n].pi = d.nets[n].pi
           /\ e.nets[n].po = d.nets[n].po
           /\ e.nets[n].removed = d.nets[n].removed
    BY <2>6, <2>7, <2>8
  <2> QED
    BY <2>4, <2>5, <2>10, <2>11 DEF BuriedShape
<1> QED
  BY <1>1, <1>2

LEMMA BuriedConsistent ==
  ASSUME NEW d, Consistent(d), NEW g \in GateIds(d), NEW out, out = d.gates[g].out, out # None,
         NEW src \in NetIds(d), Active(d, src), NEW e, e = Buried(d, g, src)
  PROVE  Consistent(e)
<1>1. IsNetlist(d)
  BY DEF Consistent
<1>2. BuriedShape(d, g, out, src, e)
  BY BuriedFacts
<1>3. e.gates[g].type = "UNKNOWN" /\ e.gates[g].ins = <<>> /\ e.gates[g].out = None
  BY <1>2 DEF BuriedShape, Tombstone, Gate
<1>4. \A h \in GateIds(d) \ {g} :
        /\ e.gates[h].type = d.gates[h].type
        /\ e.gates[h].out = d.gates[h].out
        /\ e.gates[h].ins = MovedPins(d, h, out, src)
  BY <1>2 DEF BuriedShape
<1>5. /\ GateIds(e) = GateIds(d) /\ NetIds(e) = NetIds(d)
      /\ \A n \in NetIds(d) :
           /\ IsNet(d, e.nets[n])
           /\ e.nets[n].driver = IF n = out THEN None ELSE d.nets[n].driver
           /\ e.nets[n].con = d.nets[n].con
           /\ e.nets[n].removed = d.nets[n].removed
  BY <1>2 DEF BuriedShape
<1>6. GateConsistent(d, g) /\ out \in NetIds(d)
  BY <1>1, GateFacts DEF Consistent
<1>7. d.nets[out].driver = g
  BY <1>6 DEF GateConsistent
<1>8. \A n \in {None} \cup NetIds(d) : Active(e, n) <=> Active(d, n)
  BY <1>5 DEF Active
<1>9. \A h \in GateIds(d) \ {g} : d.gates[h].out # out
  <2>1. ASSUME NEW h \in GateIds(d) \ {g}, d.gates[h].out = out
        PROVE  FALSE
    <3>1. GateConsistent(d, h)
      BY DEF Consistent
    <3> QED
      BY <1>7, <2>1, <3>1 DEF GateConsistent
  <2> QED
    BY <2>1
<1>10. ASSUME NEW h \in GateIds(d) \ {g}
       PROVE  /\ DOMAIN e.gates[h].ins = DOMAIN d.gates[h].ins
              /\ \A i \in DOMAIN d.gates[h].ins :
                   e.gates[h].ins[i] \in {d.gates[h].ins[i], src}
  <2>1. e.gates[h].ins = MovedPins(d, h, out, src)
    BY <1>4
  <2> HIDE <1>4
  <2>2. DOMAIN MovedPins(d, h, out, src) = DOMAIN d.gates[h].ins
    BY DEF MovedPins
  <2>3. \A i \in DOMAIN d.gates[h].ins : MovedPins(d, h, out, src)[i] \in {d.gates[h].ins[i], src}
    BY DEF Moved, MovedPins
  <2> QED
    BY <2>1, <2>2, <2>3
<1>11. IsNetlist(e)
  <2>1. AreIds(GateIds(e)) /\ AreIds(NetIds(e))
    BY <1>1, <1>5 DEF IsNetlist
  <2>2. \A n \in NetIds(e) : IsNet(e, e.nets[n])
    BY <1>5 DEF IsNet
  <2>5. /\ e.gates = [h \in GateIds(e) |-> e.gates[h]]
        /\ e.nets = [n \in NetIds(e) |-> e.nets[n]]
    BY <1>2 DEF BuriedShape
  <2>3. IsGate(e, e.gates[g])
    <3>1. IsFiniteSet({})
      BY FS_EmptySet
    <3>2. e.gates[g].ins \in [DOMAIN e.gates[g].ins -> {None} \cup NetIds(e)]
      BY <1>3
    <3> QED
      BY <1>3, <3>1, <3>2 DEF IsGate, GateTypes
  <2>4. ASSUME NEW h \in GateIds(d) \ {g}
        PROVE  IsGate(e, e.gates[h])
    <3>1. /\ d.gates[h].type \in GateTypes
          /\ IsFiniteSet(DOMAIN d.gates[h].ins)
          /\ d.gates[h].out \in {None} \cup NetIds(d)
          /\ \A i \in DOMAIN d.gates[h].ins : d.gates[h].ins[i] \in {None} \cup NetIds(d)
      BY <1>1, GateFacts
    <3>2. e.gates[h].ins \in [DOMAIN e.gates[h].ins -> {None} \cup NetIds(d)]
      BY <1>4, <1>10, <3>1 DEF MovedPins
    <3> QED
      BY <1>4, <1>5, <1>10, <3>1, <3>2 DEF IsGate
  <2> QED
    BY <1>5, <2>1, <2>2, <2>3, <2>4, <2>5 DEF IsNetlist
<1>12. GateConsistent(e, g)
  BY <1>3 DEF GateConsistent, CombTypes
<1>13. ASSUME NEW h \in GateIds(d) \ {g}
       PROVE  GateConsistent(e, h)
  <2>1. GateConsistent(d, h)
    BY DEF Consistent
  <2>2. d.gates[h].out \in {None} \cup NetIds(d) /\ d.gates[h].out # out
    BY <1>1, <1>9, GateFacts
  <2>3. d.gates[h].out # None => e.nets[d.gates[h].out].driver = d.nets[d.gates[h].out].driver
    BY <1>5, <2>2
  <2>4. \A i \in DOMAIN d.gates[h].ins : d.gates[h].ins[i] \in {None} \cup NetIds(d)
    BY <1>1, GateFacts
  <2>5. \A i \in DOMAIN e.gates[h].ins : e.gates[h].ins[i] # None => Active(e, e.gates[h].ins[i])
    BY <1>8, <1>10, <2>1, <2>4 DEF GateConsistent
  <2> QED
    BY <1>4, <1>8, <1>10, <2>1, <2>2, <2>3, <2>5 DEF GateConsistent
<1>14. ASSUME NEW n \in NetIds(d)
       PROVE  NetConsistent(e, n)
  <2>1. NetConsistent(d, n)
    BY DEF Consistent
  <2>2. d.nets[n].driver \in {None} \cup GateIds(d)
    BY <1>1, NetFacts
  <2>3. e.nets[n].driver # None => n # out /\ e.nets[n].driver = d.nets[n].driver
    BY <1>5
  <2>4. e.nets[n].driver # None => e.gates[e.nets[n].driver].out = n
    BY <1>4, <2>1, <2>2, <2>3 DEF NetConsistent
  <2> QED
    BY <1>5, <1>8, <2>1, <2>4 DEF NetConsistent
<1> QED
  BY <1>5, <1>11, <1>12, <1>13, <1>14 DEF Consistent

-----------------------------------------------------------------------------
(* What simplifyGateWithConstant may make of a gate.                       *)

Bit(kind) == IF kind = "zero" THEN 0 ELSE 1

(* The nets carry v, the constants their value.                            *)
Carries(d, v) ==
  /\ v \in [NetIds(d) -> Signals]
  /\ \A n \in NetIds(d) : d.nets[n].con # "none" => v[n] = Bit(d.nets[n].con)

Computed(d, g, v) == GateValue(d.gates[g].type, PinValues(d.gates[g].ins, v))

(* Net src, a constant or a pin of gate g, carries what g computes.        *)
Wire(d, g, src) ==
  /\ src \in NetIds(d) /\ Active(d, src)
  /\ d.nets[src].con # "none" \/ src \in Range(d.gates[g].ins)
  /\ d.gates[g].type = "BUF" => d.gates[g].ins = <<src>>
  /\ \A v : Carries(d, v) => Computed(d, g, v) = v[src]

(* A gate of this type on fewer of the pins of g computes what g computes. *)
Smaller(d, g, type, ins) ==
  /\ FitsGate(d, type, ins) /\ type # "BUF" /\ d.gates[g].type # "BUF"
  /\ Cardinality(DOMAIN ins) < Cardinality(DOMAIN d.gates[g].ins)
  /\ Range(ins) \subseteq Range(d.gates[g].ins)
  /\ \A v : Carries(d, v) => Computed(d, g, v) = GateValue(type, PinValues(ins, v))

(* What keeps the fold from doing anything at gate g.                      *)
Stuck(d, g) ==
  \/ ConstNet(d, "zero") = None \/ ConstNet(d, "one") = None
  \/ None \in Range(d.gates[g].ins)
  \/ \A n \in Range(d.gates[g].ins) : ~IsConst(d, n)

Fate(d, g, r) ==
  \/ r = Unchanged(d) /\ Stuck(d, g)
  \/ \E src : Wire(d, g, src) /\ r = ReplaceGateWithNet(d, g, src)
  \/ \E type, ins : Smaller(d, g, type, ins) /\ r = RewriteGate(d, g, type, ins)

(* The net of a constant, when the design has one, carries it.             *)
LEMMA ConstNetFacts ==
  ASSUME NEW d, Consistent(d), NEW kind \in {"zero", "one"}
  PROVE  ConstNet(d, kind) # None =>
           /\ ConstNet(d, kind) \in NetIds(d)
           /\ Active(d, ConstNet(d, kind))
           /\ d.nets[ConstNet(d, kind)].con = kind
           /\ \A v : Carries(d, v) => v[ConstNet(d, kind)] = Bit(kind)
<1> DEFINE hits == {n \in NetIds(d) : d.nets[n].con = kind}
<1>1. CASE hits = {}
  BY <1>1 DEF ConstNet
<1>2. CASE hits # {}
  <2>1. ConstNet(d, kind) \in hits
    BY <1>2 DEF ConstNet
  <2>2. NetConsistent(d, ConstNet(d, kind))
    BY <2>1 DEF Consistent
  <2> QED
    BY <2>1, <2>2 DEF NetConsistent, Carries
<1> QED
  BY <1>1, <1>2

(* A net that is the constant of its kind is the only one.                 *)
LEMMA ConstNetUnique ==
  ASSUME NEW d, Consistent(d), NEW n \in NetIds(d), d.nets[n].con \in {"zero", "one"}
  PROVE  ConstNet(d, d.nets[n].con) = n
<1>1. NetConsistent(d, n)
  BY DEF Consistent
<1>2. {m \in NetIds(d) : d.nets[m].con = d.nets[n].con} = {n}
  BY <1>1 DEF NetConsistent
<1> QED
  BY <1>2 DEF ConstNet

(* A pin at a constant carries it.                                         *)
LEMMA KindFacts ==
  ASSUME NEW d, IsNetlist(d), NEW g \in GateIds(d), NEW i \in DOMAIN d.gates[g].ins
  PROVE  LET n == d.gates[g].ins[i] IN
         /\ Kind(d, n) \in ConstKinds
         /\ IsConst(d, n) <=> Kind(d, n) \in {"zero", "one"}
         /\ IsConst(d, n) => /\ n \in NetIds(d) /\ n # None /\ d.nets[n].con = Kind(d, n)
                             /\ \A v : Carries(d, v) =>
                                  PinValues(d.gates[g].ins, v)[i] = Bit(Kind(d, n))
<1> DEFINE n == d.gates[g].ins[i]
<1>1. n \in {None} \cup NetIds(d)
  BY GateFacts
<1>2. n # None => d.nets[n].con \in ConstKinds
  BY <1>1, NetFacts
<1>3. Kind(d, n) \in ConstKinds
  BY <1>2 DEF Kind, ConstKinds
<1>4. IsConst(d, n) => n # None /\ d.nets[n].con = Kind(d, n)
  BY DEF IsConst, Kind
<1>5. IsConst(d, n) <=> Kind(d, n) \in {"zero", "one"}
  BY <1>3 DEF IsConst, ConstKinds
<1>6. ASSUME IsConst(d, n), NEW v, Carries(d, v)
      PROVE  PinValues(d.gates[g].ins, v)[i] = Bit(Kind(d, n))
  <2>1. PinValues(d.gates[g].ins, v)[i] = v[n]
    BY <1>4, <1>6 DEF PinValues
  <2> QED
    BY <1>1, <1>4, <1>6, <2>1 DEF Carries, IsConst
<1> QED
  BY <1>1, <1>3, <1>4, <1>5, <1>6

LEMMA PinValuesRestrict ==
  ASSUME NEW ins, NEW v, NEW S \in SUBSET DOMAIN ins
  PROVE  PinValues(Restrict(ins, S), v) = Restrict(PinValues(ins, v), S)
BY DEF PinValues, Restrict

(* One pin alone makes a gate of this type an inverter, or a wire.         *)
OnePinGate(type, inverted) ==
  \A vals, i : DOMAIN vals = {i} /\ vals[i] \in Signals =>
    GateValue(type, vals) = IF inverted THEN Negate(vals[i]) ELSE vals[i]

LEMMA ReduceFacts ==
  ASSUME NEW d, Consistent(d), NEW g \in GateIds(d), d.gates[g].type \notin {"NOT", "BUF"},
         NEW type \in CombTypes \ {"NOT", "BUF"}, NEW inverted, OnePinGate(type, inverted),
         NEW rest, rest = VaryingPins(d, g),
         DOMAIN rest # {}, DOMAIN rest # DOMAIN d.gates[g].ins,
         \A v : Carries(d, v) => Computed(d, g, v) = GateValue(type, PinValues(rest, v))
  PROVE  Fate(d, g, Reduce(d, g, type, inverted))
<1> DEFINE ins == d.gates[g].ins
           S == {i \in DOMAIN ins : ~IsConst(d, ins[i])}
<1>1. IsNetlist(d) /\ GateConsistent(d, g)
  BY DEF Consistent
<1>2. IsFiniteSet(DOMAIN ins) /\ \A i \in DOMAIN ins : ins[i] \in {None} \cup NetIds(d)
  BY <1>1, GateFacts
<1>3. DOMAIN rest = S /\ \A i \in S : rest[i] = ins[i]
  BY RestrictFacts DEF VaryingPins
<1>4. rest = [i \in DOMAIN rest |-> rest[i]]
  BY DEF VaryingPins, Restrict
<1>5. Range(rest) \subseteq Range(ins)
  BY <1>3 DEF Range
<1>6. S \in SUBSET DOMAIN ins /\ IsFiniteSet(S) /\ Cardinality(S) \in Nat
  BY <1>2, FS_Subset, FS_CardinalityType
<1>7. Cardinality(S) < Cardinality(DOMAIN ins)
  <2>1. Cardinality(S) <= Cardinality(DOMAIN ins) /\ (Cardinality(DOMAIN ins) = Cardinality(S) => S = DOMAIN ins)
    BY <1>2, <1>6, FS_Subset
  <2>2. Cardinality(DOMAIN ins) \in Nat
    BY <1>2, FS_CardinalityType
  <2> QED
    BY <1>3, <1>6, <2>1, <2>2
<1>8. \A i \in DOMAIN rest : rest[i] \in {None} \cup NetIds(d) /\ (rest[i] # None => Active(d, rest[i]))
  BY <1>1, <1>2, <1>3 DEF GateConsistent
<1>9. rest \in [DOMAIN rest -> {None} \cup NetIds(d)]
  BY <1>4, <1>8
<1> HIDE DEF S
<1>10. CASE Cardinality(DOMAIN rest) > 1
  <2>1. Reduce(d, g, type, inverted) = RewriteGate(d, g, type, rest)
    BY <1>10 DEF Reduce
  <2>2. FitsGate(d, type, rest)
    BY <1>3, <1>6, <1>8, <1>9, <1>10 DEF FitsGate
  <2>3. Smaller(d, g, type, rest)
    BY <1>3, <1>5, <1>7, <2>2 DEF Smaller
  <2> QED
    BY <2>1, <2>3 DEF Fate
<1>11. CASE ~(Cardinality(DOMAIN rest) > 1)
  <2>1. Cardinality(DOMAIN rest) # 0
    BY <1>3, <1>6, FS_EmptySet
  <2>2. Cardinality(DOMAIN rest) = 1
    BY <1>3, <1>6, <1>11, <2>1
  <2>3. PICK i : DOMAIN rest = {i}
    BY <1>3, <1>6, <2>2, FS_Singleton
  <2> DEFINE n == rest[i]
  <2>4. Range(rest) = {n}
    BY <2>3 DEF Range
  <2>5. OnlyNet(rest) = n
    BY <2>4 DEF OnlyNet
  <2>6. ASSUME NEW v, Carries(d, v)
        PROVE  /\ DOMAIN PinValues(rest, v) = {i} /\ PinValues(rest, v)[i] \in Signals
               /\ n # None => PinValues(rest, v)[i] = v[n]
    BY <1>8, <2>3, <2>6 DEF PinValues, Carries, Signals
  <2>7. CASE inverted
    <3>1. Reduce(d, g, type, inverted) = RewriteGate(d, g, "NOT", rest)
      BY <1>11, <2>7 DEF Reduce
    <3>2. FitsGate(d, "NOT", rest)
      BY <1>3, <1>6, <1>8, <1>9, <2>2 DEF FitsGate, CombTypes
    <3>3. ASSUME NEW v, Carries(d, v)
          PROVE  Computed(d, g, v) = GateValue("NOT", PinValues(rest, v))
      <4>1. GateValue(type, PinValues(rest, v)) = Negate(PinValues(rest, v)[i])
        BY <2>6, <2>7, <3>3 DEF OnePinGate
      <4>2. Range(PinValues(rest, v)) = {PinValues(rest, v)[i]}
        BY <2>6, <3>3 DEF Range
      <4>3. GateValue("NOT", PinValues(rest, v)) = Negate(PinValues(rest, v)[i])
        BY <4>2 DEF GateValue, Copy
      <4> QED
        BY <3>3, <4>1, <4>3
    <3>4. Smaller(d, g, "NOT", rest)
      BY <1>3, <1>5, <1>7, <3>2, <3>3 DEF Smaller
    <3> QED
      BY <3>1, <3>4 DEF Fate
  <2>8. CASE ~inverted
    <3>1. Reduce(d, g, type, inverted) = ReplaceGateWithNet(d, g, n)
      BY <1>11, <2>5, <2>8 DEF Reduce
    <3>2. CASE n = None
      <4>1. Stuck(d, g)
        BY <1>5, <2>4, <3>2 DEF Stuck
      <4> QED
        BY <3>1, <3>2, <4>1 DEF Fate, ReplaceGateWithNet
    <3>3. CASE n # None
      <4>1. ASSUME NEW v, Carries(d, v)
            PROVE  Computed(d, g, v) = v[n]
        BY <2>6, <2>8, <3>3, <4>1 DEF OnePinGate
      <4>2. Wire(d, g, n)
        BY <1>5, <1>8, <2>3, <2>4, <3>3, <4>1 DEF Wire
      <4> QED
        BY <3>1, <4>2 DEF Fate
    <3> QED
      BY <3>2, <3>3
  <2> QED
    BY <2>7, <2>8
<1> QED
  BY <1>10, <1>11

(* A gate that carries a constant becomes the constant's net.              *)
LEMMA BecomesConstant ==
  ASSUME NEW d, Consistent(d), NEW g \in GateIds(d), d.gates[g].type # "BUF",
         NEW kind \in {"zero", "one"},
         \A v : Carries(d, v) => Computed(d, g, v) = Bit(kind)
  PROVE  Fate(d, g, ReplaceGateWithNet(d, g, ConstNet(d, kind)))
<1>1. CASE ConstNet(d, kind) = None
  BY <1>1 DEF Fate, Stuck, ReplaceGateWithNet
<1>2. CASE ConstNet(d, kind) # None
  <2>1. Wire(d, g, ConstNet(d, kind))
    BY <1>2, ConstNetFacts DEF Wire
  <2> QED
    BY <2>1 DEF Fate
<1> QED
  BY <1>1, <1>2

LEMMA UnaryFate ==
  ASSUME NEW d, Consistent(d), NEW g \in GateIds(d), d.gates[g].type \in {"NOT", "BUF"}
  PROVE  Cardinality(DOMAIN d.gates[g].ins) = 1 /\ Fate(d, g, FoldUnary(d, g))
<1> DEFINE ins == d.gates[g].ins
<1>1. IsNetlist(d) /\ GateConsistent(d, g)
  BY DEF Consistent
<1>2. IsFiniteSet(DOMAIN ins) /\ ins \in [DOMAIN ins -> {None} \cup NetIds(d)]
  BY <1>1, GateFacts
<1>3. Cardinality({1}) = 1
  BY FS_Singleton
<1>4. Cardinality(DOMAIN ins) = 1 /\ (d.gates[g].type = "BUF" => DOMAIN ins = {1})
  BY <1>1, <1>3 DEF GateConsistent
<1>5. PICK i : DOMAIN ins = {i}
  BY <1>2, <1>4, FS_Singleton
<1> DEFINE n == ins[i]
<1>6. Range(ins) = {n} /\ OnlyNet(ins) = n
  BY <1>5 DEF Range, OnlyNet
<1>7. /\ Kind(d, n) \in ConstKinds
      /\ IsConst(d, n) <=> Kind(d, n) \in {"zero", "one"}
      /\ IsConst(d, n) => /\ n \in NetIds(d) /\ n # None /\ d.nets[n].con = Kind(d, n)
                          /\ \A v : Carries(d, v) => PinValues(ins, v)[i] = Bit(Kind(d, n))
  BY <1>1, <1>5, KindFacts
<1>8. CASE ~IsConst(d, n)
  BY <1>4, <1>6, <1>8 DEF FoldUnary, IsConst, Fate, Stuck
<1>9. CASE IsConst(d, n)
  <2> DEFINE kind == Kind(d, n)
  <2>1. ASSUME NEW v, Carries(d, v)
        PROVE  Copy(PinValues(ins, v)) = Bit(kind)
    <3>1. PinValues(ins, v)[i] = Bit(kind) /\ DOMAIN PinValues(ins, v) = {i}
      BY <1>5, <1>7, <1>9, <2>1 DEF PinValues
    <3>2. Range(PinValues(ins, v)) = {Bit(kind)}
      BY <3>1 DEF Range
    <3> QED
      BY <3>2 DEF Copy
  <2>2. CASE d.gates[g].type = "NOT"
    <3>1. \A v : Carries(d, v) => Computed(d, g, v) = Bit(Inverted(kind))
      BY <1>7, <1>9, <2>1, <2>2 DEF Computed, GateValue, Negate, Bit, Inverted, Undefined
    <3>2. Inverted(kind) \in {"zero", "one"}
      BY DEF Inverted
    <3>3. Fate(d, g, ReplaceGateWithNet(d, g, ConstNet(d, Inverted(kind))))
      BY <2>2, <3>1, <3>2, BecomesConstant
    <3>4. FoldUnary(d, g) = ReplaceGateWithNet(d, g, ConstNet(d, Inverted(kind)))
      BY <1>6, <1>9, <2>2 DEF FoldUnary, IsConst
    <3> QED
      BY <1>4, <3>3, <3>4
  <2>3. CASE d.gates[g].type = "BUF"
    <3>1. ConstNet(d, kind) = n
      BY <1>7, <1>9, ConstNetUnique
    <3>2. ins = <<n>>
      BY <1>2, <1>4, <1>5, <2>3
    <3>3. \A v : Carries(d, v) => Computed(d, g, v) = v[n]
      <4>1. \A v : Carries(d, v) => v[n] = Bit(kind)
        BY <1>7, <1>9 DEF Carries
      <4> QED
        BY <2>1, <2>3, <4>1 DEF Computed, GateValue
    <3>4. Active(d, n)
      BY <1>1, <1>5, <1>7, <1>9 DEF GateConsistent
    <3>5. Wire(d, g, n)
      BY <1>7, <1>9, <3>2, <3>3, <3>4 DEF Wire, IsConst
    <3>6. FoldUnary(d, g) = ReplaceGateWithNet(d, g, n)
      BY <1>6, <1>9, <2>3, <3>1 DEF FoldUnary, IsConst
    <3> QED
      BY <1>4, <3>5, <3>6 DEF Fate
  <2> QED
    BY <2>2, <2>3
<1> QED
  BY <1>8, <1>9

LatticeTypes == {"AND", "NAND", "OR", "NOR"}

LEMMA LatticeValue ==
  ASSUME NEW t \in LatticeTypes, NEW vals
  PROVE  /\ Bit(Absorbing(t)) \in {0, 1}
         /\ GateValue(t, vals) = IF Inverts(t) THEN Negate(Kleene(vals, Bit(Absorbing(t))))
                                 ELSE Kleene(vals, Bit(Absorbing(t)))
BY DEF LatticeTypes, GateValue, Absorbing, Inverts, Bit

LEMMA LatticeOnePin ==
  ASSUME NEW t \in LatticeTypes
  PROVE  OnePinGate(t, Inverts(t))
<1> SUFFICES ASSUME NEW vals, NEW i, DOMAIN vals = {i}, vals[i] \in Signals
             PROVE  GateValue(t, vals) = IF Inverts(t) THEN Negate(vals[i]) ELSE vals[i]
  BY DEF OnePinGate
<1>1. \A a \in {0, 1} : Kleene(vals, a) = vals[i]
  BY OnePin
<1> QED
  BY <1>1, LatticeValue

(* An AND or OR gate whose constant pins are not absorbing.                *)
LEMMA LatticeRest ==
  ASSUME NEW d, Consistent(d), NEW g \in GateIds(d), NEW t, t = d.gates[g].type,
         t \in LatticeTypes, NEW v, Carries(d, v),
         NEW rest, rest = VaryingPins(d, g),
         \A i \in DOMAIN d.gates[g].ins : Kind(d, d.gates[g].ins[i]) # Absorbing(t)
  PROVE  /\ Computed(d, g, v) = GateValue(t, PinValues(rest, v))
         /\ DOMAIN rest = {} => Computed(d, g, v) =
              IF Inverts(t) THEN Bit(Absorbing(t)) ELSE 1 - Bit(Absorbing(t))
<1> DEFINE ins == d.gates[g].ins
           S == {i \in DOMAIN ins : ~IsConst(d, ins[i])}
           vals == PinValues(ins, v)
           a == Bit(Absorbing(t))
<1>1. IsNetlist(d)
  BY DEF Consistent
<1>2. vals \in [DOMAIN ins -> Signals]
  BY <1>1, PinValuesType DEF Carries
<1>3. a \in {0, 1}
  BY DEF Bit
<1>4. ASSUME NEW i \in DOMAIN ins \ S
      PROVE  vals[i] = 1 - a
  <2>1. IsConst(d, ins[i])
    OBVIOUS
  <2>2. Kind(d, ins[i]) \in {"zero", "one"} /\ vals[i] = Bit(Kind(d, ins[i]))
    BY <1>1, <2>1, KindFacts
  <2>3. Kind(d, ins[i]) # Absorbing(t)
    OBVIOUS
  <2>4. Absorbing(t) \in {"zero", "one"}
    BY DEF Absorbing
  <2> QED
    BY <2>2, <2>3, <2>4 DEF Bit
<1> HIDE DEF vals, a
<1>5. /\ Kleene(vals, a) = Kleene(Restrict(vals, S), a)
      /\ S = {} => Kleene(vals, a) = 1 - a
  BY <1>2, <1>3, <1>4, KleeneRest
<1>6. PinValues(rest, v) = Restrict(vals, S) /\ DOMAIN rest = S
  <2>1. rest = Restrict(ins, S)
    BY DEF VaryingPins
  <2> HIDE DEF S
  <2>2. S \in SUBSET DOMAIN ins
    BY DEF S
  <2> QED
    BY <2>1, <2>2, PinValuesRestrict, RestrictFacts DEF vals
<1> HIDE DEF S
<1>7. Computed(d, g, v) = IF Inverts(t) THEN Negate(Kleene(vals, a)) ELSE Kleene(vals, a)
  BY LatticeValue DEF Computed, vals, a
<1>8. GateValue(t, PinValues(rest, v)) =
        IF Inverts(t) THEN Negate(Kleene(Restrict(vals, S), a)) ELSE Kleene(Restrict(vals, S), a)
  BY <1>6, LatticeValue DEF a
<1>9. Negate(1 - a) = a
  BY <1>3 DEF Negate, Undefined
<1> QED
  BY <1>5, <1>6, <1>7, <1>8, <1>9 DEF a

(* The kinds of the pins of a gate.                                        *)
Kinds(d, g) == {Kind(d, n) : n \in Range(d.gates[g].ins)}

LEMMA KindsFacts ==
  ASSUME NEW d, IsNetlist(d), NEW g \in GateIds(d)
  PROVE  /\ Kinds(d, g) \subseteq ConstKinds
         /\ \A k : k \in Kinds(d, g) <=> \E i \in DOMAIN d.gates[g].ins : Kind(d, d.gates[g].ins[i]) = k
         /\ Kinds(d, g) = {"none"} => \A n \in Range(d.gates[g].ins) : ~IsConst(d, n)
         /\ \A k : k \notin Kinds(d, g) => \A i \in DOMAIN d.gates[g].ins : Kind(d, d.gates[g].ins[i]) # k
<1>1. \A n \in Range(d.gates[g].ins) : \E i \in DOMAIN d.gates[g].ins : n = d.gates[g].ins[i]
  BY DEF Range
<1>2. \A i \in DOMAIN d.gates[g].ins : d.gates[g].ins[i] \in Range(d.gates[g].ins)
  BY DEF Range
<1>3. \A i \in DOMAIN d.gates[g].ins : Kind(d, d.gates[g].ins[i]) \in ConstKinds
  BY KindFacts
<1> QED
  BY <1>1, <1>2, <1>3 DEF IsConst, Kinds

(* The pins that vary, when some do and some do not.                       *)
LEMMA VaryingFacts ==
  ASSUME NEW d, IsNetlist(d), NEW g \in GateIds(d)
  PROVE  /\ DOMAIN VaryingPins(d, g) = {i \in DOMAIN d.gates[g].ins : ~IsConst(d, d.gates[g].ins[i])}
         /\ DOMAIN VaryingPins(d, g) = {} <=> "none" \notin Kinds(d, g)
         /\ DOMAIN VaryingPins(d, g) = DOMAIN d.gates[g].ins <=> Kinds(d, g) \subseteq {"none"}
<1>1. DOMAIN VaryingPins(d, g) = {i \in DOMAIN d.gates[g].ins : ~IsConst(d, d.gates[g].ins[i])}
  BY RestrictFacts DEF VaryingPins
<1>2. \A k : k \in Kinds(d, g) <=> \E i \in DOMAIN d.gates[g].ins : Kind(d, d.gates[g].ins[i]) = k
  BY KindsFacts
<1>3. \A i \in DOMAIN d.gates[g].ins : IsConst(d, d.gates[g].ins[i]) <=> Kind(d, d.gates[g].ins[i]) # "none"
  BY DEF IsConst
<1> QED
  BY <1>1, <1>2, <1>3

LEMMA LatticeFate ==
  ASSUME NEW d, Consistent(d), NEW g \in GateIds(d), d.gates[g].type \in LatticeTypes
  PROVE  Fate(d, g, FoldLattice(d, g))
<1> DEFINE t == d.gates[g].type
           ins == d.gates[g].ins
           kinds == Kinds(d, g)
           Signed(kind) == IF Inverts(t) THEN Inverted(kind) ELSE kind
<1>1. IsNetlist(d) /\ GateConsistent(d, g)
  BY DEF Consistent
<1>2. t \in CombTypes \ {"NOT", "BUF"} /\ t # "BUF" /\ t \notin {"NOT", "BUF"}
  BY DEF LatticeTypes, CombTypes
<1>3. /\ kinds \subseteq ConstKinds
      /\ kinds = {"none"} => \A n \in Range(ins) : ~IsConst(d, n)
      /\ \A k : k \in kinds <=> \E i \in DOMAIN ins : Kind(d, ins[i]) = k
      /\ \A k : k \notin kinds => \A i \in DOMAIN ins : Kind(d, ins[i]) # k
  BY <1>1, KindsFacts
<1>4. Absorbing(t) \in {"zero", "one"} /\ Inverted(Absorbing(t)) \in {"zero", "one"}
  BY DEF Absorbing, Inverted
<1>5. kinds # {}
  <2>1. DOMAIN ins # {}
    <3>1. Cardinality(DOMAIN ins) > 1
      BY <1>1, <1>2 DEF GateConsistent
    <3>2. Cardinality(DOMAIN ins) # 0
      BY <3>1
    <3> QED
      BY <3>2, FS_EmptySet, Zenon
  <2> QED
    BY <1>3, <2>1
<1>6. /\ DOMAIN VaryingPins(d, g) = {} <=> "none" \notin kinds
      /\ DOMAIN VaryingPins(d, g) = DOMAIN ins <=> kinds \subseteq {"none"}
  BY <1>1, VaryingFacts
<1>7. FoldLattice(d, g) =
        CASE kinds = {"none"} -> Unchanged(d)
          [] Absorbing(t) \in kinds -> ReplaceGateWithNet(d, g, ConstNet(d, Signed(Absorbing(t))))
          [] kinds = {Inverted(Absorbing(t))} ->
               ReplaceGateWithNet(d, g, ConstNet(d, Signed(Inverted(Absorbing(t)))))
          [] OTHER -> Reduce(d, g, t, Inverts(t))
  BY DEF FoldLattice, Kinds
<1>8. \A kind \in {"zero", "one"} :
        /\ Signed(kind) \in {"zero", "one"}
        /\ Bit(Signed(kind)) = IF Inverts(t) THEN Negate(Bit(kind)) ELSE Bit(kind)
        /\ Bit(Inverted(kind)) = 1 - Bit(kind) /\ Inverted(kind) # kind
  BY DEF Inverted, Bit, Negate, Undefined
<1>9. CASE kinds = {"none"}
  <2>1. FoldLattice(d, g) = Unchanged(d)
    BY <1>4, <1>7, <1>9
  <2> QED
    BY <1>3, <1>9, <2>1 DEF Fate, Stuck
<1>10. CASE Absorbing(t) \in kinds
  <2>1. PICK i \in DOMAIN ins : Kind(d, ins[i]) = Absorbing(t)
    BY <1>3, <1>10
  <2>2. ASSUME NEW v, Carries(d, v)
        PROVE  Computed(d, g, v) = Bit(Signed(Absorbing(t)))
    <3>1. PinValues(ins, v)[i] = Bit(Absorbing(t)) /\ i \in DOMAIN PinValues(ins, v)
      <4>1. i \in DOMAIN PinValues(ins, v)
        BY DEF PinValues
      <4>2. IsConst(d, ins[i])
        BY <1>1, <1>4, <2>1, KindFacts
      <4>3. PinValues(ins, v)[i] = Bit(Kind(d, ins[i]))
        BY <1>1, <2>2, <4>2, KindFacts
      <4> QED
        BY <2>1, <4>1, <4>3
    <3>2. Kleene(PinValues(ins, v), Bit(Absorbing(t))) = Bit(Absorbing(t))
      BY <3>1, KleeneAbsorbed
    <3> QED
      BY <1>4, <1>8, <3>2, LatticeValue DEF Computed
  <2>3. FoldLattice(d, g) = ReplaceGateWithNet(d, g, ConstNet(d, Signed(Absorbing(t))))
    <3> HIDE DEF Signed
    <3>1. kinds # {"none"} /\ kinds # {Inverted(Absorbing(t))}
      BY <1>4, <1>8, <1>10
    <3> QED
      BY <1>7, <1>10, <3>1
  <2>4. Signed(Absorbing(t)) \in {"zero", "one"}
    BY <1>4, <1>8
  <2>5. Fate(d, g, ReplaceGateWithNet(d, g, ConstNet(d, Signed(Absorbing(t)))))
    <3> HIDE DEF Signed
    <3> QED
      BY <1>2, <2>2, <2>4, BecomesConstant
  <2> QED
    BY <2>3, <2>5
<1>11. ASSUME Absorbing(t) \notin kinds, NEW v, Carries(d, v)
       PROVE  /\ Computed(d, g, v) = GateValue(t, PinValues(VaryingPins(d, g), v))
              /\ DOMAIN VaryingPins(d, g) = {} => Computed(d, g, v) =
                   IF Inverts(t) THEN Bit(Absorbing(t)) ELSE 1 - Bit(Absorbing(t))
  BY <1>3, <1>11, LatticeRest
<1>12. CASE kinds = {Inverted(Absorbing(t))}
  <2>1. Absorbing(t) \notin kinds /\ "none" \notin kinds /\ kinds # {"none"}
    BY <1>4, <1>8, <1>12
  <2>2. \A v : Carries(d, v) => Computed(d, g, v) = Bit(Signed(Inverted(Absorbing(t))))
    <3>1. Bit(Signed(Inverted(Absorbing(t)))) =
            IF Inverts(t) THEN Bit(Absorbing(t)) ELSE 1 - Bit(Absorbing(t))
      BY <1>4 DEF Bit, Inverted
    <3> QED
      BY <1>6, <1>11, <2>1, <3>1
  <2>3. FoldLattice(d, g) = ReplaceGateWithNet(d, g, ConstNet(d, Signed(Inverted(Absorbing(t)))))
    <3> HIDE DEF Signed
    <3> QED
      BY <1>7, <1>12, <2>1
  <2>4. Signed(Inverted(Absorbing(t))) \in {"zero", "one"}
    BY <1>4, <1>8
  <2>5. Fate(d, g, ReplaceGateWithNet(d, g, ConstNet(d, Signed(Inverted(Absorbing(t))))))
    <3> HIDE DEF Signed
    <3> QED
      BY <1>2, <2>2, <2>4, BecomesConstant
  <2> QED
    BY <2>3, <2>5
<1>13. CASE kinds # {"none"} /\ Absorbing(t) \notin kinds /\ kinds # {Inverted(Absorbing(t))}
  <2>1. FoldLattice(d, g) = Reduce(d, g, t, Inverts(t))
    <3> HIDE DEF Signed
    <3> QED
      BY <1>7, <1>13
  <2>2. \A k \in kinds : k \in {"none", Inverted(Absorbing(t))}
    <3>1. \A k \in ConstKinds : k \in {"none", Absorbing(t), Inverted(Absorbing(t))}
      BY <1>4 DEF ConstKinds, Inverted
    <3> QED
      BY <1>3, <1>13, <3>1
  <2>3. "none" \in kinds /\ ~(kinds \subseteq {"none"})
    BY <1>5, <1>13, <2>2
  <2>4. OnePinGate(t, Inverts(t))
    BY LatticeOnePin
  <2>5. \A v : Carries(d, v) => Computed(d, g, v) = GateValue(t, PinValues(VaryingPins(d, g), v))
    BY <1>11, <1>13
  <2>6. Fate(d, g, Reduce(d, g, t, Inverts(t)))
    BY <1>2, <1>6, <2>3, <2>4, <2>5, ReduceFacts
  <2> QED
    BY <2>1, <2>6
<1> QED
  BY <1>9, <1>10, <1>12, <1>13

(* What an XOR or XNOR gate computes from the pins that vary.              *)
LEMMA ParityValue ==
  ASSUME NEW d, Consistent(d), NEW g \in GateIds(d), d.gates[g].type \in {"XOR", "XNOR"},
         NEW v, Carries(d, v), NEW rest, rest = VaryingPins(d, g)
  PROVE  Computed(d, g, v) =
           IF ParityInverts(d, g) THEN Negate(Parity(PinValues(rest, v)))
           ELSE Parity(PinValues(rest, v))
<1> DEFINE ins == d.gates[g].ins
           S == {i \in DOMAIN ins : ~IsConst(d, ins[i])}
           vals == PinValues(ins, v)
           ones == {i \in DOMAIN ins \ S : vals[i] = 1}
           c == Cardinality(Ones(d, g))
<1>1. IsNetlist(d)
  BY DEF Consistent
<1>2. vals \in [DOMAIN ins -> Signals] /\ IsFiniteSet(DOMAIN ins)
  BY <1>1, PinValuesType, GateFacts DEF Carries
<1>3. \A i \in DOMAIN ins \ S : /\ Kind(d, ins[i]) \in {"zero", "one"}
                               /\ vals[i] = Bit(Kind(d, ins[i]))
  BY <1>1, KindFacts
<1>4. \A i \in DOMAIN ins \ S : vals[i] \in {0, 1} /\ (vals[i] = 1 <=> Kind(d, ins[i]) = "one")
  BY <1>3 DEF Bit
<1>5. ones = Ones(d, g)
  <2>1. \A i \in DOMAIN ins : Kind(d, ins[i]) = "one" => i \notin S
    BY DEF IsConst
  <2> QED
    BY <1>4, <2>1 DEF Ones
<1>6. PinValues(rest, v) = Restrict(vals, S)
  <2>1. rest = Restrict(ins, S)
    BY DEF VaryingPins
  <2> HIDE DEF S
  <2>2. S \in SUBSET DOMAIN ins
    BY DEF S
  <2> QED
    BY <2>1, <2>2, PinValuesRestrict DEF vals
<1> HIDE DEF vals
<1>7. /\ Cardinality(ones) \in Nat
      /\ Parity(vals) = IF Cardinality(ones) % 2 = 1 THEN Negate(Parity(Restrict(vals, S)))
                        ELSE Parity(Restrict(vals, S))
  <2>1. S \in SUBSET DOMAIN ins
    OBVIOUS
  <2> HIDE DEF S, ones
  <2>2. \A i \in DOMAIN ins \ S : vals[i] \in {0, 1}
    BY <1>4
  <2>3. ones = {i \in DOMAIN ins \ S : vals[i] = 1}
    BY DEF ones
  <2> QED
    BY <1>2, <2>1, <2>2, <2>3, ParityRest
<1> DEFINE p == Parity(PinValues(rest, v))
<1>8. p \in Signals
  <2>1. Restrict(vals, S) \in [S -> Signals] /\ IsFiniteSet(S)
    BY <1>2, FS_Subset DEF Restrict
  <2> HIDE DEF S
  <2>2. GateValue("XOR", Restrict(vals, S)) \in Signals
    BY <2>1, GateValueType
  <2> QED
    BY <1>6, <2>2 DEF GateValue
<1>9. Negate(Negate(p)) = p
  BY <1>8 DEF Negate, Signals, Undefined
<1>10. Parity(vals) = IF c % 2 = 1 THEN Negate(p) ELSE p
  BY <1>5, <1>6, <1>7
<1>11. Computed(d, g, v) = IF d.gates[g].type = "XNOR" THEN Negate(Parity(vals)) ELSE Parity(vals)
  BY DEF Computed, GateValue, vals
<1> HIDE DEF p, c
<1>12. ParityInverts(d, g) <=> ~((d.gates[g].type = "XNOR") <=> (c % 2 = 1))
  BY DEF ParityInverts, c
<1> QED
  BY <1>9, <1>10, <1>11, <1>12 DEF p

LEMMA ParityOnePin ==
  OnePinGate("XOR", FALSE) /\ OnePinGate("XNOR", TRUE)
<1>1. ASSUME NEW vals, NEW i, DOMAIN vals = {i}, vals[i] \in Signals
      PROVE  Parity(vals) = vals[i]
  BY <1>1, OnePinParity
<1> QED
  BY <1>1 DEF OnePinGate, GateValue

LEMMA ParityFate ==
  ASSUME NEW d, Consistent(d), NEW g \in GateIds(d), d.gates[g].type \in {"XOR", "XNOR"}
  PROVE  Fate(d, g, FoldParity(d, g))
<1> DEFINE ins == d.gates[g].ins
           kinds == Kinds(d, g)
           rest == VaryingPins(d, g)
           inverts == ParityInverts(d, g)
<1>1. IsNetlist(d) /\ d.gates[g].type # "BUF" /\ d.gates[g].type \notin {"NOT", "BUF"}
  BY DEF Consistent
<1>2. kinds = {"none"} => \A n \in Range(ins) : ~IsConst(d, n)
  BY <1>1, KindsFacts
<1>3. /\ DOMAIN rest = {} <=> "none" \notin kinds
      /\ DOMAIN rest = DOMAIN ins <=> kinds \subseteq {"none"}
  BY <1>1, VaryingFacts
<1>4. FoldParity(d, g) =
        CASE kinds = {"none"} -> Unchanged(d)
          [] "none" \notin kinds ->
               ReplaceGateWithNet(d, g, ConstNet(d, IF inverts THEN "one" ELSE "zero"))
          [] OTHER -> Reduce(d, g, IF inverts THEN "XNOR" ELSE "XOR", inverts)
  BY DEF FoldParity, Kinds
<1>5. \A v : Carries(d, v) =>
        Computed(d, g, v) = IF inverts THEN Negate(Parity(PinValues(rest, v)))
                            ELSE Parity(PinValues(rest, v))
  BY ParityValue
<1> HIDE DEF inverts, kinds, rest
<1>6. CASE kinds = {"none"}
  BY <1>2, <1>4, <1>6 DEF Fate, Stuck
<1>7. CASE "none" \notin kinds
  <2>1. \A v : Parity(PinValues(rest, v)) = 0
    <3>1. ASSUME NEW vals, DOMAIN vals = {}
          PROVE  Parity(vals) = 0
      <4>1. {i \in DOMAIN vals : vals[i] = 1} = {} /\ Range(vals) = {}
        BY <3>1 DEF Range
      <4>2. Cardinality({i \in DOMAIN vals : vals[i] = 1}) = 0
        BY <4>1, FS_EmptySet
      <4> QED
        BY <4>1, <4>2 DEF Parity
    <3>2. \A v : DOMAIN PinValues(rest, v) = {}
      BY <1>3, <1>7 DEF PinValues
    <3> QED
      BY <3>1, <3>2
  <2> DEFINE kind == IF inverts THEN "one" ELSE "zero"
  <2>2. \A v : Carries(d, v) => Computed(d, g, v) = Bit(kind)
    BY <1>5, <2>1 DEF Bit, Negate, Undefined
  <2>3. kind \in {"zero", "one"}
    OBVIOUS
  <2> HIDE DEF kind
  <2>4. Fate(d, g, ReplaceGateWithNet(d, g, ConstNet(d, kind)))
    BY <1>1, <2>2, <2>3, BecomesConstant
  <2> QED
    BY <1>4, <1>7, <2>4 DEF kind
<1>8. CASE kinds # {"none"} /\ "none" \in kinds
  <2>1. FoldParity(d, g) = Reduce(d, g, IF inverts THEN "XNOR" ELSE "XOR", inverts)
    BY <1>4, <1>8
  <2>2. DOMAIN rest # {} /\ DOMAIN rest # DOMAIN ins
    BY <1>3, <1>8
  <2>3. CASE inverts
    <3>1. \A v : Carries(d, v) => Computed(d, g, v) = GateValue("XNOR", PinValues(rest, v))
      BY <1>5, <2>3 DEF GateValue
    <3>2. "XNOR" \in CombTypes \ {"NOT", "BUF"}
      BY DEF CombTypes
    <3>3. Fate(d, g, Reduce(d, g, "XNOR", TRUE))
      BY <1>1, <2>2, <3>1, <3>2, ParityOnePin, ReduceFacts DEF rest
    <3>4. Reduce(d, g, "XNOR", inverts) = Reduce(d, g, "XNOR", TRUE)
      BY <2>3 DEF Reduce
    <3> QED
      BY <2>1, <2>3, <3>3, <3>4
  <2>4. CASE ~inverts
    <3>1. \A v : Carries(d, v) => Computed(d, g, v) = GateValue("XOR", PinValues(rest, v))
      BY <1>5, <2>4 DEF GateValue
    <3>2. "XOR" \in CombTypes \ {"NOT", "BUF"}
      BY DEF CombTypes
    <3>3. Fate(d, g, Reduce(d, g, "XOR", FALSE))
      BY <1>1, <2>2, <3>1, <3>2, ParityOnePin, ReduceFacts DEF rest
    <3>4. Reduce(d, g, "XOR", inverts) = Reduce(d, g, "XOR", FALSE)
      BY <2>4 DEF Reduce
    <3> QED
      BY <2>1, <2>4, <3>3, <3>4
  <2> QED
    BY <2>3, <2>4
<1> QED
  BY <1>6, <1>7, <1>8

(* simplifyGateWithConstant leaves a gate as it is, puts a net that        *)
(* carries its value in its place, or drops pins and keeps its value.      *)
LEMMA SimplifyCases ==
  ASSUME NEW d, Consistent(d), NEW g \in GateIds(d), Comb(d, g)
  PROVE  Fate(d, g, SimplifyGate(d, g))
<1> DEFINE t == d.gates[g].type
           pins == Cardinality(DOMAIN d.gates[g].ins)
<1>1. GateConsistent(d, g) /\ t \in CombTypes
  BY DEF Consistent, Comb
<1>2. d.gates[g].out # None /\ t \notin {"UNKNOWN", "DFF"}
  BY <1>1 DEF GateConsistent, CombTypes
<1>3. CASE t \in {"NOT", "BUF"}
  <2>1. pins = 1 /\ Fate(d, g, FoldUnary(d, g))
    BY <1>3, UnaryFate
  <2> QED
    BY <1>2, <1>3, <2>1 DEF SimplifyGate
<1>4. CASE t \notin {"NOT", "BUF"}
  <2>1. pins > 1 /\ pins \in Nat
    <3>1. IsFiniteSet(DOMAIN d.gates[g].ins)
      BY GateFacts DEF Consistent
    <3> QED
      BY <1>1, <1>4, <3>1, FS_CardinalityType DEF GateConsistent
  <2>2. ~(pins < 2)
    BY <2>1
  <2>3. SimplifyGate(d, g) = IF t \in {"XOR", "XNOR"} THEN FoldParity(d, g) ELSE FoldLattice(d, g)
    BY <1>2, <1>4, <2>2 DEF SimplifyGate
  <2>4. t \in {"XOR", "XNOR"} \/ t \in LatticeTypes
    BY <1>1, <1>4 DEF CombTypes, LatticeTypes
  <2>5. ~(t \in {"XOR", "XNOR"}) \/ ~(t \in LatticeTypes)
    BY DEF LatticeTypes
  <2> QED
    BY <2>3, <2>4, <2>5, ParityFate, LatticeFate
<1> QED
  BY <1>3, <1>4

-----------------------------------------------------------------------------
(* What a visit does.                                                      *)

(* A gate of this type and pins may take the place of gate g.              *)
Replaces(d, g, type, ins) ==
  /\ FitsGate(d, type, ins) /\ d.gates[g].type # "BUF"
  /\ \A i \in DOMAIN ins : ins[i] \in Range(d.gates[g].ins) \/ IsConst(d, ins[i])
  /\ \A v : Carries(d, v) => Computed(d, g, v) = GateValue(type, PinValues(ins, v))
  /\ type = "BUF" \/ Cardinality(DOMAIN ins) < Cardinality(DOMAIN d.gates[g].ins)

(* The gate stays as it is, is rewritten, or is buried.                    *)
Stays(d, g, r) ==
  /\ r = Unchanged(d)
  /\ Stuck(d, g) \/ (d.gates[g].type = "BUF" /\ d.nets[d.gates[g].out].po)
Rewrites(d, g, r) ==
  \E type, ins : Replaces(d, g, type, ins) /\ r = Rewritten(d, g, type, ins)
Buries(d, g, r) ==
  \E src : /\ Wire(d, g, src) /\ ~d.nets[d.gates[g].out].po
           /\ r = [nl |-> Buried(d, g, src), changed |-> TRUE]

LEMMA VisitCases ==
  ASSUME NEW d, Consistent(d), NEW g \in GateIds(d), Comb(d, g), NEW r, r = SimplifyGate(d, g)
  PROVE  Stays(d, g, r) \/ Rewrites(d, g, r) \/ Buries(d, g, r)
<1> DEFINE ins0 == d.gates[g].ins
<1>1. Fate(d, g, r)
  BY SimplifyCases
<1>2. IsNetlist(d) /\ GateConsistent(d, g)
  BY DEF Consistent
<1>3. CASE r = Unchanged(d) /\ Stuck(d, g)
  BY <1>3 DEF Stays
<1>4. ASSUME NEW src, Wire(d, g, src), r = ReplaceGateWithNet(d, g, src)
      PROVE  Stays(d, g, r) \/ Rewrites(d, g, r) \/ Buries(d, g, r)
  <2>1. src \in NetIds(d) /\ src # None /\ Active(d, src)
    BY <1>2, <1>4, IdFacts DEF Wire
  <2>2. CASE ~d.nets[d.gates[g].out].po
    BY <1>4, <2>1, <2>2 DEF ReplaceGateWithNet, Buries, Buried
  <2>3. CASE d.nets[d.gates[g].out].po
    <3>1. r = RewriteGate(d, g, "BUF", <<src>>)
      BY <1>4, <2>1, <2>3 DEF ReplaceGateWithNet
    <3>2. CASE d.gates[g].type = "BUF"
      <4>1. ins0 = <<src>>
        BY <1>4, <3>2 DEF Wire
      <4> QED
        BY <2>3, <3>1, <3>2, <4>1 DEF Stays, RewriteGate
    <3>3. CASE d.gates[g].type # "BUF"
      <4>1. DOMAIN <<src>> = {1} /\ <<src>>[1] = src
        OBVIOUS
      <4>2. FitsGate(d, "BUF", <<src>>)
        <5>1. IsFiniteSet({1})
          BY FS_Singleton
        <5>2. <<src>> \in [{1} -> {None} \cup NetIds(d)]
          BY <2>1, <4>1
        <5> QED
          BY <2>1, <4>1, <5>1, <5>2 DEF FitsGate, CombTypes
      <4>3. \A i \in DOMAIN <<src>> : <<src>>[i] \in Range(ins0) \/ IsConst(d, <<src>>[i])
        BY <1>4, <2>1, <4>1 DEF Wire, IsConst, Kind
      <4>4. ASSUME NEW v, Carries(d, v)
            PROVE  Computed(d, g, v) = GateValue("BUF", PinValues(<<src>>, v))
        <5>1. Range(PinValues(<<src>>, v)) = {v[src]}
          BY <2>1, <4>1 DEF PinValues, Range
        <5>2. GateValue("BUF", PinValues(<<src>>, v)) = v[src]
          BY <5>1 DEF GateValue, Copy
        <5> QED
          BY <1>4, <4>4, <5>2 DEF Wire
      <4>5. Replaces(d, g, "BUF", <<src>>)
        BY <3>3, <4>2, <4>3, <4>4 DEF Replaces
      <4>6. r = Rewritten(d, g, "BUF", <<src>>)
        BY <3>1, <3>3 DEF RewriteGate
      <4> QED
        BY <4>5, <4>6 DEF Rewrites
    <3> QED
      BY <3>2, <3>3
  <2> QED
    BY <2>2, <2>3
<1>5. ASSUME NEW type, NEW ins, Smaller(d, g, type, ins), r = RewriteGate(d, g, type, ins)
      PROVE  Rewrites(d, g, r)
  <2>1. IsFiniteSet(DOMAIN ins0)
    BY <1>2, GateFacts
  <2>2. Cardinality(DOMAIN ins0) \in Nat
    BY <2>1, FS_CardinalityType
  <2>3. ins # ins0
    BY <1>5, <2>2 DEF Smaller
  <2>4. r = Rewritten(d, g, type, ins)
    BY <1>5, <2>3 DEF RewriteGate
  <2>5. \A i \in DOMAIN ins : ins[i] \in Range(ins0)
    BY <1>5 DEF Smaller, Range
  <2>6. Replaces(d, g, type, ins)
    BY <1>5, <2>5 DEF Smaller, Replaces
  <2> QED
    BY <2>4, <2>6 DEF Rewrites
<1> QED
  BY <1>1, <1>3, <1>4, <1>5 DEF Fate

(* A solution respects the constants.                                      *)
LEMMA SolutionCarries ==
  ASSUME NEW d, Consistent(d), NEW env, NEW v, Solution(d, env, v)
  PROVE  Carries(d, v)
<1>1. ASSUME NEW n \in NetIds(d), d.nets[n].con # "none"
      PROVE  v[n] = Bit(d.nets[n].con)
  <2>1. NetConsistent(d, n) /\ d.nets[n].con \in ConstKinds
    BY NetFacts DEF Consistent
  <2>2. ~CombDriven(d, n)
    BY <1>1, <2>1 DEF NetConsistent, CombDriven
  <2>3. v[n] = Start(d, env)[n]
    BY <2>2, SweepFacts DEF Solution
  <2> QED
    BY <1>1, <2>1, <2>3 DEF Start, Bit, ConstKinds
<1> QED
  BY <1>1 DEF Carries, Solution

(* What feeds a gate comes before it.                                      *)
LEMMA FeedsLater ==
  ASSUME NEW d, DriversFirst(d), NEW g \in GateIds(d), Comb(d, g),
         NEW n \in Range(d.gates[g].ins), CombDriven(d, n), n # None
  PROVE  d.nets[n].driver < g
<1>1. PICK i \in DOMAIN d.gates[g].ins : n = d.gates[g].ins[i]
  BY DEF Range
<1>2. <<g, i>> \in Pins(d)
  BY DEF Pins
<1> QED
  BY <1>1, <1>2 DEF DriversFirst

(* The net that takes over comes before the gate.                          *)
LEMMA WireFacts ==
  ASSUME NEW d, Consistent(d), DriversFirst(d), NEW g \in GateIds(d), Comb(d, g),
         NEW src, Wire(d, g, src)
  PROVE  /\ src # d.gates[g].out
         /\ CombDriven(d, src) => d.nets[src].driver < g
<1>1. IsNetlist(d) /\ GateConsistent(d, g)
  BY DEF Consistent
<1>2. src \in NetIds(d) /\ src # None
  BY <1>1, IdFacts DEF Wire
<1>3. NetConsistent(d, src)
  BY <1>2 DEF Consistent
<1>4. CombDriven(d, src) => d.nets[src].driver < g
  <2>1. CASE d.nets[src].con # "none"
    BY <1>3, <2>1 DEF NetConsistent, CombDriven
  <2>2. CASE src \in Range(d.gates[g].ins)
    BY <1>2, <2>2, FeedsLater
  <2> QED
    BY <2>1, <2>2 DEF Wire
<1>5. g \in Nat /\ g # None
  BY <1>1, IdFacts
<1>6. d.gates[g].out # None /\ d.nets[d.gates[g].out].driver = g
  BY <1>1 DEF GateConsistent, Comb
<1> QED
  BY <1>4, <1>5, <1>6 DEF CombDriven

-----------------------------------------------------------------------------
(* What the fold never touches.                                            *)

(* e has the ports, constants and flip-flops of d, and keeps the driver of *)
(* every output port.                                                      *)
Frame(d, e) ==
  /\ GateIds(e) = GateIds(d) /\ NetIds(e) = NetIds(d)
  /\ Sources(e) = Sources(d) /\ DffPins(e) = DffPins(d)
  /\ \A n \in NetIds(d) :
       /\ e.nets[n].con = d.nets[n].con
       /\ e.nets[n].pi = d.nets[n].pi
       /\ e.nets[n].po = d.nets[n].po
       /\ e.nets[n].removed = d.nets[n].removed
       /\ d.nets[n].po => e.nets[n].driver = d.nets[n].driver
  /\ \A h \in GateIds(d) :
       /\ e.gates[h].type = "DFF" <=> d.gates[h].type = "DFF"
       /\ d.gates[h].type = "DFF" => e.gates[h].out = d.gates[h].out

LEMMA FrameReflexive ==
  ASSUME NEW d
  PROVE  Frame(d, d)
BY DEF Frame

LEMMA FrameTransitive ==
  ASSUME NEW d, NEW e, NEW f, Frame(d, e), Frame(e, f)
  PROVE  Frame(d, f)
BY DEF Frame

LEMMA SameButLoadsFrame ==
  ASSUME NEW d, NEW e, SameButLoads(d, e)
  PROVE  Frame(d, e)
<1>1. Sources(e) = Sources(d)
  <2>1. \A n \in NetIds(d) : (e.nets[n].pi <=> d.nets[n].pi) /\ (DrivenByDff(e, n) <=> DrivenByDff(d, n))
    BY DEF SameButLoads, DrivenByDff
  <2> QED
    BY <2>1 DEF Sources, SameButLoads
<1>2. DffPins(e) = DffPins(d)
  BY DEF SameButLoads, DffPins, Pins
<1> QED
  BY <1>1, <1>2 DEF Frame, SameButLoads

(* A pin of a design, and a pin of a flip-flop.                            *)
LEMMA PinFacts ==
  ASSUME NEW d
  PROVE  /\ \A p : p \in Pins(d) <=> \E g \in GateIds(d) : \E i \in DOMAIN d.gates[g].ins : p = <<g, i>>
         /\ \A p \in Pins(d) : /\ p[1] \in GateIds(d)
                               /\ p[2] \in DOMAIN d.gates[p[1]].ins
                               /\ p = <<p[1], p[2]>>
         /\ \A p : p \in DffPins(d) <=> p \in Pins(d) /\ d.gates[p[1]].type = "DFF"
BY DEF Pins, DffPins

LEMMA SameDffPins ==
  ASSUME NEW d, NEW e, GateIds(e) = GateIds(d),
         \A h \in GateIds(d) : /\ e.gates[h].type = "DFF" <=> d.gates[h].type = "DFF"
                               /\ d.gates[h].type = "DFF" =>
                                    DOMAIN e.gates[h].ins = DOMAIN d.gates[h].ins
  PROVE  DffPins(e) = DffPins(d)
<1>1. \A p : p \in DffPins(e) <=> \E g \in GateIds(d) : \E i \in DOMAIN e.gates[g].ins :
                                     p = <<g, i>> /\ e.gates[g].type = "DFF"
  BY PinFacts
<1>2. \A p : p \in DffPins(d) <=> \E g \in GateIds(d) : \E i \in DOMAIN d.gates[g].ins :
                                     p = <<g, i>> /\ d.gates[g].type = "DFF"
  BY PinFacts
<1>3. \A p : p \in DffPins(e) <=> p \in DffPins(d)
  BY <1>1, <1>2
<1> QED
  BY <1>3

LEMMA RewrittenFrame ==
  ASSUME NEW d, Consistent(d), NEW g \in GateIds(d), Comb(d, g),
         NEW type, NEW ins, Replaces(d, g, type, ins), NEW e, e = Rewritten(d, g, type, ins).nl
  PROVE  Frame(d, e) /\ \A h \in GateIds(d) : Comb(e, h) <=> Comb(d, h)
<1>1. /\ GateIds(e) = GateIds(d) /\ NetIds(e) = NetIds(d) /\ e.nets = d.nets
      /\ e.gates = [h \in GateIds(d) |-> e.gates[h]]
      /\ \A h \in GateIds(d) \ {g} : e.gates[h] = d.gates[h]
      /\ e.gates[g].type = type /\ e.gates[g].ins = ins /\ e.gates[g].out = d.gates[g].out
  <2>1. IsNetlist(d)
    BY DEF Consistent
  <2> QED
    BY <2>1, RewrittenFacts
<1>2. type \in CombTypes /\ d.gates[g].type \in CombTypes
  BY DEF Replaces, FitsGate, Comb
<1>3. \A h \in GateIds(d) : e.gates[h].type = "DFF" <=> d.gates[h].type = "DFF"
  BY <1>1, <1>2 DEF CombTypes
<1>4. DffPins(e) = DffPins(d)
  <2>1. d.gates[g].type # "DFF"
    BY <1>2 DEF CombTypes
  <2> QED
    BY <1>1, <1>3, <2>1, SameDffPins
<1>5. Sources(e) = Sources(d)
  <2>1. ASSUME NEW n \in NetIds(d)
        PROVE  DrivenByDff(e, n) <=> DrivenByDff(d, n)
    <3>1. d.nets[n].driver \in {None} \cup GateIds(d)
      BY NetFacts DEF Consistent
    <3> QED
      BY <1>1, <1>3, <3>1 DEF DrivenByDff
  <2> QED
    BY <1>1, <2>1 DEF Sources
<1>6. \A h \in GateIds(d) : Comb(e, h) <=> Comb(d, h)
  BY <1>1, <1>2 DEF Comb
<1>7. \A h \in GateIds(d) : d.gates[h].type = "DFF" => e.gates[h].out = d.gates[h].out
  BY <1>1
<1> QED
  BY <1>1, <1>3, <1>4, <1>5, <1>6, <1>7 DEF Frame

LEMMA BuriedComb ==
  ASSUME NEW d, NEW g, NEW out, NEW src, NEW e, BuriedShape(d, g, out, src, e)
  PROVE  \A h \in GateIds(d) \ {g} : Comb(e, h) <=> Comb(d, h)
BY DEF BuriedShape, Comb

LEMMA BuriedFrame ==
  ASSUME NEW d, Consistent(d), NEW g \in GateIds(d), Comb(d, g), NEW out, out = d.gates[g].out,
         ~d.nets[out].po, NEW src, NEW e, BuriedShape(d, g, out, src, e)
  PROVE  Frame(d, e)
<1>1. IsNetlist(d) /\ GateConsistent(d, g)
  BY DEF Consistent
<1>2. /\ GateIds(e) = GateIds(d) /\ NetIds(e) = NetIds(d)
      /\ e.gates[g].type = "UNKNOWN"
  BY DEF BuriedShape, Tombstone, Gate
<1>3. \A h \in GateIds(d) \ {g} :
        /\ e.gates[h].type = d.gates[h].type
        /\ e.gates[h].out = d.gates[h].out
        /\ DOMAIN e.gates[h].ins = DOMAIN d.gates[h].ins
  BY DEF BuriedShape, MovedPins
<1>4. \A n \in NetIds(d) :
        /\ e.nets[n].driver = IF n = out THEN None ELSE d.nets[n].driver
        /\ e.nets[n].con = d.nets[n].con /\ e.nets[n].pi = d.nets[n].pi
        /\ e.nets[n].po = d.nets[n].po /\ e.nets[n].removed = d.nets[n].removed
  BY DEF BuriedShape
<1>5. d.gates[g].type # "DFF"
  BY DEF Comb, CombTypes
<1>6. \A h \in GateIds(d) : e.gates[h].type = "DFF" <=> d.gates[h].type = "DFF"
  BY <1>2, <1>3, <1>5
<1>7. DffPins(e) = DffPins(d)
  BY <1>2, <1>3, <1>5, <1>6, SameDffPins
<1>8. d.nets[out].driver = g
  BY <1>1 DEF GateConsistent, Comb
<1>9. Sources(e) = Sources(d)
  <2>1. ASSUME NEW n \in NetIds(d)
        PROVE  DrivenByDff(e, n) <=> DrivenByDff(d, n)
    <3>1. d.nets[n].driver \in {None} \cup GateIds(d)
      BY <1>1, NetFacts
    <3> QED
      BY <1>4, <1>5, <1>6, <1>8, <3>1 DEF DrivenByDff
  <2> QED
    BY <1>2, <1>4, <2>1 DEF Sources
<1>10. \A n \in NetIds(d) : d.nets[n].po => e.nets[n].driver = d.nets[n].driver
  BY <1>4
<1>11. \A h \in GateIds(d) : d.gates[h].type = "DFF" => e.gates[h].out = d.gates[h].out
  BY <1>3, <1>5
<1> QED
  BY <1>2, <1>3, <1>4, <1>6, <1>7, <1>9, <1>10, <1>11 DEF Frame

-----------------------------------------------------------------------------
(* Visiting in id order.                                                   *)

(* The load list of every gate still to be visited names the gates it has. *)
LoadsKnown(d, S) ==
  \A k \in S : \A h \in GateIds(d) :
    Live(d, h) /\ PinsOn(d, h, d.gates[k].out) # {} => d.nets[d.gates[k].out].loads[h] > 0

(* The outputs of combinational gates are nets they drive, no constants.   *)
LEMMA OutFacts ==
  ASSUME NEW d, Consistent(d), NEW g \in GateIds(d), Comb(d, g)
  PROVE  LET out == d.gates[g].out IN
         /\ out \in NetIds(d) /\ out # None /\ Active(d, out)
         /\ d.nets[out].driver = g /\ CombDriven(d, out)
         /\ d.nets[out].con = "none" /\ ~IsConst(d, out)
         /\ g \in Nat /\ g # None
<1> DEFINE out == d.gates[g].out
<1>1. IsNetlist(d) /\ GateConsistent(d, g)
  BY DEF Consistent
<1>2. out # None /\ Active(d, out) /\ d.nets[out].driver = g
  BY <1>1 DEF GateConsistent, Comb
<1>3. out \in NetIds(d) /\ g \in Nat /\ g # None
  BY <1>1, <1>2, GateFacts, IdFacts
<1>4. NetConsistent(d, out)
  BY <1>3 DEF Consistent
<1> QED
  BY <1>2, <1>3, <1>4 DEF NetConsistent, CombDriven, IsConst, Kind

LEMMA RewrittenOrder ==
  ASSUME NEW d, Consistent(d), DriversFirst(d), NEW g \in GateIds(d), Comb(d, g),
         NEW type, NEW ins, Replaces(d, g, type, ins), NEW e, e = Rewritten(d, g, type, ins).nl
  PROVE  DriversFirst(e)
<1>1. IsNetlist(d)
  BY DEF Consistent
<1>2. /\ GateIds(e) = GateIds(d) /\ NetIds(e) = NetIds(d) /\ e.nets = d.nets
      /\ e.gates = [h \in GateIds(d) |-> e.gates[h]]
      /\ \A h \in GateIds(d) \ {g} : e.gates[h] = d.gates[h]
      /\ e.gates[g].type = type /\ e.gates[g].ins = ins /\ e.gates[g].out = d.gates[g].out
  BY <1>1, RewrittenFacts
<1>3. \A h \in GateIds(d) : Comb(e, h) <=> Comb(d, h)
  BY RewrittenFrame
<1> SUFFICES ASSUME NEW p \in Pins(e), Comb(e, p[1]), e.gates[p[1]].ins[p[2]] # None,
                    CombDriven(e, e.gates[p[1]].ins[p[2]])
             PROVE  e.nets[e.gates[p[1]].ins[p[2]]].driver < p[1]
  BY DEF DriversFirst
<1> DEFINE h == p[1]
           n == e.gates[h].ins[p[2]]
<1>4. h \in GateIds(d) /\ p[2] \in DOMAIN e.gates[h].ins /\ Comb(d, h)
  BY <1>2, <1>3, PinFacts
<1>5. n \in NetIds(d)
  <2>1. Consistent(e)
    BY RewrittenConsistent DEF Replaces
  <2>2. IsNetlist(e)
    BY <2>1 DEF Consistent
  <2> QED
    BY <1>2, <1>4, <2>2, GateFacts
<1>6. CombDriven(d, n) /\ d.nets[n].driver = e.nets[n].driver
  <2>1. d.nets[n].driver \in {None} \cup GateIds(d)
    BY <1>1, <1>5, NetFacts
  <2> QED
    BY <1>2, <1>3, <2>1 DEF CombDriven
<1>7. ~IsConst(d, n)
  <2>1. NetConsistent(d, n)
    BY <1>5 DEF Consistent
  <2> QED
    BY <1>6, <2>1 DEF NetConsistent, CombDriven, IsConst, Kind
<1>8. n \in Range(d.gates[h].ins)
  <2>1. CASE h = g
    BY <1>2, <1>4, <1>7, <2>1 DEF Replaces
  <2>2. CASE h # g
    BY <1>2, <1>4, <2>2 DEF Range
  <2> QED
    BY <2>1, <2>2
<1> QED
  BY <1>4, <1>6, <1>8, FeedsLater

(* A pin after g has been buried is where it was, or was on its net and    *)
(* is now on src.                                                          *)
LEMMA BuriedPins ==
  ASSUME NEW d, NEW g \in GateIds(d), NEW out, NEW src, NEW e, BuriedShape(d, g, out, src, e),
         NEW h \in GateIds(d), NEW i \in DOMAIN e.gates[h].ins
  PROVE  /\ h # g /\ i \in DOMAIN d.gates[h].ins
         /\ \/ e.gates[h].ins[i] = d.gates[h].ins[i]
                 /\ (d.gates[h].ins[i] = out => d.nets[out].loads[h] = 0)
            \/ e.gates[h].ins[i] = src /\ d.gates[h].ins[i] = out
<1>1. e.gates[g].ins = <<>>
  BY DEF BuriedShape, Tombstone, Gate
<1>2. h # g
  BY <1>1
<1>3. e.gates[h].ins = MovedPins(d, h, out, src)
  BY <1>2 DEF BuriedShape
<1> QED
  BY <1>2, <1>3 DEF MovedPins, Moved

LEMMA BuriedOrder ==
  ASSUME NEW d, Consistent(d), DriversFirst(d), NEW g \in GateIds(d), Comb(d, g),
         NEW out, out = d.gates[g].out, ~d.nets[out].po,
         NEW src, Wire(d, g, src), NEW e, BuriedShape(d, g, out, src, e)
  PROVE  DriversFirst(e)
<1>1. IsNetlist(d)
  BY DEF Consistent
<1>2. GateIds(e) = GateIds(d) /\ \A h \in GateIds(d) \ {g} : Comb(e, h) <=> Comb(d, h)
  <2>1. GateIds(e) = GateIds(d)
    BY DEF BuriedShape
  <2> QED
    BY <2>1, BuriedComb
<1>3. \A n \in NetIds(d) : e.nets[n].driver = IF n = out THEN None ELSE d.nets[n].driver
  BY DEF BuriedShape
<1>4. ~Comb(e, g)
  BY DEF BuriedShape, Comb, CombTypes, Tombstone, Gate
<1> SUFFICES ASSUME NEW p \in Pins(e), Comb(e, p[1]), e.gates[p[1]].ins[p[2]] # None,
                    CombDriven(e, e.gates[p[1]].ins[p[2]])
             PROVE  e.nets[e.gates[p[1]].ins[p[2]]].driver < p[1]
  BY DEF DriversFirst
<1> DEFINE h == p[1]
           i == p[2]
           n == e.gates[h].ins[i]
<1>5. h \in GateIds(d) /\ i \in DOMAIN e.gates[h].ins /\ h # g
  BY <1>2, <1>4, PinFacts
<1>6. /\ i \in DOMAIN d.gates[h].ins
      /\ n = d.gates[h].ins[i] \/ (n = src /\ d.gates[h].ins[i] = out)
  BY <1>5, BuriedPins
<1>7. n \in NetIds(d) /\ d.gates[h].ins[i] \in Range(d.gates[h].ins)
  <2>1. d.gates[h].ins[i] \in {None} \cup NetIds(d)
    BY <1>1, <1>5, <1>6, GateFacts
  <2> QED
    BY <1>6, <2>1 DEF Wire, Range
<1>8. CombDriven(d, n) /\ e.nets[n].driver = d.nets[n].driver /\ n # out
  <2>1. d.nets[n].driver \in {None} \cup GateIds(d)
    BY <1>1, <1>7, NetFacts
  <2> QED
    BY <1>2, <1>3, <1>4, <1>7, <2>1 DEF CombDriven
<1>9. Comb(d, h)
  BY <1>2, <1>5
<1>10. CASE n = d.gates[h].ins[i]
  BY <1>5, <1>7, <1>8, <1>9, <1>10, FeedsLater
<1>11. CASE n = src /\ d.gates[h].ins[i] = out
  <2>1. out # None /\ CombDriven(d, out) /\ d.nets[out].driver = g
    BY OutFacts
  <2>2. g < h
    BY <1>5, <1>7, <1>9, <1>11, <2>1, FeedsLater
  <2>3. d.nets[src].driver < g
    BY <1>8, <1>11, WireFacts
  <2>4. g \in Nat /\ h \in Nat /\ d.nets[src].driver \in Nat
    BY <1>1, <1>5, <1>7, <1>11, IdFacts, NetFacts DEF None
  <2> QED
    BY <1>8, <1>11, <2>2, <2>3, <2>4
<1> QED
  BY <1>6, <1>10, <1>11

LEMMA RewrittenLoads ==
  ASSUME NEW d, Consistent(d), NEW g \in GateIds(d), Comb(d, g),
         NEW type, NEW ins, Replaces(d, g, type, ins), NEW e, e = Rewritten(d, g, type, ins).nl,
         NEW S, S \subseteq {k \in GateIds(d) : Comb(d, k)}, LoadsKnown(d, S)
  PROVE  LoadsKnown(e, S \ {g})
<1>1. IsNetlist(d)
  BY DEF Consistent
<1>2. /\ GateIds(e) = GateIds(d) /\ NetIds(e) = NetIds(d) /\ e.nets = d.nets
      /\ e.gates = [h \in GateIds(d) |-> e.gates[h]]
      /\ \A h \in GateIds(d) \ {g} : e.gates[h] = d.gates[h]
      /\ e.gates[g].type = type /\ e.gates[g].ins = ins /\ e.gates[g].out = d.gates[g].out
  BY <1>1, RewrittenFacts
<1> SUFFICES ASSUME NEW k \in S \ {g}, NEW h \in GateIds(d), Live(e, h),
                    PinsOn(e, h, e.gates[k].out) # {}
             PROVE  e.nets[e.gates[k].out].loads[h] > 0
  BY <1>2 DEF LoadsKnown
<1> DEFINE m == d.gates[k].out
<1>3. k \in GateIds(d) /\ Comb(d, k) /\ e.gates[k].out = m
  BY <1>2
<1>4. ~IsConst(d, m)
  BY <1>3, OutFacts
<1>5. CASE h # g
  BY <1>2, <1>3, <1>5 DEF LoadsKnown, Live, PinsOn
<1>6. CASE h = g
  <2>1. PICK i \in DOMAIN ins : ins[i] = m
    BY <1>2, <1>3, <1>6 DEF PinsOn
  <2>2. m \in Range(d.gates[g].ins)
    BY <1>4, <2>1 DEF Replaces
  <2>3. PinsOn(d, g, m) # {}
    BY <2>2 DEF PinsOn, Range
  <2>4. Live(d, g)
    BY DEF Live, Comb, CombTypes
  <2>5. d.nets[m].loads[g] > 0
    BY <1>3, <2>3, <2>4 DEF LoadsKnown
  <2> QED
    BY <1>2, <1>3, <1>6, <2>5
<1> QED
  BY <1>5, <1>6

LEMMA BuriedLoads ==
  ASSUME NEW d, Consistent(d), DriversFirst(d), NEW g \in GateIds(d), Comb(d, g),
         NEW out, out = d.gates[g].out, NEW src, Wire(d, g, src),
         NEW e, BuriedShape(d, g, out, src, e),
         NEW S, S \subseteq {k \in GateIds(d) : Comb(d, k)}, \A k \in S : g <= k, LoadsKnown(d, S)
  PROVE  LoadsKnown(e, S \ {g})
<1>1. IsNetlist(d) /\ GateIds(e) = GateIds(d)
  BY DEF Consistent, BuriedShape
<1> SUFFICES ASSUME NEW k \in S \ {g}, NEW h \in GateIds(d), Live(e, h),
                    PinsOn(e, h, e.gates[k].out) # {}
             PROVE  e.nets[e.gates[k].out].loads[h] > 0
  BY <1>1 DEF LoadsKnown
<1> DEFINE m == d.gates[k].out
<1>2. k \in GateIds(d) /\ Comb(d, k) /\ k # g /\ g <= k
  OBVIOUS
<1>3. e.gates[k].out = m
  BY <1>2 DEF BuriedShape
<1>4. m \in NetIds(d) /\ CombDriven(d, m) /\ d.nets[m].driver = k /\ k \in Nat
  BY <1>2, OutFacts
<1>5. d.nets[out].driver = g /\ g \in Nat
  BY OutFacts
<1>6. m # out
  BY <1>2, <1>4, <1>5
<1>7. e.nets[m].loads = d.nets[m].loads
  BY <1>4, <1>6 DEF BuriedShape
<1>8. PICK i \in DOMAIN e.gates[h].ins : e.gates[h].ins[i] = m
  BY <1>3 DEF PinsOn
<1>9. /\ h # g /\ i \in DOMAIN d.gates[h].ins
      /\ m = d.gates[h].ins[i] \/ m = src
  BY <1>8, BuriedPins
<1>10. m # src
  <2>1. CombDriven(d, src) => d.nets[src].driver < g
    BY WireFacts
  <2> QED
    BY <1>2, <1>4, <1>5, <2>1
<1>11. PinsOn(d, h, m) # {} /\ Live(d, h)
  <2>1. e.gates[h].type = d.gates[h].type
    BY <1>9 DEF BuriedShape
  <2> QED
    BY <1>9, <1>10, <2>1 DEF PinsOn, Live
<1>12. d.nets[m].loads[h] > 0
  BY <1>11 DEF LoadsKnown
<1> QED
  BY <1>3, <1>7, <1>12

-----------------------------------------------------------------------------
(* What the nets carry across a visit.                                     *)

(* Ports and flip-flop pins carry in e what they carry in d.               *)
SameValues(d, e) ==
  \A env \in [Sources(d) -> {0, 1}] :
    /\ \A n \in NetIds(d) : d.nets[n].po => Settle(e, env)[n] = Settle(d, env)[n]
    /\ \A p \in DffPins(d) : Seen(e, p, Settle(e, env)) = Seen(d, p, Settle(d, env))

LEMMA SameValuesReflexive ==
  ASSUME NEW d
  PROVE  SameValues(d, d)
BY DEF SameValues

LEMMA SameValuesTransitive ==
  ASSUME NEW d, NEW e, NEW f, Frame(d, e), SameValues(d, e), SameValues(e, f)
  PROVE  SameValues(d, f)
<1> SUFFICES ASSUME NEW env \in [Sources(d) -> {0, 1}]
             PROVE  /\ \A n \in NetIds(d) : d.nets[n].po => Settle(f, env)[n] = Settle(d, env)[n]
                    /\ \A p \in DffPins(d) : Seen(f, p, Settle(f, env)) = Seen(d, p, Settle(d, env))
  BY DEF SameValues
<1>1. env \in [Sources(e) -> {0, 1}]
  BY DEF Frame
<1>2. /\ \A n \in NetIds(d) : d.nets[n].po => Settle(e, env)[n] = Settle(d, env)[n]
      /\ \A p \in DffPins(d) : Seen(e, p, Settle(e, env)) = Seen(d, p, Settle(d, env))
  BY DEF SameValues
<1>3. /\ \A n \in NetIds(e) : e.nets[n].po => Settle(f, env)[n] = Settle(e, env)[n]
      /\ \A p \in DffPins(e) : Seen(f, p, Settle(f, env)) = Seen(e, p, Settle(e, env))
  BY <1>1 DEF SameValues
<1>4. \A n \in NetIds(d) : d.nets[n].po => Settle(f, env)[n] = Settle(d, env)[n]
  BY <1>2, <1>3 DEF Frame
<1>5. \A p \in DffPins(d) : Seen(f, p, Settle(f, env)) = Seen(d, p, Settle(d, env))
  BY <1>2, <1>3 DEF Frame
<1> QED
  BY <1>4, <1>5

LEMMA SameValuesSameFunction ==
  ASSUME NEW d, NEW e, Frame(d, e), SameValues(d, e)
  PROVE  SameFunction(d, e)
<1>1. Sources(d) = Sources(e) /\ DffPins(d) = DffPins(e)
  BY DEF Frame
<1>2. OutputPorts(d) = OutputPorts(e)
  BY DEF OutputPorts, Frame
<1>3. \A n \in OutputPorts(d) : n \in NetIds(d) /\ d.nets[n].po
  BY DEF OutputPorts
<1> QED
  BY <1>1, <1>2, <1>3 DEF SameFunction, SameValues

LEMMA RewrittenSolution ==
  ASSUME NEW d, Consistent(d), NEW env \in [Sources(d) -> {0, 1}], NEW g \in GateIds(d), Comb(d, g),
         NEW type, NEW ins, Replaces(d, g, type, ins), NEW e, e = Rewritten(d, g, type, ins).nl,
         NEW v, Solution(d, env, v)
  PROVE  Solution(e, env, v)
<1>1. IsNetlist(d)
  BY DEF Consistent
<1>2. /\ GateIds(e) = GateIds(d) /\ NetIds(e) = NetIds(d) /\ e.nets = d.nets
      /\ e.gates = [h \in GateIds(d) |-> e.gates[h]]
      /\ \A h \in GateIds(d) \ {g} : e.gates[h] = d.gates[h]
      /\ e.gates[g].type = type /\ e.gates[g].ins = ins /\ e.gates[g].out = d.gates[g].out
  BY <1>1, RewrittenFacts
<1>3. Frame(d, e) /\ \A h \in GateIds(d) : Comb(e, h) <=> Comb(d, h)
  BY RewrittenFrame
<1>4. Start(e, env) = Start(d, env)
  BY <1>2 DEF Start
<1>5. Carries(d, v)
  BY SolutionCarries
<1>6. ASSUME NEW n \in NetIds(d)
      PROVE  v[n] = Sweep(e, env, v)[n]
  <2>1. v[n] = Sweep(d, env, v)[n]
    BY DEF Solution
  <2>2. d.nets[n].driver \in {None} \cup GateIds(d)
    BY <1>1, NetFacts
  <2>3. CombDriven(e, n) <=> CombDriven(d, n)
    BY <1>2, <1>3, <2>2 DEF CombDriven
  <2>4. CASE ~CombDriven(d, n)
    BY <1>2, <1>4, <2>1, <2>3, <2>4, SweepFacts
  <2>5. CASE CombDriven(d, n)
    <3> DEFINE h == d.nets[n].driver
    <3>1. h \in GateIds(d)
      BY <2>2, <2>5 DEF CombDriven
    <3>2. v[n] = Computed(d, h, v)
      BY <2>1, <2>5, SweepFacts DEF Computed
    <3>3. Sweep(e, env, v)[n] = Computed(e, h, v)
      BY <1>2, <2>3, <2>5, SweepFacts DEF Computed
    <3>4. Computed(e, h, v) = Computed(d, h, v)
      <4>1. CASE h # g
        BY <1>2, <3>1, <4>1 DEF Computed
      <4>2. CASE h = g
        <5>1. Computed(d, g, v) = GateValue(type, PinValues(ins, v))
          BY <1>5 DEF Replaces
        <5> QED
          BY <1>2, <4>2, <5>1 DEF Computed
      <4> QED
        BY <4>1, <4>2
    <3> QED
      BY <3>2, <3>3, <3>4
  <2> QED
    BY <2>4, <2>5
<1> QED
  BY <1>2, <1>6 DEF Solution

(* The values after gate g is buried: its net falls back to its start.     *)
Fallen(d, env, out, v) == [v EXCEPT ![out] = Start(d, env)[out]]

LEMMA BuriedSees ==
  ASSUME NEW d, Consistent(d), DriversFirst(d), NEW env \in [Sources(d) -> {0, 1}],
         NEW g \in GateIds(d), Comb(d, g), NEW out, out = d.gates[g].out,
         NEW src, Wire(d, g, src), NEW e, BuriedShape(d, g, out, src, e), LoadsKnown(d, {g}),
         NEW v, Solution(d, env, v), NEW w, w = Fallen(d, env, out, v),
         NEW h \in GateIds(d) \ {g}, Live(d, h)
  PROVE  PinValues(e.gates[h].ins, w) = PinValues(d.gates[h].ins, v)
<1>1. IsNetlist(d)
  BY DEF Consistent
<1>2. e.gates[h].ins = MovedPins(d, h, out, src)
  BY DEF BuriedShape
<1>3. DOMAIN e.gates[h].ins = DOMAIN d.gates[h].ins
  BY <1>2 DEF MovedPins
<1>4. v \in [NetIds(d) -> Signals] /\ Carries(d, v)
  BY SolutionCarries DEF Solution
<1>5. \A n \in NetIds(d) \ {out} : w[n] = v[n]
  BY <1>4 DEF Fallen
<1>6. out \in NetIds(d) /\ out # None /\ CombDriven(d, out) /\ d.nets[out].driver = g
  BY OutFacts
<1>7. src \in NetIds(d) /\ src # None /\ src # out
  BY <1>1, IdFacts, WireFacts DEF Wire
<1>8. v[out] = v[src]
  <2>1. v[out] = Computed(d, g, v)
    <3>1. v[out] = Sweep(d, env, v)[out]
      BY <1>6 DEF Solution
    <3> QED
      BY <1>6, <3>1, SweepFacts DEF Computed
  <2> QED
    BY <1>4, <2>1 DEF Wire
<1>9. ASSUME NEW i \in DOMAIN d.gates[h].ins
      PROVE  PinValues(e.gates[h].ins, w)[i] = PinValues(d.gates[h].ins, v)[i]
  <2> DEFINE m == d.gates[h].ins[i]
             n == e.gates[h].ins[i]
  <2>1. \/ n = m /\ (m = out => d.nets[out].loads[h] = 0)
        \/ n = src /\ m = out
    BY <1>3, BuriedPins
  <2>2. m \in {None} \cup NetIds(d)
    BY <1>1, GateFacts
  <2>3. m = out => d.nets[out].loads[h] > 0
    <3>1. m = out => PinsOn(d, h, out) # {}
      BY DEF PinsOn
    <3> QED
      BY <3>1 DEF LoadsKnown
  <2>4. PinValues(e.gates[h].ins, w)[i] = IF n = None THEN Undefined ELSE w[n]
    BY <1>3 DEF PinValues
  <2>5. PinValues(d.gates[h].ins, v)[i] = IF m = None THEN Undefined ELSE v[m]
    BY DEF PinValues
  <2>6. CASE n = m /\ m # out
    BY <1>5, <2>2, <2>4, <2>5, <2>6
  <2>7. CASE n = src /\ m = out
    BY <1>5, <1>6, <1>7, <1>8, <2>4, <2>5, <2>7
  <2> QED
    BY <2>1, <2>3, <2>6, <2>7
<1> QED
  BY <1>3, <1>9 DEF PinValues

LEMMA BuriedSolution ==
  ASSUME NEW d, Consistent(d), DriversFirst(d), NEW env \in [Sources(d) -> {0, 1}],
         NEW g \in GateIds(d), Comb(d, g), NEW out, out = d.gates[g].out, ~d.nets[out].po,
         NEW src, Wire(d, g, src), NEW e, BuriedShape(d, g, out, src, e), LoadsKnown(d, {g}),
         NEW v, Solution(d, env, v), NEW w, w = Fallen(d, env, out, v)
  PROVE  Solution(e, env, w)
<1>1. IsNetlist(d) /\ v \in [NetIds(d) -> Signals]
  BY DEF Consistent, Solution
<1>2. GateIds(e) = GateIds(d) /\ NetIds(e) = NetIds(d)
  BY DEF BuriedShape
<1>3. \A h \in GateIds(d) \ {g} : Comb(e, h) <=> Comb(d, h)
  BY BuriedComb
<1>4. \A n \in NetIds(d) : /\ e.nets[n].driver = IF n = out THEN None ELSE d.nets[n].driver
                           /\ e.nets[n].con = d.nets[n].con
  BY DEF BuriedShape
<1>5. Start(e, env) = Start(d, env)
  BY <1>2, <1>4 DEF Start
<1>6. out \in NetIds(d) /\ d.nets[out].driver = g
  BY OutFacts
<1>7. w[out] = Start(d, env)[out] /\ \A n \in NetIds(d) \ {out} : w[n] = v[n]
  BY <1>1, <1>6 DEF Fallen
<1>8. w \in [NetIds(d) -> Signals]
  <2>1. Start(d, env)[out] \in Signals
    BY <1>6, StartType
  <2> QED
    BY <1>1, <2>1 DEF Fallen
<1>9. ASSUME NEW n \in NetIds(d)
      PROVE  w[n] = Sweep(e, env, w)[n]
  <2>1. CASE n = out
    <3>1. ~CombDriven(e, n)
      BY <1>4, <2>1 DEF CombDriven
    <3> QED
      BY <1>2, <1>5, <1>7, <2>1, <3>1, SweepFacts
  <2>2. CASE n # out
    <3> DEFINE h == d.nets[n].driver
    <3>1. v[n] = Sweep(d, env, v)[n] /\ w[n] = v[n]
      BY <1>7, <2>2 DEF Solution
    <3>2. h \in {None} \cup GateIds(d) /\ e.nets[n].driver = h
      BY <1>1, <1>4, <2>2, NetFacts
    <3>3. CombDriven(d, n) => h # g
      <4>1. NetConsistent(d, n) /\ (CombDriven(d, n) => h # None)
        BY DEF Consistent, CombDriven
      <4> QED
        BY <2>2, <4>1 DEF NetConsistent
    <3>4. ~Comb(e, g)
      BY DEF BuriedShape, Comb, CombTypes, Tombstone, Gate
    <3>5. CombDriven(e, n) <=> CombDriven(d, n)
      BY <1>3, <3>2, <3>3, <3>4 DEF CombDriven
    <3>6. CASE ~CombDriven(d, n)
      BY <1>2, <1>5, <3>1, <3>5, <3>6, SweepFacts
    <3>7. CASE CombDriven(d, n)
      <4>1. h \in GateIds(d) \ {g} /\ Live(d, h)
        BY <3>2, <3>3, <3>7 DEF CombDriven, Comb, Live, CombTypes
      <4>2. PinValues(e.gates[h].ins, w) = PinValues(d.gates[h].ins, v)
        BY <4>1, BuriedSees
      <4>3. e.gates[h].type = d.gates[h].type
        BY <4>1 DEF BuriedShape
      <4>4. Sweep(e, env, w)[n] = GateValue(e.gates[h].type, PinValues(e.gates[h].ins, w))
        BY <1>2, <3>2, <3>5, <3>7, SweepFacts
      <4>5. Sweep(d, env, v)[n] = GateValue(d.gates[h].type, PinValues(d.gates[h].ins, v))
        BY <3>7, SweepFacts
      <4> QED
        BY <3>1, <4>2, <4>3, <4>4, <4>5
    <3> QED
      BY <3>6, <3>7
  <2> QED
    BY <2>1, <2>2
<1> QED
  BY <1>2, <1>8, <1>9 DEF Solution

LEMMA SettleIs ==
  ASSUME NEW e, Consistent(e), DriversFirst(e), NEW env \in [Sources(e) -> {0, 1}],
         NEW w, Solution(e, env, w)
  PROVE  Settle(e, env) = w
<1>1. Solution(e, env, Settle(e, env))
  BY SettleSolves
<1>2. IsNetlist(e)
  BY DEF Consistent
<1> QED
  BY <1>1, <1>2, OneSolution

LEMMA DffPinFacts ==
  ASSUME NEW d, NEW p \in DffPins(d)
  PROVE  /\ p[1] \in GateIds(d) /\ d.gates[p[1]].type = "DFF" /\ Live(d, p[1]) /\ ~Comb(d, p[1])
BY PinFacts DEF Live, Comb, CombTypes

LEMMA RewrittenValues ==
  ASSUME NEW d, Consistent(d), DriversFirst(d), NEW g \in GateIds(d), Comb(d, g),
         NEW type, NEW ins, Replaces(d, g, type, ins), NEW e, e = Rewritten(d, g, type, ins).nl
  PROVE  SameValues(d, e)
<1>1. IsNetlist(d)
  BY DEF Consistent
<1>2. /\ GateIds(e) = GateIds(d) /\ NetIds(e) = NetIds(d) /\ e.nets = d.nets
      /\ e.gates = [h \in GateIds(d) |-> e.gates[h]]
      /\ \A h \in GateIds(d) \ {g} : e.gates[h] = d.gates[h]
      /\ e.gates[g].type = type /\ e.gates[g].ins = ins /\ e.gates[g].out = d.gates[g].out
  BY <1>1, RewrittenFacts
<1>3. Frame(d, e) /\ \A h \in GateIds(d) : Comb(e, h) <=> Comb(d, h)
  BY RewrittenFrame
<1>4. Consistent(e) /\ DriversFirst(e)
  BY RewrittenConsistent, RewrittenOrder DEF Replaces
<1> SUFFICES ASSUME NEW env \in [Sources(d) -> {0, 1}]
             PROVE  /\ \A n \in NetIds(d) : d.nets[n].po => Settle(e, env)[n] = Settle(d, env)[n]
                    /\ \A p \in DffPins(d) : Seen(e, p, Settle(e, env)) = Seen(d, p, Settle(d, env))
  BY DEF SameValues
<1> DEFINE v == Settle(d, env)
<1>5. Solution(d, env, v)
  BY SettleSolves
<1> HIDE DEF v
<1>6. Solution(e, env, v)
  BY <1>5, RewrittenSolution
<1>7. env \in [Sources(e) -> {0, 1}]
  BY <1>3 DEF Frame
<1>8. Settle(e, env) = v
  BY <1>4, <1>6, <1>7, SettleIs
<1>9. \A p \in DffPins(d) : e.gates[p[1]] = d.gates[p[1]]
  BY <1>2, DffPinFacts
<1> QED
  BY <1>8, <1>9 DEF v, Seen

LEMMA BuriedValues ==
  ASSUME NEW d, Consistent(d), DriversFirst(d), NEW g \in GateIds(d), Comb(d, g),
         NEW out, out = d.gates[g].out, ~d.nets[out].po,
         NEW src, Wire(d, g, src), NEW e, BuriedShape(d, g, out, src, e), LoadsKnown(d, {g}),
         Consistent(e)
  PROVE  SameValues(d, e)
<1>1. DriversFirst(e)
  BY BuriedOrder
<1>2. Frame(d, e)
  BY BuriedFrame
<1> SUFFICES ASSUME NEW env \in [Sources(d) -> {0, 1}]
             PROVE  /\ \A n \in NetIds(d) : d.nets[n].po => Settle(e, env)[n] = Settle(d, env)[n]
                    /\ \A p \in DffPins(d) : Seen(e, p, Settle(e, env)) = Seen(d, p, Settle(d, env))
  BY DEF SameValues
<1> DEFINE v == Settle(d, env)
           w == Fallen(d, env, out, v)
<1>3. Solution(d, env, v)
  BY SettleSolves
<1> HIDE DEF v, w
<1>4. Solution(e, env, w)
  BY <1>3, BuriedSolution DEF w
<1>5. env \in [Sources(e) -> {0, 1}]
  BY <1>2 DEF Frame
<1>6. Settle(e, env) = w
  BY <1>1, <1>4, <1>5, SettleIs
<1>7. \A n \in NetIds(d) : n # out => w[n] = v[n]
  BY <1>3 DEF w, Fallen, Solution
<1>8. ASSUME NEW p \in DffPins(d)
      PROVE  Seen(e, p, w) = Seen(d, p, v)
  <2>1. p[1] \in GateIds(d) \ {g} /\ Live(d, p[1])
    BY DffPinFacts
  <2>2. PinValues(e.gates[p[1]].ins, w) = PinValues(d.gates[p[1]].ins, v)
    BY <1>3, <2>1, BuriedSees DEF w
  <2> QED
    BY <2>2 DEF Seen
<1> QED
  BY <1>6, <1>7, <1>8 DEF v

LEMMA RebuildValues ==
  ASSUME NEW d, Consistent(d), DriversFirst(d), NEW e, SameButLoads(d, e), Consistent(e)
  PROVE  DriversFirst(e) /\ SameValues(d, e)
<1>1. /\ GateIds(e) = GateIds(d) /\ NetIds(e) = NetIds(d) /\ e.gates = d.gates
      /\ \A n \in NetIds(d) : e.nets[n].driver = d.nets[n].driver /\ e.nets[n].con = d.nets[n].con
  BY DEF SameButLoads
<1>2. IsNetlist(d)
  BY DEF Consistent
<1>3. \A n \in NetIds(d) : CombDriven(e, n) <=> CombDriven(d, n)
  BY <1>1 DEF CombDriven, Comb
<1>4. DriversFirst(e)
  <2>1. ASSUME NEW p \in Pins(d)
        PROVE  d.gates[p[1]].ins[p[2]] \in {None} \cup NetIds(d)
    BY <1>2, PinFacts, GateFacts
  <2>2. Pins(e) = Pins(d)
    BY <1>1 DEF Pins
  <2> QED
    BY <1>1, <1>3, <2>1, <2>2 DEF DriversFirst, Comb
<1>5. Frame(d, e)
  BY SameButLoadsFrame
<1> SUFFICES ASSUME NEW env \in [Sources(d) -> {0, 1}]
             PROVE  /\ \A n \in NetIds(d) : d.nets[n].po => Settle(e, env)[n] = Settle(d, env)[n]
                    /\ \A p \in DffPins(d) : Seen(e, p, Settle(e, env)) = Seen(d, p, Settle(d, env))
  BY <1>4 DEF SameValues
<1> DEFINE v == Settle(d, env)
<1>6. Solution(d, env, v)
  BY SettleSolves
<1> HIDE DEF v
<1>7. Start(e, env) = Start(d, env)
  BY <1>1 DEF Start
<1>8. ASSUME NEW n \in NetIds(d)
      PROVE  Sweep(e, env, v)[n] = Sweep(d, env, v)[n]
  BY <1>1, <1>3, <1>7, SweepFacts
<1>9. Solution(e, env, v)
  BY <1>1, <1>6, <1>8 DEF Solution
<1>10. env \in [Sources(e) -> {0, 1}]
  BY <1>5 DEF Frame
<1>11. Settle(e, env) = v
  BY <1>4, <1>9, <1>10, SettleIs
<1> QED
  BY <1>1, <1>11 DEF v, Seen

-----------------------------------------------------------------------------
(* Pins that hang on nothing.                                              *)

LEMMA FloatingFacts ==
  ASSUME NEW d
  PROVE  FloatingPins(d) = {} <=>
           \A h \in GateIds(d) : Live(d, h) =>
             \A i \in DOMAIN d.gates[h].ins : HasValue(d, d.gates[h].ins[i])
<1>1. ASSUME FloatingPins(d) = {}, NEW h \in GateIds(d), Live(d, h),
             NEW i \in DOMAIN d.gates[h].ins
      PROVE  HasValue(d, d.gates[h].ins[i])
  <2>1. <<h, i>> \in Pins(d)
    BY PinFacts
  <2> QED
    BY <1>1, <2>1 DEF FloatingPins
<1>2. ASSUME \A h \in GateIds(d) : Live(d, h) =>
               \A i \in DOMAIN d.gates[h].ins : HasValue(d, d.gates[h].ins[i]),
             NEW p \in FloatingPins(d)
      PROVE  FALSE
  <2>1. p \in Pins(d) /\ Live(d, p[1]) /\ ~HasValue(d, d.gates[p[1]].ins[p[2]])
    BY <1>2 DEF FloatingPins
  <2> QED
    BY <1>2, <2>1, PinFacts
<1> QED
  BY <1>1, <1>2

LEMMA RewrittenFloats ==
  ASSUME NEW d, Consistent(d), FloatingPins(d) = {}, NEW g \in GateIds(d), Comb(d, g),
         NEW type, NEW ins, Replaces(d, g, type, ins), NEW e, e = Rewritten(d, g, type, ins).nl
  PROVE  FloatingPins(e) = {}
<1>1. IsNetlist(d)
  BY DEF Consistent
<1>2. /\ GateIds(e) = GateIds(d) /\ NetIds(e) = NetIds(d) /\ e.nets = d.nets
      /\ e.gates = [h \in GateIds(d) |-> e.gates[h]]
      /\ \A h \in GateIds(d) \ {g} : e.gates[h] = d.gates[h]
      /\ e.gates[g].type = type /\ e.gates[g].ins = ins /\ e.gates[g].out = d.gates[g].out
  BY <1>1, RewrittenFacts
<1>3. \A h \in GateIds(d) : Live(d, h) =>
        \A i \in DOMAIN d.gates[h].ins : HasValue(d, d.gates[h].ins[i])
  BY FloatingFacts
<1>4. \A n : HasValue(e, n) <=> HasValue(d, n)
  BY <1>2 DEF HasValue, Active
<1>5. Live(d, g)
  BY DEF Live, Comb, CombTypes
<1>6. ASSUME NEW i \in DOMAIN ins
      PROVE  HasValue(d, ins[i])
  <2>1. CASE ins[i] \in Range(d.gates[g].ins)
    BY <1>3, <1>5, <2>1 DEF Range
  <2>2. CASE IsConst(d, ins[i])
    <3>1. ins[i] \in {None} \cup NetIds(d)
      BY DEF Replaces, FitsGate
    <3>2. ins[i] # None /\ ins[i] \in NetIds(d) /\ d.nets[ins[i]].con # "none"
      BY <2>2, <3>1 DEF IsConst, Kind
    <3>3. NetConsistent(d, ins[i])
      BY <3>2 DEF Consistent
    <3> QED
      BY <3>2, <3>3 DEF NetConsistent, HasValue
  <2> QED
    BY <2>1, <2>2 DEF Replaces
<1>7. \A h \in GateIds(e) : Live(e, h) =>
        \A i \in DOMAIN e.gates[h].ins : HasValue(e, e.gates[h].ins[i])
  BY <1>2, <1>3, <1>4, <1>6 DEF Live
<1> QED
  BY <1>7, FloatingFacts

LEMMA BuriedFloats ==
  ASSUME NEW d, Consistent(d), DriversFirst(d), FloatingPins(d) = {},
         NEW g \in GateIds(d), Comb(d, g), NEW out, out = d.gates[g].out,
         NEW src, Wire(d, g, src), NEW e, BuriedShape(d, g, out, src, e), LoadsKnown(d, {g})
  PROVE  FloatingPins(e) = {}
<1>1. IsNetlist(d)
  BY DEF Consistent
<1>2. GateIds(e) = GateIds(d)
  BY DEF BuriedShape
<1>3. \A h \in GateIds(d) : Live(d, h) =>
        \A i \in DOMAIN d.gates[h].ins : HasValue(d, d.gates[h].ins[i])
  BY FloatingFacts
<1>4. src \in NetIds(d) /\ src # out /\ HasValue(d, src)
  <2>1. src \in NetIds(d) /\ src # None /\ src # out /\ Active(d, src)
    BY <1>1, IdFacts, WireFacts DEF Wire
  <2>2. CASE d.nets[src].con # "none"
    BY <2>1, <2>2 DEF HasValue
  <2>3. CASE src \in Range(d.gates[g].ins)
    <3>1. Live(d, g)
      BY DEF Live, Comb, CombTypes
    <3> QED
      BY <1>3, <2>1, <2>3, <3>1 DEF Range
  <2> QED
    BY <2>1, <2>2, <2>3 DEF Wire
<1>5. ASSUME NEW n \in NetIds(d) \ {out}, HasValue(d, n)
      PROVE  HasValue(e, n)
  <2>1. /\ e.nets[n].driver = d.nets[n].driver /\ e.nets[n].con = d.nets[n].con
        /\ e.nets[n].pi = d.nets[n].pi /\ e.nets[n].removed = d.nets[n].removed
    BY DEF BuriedShape
  <2> QED
    BY <1>5, <2>1 DEF HasValue, Active
<1>6. ASSUME NEW h \in GateIds(d), Live(e, h), NEW i \in DOMAIN e.gates[h].ins
      PROVE  HasValue(e, e.gates[h].ins[i])
  <2> DEFINE m == d.gates[h].ins[i]
             n == e.gates[h].ins[i]
  <2>1. /\ h # g /\ i \in DOMAIN d.gates[h].ins
        /\ \/ n = m /\ (m = out => d.nets[out].loads[h] = 0)
           \/ n = src /\ m = out
    BY BuriedPins
  <2>2. Live(d, h)
    BY <1>6, <2>1 DEF Live, BuriedShape
  <2>3. HasValue(d, m) /\ m \in NetIds(d)
    <3>1. m \in {None} \cup NetIds(d)
      BY <1>1, <2>1, GateFacts
    <3> QED
      BY <1>3, <2>1, <2>2, <3>1 DEF HasValue, Active
  <2>4. m = out => d.nets[out].loads[h] > 0
    <3>1. m = out => PinsOn(d, h, out) # {}
      BY <2>1 DEF PinsOn
    <3> QED
      BY <2>2, <3>1 DEF LoadsKnown
  <2>5. CASE n = m /\ m # out
    BY <1>5, <2>3, <2>5
  <2>6. CASE n = src
    BY <1>4, <1>5, <2>6
  <2> QED
    BY <2>1, <2>4, <2>5, <2>6
<1> QED
  BY <1>2, <1>6, FloatingFacts

LEMMA RebuildFloats ==
  ASSUME NEW d, IsNetlist(d), NEW e, SameButLoads(d, e), FloatingPins(d) = {}
  PROVE  FloatingPins(e) = {}
<1>1. \A h \in GateIds(d) : Live(d, h) =>
        \A i \in DOMAIN d.gates[h].ins : HasValue(d, d.gates[h].ins[i])
  BY FloatingFacts
<1>2. ASSUME NEW n \in {None} \cup NetIds(d), HasValue(d, n)
      PROVE  HasValue(e, n)
  BY <1>2 DEF HasValue, Active, SameButLoads
<1>3. \A h \in GateIds(e) : Live(e, h) =>
        \A i \in DOMAIN e.gates[h].ins : HasValue(e, e.gates[h].ins[i])
  <2>1. e.gates = d.gates /\ GateIds(e) = GateIds(d)
    BY DEF SameButLoads
  <2>2. \A h \in GateIds(d) : \A i \in DOMAIN d.gates[h].ins : d.gates[h].ins[i] \in {None} \cup NetIds(d)
    BY GateFacts
  <2> QED
    BY <1>1, <1>2, <2>1, <2>2 DEF Live
<1> QED
  BY <1>3, FloatingFacts

-----------------------------------------------------------------------------
(* How much work is left.                                                  *)

PinsElsewhere(d, g) == {p \in Pins(d) : p[1] # g}
Computing(d) == {h \in GateIds(d) : d.gates[h].type \notin {"BUF", "UNKNOWN"}}

LEMMA WorkFacts ==
  ASSUME NEW d, IsNetlist(d), NEW g \in GateIds(d)
  PROVE  /\ Cardinality(PinsElsewhere(d, g)) \in Nat
         /\ Cardinality(DOMAIN d.gates[g].ins) \in Nat
         /\ IsFiniteSet(Computing(d)) /\ Cardinality(Computing(d)) \in Nat
         /\ Work(d) = Cardinality(PinsElsewhere(d, g)) + Cardinality(DOMAIN d.gates[g].ins)
                        + Cardinality(Computing(d))
<1> DEFINE ofGate == [h \in GateIds(d) |-> {h} \X DOMAIN d.gates[h].ins]
           T == {{h} \X DOMAIN d.gates[h].ins : h \in GateIds(d)}
<1>1. IsFiniteSet(GateIds(d))
  BY IdFacts
<1>2. IsFiniteSet(T)
  <2>1. ofGate \in Surjection(GateIds(d), T)
    BY DEF Surjection
  <2> HIDE DEF ofGate, T
  <2> QED
    BY <1>1, <2>1, FS_Surjection
<1>3. \A h \in GateIds(d) : IsFiniteSet({h} \X DOMAIN d.gates[h].ins)
  <2>1. ASSUME NEW h \in GateIds(d)
        PROVE  IsFiniteSet({h} \X DOMAIN d.gates[h].ins)
    <3>1. IsFiniteSet({h}) /\ IsFiniteSet(DOMAIN d.gates[h].ins)
      BY FS_Singleton, GateFacts
    <3> QED
      BY <3>1, FS_Product
  <2> QED
    BY <2>1
<1>4. IsFiniteSet(Pins(d))
  <2>1. \A X \in T : IsFiniteSet(X)
    BY <1>3
  <2>2. Pins(d) = UNION T
    BY DEF Pins
  <2> HIDE DEF T
  <2> QED
    BY <1>2, <2>1, <2>2, FS_UNION
<1> DEFINE own == {g} \X DOMAIN d.gates[g].ins
<1>5. Pins(d) = PinsElsewhere(d, g) \cup own /\ PinsElsewhere(d, g) \cap own = {}
  <2>1. \A p : p \in own <=> \E i \in DOMAIN d.gates[g].ins : p = <<g, i>>
    OBVIOUS
  <2>2. \A p \in Pins(d) : p[1] = g => p \in own
    BY <2>1, PinFacts
  <2>3. \A p \in own : p \in Pins(d) /\ p[1] = g
    BY <2>1, PinFacts
  <2> HIDE DEF own
  <2> QED
    BY <2>2, <2>3 DEF PinsElsewhere
<1>6. IsFiniteSet(PinsElsewhere(d, g)) /\ IsFiniteSet(own)
  <2>1. PinsElsewhere(d, g) \in SUBSET Pins(d)
    BY DEF PinsElsewhere
  <2> QED
    BY <1>3, <1>4, <2>1, FS_Subset
<1>7. Cardinality(own) = Cardinality(DOMAIN d.gates[g].ins) /\ Cardinality(DOMAIN d.gates[g].ins) \in Nat
  <2>1. IsFiniteSet({g}) /\ Cardinality({g}) = 1
    BY FS_Singleton
  <2>2. IsFiniteSet(DOMAIN d.gates[g].ins)
    BY GateFacts
  <2>3. Cardinality(own) = Cardinality({g}) * Cardinality(DOMAIN d.gates[g].ins)
    BY <2>1, <2>2, FS_Product
  <2>4. Cardinality(DOMAIN d.gates[g].ins) \in Nat
    BY <2>2, FS_CardinalityType
  <2> QED
    BY <2>1, <2>3, <2>4
<1> HIDE DEF own
<1>8. Cardinality(Pins(d)) = Cardinality(PinsElsewhere(d, g)) + Cardinality(own) - Cardinality({})
  BY <1>5, <1>6, FS_Union
<1>9. Cardinality(PinsElsewhere(d, g)) \in Nat /\ Cardinality({}) = 0
  BY <1>6, FS_CardinalityType, FS_EmptySet
<1>10. IsFiniteSet(Computing(d)) /\ Cardinality(Computing(d)) \in Nat
  <2>1. Computing(d) \in SUBSET GateIds(d)
    BY DEF Computing
  <2> QED
    BY <1>1, <2>1, FS_Subset, FS_CardinalityType
<1>11. Work(d) = Cardinality(Pins(d)) + Cardinality(Computing(d))
  BY DEF Work, Computing
<1> QED
  BY <1>7, <1>8, <1>9, <1>10, <1>11

(* A combinational gate has a pin.                                         *)
LEMMA CombHasPin ==
  ASSUME NEW d, Consistent(d), NEW g \in GateIds(d), Comb(d, g)
  PROVE  Cardinality(DOMAIN d.gates[g].ins) >= 1
<1>1. GateConsistent(d, g)
  BY DEF Consistent
<1>2. Cardinality({1}) = 1
  BY FS_Singleton
<1>3. Cardinality(DOMAIN d.gates[g].ins) \in Nat
  BY FS_CardinalityType, GateFacts DEF Consistent
<1>4. \/ DOMAIN d.gates[g].ins = {1}
      \/ Cardinality(DOMAIN d.gates[g].ins) = 1
      \/ Cardinality(DOMAIN d.gates[g].ins) > 1
  BY <1>1 DEF GateConsistent, Comb
<1>5. CASE DOMAIN d.gates[g].ins = {1}
  BY <1>2, <1>5
<1> QED
  BY <1>3, <1>4, <1>5

LEMMA SamePinsElsewhere ==
  ASSUME NEW d, NEW e, NEW g, GateIds(e) = GateIds(d),
         \A h \in GateIds(d) \ {g} : DOMAIN e.gates[h].ins = DOMAIN d.gates[h].ins
  PROVE  PinsElsewhere(e, g) = PinsElsewhere(d, g)
<1>1. \A p : p \in PinsElsewhere(d, g) <=>
             \E h \in GateIds(d) \ {g} : \E i \in DOMAIN d.gates[h].ins : p = <<h, i>>
  BY PinFacts DEF PinsElsewhere
<1>2. \A p : p \in PinsElsewhere(e, g) <=>
             \E h \in GateIds(d) \ {g} : \E i \in DOMAIN e.gates[h].ins : p = <<h, i>>
  BY PinFacts DEF PinsElsewhere
<1>3. \A p : p \in PinsElsewhere(e, g) <=> p \in PinsElsewhere(d, g)
  BY <1>1, <1>2
<1> QED
  BY <1>3

LEMMA RewrittenWork ==
  ASSUME NEW d, Consistent(d), NEW g \in GateIds(d), Comb(d, g),
         NEW type, NEW ins, Replaces(d, g, type, ins), NEW e, e = Rewritten(d, g, type, ins).nl
  PROVE  Work(e) < Work(d)
<1>1. IsNetlist(d)
  BY DEF Consistent
<1>2. /\ GateIds(e) = GateIds(d) /\ NetIds(e) = NetIds(d) /\ e.nets = d.nets
      /\ e.gates = [h \in GateIds(d) |-> e.gates[h]]
      /\ \A h \in GateIds(d) \ {g} : e.gates[h] = d.gates[h]
      /\ e.gates[g].type = type /\ e.gates[g].ins = ins /\ e.gates[g].out = d.gates[g].out
  BY <1>1, RewrittenFacts
<1>3. Consistent(e)
  BY RewrittenConsistent DEF Replaces
<1>4. IsNetlist(e)
  BY <1>3 DEF Consistent
<1> DEFINE rest == Cardinality(PinsElsewhere(d, g))
           old  == Cardinality(DOMAIN d.gates[g].ins)
           new  == Cardinality(DOMAIN e.gates[g].ins)
<1>5. PinsElsewhere(e, g) = PinsElsewhere(d, g)
  BY <1>2, SamePinsElsewhere
<1>6. /\ rest \in Nat /\ old \in Nat /\ Cardinality(Computing(d)) \in Nat
      /\ Work(d) = rest + old + Cardinality(Computing(d)) /\ IsFiniteSet(Computing(d))
  BY <1>1, WorkFacts
<1>7. /\ new \in Nat /\ Cardinality(Computing(e)) \in Nat
      /\ Work(e) = rest + new + Cardinality(Computing(e))
  BY <1>2, <1>4, <1>5, WorkFacts
<1>8. d.gates[g].type \notin {"BUF", "UNKNOWN"} /\ type # "UNKNOWN"
  BY DEF Replaces, FitsGate, Comb, CombTypes
<1>9. CASE type = "BUF"
  <2>1. Computing(e) = Computing(d) \ {g} /\ g \in Computing(d)
    BY <1>2, <1>8, <1>9 DEF Computing
  <2>2. Cardinality(Computing(e)) = Cardinality(Computing(d)) - 1
    BY <1>6, <2>1, FS_RemoveElement
  <2>3. new = 1
    BY <1>2, <1>9, FS_Singleton DEF Replaces, FitsGate
  <2>4. old >= 1
    BY CombHasPin
  <2> QED
    BY <1>6, <1>7, <2>2, <2>3, <2>4
<1>10. CASE type # "BUF"
  <2>1. Computing(e) = Computing(d)
    BY <1>2, <1>8, <1>10 DEF Computing
  <2>2. new < old
    BY <1>2, <1>10 DEF Replaces
  <2> QED
    BY <1>6, <1>7, <2>1, <2>2
<1> QED
  BY <1>9, <1>10

LEMMA BuriedWork ==
  ASSUME NEW d, Consistent(d), NEW g \in GateIds(d), Comb(d, g), NEW out,
         NEW src, NEW e, BuriedShape(d, g, out, src, e), Consistent(e)
  PROVE  Work(e) < Work(d)
<1>1. IsNetlist(d) /\ IsNetlist(e)
  BY DEF Consistent
<1>2. /\ GateIds(e) = GateIds(d)
      /\ e.gates[g].type = "UNKNOWN" /\ e.gates[g].ins = <<>>
      /\ \A h \in GateIds(d) \ {g} : /\ e.gates[h].type = d.gates[h].type
                                    /\ DOMAIN e.gates[h].ins = DOMAIN d.gates[h].ins
  <2>1. /\ GateIds(e) = GateIds(d)
        /\ e.gates[g].type = "UNKNOWN" /\ e.gates[g].ins = <<>>
        /\ \A h \in GateIds(d) \ {g} : /\ e.gates[h].type = d.gates[h].type
                                      /\ e.gates[h].ins = MovedPins(d, h, out, src)
    BY DEF BuriedShape, Tombstone, Gate
  <2>2. \A h \in GateIds(d) : DOMAIN MovedPins(d, h, out, src) = DOMAIN d.gates[h].ins
    BY DEF MovedPins
  <2> QED
    BY <2>1, <2>2
<1> DEFINE rest == Cardinality(PinsElsewhere(d, g))
           old  == Cardinality(DOMAIN d.gates[g].ins)
           new  == Cardinality(DOMAIN e.gates[g].ins)
<1>3. PinsElsewhere(e, g) = PinsElsewhere(d, g)
  BY <1>2, SamePinsElsewhere
<1>4. /\ rest \in Nat /\ old \in Nat /\ Cardinality(Computing(d)) \in Nat
      /\ Work(d) = rest + old + Cardinality(Computing(d)) /\ IsFiniteSet(Computing(d))
  BY <1>1, WorkFacts
<1>5. /\ new \in Nat /\ Cardinality(Computing(e)) \in Nat
      /\ Work(e) = rest + new + Cardinality(Computing(e))
  BY <1>1, <1>2, <1>3, WorkFacts
<1>6. new = 0
  <2>1. DOMAIN e.gates[g].ins = {}
    BY <1>2
  <2> QED
    BY <2>1, FS_EmptySet
<1>7. old >= 1
  BY CombHasPin
<1>8. Cardinality(Computing(e)) <= Cardinality(Computing(d))
  <2>1. Computing(e) \in SUBSET Computing(d)
    BY <1>2 DEF Computing
  <2> QED
    BY <1>4, <2>1, FS_Subset
<1> QED
  BY <1>4, <1>5, <1>6, <1>7, <1>8

-----------------------------------------------------------------------------
(* The validation of a fold.                                               *)

NoViolations ==
  [gateMissingOutput |-> 0, gateOutputNotDriver |-> 0, gateInputRemoved |-> 0,
   netDriverRemoved |-> 0, netDriverOutputMismatch |-> 0, netLoadMissingInput |-> 0,
   netLoadMultiplicity |-> 0]

LEMMA CleanStructure ==
  ASSUME NEW d, WellFormed(d)
  PROVE  StructureViolations(d) = NoViolations
<1> DEFINE live == {g \in GateIds(d) : Live(d, g)}
           nets == {n \in NetIds(d) : Active(d, n)}
<1>1. IsNetlist(d) /\ Consistent(d) /\ LoadsCurrent(d)
  BY DEF WellFormed, Consistent
<1>2. \A g \in GateIds(d) : GateConsistent(d, g)
  BY <1>1 DEF Consistent
<1>3. \A n \in NetIds(d) : NetConsistent(d, n)
  BY <1>1 DEF Consistent
<1>4. {g \in live : d.gates[g].out = None /\ d.gates[g].type # "DFF"} = {}
  <2>1. ASSUME NEW g \in GateIds(d), Live(d, g), d.gates[g].type # "DFF"
        PROVE  d.gates[g].out # None
    <3>1. d.gates[g].type \in GateTypes
      BY <1>1, GateFacts
    <3>2. d.gates[g].type \in CombTypes
      BY <2>1, <3>1 DEF GateTypes, Live
    <3> QED
      BY <1>2, <3>2 DEF GateConsistent
  <2> QED
    BY <2>1
<1>5. {g \in live : d.gates[g].out # None /\ d.nets[d.gates[g].out].driver # g} = {}
  BY <1>2 DEF GateConsistent
<1>6. {p \in Pins(d) : LET n == d.gates[p[1]].ins[p[2]]
                      IN Live(d, p[1]) /\ n # None /\ ~Active(d, n)} = {}
  BY <1>2, PinFacts DEF GateConsistent
<1>7. {n \in nets : d.nets[n].driver # None /\ ~Live(d, d.nets[n].driver)} = {}
  <2>1. ASSUME NEW n \in NetIds(d), d.nets[n].driver # None
        PROVE  Live(d, d.nets[n].driver)
    <3>1. d.nets[n].driver \in GateIds(d) /\ n # None
      BY <1>1, <2>1, NetFacts, IdFacts
    <3>2. d.gates[d.nets[n].driver].out = n
      BY <1>3, <2>1 DEF NetConsistent
    <3> QED
      BY <1>2, <3>1, <3>2 DEF GateConsistent, Live
  <2> QED
    BY <2>1
<1>8. {n \in nets : /\ d.nets[n].driver # None
                    /\ Live(d, d.nets[n].driver)
                    /\ d.gates[d.nets[n].driver].out # n} = {}
  BY <1>3 DEF NetConsistent
<1>9. UNION {{<<e, k>> : k \in 1 .. d.nets[e[1]].loads[e[2]]} :
               e \in {x \in nets \X GateIds(d) : PinsOn(d, x[2], x[1]) = {}}} = {}
  <2>1. ASSUME NEW n \in nets, NEW g \in GateIds(d), PinsOn(d, g, n) = {}
        PROVE  d.nets[n].loads[g] = 0
    <3>1. d.nets[n].loads = PinLoads(d, n)
      BY <1>1 DEF LoadsCurrent
    <3>2. Cardinality(PinsOn(d, g, n)) = 0
      BY <2>1, FS_EmptySet
    <3> QED
      BY <3>1, <3>2 DEF PinLoads
  <2>2. \A x \in nets \X GateIds(d) : PinsOn(d, x[2], x[1]) = {} => d.nets[x[1]].loads[x[2]] = 0
    BY <2>1
  <2>3. 1 .. 0 = {}
    OBVIOUS
  <2> HIDE DEF nets
  <2> QED
    BY <2>2, <2>3
<1>10. {n \in nets : d.nets[n].loads # PinLoads(d, n)} = {}
  BY <1>1 DEF LoadsCurrent
<1>11. Cardinality({}) = 0
  BY FS_EmptySet
<1> QED
  BY <1>4, <1>5, <1>6, <1>7, <1>8, <1>9, <1>10, <1>11 DEF StructureViolations, NoViolations

(* A fold that keeps the frame of a sound netlist is never rolled back.    *)
LEMMA NoRegression ==
  ASSUME NEW d, NEW e, WellFormed(d), WellFormed(e), Frame(d, e)
  PROVE  ~EditRegresses(d, e)
<1>1. StructureViolations(d) = NoViolations /\ StructureViolations(e) = NoViolations
  BY CleanStructure
<1>2. \A c \in DOMAIN NoViolations : ~(NoViolations[c] > NoViolations[c])
  BY DEF NoViolations
<1>3. ProblemAViolations(e) \subseteq ProblemAViolations(d)
  <2>1. \A n \in NetIds(e) : n \in NetIds(d)
    BY DEF Frame
  <2>2. ASSUME NEW n \in NetIds(e), Active(e, n), e.nets[n].po, e.nets[n].driver = None,
               ~e.nets[n].pi, e.nets[n].con = "none"
        PROVE  /\ n \in NetIds(d) /\ Active(d, n) /\ d.nets[n].po /\ d.nets[n].driver = None
               /\ ~d.nets[n].pi /\ d.nets[n].con = "none"
    BY <2>1, <2>2 DEF Frame, Active
  <2>3. ASSUME NEW g \in GateIds(e), e.gates[g].type = "DFF", e.gates[g].out = None
        PROVE  g \in GateIds(d) /\ d.gates[g].type = "DFF" /\ d.gates[g].out = None
    BY <2>3 DEF Frame
  <2> QED
    BY <2>2, <2>3 DEF ProblemAViolations
<1> QED
  BY <1>1, <1>2, <1>3 DEF EditRegresses

-----------------------------------------------------------------------------
(* One visit.                                                              *)

LEMMA VisitSound ==
  ASSUME NEW d, Consistent(d), NEW g \in GateIds(d), Comb(d, g), NEW r, r = SimplifyGate(d, g)
  PROVE  /\ Consistent(r.nl) /\ Frame(d, r.nl)
         /\ \A h \in GateIds(d) \ {g} : Comb(r.nl, h) <=> Comb(d, h)
         /\ r.changed \in BOOLEAN
         /\ r.changed => Work(r.nl) < Work(d)
         /\ ~r.changed => r.nl = d /\ Stays(d, g, r)
<1>1. CASE Stays(d, g, r)
  BY <1>1, FrameReflexive DEF Stays, Unchanged
<1>2. CASE Rewrites(d, g, r)
  <2>1. PICK type, ins : Replaces(d, g, type, ins) /\ r = Rewritten(d, g, type, ins)
    BY <1>2 DEF Rewrites
  <2>2. r.changed = TRUE
    BY <2>1 DEF Rewritten
  <2>3. Consistent(r.nl)
    BY <2>1, RewrittenConsistent DEF Replaces
  <2>4. Frame(d, r.nl) /\ \A h \in GateIds(d) : Comb(r.nl, h) <=> Comb(d, h)
    BY <2>1, RewrittenFrame
  <2>5. Work(r.nl) < Work(d)
    BY <2>1, RewrittenWork
  <2> QED
    BY <2>2, <2>3, <2>4, <2>5
<1>3. CASE Buries(d, g, r)
  <2> DEFINE out == d.gates[g].out
  <2>1. PICK src : Wire(d, g, src) /\ ~d.nets[out].po /\ r = [nl |-> Buried(d, g, src), changed |-> TRUE]
    BY <1>3 DEF Buries
  <2>2. r.changed = TRUE /\ r.nl = Buried(d, g, src)
    BY <2>1
  <2>3. out # None
    BY OutFacts
  <2>4. BuriedShape(d, g, out, src, r.nl)
    BY <2>2, <2>3, BuriedFacts
  <2>5. Consistent(r.nl)
    BY <2>1, <2>2, <2>3, BuriedConsistent DEF Wire
  <2>6. Frame(d, r.nl) /\ \A h \in GateIds(d) \ {g} : Comb(r.nl, h) <=> Comb(d, h)
    <3> HIDE DEF out
    <3>1. out = d.gates[g].out
      BY DEF out
    <3>2. Frame(d, r.nl)
      BY <2>1, <2>4, <3>1, BuriedFrame
    <3>3. \A h \in GateIds(d) \ {g} : Comb(r.nl, h) <=> Comb(d, h)
      BY <2>4, BuriedComb
    <3> QED
      BY <3>2, <3>3
  <2>7. Work(r.nl) < Work(d)
    BY <2>4, <2>5, BuriedWork
  <2> QED
    BY <2>2, <2>5, <2>6, <2>7
<1> QED
  BY <1>1, <1>2, <1>3, VisitCases

LEMMA VisitOrdered ==
  ASSUME NEW d, Consistent(d), DriversFirst(d), NEW g \in GateIds(d), Comb(d, g),
         NEW S, S \subseteq {k \in GateIds(d) : Comb(d, k)}, g \in S, \A k \in S : g <= k,
         LoadsKnown(d, S), NEW r, r = SimplifyGate(d, g)
  PROVE  /\ DriversFirst(r.nl) /\ LoadsKnown(r.nl, S \ {g}) /\ SameValues(d, r.nl)
         /\ FloatingPins(d) = {} => FloatingPins(r.nl) = {}
<1>1. CASE Stays(d, g, r)
  <2>1. r.nl = d
    BY <1>1 DEF Stays, Unchanged
  <2>2. LoadsKnown(d, S \ {g})
    BY DEF LoadsKnown
  <2> QED
    BY <2>1, <2>2, SameValuesReflexive
<1>2. CASE Rewrites(d, g, r)
  <2>1. PICK type, ins : Replaces(d, g, type, ins) /\ r = Rewritten(d, g, type, ins)
    BY <1>2 DEF Rewrites
  <2>2. DriversFirst(r.nl) /\ SameValues(d, r.nl)
    BY <2>1, RewrittenOrder, RewrittenValues
  <2>3. LoadsKnown(r.nl, S \ {g})
    BY <2>1, RewrittenLoads
  <2>4. FloatingPins(d) = {} => FloatingPins(r.nl) = {}
    BY <2>1, RewrittenFloats
  <2> QED
    BY <2>2, <2>3, <2>4
<1>3. CASE Buries(d, g, r)
  <2> DEFINE out == d.gates[g].out
  <2>1. PICK src : Wire(d, g, src) /\ ~d.nets[out].po /\ r = [nl |-> Buried(d, g, src), changed |-> TRUE]
    BY <1>3 DEF Buries
  <2>2. r.nl = Buried(d, g, src) /\ out # None
    BY <2>1, OutFacts
  <2>3. BuriedShape(d, g, out, src, r.nl)
    BY <2>2, BuriedFacts
  <2>4. Consistent(r.nl)
    BY <2>1, <2>2, BuriedConsistent DEF Wire
  <2>5. LoadsKnown(d, {g})
    BY DEF LoadsKnown
  <2>6. DriversFirst(r.nl)
    BY <2>1, <2>3, BuriedOrder
  <2>7. LoadsKnown(r.nl, S \ {g})
    BY <2>1, <2>3, BuriedLoads
  <2>8. SameValues(d, r.nl)
    BY <2>1, <2>3, <2>4, <2>5, BuriedValues
  <2>9. FloatingPins(d) = {} => FloatingPins(r.nl) = {}
    BY <2>1, <2>3, <2>5, BuriedFloats
  <2> QED
    BY <2>6, <2>7, <2>8, <2>9
<1> QED
  BY <1>1, <1>2, <1>3, VisitCases

(* A candidate the fold leaves as it is has nothing left to fold.          *)
LEMMA StaysFolded ==
  ASSUME NEW d, Consistent(d), FloatingPins(d) = {}, NEW g \in Candidates(d),
         NEW r, Stays(d, g, r)
  PROVE  Folded(d, g)
<1>1. g \in GateIds(d) /\ Comb(d, g)
  BY DEF Candidates
<1>2. \E n \in Range(d.gates[g].ins) : IsConst(d, n)
  BY DEF Candidates
<1>3. Live(d, g)
  BY <1>1 DEF Live, Comb, CombTypes
<1>4. None \notin Range(d.gates[g].ins)
  <2>1. \A i \in DOMAIN d.gates[g].ins : HasValue(d, d.gates[g].ins[i])
    BY <1>1, <1>3, FloatingFacts
  <2> QED
    BY <2>1 DEF Range, HasValue, Active
<1> QED
  BY <1>2, <1>4 DEF Stays, Stuck, Folded

LEMMA NextCandidateFacts ==
  ASSUME NEW d, IsNetlist(d), NEW S, S \subseteq GateIds(d), S # {}
  PROVE  NextCandidate(S) \in S /\ \A k \in S : NextCandidate(S) <= k
<1>1. \E x \in S : \A y \in S : x <= y
  BY IdFacts, LeastNatural
<1> QED
  BY <1>1 DEF NextCandidate, Min

-----------------------------------------------------------------------------
(* The whole run, whatever the order of the gates.                         *)

(* The strengthening of TypeOK: the netlist stays consistent and in frame, *)
(* and what is still to be visited are combinational gates.                *)
Sound ==
  /\ WellFormed(before)
  /\ Consistent(nl) /\ Frame(before, nl)
  /\ phase \in {"scan", "visit", "validate", "done"}
  /\ progress \in BOOLEAN
  /\ verdict \in {"pending", "certified"}
  /\ cands \subseteq {g \in GateIds(nl) : Comb(nl, g)}
  /\ phase # "visit" => cands = {}

LEMMA InitSound ==
  ASSUME Init
  PROVE  Sound
<1>1. WellFormed(nl) /\ before = nl
  BY FamiliesAssumption DEF Init
<1> QED
  BY <1>1, FrameReflexive DEF Init, Sound, WellFormed

LEMMA ScanRebuilds ==
  ASSUME Sound, Scan
  PROVE  /\ Consistent(nl') /\ LoadsCurrent(nl') /\ SameButLoads(nl, nl')
         /\ Frame(nl, nl') /\ cands' = Candidates(nl')
<1>1. nl' = Rebuild(nl) /\ Consistent(nl)
  BY DEF Sound, Scan
<1>2. Consistent(Rebuild(nl)) /\ LoadsCurrent(Rebuild(nl)) /\ SameButLoads(nl, Rebuild(nl))
  BY <1>1, RebuildConsistent
<1>3. Frame(nl, Rebuild(nl))
  BY <1>2, SameButLoadsFrame
<1> QED
  BY <1>1, <1>2, <1>3 DEF Scan

(* The step of a visit, in the terms of SimplifyGate.                      *)
LEMMA VisitStep ==
  ASSUME Sound, Visit
  PROVE  LET g == NextCandidate(cands)
             r == SimplifyGate(nl, g) IN
         /\ g \in cands /\ g \in GateIds(nl) /\ Comb(nl, g) /\ \A k \in cands : g <= k
         /\ Consistent(nl)
         /\ nl' = r.nl /\ progress' = (progress \/ r.changed) /\ cands' = cands \ {g}
         /\ UNCHANGED <<before, phase, verdict>>
<1>1. Consistent(nl) /\ IsNetlist(nl) /\ cands \subseteq GateIds(nl) /\ cands # {}
  BY DEF Sound, Visit, Consistent
<1>2. NextCandidate(cands) \in cands /\ \A k \in cands : NextCandidate(cands) <= k
  BY <1>1, NextCandidateFacts
<1> QED
  BY <1>1, <1>2 DEF Sound, Visit

(* A validation certifies the rebuilt netlist: it never rolls back.        *)
LEMMA ValidateStep ==
  ASSUME Sound, Validate
  PROVE  /\ Consistent(nl') /\ SameButLoads(nl, nl') /\ Frame(nl, nl')
         /\ Frame(before, nl') /\ verdict' = "certified"
<1>1. Consistent(nl) /\ Frame(before, nl) /\ WellFormed(before)
  BY DEF Sound
<1> DEFINE final == Rebuild(nl)
<1>2. Consistent(final) /\ LoadsCurrent(final) /\ SameButLoads(nl, final)
  BY <1>1, RebuildConsistent
<1>3. Frame(nl, final)
  BY <1>2, SameButLoadsFrame
<1>4. Frame(before, final)
  BY <1>1, <1>3, FrameTransitive
<1>5. WellFormed(final)
  BY <1>2 DEF WellFormed
<1>6. ~EditRegresses(before, final)
  BY <1>1, <1>4, <1>5, NoRegression
<1>7. nl' = final /\ verdict' = "certified"
  BY <1>6 DEF Validate
<1> QED
  BY <1>2, <1>3, <1>4, <1>7

LEMMA NextSound ==
  ASSUME Sound, [Next]_vars
  PROVE  Sound'
<1>1. CASE Scan
  <2>1. Consistent(nl') /\ Frame(nl, nl') /\ cands' = Candidates(nl')
    BY <1>1, ScanRebuilds
  <2>2. Frame(before, nl')
    BY <2>1, FrameTransitive DEF Sound
  <2>3. cands' \subseteq {g \in GateIds(nl') : Comb(nl', g)}
    BY <2>1 DEF Candidates
  <2>4. before' = before /\ verdict' = verdict /\ progress' = FALSE
        /\ phase' = IF cands' = {} THEN "validate" ELSE "visit"
    BY <1>1 DEF Scan
  <2> QED
    BY <2>1, <2>2, <2>3, <2>4 DEF Sound
<1>2. CASE Visit
  <2> DEFINE g == NextCandidate(cands)
             r == SimplifyGate(nl, g)
  <2>1. /\ g \in cands /\ g \in GateIds(nl) /\ Comb(nl, g) /\ \A k \in cands : g <= k
        /\ Consistent(nl)
        /\ nl' = r.nl /\ progress' = (progress \/ r.changed) /\ cands' = cands \ {g}
        /\ UNCHANGED <<before, phase, verdict>>
    BY <1>2, VisitStep
  <2> HIDE DEF g, r
  <2>2. /\ Consistent(r.nl) /\ Frame(nl, r.nl)
        /\ \A h \in GateIds(nl) \ {g} : Comb(r.nl, h) <=> Comb(nl, h)
        /\ r.changed \in BOOLEAN
    BY <2>1, VisitSound DEF r
  <2>3. Frame(before, nl')
    BY <2>1, <2>2, FrameTransitive DEF Sound
  <2>4. cands' \subseteq {h \in GateIds(nl') : Comb(nl', h)}
    <3>1. GateIds(nl') = GateIds(nl)
      BY <2>1, <2>2 DEF Frame
    <3>2. cands \subseteq {h \in GateIds(nl) : Comb(nl, h)}
      BY DEF Sound
    <3> QED
      BY <2>1, <2>2, <3>1, <3>2
  <2>5. progress' \in BOOLEAN
    BY <2>1, <2>2
  <2>6. phase = "visit"
    BY <1>2 DEF Visit
  <2> QED
    BY <2>1, <2>2, <2>3, <2>4, <2>5, <2>6 DEF Sound
<1>3. CASE EndRound
  BY <1>3 DEF EndRound, Sound
<1>4. CASE Validate
  <2>1. Consistent(nl') /\ Frame(before, nl') /\ verdict' = "certified"
    BY <1>4, ValidateStep
  <2>2. phase = "validate" /\ phase' = "done" /\ UNCHANGED <<before, cands, progress>>
    BY <1>4 DEF Validate
  <2> QED
    BY <2>1, <2>2 DEF Sound
<1>5. CASE Done \/ UNCHANGED vars
  BY <1>5 DEF Done, vars, Sound
<1> QED
  BY <1>1, <1>2, <1>3, <1>4, <1>5 DEF Next

LEMMA AlwaysSound == Spec => []Sound
BY InitSound, NextSound, PTL DEF Spec

(* Whatever the order of the gates, the netlist agrees with itself between *)
(* any two visits: drivers and outputs name each other, tombstones are     *)
(* bare, and what is still to be visited are gates of it.                  *)
THEOREM TypeCorrect == Spec => []TypeOK
<1>1. Sound => TypeOK
  BY DEF Sound, TypeOK, WellFormed
<1> QED
  BY <1>1, AlwaysSound, PTL

(* The validation never rolls a fold back: it compares what the fold       *)
(* leaves alone. What protects the function is the fold itself.            *)
THEOREM NeverRolledBack == Spec => [](verdict # "rolledBack")
<1>1. Sound => verdict # "rolledBack"
  BY DEF Sound
<1> QED
  BY <1>1, AlwaysSound, PTL

(* A visit that changes the netlist, or calls for another round, leaves    *)
(* less to fold: the rounds of any fold come to an end.                    *)
THEOREM ChangesShrink == Spec => EveryChangeShrinks
<1>1. ASSUME Sound, [Next]_vars
      PROVE  phase = "visit" /\ (nl' # nl \/ (progress' /\ ~progress)) => Work(nl') < Work(nl)
  <2>1. CASE Visit
    <3> DEFINE g == NextCandidate(cands)
               r == SimplifyGate(nl, g)
    <3>1. /\ g \in GateIds(nl) /\ Comb(nl, g) /\ Consistent(nl)
          /\ nl' = r.nl /\ progress' = (progress \/ r.changed)
      BY <1>1, <2>1, VisitStep
    <3> HIDE DEF g, r
    <3>2. /\ r.changed => Work(r.nl) < Work(nl)
          /\ ~r.changed => r.nl = nl
      BY <3>1, VisitSound DEF r
    <3> QED
      BY <3>1, <3>2
  <2>2. CASE Scan \/ Validate
    BY <2>2 DEF Scan, Validate
  <2>3. CASE EndRound \/ Done \/ UNCHANGED vars
    BY <2>3 DEF EndRound, Done, vars
  <2> QED
    BY <1>1, <2>1, <2>2, <2>3 DEF Next
<1>2. Sound /\ [Next]_vars => [phase = "visit" /\ (nl' # nl \/ (progress' /\ ~progress))
                               => Work(nl') < Work(nl)]_vars
  BY <1>1
<1> QED
  BY <1>2, AlwaysSound, PTL DEF Spec, EveryChangeShrinks

-----------------------------------------------------------------------------
(* Designs that list every driver before the gates it feeds.               *)

InOrderDesigns == \A family \in Families : \A d \in family : DriversFirst(d)

(* Every input pin hangs on something.                                     *)
NoFloatingDesigns == \A family \in Families : \A d \in family : FloatingPins(d) = {}

(* The order is kept, the load lists of the gates still to be visited are  *)
(* complete although their maintenance is deferred, and ports and          *)
(* flip-flop pins carry what they carried.                                 *)
Ordered ==
  /\ Sound
  /\ DriversFirst(before) /\ DriversFirst(nl)
  /\ LoadsKnown(nl, cands)
  /\ SameValues(before, nl)

LEMMA InitOrdered ==
  ASSUME InOrderDesigns, Init
  PROVE  Ordered
<1>1. DriversFirst(nl) /\ before = nl /\ cands = {}
  BY DEF InOrderDesigns, Init
<1>2. LoadsKnown(nl, {})
  BY DEF LoadsKnown
<1> QED
  BY <1>1, <1>2, InitSound, SameValuesReflexive DEF Ordered

(* A load list read off the pins is complete.                              *)
LEMMA CurrentLoadsKnown ==
  ASSUME NEW d, Consistent(d), LoadsCurrent(d), NEW S, S \subseteq {k \in GateIds(d) : Comb(d, k)}
  PROVE  LoadsKnown(d, S)
<1> SUFFICES ASSUME NEW k \in S, NEW h \in GateIds(d), Live(d, h),
                    PinsOn(d, h, d.gates[k].out) # {}
             PROVE  d.nets[d.gates[k].out].loads[h] > 0
  BY DEF LoadsKnown
<1>1. IsNetlist(d)
  BY DEF Consistent
<1>2. d.gates[k].out \in NetIds(d) /\ Active(d, d.gates[k].out)
  BY OutFacts
<1>3. d.nets[d.gates[k].out].loads = PinLoads(d, d.gates[k].out)
  BY <1>2 DEF LoadsCurrent
<1>4. PinLoads(d, d.gates[k].out)[h] > 0
  BY <1>1, PinLoadsType
<1> QED
  BY <1>3, <1>4

LEMMA NextOrdered ==
  ASSUME Ordered, [Next]_vars
  PROVE  Ordered'
<1>1. Sound /\ Consistent(nl) /\ Frame(before, nl)
  BY DEF Ordered, Sound
<1>2. Sound'
  BY <1>1, NextSound
<1>3. CASE Scan
  <2>1. /\ Consistent(nl') /\ LoadsCurrent(nl') /\ SameButLoads(nl, nl')
        /\ cands' = Candidates(nl') /\ before' = before
    BY <1>1, <1>3, ScanRebuilds DEF Scan
  <2>2. DriversFirst(nl') /\ SameValues(nl, nl')
    BY <1>1, <2>1, RebuildValues DEF Ordered
  <2>3. SameValues(before, nl')
    BY <1>1, <2>2, SameValuesTransitive DEF Ordered
  <2>4. LoadsKnown(nl', cands')
    BY <2>1, CurrentLoadsKnown DEF Candidates
  <2> QED
    BY <1>2, <2>1, <2>2, <2>3, <2>4 DEF Ordered
<1>4. CASE Visit
  <2> DEFINE g == NextCandidate(cands)
             r == SimplifyGate(nl, g)
  <2>1. /\ g \in cands /\ g \in GateIds(nl) /\ Comb(nl, g) /\ \A k \in cands : g <= k
        /\ nl' = r.nl /\ cands' = cands \ {g} /\ before' = before
    BY <1>1, <1>4, VisitStep
  <2> HIDE DEF g, r
  <2>2. cands \subseteq {k \in GateIds(nl) : Comb(nl, k)}
    BY <1>1 DEF Sound
  <2>3. DriversFirst(r.nl) /\ LoadsKnown(r.nl, cands \ {g}) /\ SameValues(nl, r.nl)
    BY <1>1, <2>1, <2>2, VisitOrdered DEF Ordered, r
  <2>4. SameValues(before, r.nl)
    BY <1>1, <2>3, SameValuesTransitive DEF Ordered
  <2> QED
    BY <1>2, <2>1, <2>3, <2>4 DEF Ordered
<1>5. CASE Validate
  <2>1. Consistent(nl') /\ SameButLoads(nl, nl')
    BY <1>1, <1>5, ValidateStep
  <2>2. DriversFirst(nl') /\ SameValues(nl, nl')
    BY <1>1, <2>1, RebuildValues DEF Ordered
  <2>3. SameValues(before, nl')
    BY <1>1, <2>2, SameValuesTransitive DEF Ordered
  <2>4. cands' = {} /\ before' = before
    BY <1>1, <1>5 DEF Validate, Sound
  <2>5. LoadsKnown(nl', cands')
    BY <2>4 DEF LoadsKnown
  <2> QED
    BY <1>2, <2>2, <2>3, <2>4, <2>5 DEF Ordered
<1>6. CASE UNCHANGED <<nl, before, cands>>
  BY <1>2, <1>6 DEF Ordered
<1>7. EndRound \/ Done \/ UNCHANGED vars => UNCHANGED <<nl, before, cands>>
  BY DEF EndRound, Done, vars
<1> QED
  BY <1>3, <1>4, <1>5, <1>6, <1>7 DEF Next

(* Folding a design of any size that lists its drivers first never changes *)
(* what an output port or a flip-flop pin carries.                         *)
THEOREM FunctionKept ==
  ASSUME InOrderDesigns
  PROVE  Spec => []FunctionPreserved
<1>1. Init => Ordered
  BY InitOrdered
<1>2. Ordered /\ [Next]_vars => Ordered'
  BY NextOrdered
<1>3. Ordered => FunctionPreserved
  BY SameValuesSameFunction DEF Ordered, Sound, FunctionPreserved
<1> QED
  BY <1>1, <1>2, <1>3, PTL DEF Spec

(* For such a design the report's certificate is right.                    *)
THEOREM CertificateRight ==
  ASSUME InOrderDesigns
  PROVE  Spec => []CertifiedIsEquivalent
<1>1. FunctionPreserved => CertifiedIsEquivalent
  BY DEF FunctionPreserved, CertifiedIsEquivalent
<1> QED
  BY <1>1, FunctionKept, PTL

-----------------------------------------------------------------------------
(* Designs without floating pins.                                          *)

(* No pin floats, and a round without progress has nothing left to fold.   *)
Settled ==
  /\ Ordered
  /\ FloatingPins(before) = {} /\ FloatingPins(nl) = {}
  /\ phase = "visit" /\ ~progress => \A g \in Candidates(nl) \ cands : Folded(nl, g)
  /\ phase \in {"validate", "done"} => \A g \in Candidates(nl) : Folded(nl, g)

LEMMA InitSettled ==
  ASSUME InOrderDesigns, NoFloatingDesigns, Init
  PROVE  Settled
<1>1. FloatingPins(nl) = {} /\ before = nl /\ phase = "scan"
  BY DEF NoFloatingDesigns, Init
<1> QED
  BY <1>1, InitOrdered DEF Settled

(* Load lists have no say in what is left to fold.                         *)
LEMMA SameFolded ==
  ASSUME NEW d, Consistent(d), NEW e, SameButLoads(d, e)
  PROVE  /\ Candidates(e) = Candidates(d)
         /\ \A g \in Candidates(d) : Folded(d, g) => Folded(e, g)
<1>1. /\ e.gates = d.gates /\ GateIds(e) = GateIds(d) /\ NetIds(e) = NetIds(d)
      /\ \A n \in NetIds(d) : /\ e.nets[n].con = d.nets[n].con
                              /\ e.nets[n].po = d.nets[n].po
                              /\ e.nets[n].removed = d.nets[n].removed
  BY DEF SameButLoads
<1>2. ASSUME NEW n \in {None} \cup NetIds(d)
      PROVE  (Active(e, n) <=> Active(d, n)) /\ (IsConst(e, n) <=> IsConst(d, n))
  BY <1>1 DEF Active, IsConst, Kind
<1>3. ASSUME NEW g \in GateIds(d), NEW n \in Range(d.gates[g].ins)
      PROVE  n \in {None} \cup NetIds(d)
  <2>1. IsNetlist(d)
    BY DEF Consistent
  <2>2. \A i \in DOMAIN d.gates[g].ins : d.gates[g].ins[i] \in {None} \cup NetIds(d)
    BY <2>1, GateFacts
  <2> QED
    BY <2>2 DEF Range
<1>4. Candidates(e) = Candidates(d)
  BY <1>1, <1>2, <1>3 DEF Candidates, Comb
<1>5. \A kind \in {"zero", "one"} : ConstNet(e, kind) = ConstNet(d, kind)
  <2> SUFFICES ASSUME NEW kind \in {"zero", "one"}
               PROVE  ConstNet(e, kind) = ConstNet(d, kind)
    OBVIOUS
  <2> DEFINE old == {n \in NetIds(d) : d.nets[n].con = kind}
             new == {n \in NetIds(e) : e.nets[n].con = kind}
  <2>1. new = old
    BY <1>1
  <2>2. ConstNet(d, kind) = IF old = {} THEN None ELSE CHOOSE n \in old : TRUE
    BY DEF ConstNet
  <2>3. ConstNet(e, kind) = IF new = {} THEN None ELSE CHOOSE n \in new : TRUE
    BY DEF ConstNet
  <2> HIDE DEF old, new
  <2> QED
    BY <2>1, <2>2, <2>3
<1>6. ASSUME NEW g \in Candidates(d), d.gates[g].type = "BUF", d.nets[d.gates[g].out].po
      PROVE  e.gates[g].type = "BUF" /\ e.nets[e.gates[g].out].po
  <2>1. g \in GateIds(d) /\ Comb(d, g)
    BY DEF Candidates
  <2>2. d.gates[g].out \in NetIds(d)
    BY <2>1, OutFacts
  <2> QED
    BY <1>1, <1>6, <2>2
<1> QED
  BY <1>1, <1>4, <1>5, <1>6 DEF Folded

LEMMA NextSettled ==
  ASSUME Settled, [Next]_vars
  PROVE  Settled'
<1>1. Ordered /\ Sound /\ Consistent(nl) /\ IsNetlist(nl) /\ FloatingPins(nl) = {}
  BY DEF Settled, Ordered, Sound, Consistent
<1>2. Ordered'
  BY <1>1, NextOrdered
<1>3. CASE Scan
  <2>1. SameButLoads(nl, nl') /\ cands' = Candidates(nl') /\ before' = before
    BY <1>1, <1>3, ScanRebuilds DEF Scan
  <2>2. FloatingPins(nl') = {}
    BY <1>1, <2>1, RebuildFloats
  <2>3. phase' = IF cands' = {} THEN "validate" ELSE "visit"
    BY <1>3 DEF Scan
  <2> QED
    BY <1>2, <2>1, <2>2, <2>3 DEF Settled
<1>4. CASE Visit
  <2> DEFINE g == NextCandidate(cands)
             r == SimplifyGate(nl, g)
  <2>1. /\ g \in cands /\ g \in GateIds(nl) /\ Comb(nl, g) /\ \A k \in cands : g <= k
        /\ nl' = r.nl /\ progress' = (progress \/ r.changed) /\ cands' = cands \ {g}
        /\ before' = before /\ phase' = phase
    BY <1>1, <1>4, VisitStep
  <2> HIDE DEF g, r
  <2>2. cands \subseteq {k \in GateIds(nl) : Comb(nl, k)} /\ phase = "visit"
    BY <1>1, <1>4 DEF Sound, Visit
  <2>3. FloatingPins(r.nl) = {}
    BY <1>1, <2>1, <2>2, VisitOrdered DEF Ordered, r
  <2>4. ASSUME ~progress', NEW h \in Candidates(nl') \ cands'
        PROVE  Folded(nl', h)
    <3>1. ~progress /\ ~r.changed
      BY <2>1, <2>4
    <3>2. r.nl = nl /\ Stays(nl, g, r)
      BY <1>1, <2>1, <3>1, VisitSound DEF r
    <3>3. CASE h = g
      BY <1>1, <2>1, <2>4, <3>2, <3>3, StaysFolded
    <3>4. CASE h # g
      BY <2>1, <2>2, <2>4, <3>1, <3>2, <3>4 DEF Settled
    <3> QED
      BY <3>3, <3>4
  <2> QED
    BY <1>2, <2>1, <2>2, <2>3, <2>4 DEF Settled
<1>5. CASE EndRound
  <2>1. UNCHANGED <<nl, before, cands, progress>> /\ phase = "visit" /\ cands = {}
        /\ phase' = IF progress THEN "scan" ELSE "validate"
    BY <1>5 DEF EndRound
  <2> QED
    BY <1>2, <2>1 DEF Settled
<1>6. CASE Validate
  <2>1. SameButLoads(nl, nl') /\ before' = before /\ phase = "validate" /\ phase' = "done"
    BY <1>1, <1>6, ValidateStep DEF Validate
  <2>2. FloatingPins(nl') = {}
    BY <1>1, <2>1, RebuildFloats
  <2>3. \A g \in Candidates(nl) : Folded(nl, g)
    BY <2>1 DEF Settled
  <2>4. \A g \in Candidates(nl') : Folded(nl', g)
    BY <1>1, <2>1, <2>3, SameFolded
  <2> QED
    BY <1>2, <2>1, <2>2, <2>4 DEF Settled
<1>7. CASE Done \/ UNCHANGED vars
  BY <1>2, <1>7 DEF Done, vars, Settled
<1> QED
  BY <1>3, <1>4, <1>5, <1>6, <1>7 DEF Next

LEMMA AlwaysSettled ==
  ASSUME InOrderDesigns, NoFloatingDesigns
  PROVE  Spec => []Settled
<1>1. Init => Settled
  BY InitSettled
<1>2. Settled /\ [Next]_vars => Settled'
  BY NextSettled
<1> QED
  BY <1>1, <1>2, PTL DEF Spec

(* No visit leaves a pin on a net that nothing drives any more, although   *)
(* the load lists it moves pins by are not maintained within a round.      *)
THEOREM NothingLeftFloating ==
  ASSUME InOrderDesigns, NoFloatingDesigns
  PROVE  Spec => []NoPinLeftFloating
<1>1. Settled => NoPinLeftFloating
  BY DEF Settled, NoPinLeftFloating
<1> QED
  BY <1>1, AlwaysSettled, PTL

(* The rounds stop only when they are really done.                         *)
THEOREM FoldComplete ==
  ASSUME InOrderDesigns, NoFloatingDesigns
  PROVE  Spec => []FullyFolded
<1>1. Settled => FullyFolded
  BY DEF Settled, FullyFolded
<1> QED
  BY <1>1, AlwaysSettled, PTL
=============================================================================
