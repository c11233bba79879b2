---------------------------- MODULE Fraig_proofs -----------------------------
(***************************************************************************)
(* For every circuit and every budget: the sweep merges only nodes that    *)
(* are equal, its representatives stay, no pair is put to the solver again *)
(* after it was told apart, and the table never answers wrongly, not even  *)
(* when it denies an equality without a counterexample.                    *)
(*                                                                         *)
(* The sweep changes its state in four ways only: it starts over, it       *)
(* merges a node, it splits the classes by a new word, it gives nodes up.  *)
(* There is one lemma per way, and one on what holds when it is finished.  *)
(***************************************************************************)
EXTENDS Fraig, FiniteSetTheorems, TLAPS

-----------------------------------------------------------------------------
(* Functions of nodes.                                                     *)

(* Equality up to a phase carries over to representatives; phases add up.  *)
LEMMA SameFunctionThrough ==
  ASSUME NEW a, NEW b, NEW x, NEW y,
         NEW p \in BOOLEAN, NEW ia \in BOOLEAN, NEW ib \in BOOLEAN,
         SameFunction(a, b, p), SameFunction(a, x, ia), SameFunction(b, y, ib)
  PROVE  \E q \in BOOLEAN : SameFunction(x, y, q) /\ (q <=> ((ia <=> ib) <=> p))
<1>1. CASE (ia <=> ib) <=> p
  <2>1. SameFunction(x, y, TRUE)
    BY <1>1 DEF SameFunction, AgreeOn
  <2> QED
    BY <1>1, <2>1
<1>2. CASE ~((ia <=> ib) <=> p)
  <2>1. SameFunction(x, y, FALSE)
    BY <1>2 DEF SameFunction, AgreeOn
  <2> QED
    BY <1>2, <2>1
<1> QED
  BY <1>1, <1>2

(* The nodes of a circuit, and its leaves among them.                      *)
LEMMA NodesOfCircuit ==
  ASSUME TypeOK
  PROVE  /\ circuit.last \in Nat
         /\ Nodes \subseteq Nat /\ 0 \in Nodes
         /\ circuit.inputs \subseteq Nodes
         /\ \A n \in Nodes : n <= circuit.last
         /\ {} \in Assignments
         /\ circuit.on \in [Nodes -> SUBSET Assignments]
BY CircuitsAssumption DEF TypeOK, Nodes, Assignments

(* Two leaves never have one function, and no node is its own complement.  *)
LEMMA LeavesDiffer ==
  ASSUME TypeOK, NEW a \in Nodes, NEW b \in Nodes, IsLeaf(a), IsLeaf(b), a # b,
         NEW p \in BOOLEAN, SameFunction(a, b, p)
  PROVE  FALSE
<1>1. /\ circuit.on[0] = {}
      /\ \A i \in circuit.inputs : circuit.on[i] = {v \in Assignments : i \in v}
  BY CircuitsAssumption DEF TypeOK, Assignments
<1>2. {} \in Assignments /\ \A i \in circuit.inputs : {i} \in Assignments
  BY DEF Assignments
<1>3. 0 \notin circuit.inputs
  BY CircuitsAssumption DEF TypeOK
<1>4. {} \notin circuit.on[a] /\ {} \notin circuit.on[b]
  BY <1>1 DEF IsLeaf
<1>5. p = FALSE
  BY <1>2, <1>4 DEF SameFunction, AgreeOn
<1>6. CASE a # 0
  <2>1. {a} \in circuit.on[a] /\ {a} \notin circuit.on[b]
    BY <1>1, <1>2, <1>6 DEF IsLeaf
  <2> QED
    BY <1>2, <1>5, <1>6, <2>1 DEF SameFunction, AgreeOn, IsLeaf
<1>7. CASE a = 0
  <2>1. {b} \in circuit.on[b] /\ {b} \notin circuit.on[a]
    BY <1>1, <1>2, <1>7 DEF IsLeaf
  <2> QED
    BY <1>2, <1>5, <1>7, <2>1 DEF SameFunction, AgreeOn, IsLeaf
<1> QED
  BY <1>6, <1>7

LEMMA NotItsComplement ==
  ASSUME TypeOK, NEW a \in Nodes, NEW p \in BOOLEAN, SameFunction(a, a, p)
  PROVE  p = FALSE
<1>1. {} \in Assignments
  BY NodesOfCircuit
<1> QED
  BY <1>1 DEF SameFunction, AgreeOn

(* The clauses the solver holds exclude no assignment: whatever it finds   *)
(* equal is equal.                                                         *)
LEMMA ClausesHold ==
  ASSUME TypeOK, MergedAreEqual
  PROVE  ClauseModels = Assignments
BY DEF ClauseModels, MergedAreEqual, SameFunction

(* Of two nodes that are not both leaves, one comes first.                 *)
LEMMA OneComesFirst ==
  ASSUME TypeOK, NEW a \in Nodes, NEW b \in Nodes, a # b, ~(IsLeaf(a) /\ IsLeaf(b))
  PROVE  \/ rep_less(a, b) /\ ~IsLeaf(b)
         \/ rep_less(b, a) /\ ~IsLeaf(a)
<1>1. a \in Nat /\ b \in Nat
  BY NodesOfCircuit
<1> QED
  BY <1>1 DEF rep_less

LEMMA NotBoth ==
  ASSUME TypeOK, NEW a \in Nodes, NEW b \in Nodes, rep_less(a, b)
  PROVE  ~rep_less(b, a)
<1>1. a \in Nat /\ b \in Nat
  BY NodesOfCircuit
<1> QED
  BY <1>1 DEF rep_less

-----------------------------------------------------------------------------
(* Partitions.                                                             *)

LEMMA PartitionInside ==
  ASSUME NEW ns, NEW f, NEW vs, NEW c \in Partition(ns, f, vs)
  PROVE  c \subseteq ns
BY DEF Partition

LEMMA PartitionAgrees ==
  ASSUME NEW ns, NEW f, NEW vs, NEW c \in Partition(ns, f, vs),
         NEW a \in c, NEW b \in c, NEW v \in vs
  PROVE  AgreeOn(a, b, PhasesDiffer(a, b, f), v)
BY DEF Partition, sig_equal, AgreeOn, PhasesDiffer

(* Nodes with one function are never separated by simulation.              *)
LEMMA PartitionKeepsEquals ==
  ASSUME NEW ns, NEW f \in Assignments, NEW vs \in SUBSET Assignments,
         NEW a \in ns, NEW b \in ns, a # b, NEW p \in BOOLEAN, SameFunction(a, b, p)
  PROVE  \E c \in Partition(ns, f, vs) : a \in c /\ b \in c
<1> DEFINE d == {m \in ns : sig_equal(m, a, f, vs)}
<1>1. a \in d
  BY DEF sig_equal, AgreeOn, PhasesDiffer
<1>2. p <=> PhasesDiffer(a, b, f)
  BY DEF SameFunction, AgreeOn, PhasesDiffer
<1>3. sig_equal(b, a, f, vs)
  BY <1>2 DEF SameFunction, sig_equal, AgreeOn, PhasesDiffer
<1>4. d \in Partition(ns, f, vs)
  BY <1>1, <1>3 DEF Partition
<1> QED
  BY <1>1, <1>3, <1>4

(* No node is in two classes of a partition.                               *)
LEMMA PartitionDisjoint ==
  ASSUME NEW ns, NEW f, NEW vs, NEW c \in Partition(ns, f, vs),
         NEW d \in Partition(ns, f, vs), NEW n \in c, n \in d
  PROVE  c = d
<1>1. PICK x \in ns : c = {m \in ns : sig_equal(m, x, f, vs)}
  BY DEF Partition
<1>2. PICK y \in ns : d = {m \in ns : sig_equal(m, y, f, vs)}
  BY DEF Partition
<1>3. sig_equal(n, x, f, vs) /\ sig_equal(n, y, f, vs)
  BY <1>1, <1>2
<1>4. ASSUME NEW m \in ns PROVE sig_equal(m, x, f, vs) <=> sig_equal(m, y, f, vs)
  BY <1>3 DEF sig_equal, AgreeOn, PhasesDiffer
<1> QED
  BY <1>1, <1>2, <1>4

-----------------------------------------------------------------------------
(* The steps.                                                              *)

LEMMA FreshTable ==
  ASSUME NEW ns
  PROVE  /\ [n \in ns |-> "open"] \in [ns -> {"open", "merged", "givenUp"}]
         /\ [n \in ns |-> n] \in [ns -> ns]
OBVIOUS

(* A table in which no node is merged is right.                            *)
LEMMA StartingOver ==
  ASSUME TypeOK', state' = [n \in Nodes' |-> "open"], repr' = [n \in Nodes' |-> n],
         inverted' = {}, pendingNodes' = {}, refuted' = {}, gaveUp' = 0, cursor' = 0,
         \A c, d \in classes' : (\E n \in c : n \in d) => c = d,
         ~completed', pc' = "scan" => tried' = 2, EqualsTogether'
  PROVE  IInv'
<1>1. MergedAreEqual'
  BY DEF MergedAreEqual, SameFunction, AgreeOn
<1>2. TableOK'
  BY DEF TableOK
<1>3. LeadersLead'
  <2>1. ASSUME NEW c \in classes', NEW r \in c PROVE state'[r] = "open"
    BY DEF TypeOK
  <2>2. ASSUME NEW n \in Nodes' PROVE state'[n] # "merged"
    OBVIOUS
  <2> QED
    BY <2>1, <2>2 DEF LeadersLead
<1>4. RefutedSplit'
  BY DEF RefutedSplit
<1>5. ScanOK'
  <2>1. \A j \in Nodes' : ~(j < 0)
    BY CircuitsAssumption DEF TypeOK, Nodes
  <2> QED
    BY <2>1 DEF ScanOK
<1>6. CompleteFindsAll'
  BY DEF CompleteFindsAll, fraig_complete
<1> QED
  BY <1>1, <1>2, <1>3, <1>4, <1>5, <1>6 DEF IInv

(* Merging: what the solver proves is so, and leaders go on leading.       *)
LEMMA Merging ==
  ASSUME IInv, NEW i \in Nodes, NEW r \in Nodes, ProveEqual(i, r)
  PROVE  IInv'
<1> DEFINE compl == PhasesDiffer(i, r, first)
<1>1. /\ UNCHANGED <<circuit, level, tried, cap, pc, swept, first, completed>>
      /\ UNCHANGED <<expired, truncated, vectors, words, classes, pendingNodes,
                    pendingCex, rounds, gaveUp, refuted>>
      /\ pc = "scan" /\ ~expired /\ NextCandidate(i) /\ RepOf(r, i)
      /\ cursor' = i + 1
      /\ state' = [state EXCEPT ![i] = "merged"]
      /\ repr' = [repr EXCEPT ![i] = r]
      /\ inverted' = IF compl THEN inverted \union {i} ELSE inverted
  BY DEF ProveEqual, Scanning, merge_into, control, buffer
<1>2. /\ TypeOK /\ MergedAreEqual /\ TableOK /\ LeadersLead
      /\ RefutedSplit /\ EqualsTogether /\ ScanOK
  BY DEF IInv
<1>3. /\ Nodes' = Nodes /\ Assignments' = Assignments /\ Nodes \subseteq Nat
      /\ i <= circuit.last /\ circuit.last \in Nat
  BY <1>1, <1>2, NodesOfCircuit DEF Nodes, Assignments
<1>4. compl \in BOOLEAN /\ SameFunction(i, r, compl)
  BY <1>2, ClausesHold DEF ProveEqual, SameFunction, PhasesDiffer
<1>5. state[i] = "open" /\ ~IsLeaf(i) /\ i \in swept
  BY <1>1 DEF NextCandidate, Candidate, Follows
<1>6. PICK c \in classes : i \in c /\ r \in c /\ r # i /\ IsFirst(r, c)
  BY <1>1 DEF RepOf
<1>7. state[r] = "open" /\ rep_less(r, i)
  BY <1>2, <1>6 DEF LeadersLead, IsFirst
<1>8. /\ state \in [Nodes -> {"open", "merged", "givenUp"}] /\ repr \in [Nodes -> Nodes]
      /\ inverted \subseteq Nodes /\ classes \subseteq SUBSET Nodes
  BY <1>2 DEF TypeOK
<1>9. /\ state'[i] = "merged" /\ repr'[i] = r
      /\ \A n \in Nodes : n # i => state'[n] = state[n] /\ repr'[n] = repr[n]
      /\ \A n \in Nodes : n # i => ((n \in inverted') <=> (n \in inverted))
  BY <1>1, <1>8
<1>10. i \notin inverted
  BY <1>2, <1>5 DEF TableOK
<1>11. TypeOK'
  BY <1>1, <1>2, <1>3, <1>8 DEF TypeOK
<1>12. MergedAreEqual'
  <2>1. \A n \in Nodes : SameFunction(n, repr'[n], n \in inverted')
    <3>1. (i \in inverted') <=> compl
      BY <1>1, <1>10
    <3>2. SameFunction(i, repr'[i], i \in inverted')
      BY <1>4, <1>9, <3>1 DEF SameFunction, AgreeOn
    <3>3. \A n \in Nodes : n # i => SameFunction(n, repr'[n], n \in inverted')
      BY <1>2, <1>9 DEF MergedAreEqual, SameFunction, AgreeOn
    <3> QED
      BY <3>2, <3>3
  <2> QED
    BY <1>1, <1>3, <2>1 DEF MergedAreEqual, SameFunction, AgreeOn
<1>13. TableOK'
  <2>1. \A n \in Nodes : state[n] = "merged" => repr[n] # i
    BY <1>2, <1>6, <1>7, <1>8, NotBoth DEF LeadersLead, IsFirst
  <2>2. ASSUME NEW n \in Nodes
        PROVE  /\ IsLeaf(n) => state'[n] = "open"
               /\ state'[n] # "merged" => repr'[n] = n /\ n \notin inverted'
               /\ state'[n] = "merged" => repr'[n] # n /\ state'[repr'[n]] = "open"
    <3>1. CASE n = i
      BY <1>5, <1>6, <1>7, <1>9, <3>1
    <3>2. CASE n # i
      BY <1>2, <1>8, <1>9, <2>1, <3>2 DEF TableOK
    <3> QED
      BY <3>1, <3>2
  <2> QED
    BY <1>1, <1>3, <2>2 DEF TableOK, IsLeaf
<1>14. LeadersLead'
  <2>1. ASSUME NEW d \in classes, NEW q \in d, IsFirst(q, d) PROVE state'[q] = "open"
    <3>1. q # i
      BY <1>2, <1>6, <1>7, <1>8, <2>1, NotBoth DEF LeadersLead, IsFirst
    <3> QED
      BY <1>2, <1>8, <1>9, <2>1, <3>1 DEF LeadersLead
  <2>2. ASSUME NEW n \in Nodes, NEW d \in classes, state'[n] = "merged", repr'[n] \in d
        PROVE IsFirst(repr'[n], d)
    <3>1. CASE n = i
      BY <1>2, <1>6, <1>9, <2>2, <3>1 DEF LeadersLead
    <3>2. CASE n # i
      BY <1>2, <1>9, <2>2, <3>2 DEF LeadersLead
    <3> QED
      BY <3>1, <3>2
  <2>3. \A q, d : IsFirst(q, d)' <=> IsFirst(q, d)
    BY <1>1 DEF IsFirst, rep_less, IsLeaf
  <2> QED
    BY <1>1, <1>2, <1>3, <2>1, <2>2, <2>3 DEF LeadersLead
<1>15. RefutedSplit'
  <2>1. \A p \in refuted : p[1] \in Nodes
    BY <1>2 DEF TypeOK
  <2>2. \A n : Follows(n)' <=> Follows(n)
    BY <1>1 DEF Follows, rep_less, IsLeaf
  <2>3. \A n \in Nodes : state[n] # "open" => state'[n] # "open"
    BY <1>5, <1>9
  <2>4. \A a, b, v : AgreeOn(a, b, PhasesDiffer(a, b, first), v)'
                    <=> AgreeOn(a, b, PhasesDiffer(a, b, first), v)
    BY <1>1 DEF AgreeOn, PhasesDiffer
  <2> QED
    BY <1>1, <1>2, <2>1, <2>2, <2>3, <2>4 DEF RefutedSplit
<1>16. EqualsTogether'
  <2>1. \A n \in Nodes : state'[n] = "open" => state[n] = "open"
    BY <1>5, <1>9
  <2> QED
    BY <1>1, <1>2, <1>3, <2>1 DEF EqualsTogether, SameFunction, AgreeOn
<1>17. ScanOK'
  <2>1. ASSUME NEW j \in Nodes, j < i + 1, Candidate(j)'
        PROVE  j \in pendingNodes
    <3>1. j # i /\ Candidate(j)
      <4>1. Follows(j)' <=> Follows(j)
        BY <1>1 DEF Follows, rep_less, IsLeaf
      <4> QED
        BY <1>1, <1>9, <2>1, <4>1 DEF Candidate
    <3>2. j < cursor \/ (cursor <= j /\ j < i)
      BY <1>2, <1>3, <2>1, <3>1 DEF TypeOK
    <3> QED
      BY <1>1, <1>2, <3>1, <3>2 DEF ScanOK, NextCandidate
  <2>2. (\E n \in Nodes : state'[n] = "givenUp") => gaveUp' > 0
    BY <1>1, <1>2, <1>9 DEF ScanOK
  <2> QED
    BY <1>1, <1>2, <1>3, <2>1, <2>2 DEF ScanOK
<1>18. CompleteFindsAll'
  BY <1>1 DEF CompleteFindsAll
<1> QED
  BY <1>11, <1>12, <1>13, <1>14, <1>15, <1>16, <1>17, <1>18 DEF IInv

(* Giving up followers changes nothing that was merged and no leader.      *)
LEMMA GivingUpKeepsTable ==
  ASSUME IInv, NEW nodes \in SUBSET Nodes, \A n \in nodes : Follows(n),
         UNCHANGED <<circuit, classes, repr, inverted>>,
         state' = [n \in Nodes |-> IF n \in nodes /\ state[n] = "open"
                                   THEN "givenUp" ELSE state[n]]
  PROVE  MergedAreEqual' /\ TableOK' /\ LeadersLead'
<1>1. TypeOK /\ MergedAreEqual /\ TableOK /\ LeadersLead
  BY DEF IInv
<1>2. Nodes' = Nodes /\ Assignments' = Assignments
  BY DEF Nodes, Assignments
<1>3. /\ state \in [Nodes -> {"open", "merged", "givenUp"}] /\ repr \in [Nodes -> Nodes]
      /\ classes \subseteq SUBSET Nodes
  BY <1>1 DEF TypeOK
<1>4. \A n \in Nodes : /\ state'[n] = "merged" <=> state[n] = "merged"
                       /\ n \notin nodes => state'[n] = state[n]
  BY <1>3
<1>5. ASSUME NEW c \in classes, NEW q \in c, IsFirst(q, c) PROVE q \notin nodes
  <2>1. SUFFICES ASSUME q \in nodes PROVE FALSE
    OBVIOUS
  <2>2. PICK d \in classes : q \in d /\ \E m \in d : rep_less(m, q)
    BY <2>1 DEF Follows
  <2>3. c = d
    BY <1>1, <2>2 DEF LeadersLead
  <2>4. PICK m \in c : rep_less(m, q)
    BY <2>2, <2>3
  <2>5. m = q \/ rep_less(q, m)
    BY <1>5, <2>4 DEF IsFirst
  <2>6. m \in Nodes /\ q \in Nodes
    BY <1>3, <2>4
  <2> QED
    BY <1>1, <2>4, <2>5, <2>6, NotBoth
<1>6. MergedAreEqual'
  BY <1>1, <1>2 DEF MergedAreEqual, SameFunction, AgreeOn
<1> DEFINE Leader(q) == \A c \in classes : q \in c => IsFirst(q, c)
<1>7. ASSUME NEW n \in Nodes, state[n] = "merged" PROVE repr[n] \notin nodes
  <2>1. Leader(repr[n])
    BY <1>1, <1>7 DEF LeadersLead
  <2> QED
    BY <1>5, <2>1 DEF Follows
<1>8. TableOK'
  <2>1. ASSUME NEW n \in Nodes
        PROVE  /\ IsLeaf(n) => state'[n] = "open"
               /\ state'[n] # "merged" => repr[n] = n /\ n \notin inverted
               /\ state'[n] = "merged" => repr[n] # n /\ state'[repr[n]] = "open"
    <3>1. IsLeaf(n) => n \notin nodes
      BY DEF Follows
    <3> QED
      BY <1>1, <1>3, <1>4, <1>7, <3>1 DEF TableOK
  <2> QED
    BY <1>2, <2>1 DEF TableOK, IsLeaf
<1>9. LeadersLead'
  <2>1. \A q, d : IsFirst(q, d)' <=> IsFirst(q, d)
    BY DEF IsFirst, rep_less, IsLeaf
  <2> QED
    BY <1>1, <1>2, <1>3, <1>4, <1>5, <2>1 DEF LeadersLead
<1> QED
  BY <1>6, <1>8, <1>9

(* The number of nodes given up at a time.                                 *)
LEMMA GivenUpCounted ==
  ASSUME TypeOK, NEW nodes \in SUBSET Nodes
  PROVE  LET s == {n \in nodes : state[n] = "open"}
         IN Cardinality(s) \in Nat /\ (s # {} => Cardinality(s) > 0)
<1> DEFINE s == {n \in nodes : state[n] = "open"}
<1>1. IsFiniteSet(Nodes)
  BY NodesOfCircuit, FS_Interval DEF Nodes
<1>2. IsFiniteSet(s)
  BY <1>1, FS_Subset
<1>3. Cardinality(s) \in Nat /\ (Cardinality(s) = 0 <=> s = {})
  BY <1>2, FS_CardinalityType, FS_EmptySet
<1> QED
  BY <1>3

(* Splitting the classes by a word: they become smaller, leaders stay, and *)
(* nodes with one function stay together.                                  *)
LEMMA Splitting ==
  ASSUME IInv, NEW word \in SUBSET Assignments, repartition_last_word(word),
         UNCHANGED <<circuit, state, repr, inverted, first>>
  PROVE  /\ classes' \subseteq SUBSET Nodes /\ LeadersLead'
         /\ \A e \in classes' : \E c \in classes : e \subseteq c
         /\ \A e \in classes', v \in word : \A a, b \in e :
              AgreeOn(a, b, PhasesDiffer(a, b, first), v)
         /\ \A c \in classes : \A a, b \in c : \A p \in BOOLEAN :
              a # b /\ state[a] = "open" /\ state[b] = "open" /\ SameFunction(a, b, p)
                => \E e \in classes' : a \in e /\ b \in e
<1> DEFINE Kept(c) == {n \in c : Alive(n)}
<1>1. classes' = UNION {Partition(Kept(c), first, word) : c \in classes}
  BY DEF repartition_last_word
<1>2. TypeOK /\ LeadersLead /\ TableOK
  BY DEF IInv
<1>3. first \in Assignments /\ classes \subseteq SUBSET Nodes
  BY <1>2 DEF TypeOK
<1>4. ASSUME NEW e \in classes'
      PROVE  \E c \in classes : e \in Partition(Kept(c), first, word) /\ e \subseteq Kept(c)
  <2> HIDE DEF Kept
  <2>1. PICK c \in classes : e \in Partition(Kept(c), first, word)
    BY <1>1, <1>4
  <2> QED
    BY <2>1, PartitionInside
<1>5. \A e \in classes' : \E c \in classes : e \subseteq c
  BY <1>4
<1>6. classes' \subseteq SUBSET Nodes
  BY <1>3, <1>5
<1>7. ASSUME NEW e \in classes', NEW n \in e PROVE state[n] = "open"
  <2>1. n \in Nodes /\ Alive(n)
    BY <1>3, <1>4, <1>7
  <2> QED
    BY <1>2, <2>1 DEF Alive, TableOK
<1>8. ASSUME NEW d \in classes', NEW e \in classes', NEW n \in d, n \in e PROVE d = e
  <2>1. PICK x \in classes : d \in Partition(Kept(x), first, word) /\ d \subseteq Kept(x)
    BY <1>4
  <2>2. PICK y \in classes : e \in Partition(Kept(y), first, word) /\ e \subseteq Kept(y)
    BY <1>4
  <2>3. x = y
    BY <1>2, <1>8, <2>1, <2>2 DEF LeadersLead
  <2> QED
    BY <1>8, <2>1, <2>2, <2>3, PartitionDisjoint
<1>9. ASSUME NEW n \in Nodes, NEW e \in classes', state[n] = "merged", repr[n] \in e
      PROVE  IsFirst(repr[n], e)
  <2>1. PICK c \in classes : e \subseteq c
    BY <1>5
  <2>2. IsFirst(repr[n], c)
    BY <1>2, <1>9, <2>1 DEF LeadersLead
  <2> QED
    BY <2>1, <2>2 DEF IsFirst
<1>10. LeadersLead'
  <2>1. \A q, d : IsFirst(q, d)' <=> IsFirst(q, d)
    BY DEF IsFirst, rep_less, IsLeaf
  <2>2. Nodes' = Nodes
    BY DEF Nodes
  <2> QED
    BY <1>7, <1>8, <1>9, <2>1, <2>2 DEF LeadersLead
<1>11. ASSUME NEW e \in classes', NEW v \in word, NEW a \in e, NEW b \in e
       PROVE  AgreeOn(a, b, PhasesDiffer(a, b, first), v)
  BY <1>4, PartitionAgrees
<1>12. ASSUME NEW c \in classes, NEW a \in c, NEW b \in c, NEW p \in BOOLEAN, a # b,
              state[a] = "open", state[b] = "open", SameFunction(a, b, p)
       PROVE  \E e \in classes' : a \in e /\ b \in e
  <2>1. a \in Kept(c) /\ b \in Kept(c)
    BY <1>12 DEF Alive
  <2>2. \E e \in Partition(Kept(c), first, word) : a \in e /\ b \in e
    <3> HIDE DEF Kept
    <3> QED
      BY <1>3, <1>12, <2>1, PartitionKeepsEquals
  <2> QED
    BY <1>1, <2>2
<1> QED
  BY <1>5, <1>6, <1>10, <1>11, <1>12

(* Emptying the buffer, by a flush or by giving its nodes up.              *)
LEMMA Emptying ==
  ASSUME IInv, NEW nodes \in SUBSET Nodes, NEW cex \in SUBSET Assignments,
         NEW next \in 0..(circuit.last + 1), FlushOrAbandon(nodes, cex, next),
         UNCHANGED <<circuit, level, tried, cap, pc, swept, first, completed>>,
         pc = "scan", ~expired, refuted' \subseteq Nodes \X Nodes,
         \A n \in nodes : Follows(n),
         \A p \in refuted' :
           \/ /\ p[1] \in nodes
              /\ \E v \in cex : ~AgreeOn(p[1], p[2], PhasesDiffer(p[1], p[2], first), v)
           \/ state[p[1]] # "open"
           \/ \A c \in classes : ~(p[1] \in c /\ p[2] \in c),
         \A j \in Nodes : j < next /\ Candidate(j) => j \in nodes
  PROVE  IInv'
<1>1. /\ TypeOK /\ MergedAreEqual /\ TableOK /\ LeadersLead
      /\ RefutedSplit /\ EqualsTogether /\ ScanOK
  BY DEF IInv
<1>2. /\ Nodes' = Nodes /\ Assignments' = Assignments /\ Nodes \subseteq Nat
      /\ circuit.last \in Nat
  BY <1>1, NodesOfCircuit DEF Nodes, Assignments
<1>3. CompleteFindsAll'
  BY DEF CompleteFindsAll
<1>4. \A a, b, p : SameFunction(a, b, p)' <=> SameFunction(a, b, p)
  BY <1>2 DEF SameFunction, AgreeOn
<1>5. \A a, b, v : AgreeOn(a, b, PhasesDiffer(a, b, first), v)'
                  <=> AgreeOn(a, b, PhasesDiffer(a, b, first), v)
  BY DEF AgreeOn, PhasesDiffer
<1>6. CASE rounds < MaxRounds /\ flush_cex(cex)
  <2>1. PICK fill \in SUBSET Assignments :
          vectors' = vectors \union cex \union fill /\ repartition_last_word(cex \union fill)
    BY <1>6 DEF flush_cex
  <2>2. /\ words < MaxWords /\ words' = words + 1 /\ rounds' = rounds + 1 /\ cursor' = 0
        /\ pendingNodes' = {} /\ pendingCex' = {}
        /\ UNCHANGED <<state, repr, inverted, gaveUp, truncated, expired>>
    BY <1>6 DEF flush_cex
  <2>3. /\ classes' \subseteq SUBSET Nodes /\ LeadersLead'
        /\ \A e \in classes' : \E c \in classes : e \subseteq c
        /\ \A e \in classes', v \in cex \union fill : \A a, b \in e :
             AgreeOn(a, b, PhasesDiffer(a, b, first), v)
        /\ \A c \in classes : \A a, b \in c : \A p \in BOOLEAN :
             a # b /\ state[a] = "open" /\ state[b] = "open" /\ SameFunction(a, b, p)
               => \E e \in classes' : a \in e /\ b \in e
    <3>1. cex \union fill \in SUBSET Assignments
      OBVIOUS
    <3> HIDE DEF IInv
    <3> QED
      BY <2>1, <2>2, <3>1, Splitting
  <2>4. TypeOK'
    BY <1>1, <1>2, <1>6, <2>1, <2>2, <2>3, BoundsAssumption DEF TypeOK
  <2>5. MergedAreEqual' /\ TableOK'
    BY <1>1, <1>2, <1>4, <2>2 DEF MergedAreEqual, TableOK, IsLeaf
  <2>6. RefutedSplit'
    <3>1. ASSUME NEW p \in refuted', state[p[1]] = "open", NEW e \in classes',
                 p[1] \in e, p[2] \in e
          PROVE  FALSE
      BY <2>3, <3>1
    <3> QED
      BY <2>2, <3>1 DEF RefutedSplit
  <2>7. EqualsTogether'
    BY <1>1, <1>2, <1>4, <2>2, <2>3 DEF EqualsTogether
  <2>8. ScanOK'
    <3>1. \A j \in Nodes : ~(j < 0)
      BY <1>2
    <3> QED
      BY <1>1, <1>2, <2>2, <3>1 DEF ScanOK
  <2> QED
    BY <1>3, <2>3, <2>4, <2>5, <2>6, <2>7, <2>8 DEF IInv
<1>7. CASE /\ abandon_pending(nodes) /\ cursor' = next
           /\ expired' \in BOOLEAN /\ truncated' \in BOOLEAN
           /\ (truncated' # truncated \/ expired' # expired) => truncated' /\ expired'
  <2>1. /\ state' = [n \in Nodes |-> IF n \in nodes /\ state[n] = "open"
                                    THEN "givenUp" ELSE state[n]]
        /\ gaveUp' = gaveUp + Cardinality({n \in nodes : state[n] = "open"})
        /\ pendingNodes' = {} /\ pendingCex' = {}
        /\ UNCHANGED <<classes, repr, inverted, rounds, vectors, words>>
    BY <1>7 DEF abandon_pending
  <2>2. MergedAreEqual' /\ TableOK' /\ LeadersLead'
    BY <2>1, GivingUpKeepsTable
  <2>3. state \in [Nodes -> {"open", "merged", "givenUp"}] /\ gaveUp \in Nat
    BY <1>1 DEF TypeOK
  <2>4. \A n \in Nodes : /\ state[n] # "open" => state'[n] # "open"
                         /\ state'[n] = "open" => state[n] = "open" /\ n \notin nodes
    BY <2>1, <2>3
  <2> DEFINE s == {n \in nodes : state[n] = "open"}
  <2>5. Cardinality(s) \in Nat /\ (s # {} => Cardinality(s) > 0)
    BY <1>1, GivenUpCounted
  <2>6. TypeOK'
    <3>1. state' \in [Nodes -> {"open", "merged", "givenUp"}]
      BY <2>1, <2>3
    <3>2. gaveUp' \in Nat
      BY <2>1, <2>3, <2>5
    <3> QED
      BY <1>1, <1>2, <1>7, <2>1, <3>1, <3>2 DEF TypeOK
  <2>7. RefutedSplit'
    <3>1. \A p \in refuted' : p[1] \in Nodes
      OBVIOUS
    <3>2. ASSUME NEW p \in refuted', p[1] \in nodes PROVE state'[p[1]] # "open"
      BY <2>4, <3>1, <3>2
    <3> QED
      BY <2>1, <2>4, <3>1, <3>2 DEF RefutedSplit
  <2>8. EqualsTogether'
    <3>1. CASE truncated' = truncated /\ expired' = expired
      BY <1>1, <1>2, <1>4, <2>1, <2>4, <3>1 DEF EqualsTogether
    <3>2. CASE truncated' /\ expired'
      BY <3>2 DEF EqualsTogether
    <3> QED
      BY <1>7, <3>1, <3>2
  <2>9. ScanOK'
    <3>1. ASSUME NEW j \in Nodes, j < next, Candidate(j)' PROVE FALSE
      <4>1. Follows(j)' <=> Follows(j)
        BY <2>1 DEF Follows, rep_less, IsLeaf
      <4>2. Candidate(j) /\ j \notin nodes
        BY <2>4, <3>1, <4>1 DEF Candidate
      <4> QED
        BY <3>1, <4>2
    <3>2. ASSUME NEW n \in Nodes, state'[n] = "givenUp" PROVE gaveUp' > 0
      <4>1. CASE state[n] = "givenUp"
        BY <1>1, <2>1, <2>3, <2>5, <4>1 DEF ScanOK
      <4>2. CASE n \in s
        BY <2>1, <2>3, <2>5, <4>2
      <4> QED
        BY <2>1, <3>2, <4>1, <4>2
    <3> QED
      BY <1>1, <1>2, <1>7, <3>1, <3>2 DEF ScanOK
  <2> QED
    BY <1>3, <2>2, <2>6, <2>7, <2>8, <2>9 DEF IInv
<1>8. TypeOK /\ expired \in BOOLEAN /\ truncated \in BOOLEAN
  BY <1>1 DEF TypeOK
<1> QED
  BY <1>6, <1>7, <1>8 DEF FlushOrAbandon

(* What is a candidate before the next place of the cursor.                *)
LEMMA PassedCandidates ==
  ASSUME IInv, NEW i \in Nodes, NextCandidate(i), pc = "scan",
         NEW j \in Nodes, j < i + 1, Candidate(j), j # i
  PROVE  j \in pendingNodes
<1>1. Nodes \subseteq Nat /\ cursor \in Int
  BY NodesOfCircuit DEF IInv, TypeOK
<1>2. j < cursor \/ (cursor <= j /\ j < i)
  BY <1>1
<1> QED
  BY <1>2 DEF NextCandidate, IInv, ScanOK

(* Telling a pair apart.                                                   *)
LEMMA Refuting ==
  ASSUME IInv, NEW i \in Nodes, NEW r \in Nodes, Refute(i, r)
  PROVE  IInv'
<1>1. /\ UNCHANGED <<circuit, level, tried, cap, pc, swept, first, completed>>
      /\ pc = "scan" /\ ~expired /\ NextCandidate(i) /\ RepOf(r, i)
      /\ refuted' = refuted \union {<<i, r>>}
  BY DEF Refute, Scanning, control
<1>2. PICK v \in ClauseModels :
        /\ ~AgreeOn(i, r, PhasesDiffer(i, r, first), v)
        /\ IF Cardinality(pendingNodes \union {i}) < CexPerWord
           THEN /\ pendingNodes' = pendingNodes \union {i}
                /\ pendingCex' = pendingCex \union {v}
                /\ cursor' = i + 1
                /\ UNCHANGED <<expired, truncated, vectors, words, classes,
                               table, rounds, gaveUp>>
           ELSE FlushOrAbandon(pendingNodes \union {i}, pendingCex \union {v}, i + 1)
  BY DEF Refute
<1>3. /\ TypeOK /\ MergedAreEqual /\ TableOK /\ LeadersLead
      /\ RefutedSplit /\ EqualsTogether /\ ScanOK
  BY DEF IInv
<1>4. /\ Nodes' = Nodes /\ Assignments' = Assignments /\ Nodes \subseteq Nat
      /\ circuit.last \in Nat /\ i <= circuit.last
  BY <1>1, <1>3, NodesOfCircuit DEF Nodes, Assignments
<1>5. v \in Assignments
  BY <1>2 DEF ClauseModels
<1> DEFINE nodes == pendingNodes \union {i}
           cex == pendingCex \union {v}
<1>6. /\ nodes \in SUBSET Nodes /\ cex \in SUBSET Assignments
      /\ i + 1 \in 0..(circuit.last + 1) /\ refuted' \subseteq Nodes \X Nodes
  BY <1>1, <1>3, <1>4, <1>5 DEF TypeOK
<1>7. \A n \in nodes : Follows(n)
  BY <1>1, <1>3 DEF RefutedSplit, NextCandidate, Candidate
<1>8. ASSUME NEW p \in refuted'
      PROVE  \/ /\ p[1] \in nodes
                /\ \E u \in cex : ~AgreeOn(p[1], p[2], PhasesDiffer(p[1], p[2], first), u)
             \/ state[p[1]] # "open"
             \/ \A c \in classes : ~(p[1] \in c /\ p[2] \in c)
  <2>1. CASE p \in refuted
    BY <1>3, <2>1 DEF RefutedSplit
  <2>2. CASE p = <<i, r>>
    BY <1>2, <2>2
  <2> QED
    BY <1>1, <2>1, <2>2
<1>9. \A j \in Nodes : j < i + 1 /\ Candidate(j) => j \in nodes
  BY <1>1, PassedCandidates
<1>10. CASE Cardinality(nodes) < CexPerWord
  <2>1. /\ pendingNodes' = nodes /\ pendingCex' = cex /\ cursor' = i + 1
        /\ UNCHANGED <<expired, truncated, vectors, words, classes, state, repr,
                       inverted, rounds, gaveUp>>
    BY <1>2, <1>10 DEF table
  <2>2. TypeOK'
    BY <1>1, <1>3, <1>4, <1>6, <2>1 DEF TypeOK
  <2>3. \A a, b, p : SameFunction(a, b, p)' <=> SameFunction(a, b, p)
    BY <1>1, <1>4 DEF SameFunction, AgreeOn
  <2>4. \A n : Follows(n)' <=> Follows(n)
    BY <1>1, <2>1 DEF Follows, rep_less, IsLeaf
  <2>5. \A q, d : IsFirst(q, d)' <=> IsFirst(q, d)
    BY <1>1 DEF IsFirst, rep_less, IsLeaf
  <2>6. MergedAreEqual' /\ TableOK' /\ LeadersLead' /\ EqualsTogether'
    BY <1>1, <1>3, <1>4, <2>1, <2>3, <2>5
    DEF MergedAreEqual, TableOK, LeadersLead, EqualsTogether, IsLeaf
  <2>7. RefutedSplit'
    <3>1. \A a, b, u : AgreeOn(a, b, PhasesDiffer(a, b, first), u)'
                      <=> AgreeOn(a, b, PhasesDiffer(a, b, first), u)
      BY <1>1 DEF AgreeOn, PhasesDiffer
    <3> QED
      BY <1>7, <1>8, <2>1, <2>4, <3>1 DEF RefutedSplit
  <2>8. ScanOK'
    BY <1>1, <1>3, <1>4, <1>9, <2>1, <2>4 DEF ScanOK, Candidate
  <2>9. CompleteFindsAll'
    BY <1>1 DEF CompleteFindsAll
  <2> QED
    BY <2>2, <2>6, <2>7, <2>8, <2>9 DEF IInv
<1>11. CASE ~(Cardinality(nodes) < CexPerWord)
  <2>1. FlushOrAbandon(nodes, cex, i + 1)
    BY <1>2, <1>11
  <2> HIDE DEF nodes, cex
  <2> QED
    BY <1>1, <1>6, <1>7, <1>8, <1>9, <2>1, Emptying
<1> QED
  BY <1>10, <1>11

(* The end of a scan with a buffer that is not empty.                      *)
LEMMA EmptyingLeftover ==
  ASSUME IInv, Leftover
  PROVE  IInv'
<1>1. /\ UNCHANGED <<circuit, level, tried, cap, pc, swept, first, completed, refuted>>
      /\ pc = "scan" /\ ~expired /\ FlushOrAbandon(pendingNodes, pendingCex, 0)
  BY DEF Leftover, Scanning, control
<1>2. TypeOK /\ RefutedSplit
  BY DEF IInv
<1>3. circuit.last \in Nat /\ Nodes \subseteq Nat
  BY <1>2, NodesOfCircuit
<1>4. /\ pendingNodes \in SUBSET Nodes /\ pendingCex \in SUBSET Assignments
      /\ refuted' \subseteq Nodes \X Nodes /\ 0 \in 0..(circuit.last + 1)
  BY <1>1, <1>2, <1>3 DEF TypeOK
<1>5. \A n \in pendingNodes : Follows(n)
  BY <1>2 DEF RefutedSplit
<1>6. \A p \in refuted' :
        \/ /\ p[1] \in pendingNodes
           /\ \E v \in pendingCex : ~AgreeOn(p[1], p[2], PhasesDiffer(p[1], p[2], first), v)
        \/ state[p[1]] # "open"
        \/ \A c \in classes : ~(p[1] \in c /\ p[2] \in c)
  BY <1>1, <1>2 DEF RefutedSplit
<1>7. \A j \in Nodes : j < 0 /\ Candidate(j) => j \in pendingNodes
  BY <1>3
<1> QED
  BY <1>1, <1>4, <1>5, <1>6, <1>7, Emptying

(* A question the solver cannot answer.                                    *)
LEMMA GivingUp ==
  ASSUME IInv, NEW i \in Nodes, GiveUp(i)
  PROVE  IInv'
<1>1. /\ UNCHANGED <<circuit, level, tried, cap, pc, swept, first, completed>>
      /\ UNCHANGED <<expired, truncated, vectors, words, classes, repr, inverted,
                    pendingNodes, pendingCex, rounds, refuted>>
      /\ pc = "scan" /\ ~expired /\ NextCandidate(i)
      /\ state' = [state EXCEPT ![i] = "givenUp"]
      /\ gaveUp' = gaveUp + 1 /\ cursor' = i + 1
  BY DEF GiveUp, Scanning, control, buffer
<1>2. /\ TypeOK /\ RefutedSplit /\ EqualsTogether /\ ScanOK
  BY DEF IInv
<1>3. /\ Nodes' = Nodes /\ Assignments' = Assignments /\ Nodes \subseteq Nat
      /\ circuit.last \in Nat /\ i <= circuit.last
  BY <1>1, <1>2, NodesOfCircuit DEF Nodes, Assignments
<1>4. state[i] = "open" /\ Follows(i)
  BY <1>1 DEF NextCandidate, Candidate
<1>5. state \in [Nodes -> {"open", "merged", "givenUp"}] /\ gaveUp \in Nat
  BY <1>2 DEF TypeOK
<1>6. MergedAreEqual' /\ TableOK' /\ LeadersLead'
  <2>1. state' = [n \in Nodes |-> IF n \in {i} /\ state[n] = "open"
                                  THEN "givenUp" ELSE state[n]]
    BY <1>1, <1>4, <1>5
  <2>2. {i} \in SUBSET Nodes /\ \A n \in {i} : Follows(n)
    BY <1>4
  <2> QED
    BY <1>1, <2>1, <2>2, GivingUpKeepsTable
<1>7. \A n \in Nodes : /\ n # i => state'[n] = state[n]
                       /\ state'[i] = "givenUp"
  BY <1>1, <1>5
<1>8. TypeOK'
  BY <1>1, <1>2, <1>3, <1>5 DEF TypeOK
<1>9. \A n : Follows(n)' <=> Follows(n)
  BY <1>1 DEF Follows, rep_less, IsLeaf
<1>10. RefutedSplit'
  <2>1. \A a, b, u : AgreeOn(a, b, PhasesDiffer(a, b, first), u)'
                    <=> AgreeOn(a, b, PhasesDiffer(a, b, first), u)
    BY <1>1 DEF AgreeOn, PhasesDiffer
  <2>2. \A p \in refuted : p[1] \in Nodes
    BY <1>2 DEF TypeOK
  <2>3. \A n \in Nodes : state[n] # "open" => state'[n] # "open"
    BY <1>4, <1>7
  <2> QED
    BY <1>1, <1>2, <1>9, <2>1, <2>2, <2>3 DEF RefutedSplit
<1>11. EqualsTogether'
  <2>1. \A a, b, p : SameFunction(a, b, p)' <=> SameFunction(a, b, p)
    BY <1>1, <1>3 DEF SameFunction, AgreeOn
  <2>2. \A n \in Nodes : state'[n] = "open" => state[n] = "open"
    BY <1>4, <1>7
  <2> QED
    BY <1>1, <1>2, <1>3, <2>1, <2>2 DEF EqualsTogether
<1>12. ScanOK'
  <2>1. ASSUME NEW j \in Nodes, j < i + 1, Candidate(j)' PROVE j \in pendingNodes
    <3>1. j # i /\ Candidate(j)
      BY <1>1, <1>7, <1>9, <2>1 DEF Candidate
    <3> QED
      BY <1>1, <2>1, <3>1, PassedCandidates
  <2>2. gaveUp' > 0
    BY <1>1, <1>5
  <2> QED
    BY <1>1, <1>2, <1>3, <2>1, <2>2 DEF ScanOK
<1>13. CompleteFindsAll'
  BY <1>1 DEF CompleteFindsAll
<1> QED
  BY <1>6, <1>8, <1>10, <1>11, <1>12, <1>13 DEF IInv

(* What a complete scan has shown: with no candidate left and nothing given *)
(* up, nodes with one function share their representative.                 *)
LEMMA NothingLeft ==
  ASSUME IInv, pc = "scan", ~expired, ScanEnded, pendingNodes = {}, gaveUp = 0,
         NEW a \in Nodes, NEW b \in Nodes, NEW p \in BOOLEAN, SameFunction(a, b, p)
  PROVE  same_class(a, b, p)
<1> DEFINE x == repr[a]
           y == repr[b]
           ia == a \in inverted
           ib == b \in inverted
<1>1. /\ TypeOK /\ MergedAreEqual /\ TableOK /\ EqualsTogether /\ ScanOK
  BY DEF IInv
<1>2. x \in Nodes /\ y \in Nodes /\ ia \in BOOLEAN /\ ib \in BOOLEAN
  BY <1>1 DEF TypeOK
<1>3. \A j \in Nodes : ~Candidate(j)
  <2>1. \A j \in Nodes : j < cursor \/ cursor <= j
    BY <1>1, NodesOfCircuit DEF TypeOK
  <2> QED
    BY <1>1, <2>1 DEF ScanOK, ScanEnded
<1>4. \A n \in Nodes : state[n] # "givenUp"
  BY <1>1 DEF ScanOK
<1>5. state[x] = "open" /\ state[y] = "open"
  BY <1>1, <1>4 DEF TypeOK, TableOK
<1>6. PICK q \in BOOLEAN : SameFunction(x, y, q) /\ (q <=> ((ia <=> ib) <=> p))
  <2>1. SameFunction(a, x, ia) /\ SameFunction(b, y, ib)
    BY <1>1 DEF MergedAreEqual
  <2> HIDE DEF x, y, ia, ib
  <2> QED
    BY <1>2, <2>1, SameFunctionThrough
<1>7. x = y
  <2>1. SUFFICES ASSUME x # y PROVE FALSE
    OBVIOUS
  <2>2. PICK c \in classes : x \in c /\ y \in c
    BY <1>1, <1>2, <1>5, <1>6, <2>1 DEF EqualsTogether
  <2>3. ~(IsLeaf(x) /\ IsLeaf(y))
    BY <1>1, <1>2, <1>6, <2>1, LeavesDiffer
  <2>4. \/ rep_less(x, y) /\ ~IsLeaf(y)
        \/ rep_less(y, x) /\ ~IsLeaf(x)
    BY <1>1, <1>2, <2>1, <2>3, OneComesFirst
  <2>5. swept = Nodes
    BY <1>1 DEF EqualsTogether
  <2> QED
    BY <1>2, <1>3, <1>5, <2>2, <2>4, <2>5 DEF Candidate, Follows
<1>8. q = FALSE
  BY <1>1, <1>2, <1>6, <1>7, NotItsComplement
<1> QED
  BY <1>6, <1>7, <1>8 DEF same_class

(* The end of the sweep, complete or cut short.                            *)
LEMMA Ending ==
  ASSUME IInv, Finish \/ Stop
  PROVE  IInv'
<1>1. /\ UNCHANGED <<circuit, tried, cap, truncated, swept, first, vectors, words, classes,
                    state, repr, inverted, cursor, pendingNodes, pendingCex, rounds,
                    gaveUp, refuted>>
      /\ pc' = "idle" /\ pc = "scan" /\ level' = 2
      /\ expired' \in BOOLEAN /\ completed' \in BOOLEAN
  BY DEF Finish, Stop, simulation, table, buffer, IInv, TypeOK
<1>2. /\ TypeOK /\ MergedAreEqual /\ TableOK /\ LeadersLead
      /\ RefutedSplit /\ EqualsTogether /\ ScanOK
  BY DEF IInv
<1>3. Nodes' = Nodes /\ Assignments' = Assignments
  BY <1>1 DEF Nodes, Assignments
<1>4. TypeOK'
  BY <1>1, <1>2, <1>3 DEF TypeOK, ScanOK
<1>5. \A a, b, p : SameFunction(a, b, p)' <=> SameFunction(a, b, p)
  BY <1>1, <1>3 DEF SameFunction, AgreeOn
<1>6. \A q, d : IsFirst(q, d)' <=> IsFirst(q, d)
  BY <1>1 DEF IsFirst, rep_less, IsLeaf
<1>7. MergedAreEqual' /\ TableOK' /\ LeadersLead'
  BY <1>1, <1>2, <1>3, <1>5, <1>6 DEF MergedAreEqual, TableOK, LeadersLead, IsLeaf
<1>8. RefutedSplit'
  <2>1. \A a, b, u : AgreeOn(a, b, PhasesDiffer(a, b, first), u)'
                    <=> AgreeOn(a, b, PhasesDiffer(a, b, first), u)
    BY <1>1 DEF AgreeOn, PhasesDiffer
  <2>2. \A n : Follows(n)' <=> Follows(n)
    BY <1>1 DEF Follows, rep_less, IsLeaf
  <2> QED
    BY <1>1, <1>2, <2>1, <2>2 DEF RefutedSplit
<1>9. EqualsTogether' /\ ScanOK'
  BY <1>1, <1>2, <1>3 DEF EqualsTogether, ScanOK
<1>10. CompleteFindsAll'
  <2>1. \A a, b, p : same_class(a, b, p)' <=> same_class(a, b, p)
    BY <1>1 DEF same_class
  <2>2. SUFFICES ASSUME fraig_complete', NEW a \in Nodes, NEW b \in Nodes,
                        NEW p \in BOOLEAN, SameFunction(a, b, p)
                 PROVE  same_class(a, b, p)
    BY <1>3, <1>5, <2>1 DEF CompleteFindsAll
  <2>3. completed' /\ gaveUp = 0
    BY <1>1, <2>2 DEF fraig_complete
  <2>4. ~expired /\ ScanEnded /\ pendingNodes = {}
    BY <1>1, <1>2, <2>3 DEF Finish, Stop, ScanOK
  <2> QED
    BY <1>1, <2>2, <2>3, <2>4, NothingLeft
<1> QED
  BY <1>4, <1>7, <1>8, <1>9, <1>10 DEF IInv

-----------------------------------------------------------------------------
(* The specification.                                                      *)

LEMMA InitIInv == Init => IInv
<1> SUFFICES ASSUME Init PROVE IInv
  OBVIOUS
<1>1. TypeOK
  <2>1. state \in [Nodes -> {"open", "merged", "givenUp"}] /\ repr \in [Nodes -> Nodes]
    BY FreshTable DEF Init
  <2>2. circuit \in Circuits /\ circuit.last \in Nat /\ 0 \in 0..(circuit.last + 1)
    BY CircuitsAssumption DEF Init
  <2>3. {} \in Assignments /\ 0 \in 0..MaxWords /\ 0 \in 0..MaxRounds
    BY BoundsAssumption DEF Assignments
  <2> QED
    <3>1. /\ level \in 0..2 /\ tried \in 0..2 /\ level <= tried /\ words \in 0..MaxWords
          /\ cursor \in 0..(circuit.last + 1) /\ rounds \in 0..MaxRounds /\ gaveUp \in Nat
      BY <2>2, <2>3 DEF Init
    <3>2. /\ cap \in BOOLEAN /\ pc \in {"idle", "scan"} /\ expired \in BOOLEAN
          /\ truncated \in BOOLEAN /\ completed \in BOOLEAN
      BY DEF Init
    <3>3. /\ swept \subseteq Nodes /\ first \in Assignments /\ vectors \subseteq Assignments
          /\ classes \subseteq SUBSET Nodes /\ inverted \subseteq Nodes
          /\ pendingNodes \subseteq Nodes /\ pendingCex \subseteq Assignments
          /\ refuted \subseteq Nodes \X Nodes
      BY <2>3 DEF Init
    <3> QED
      BY <2>1, <2>2, <3>1, <3>2, <3>3 DEF TypeOK
<1>2. MergedAreEqual /\ TableOK /\ LeadersLead
  BY DEF Init, MergedAreEqual, SameFunction, AgreeOn, TableOK, LeadersLead
<1>3. RefutedSplit /\ EqualsTogether /\ ScanOK /\ CompleteFindsAll
  BY DEF Init, RefutedSplit, EqualsTogether, ScanOK, CompleteFindsAll, fraig_complete
<1> QED
  BY <1>1, <1>2, <1>3 DEF IInv

(* No sweep, or one cut before it had any data.                            *)
LEMMA NothingSwept ==
  ASSUME circuit' \in Circuits, level' \in {0, 1, 2}, tried' = level', cap' \in BOOLEAN,
         pc' = "idle", expired' \in BOOLEAN, truncated' \in BOOLEAN, completed' \in BOOLEAN,
         swept' = {}, first' = {}, vectors' = {}, words' = 0, classes' = {}, cursor' = 0,
         pendingNodes' = {}, pendingCex' = {}, rounds' = 0, gaveUp' = 0, refuted' = {},
         inverted' = {}, state' = [n \in Nodes' |-> "open"], repr' = [n \in Nodes' |-> n]
  PROVE  TypeOK'
<1>1. circuit'.last \in Nat /\ 0 \in 0..(circuit'.last + 1)
  BY CircuitsAssumption
<1>2. /\ state' \in [Nodes' -> {"open", "merged", "givenUp"}]
      /\ repr' \in [Nodes' -> Nodes']
  BY FreshTable
<1>3. {} \in Assignments' /\ 0 \in 0..MaxWords /\ 0 \in 0..MaxRounds
  BY BoundsAssumption DEF Assignments
<1>4. /\ level' \in 0..2 /\ tried' \in 0..2 /\ level' <= tried' /\ words' \in 0..MaxWords
      /\ cursor' \in 0..(circuit'.last + 1) /\ rounds' \in 0..MaxRounds /\ gaveUp' \in Nat
  BY <1>1, <1>3
<1>5. /\ swept' \subseteq Nodes' /\ first' \in Assignments' /\ vectors' \subseteq Assignments'
      /\ classes' \subseteq SUBSET Nodes' /\ inverted' \subseteq Nodes'
      /\ pendingNodes' \subseteq Nodes' /\ pendingCex' \subseteq Assignments'
      /\ refuted' \subseteq Nodes' \X Nodes'
  BY <1>3
<1> QED
  BY <1>2, <1>4, <1>5 DEF TypeOK

(* A new version of the netlist.                                           *)
LEMMA Rebuilding ==
  ASSUME IInv, rebuild
  PROVE  IInv'
<1>1. /\ circuit' \in Circuits /\ level' = 0 /\ tried' = 0 /\ pc' = "idle"
      /\ expired' = FALSE /\ truncated' = FALSE /\ swept' = {} /\ first' = {}
      /\ vectors' = {} /\ words' = 0 /\ classes' = {} /\ cursor' = 0
      /\ pendingNodes' = {} /\ pendingCex' = {} /\ rounds' = 0 /\ gaveUp' = 0
      /\ completed' = FALSE /\ refuted' = {} /\ inverted' = {} /\ cap' \in BOOLEAN
      /\ state' = [n \in Nodes' |-> "open"] /\ repr' = [n \in Nodes' |-> n]
  BY DEF rebuild, NotSwept, IInv, TypeOK, Nodes
<1>2. TypeOK'
  BY <1>1, NothingSwept
<1>3. EqualsTogether'
  BY <1>1 DEF EqualsTogether
<1> QED
  BY <1>1, <1>2, <1>3, StartingOver

(* The cap changes no sweep and no answer.                                 *)
LEMMA Capping ==
  ASSUME IInv, NEW on \in BOOLEAN, set_fraig_simulate_only(on)
  PROVE  IInv'
<1>1. /\ UNCHANGED <<circuit, level, pc, expired, truncated, swept, first, vectors, words,
                    classes, state, repr, inverted, cursor, pendingNodes, pendingCex,
                    rounds, gaveUp, completed, refuted>>
      /\ pc = "idle" /\ cap' = on /\ tried' \in {tried, level}
  BY DEF set_fraig_simulate_only, simulation, table, buffer
<1>2. /\ TypeOK /\ MergedAreEqual /\ TableOK /\ LeadersLead
      /\ RefutedSplit /\ ScanOK /\ CompleteFindsAll
  BY DEF IInv
<1>3. Nodes' = Nodes /\ Assignments' = Assignments
  BY <1>1 DEF Nodes, Assignments
<1>4. TypeOK'
  BY <1>1, <1>2, <1>3 DEF TypeOK
<1>5. \A a, b, p : /\ SameFunction(a, b, p)' <=> SameFunction(a, b, p)
                   /\ same_class(a, b, p)' <=> same_class(a, b, p)
  BY <1>1, <1>3 DEF SameFunction, AgreeOn, same_class
<1>6. \A q, d : IsFirst(q, d)' <=> IsFirst(q, d)
  BY <1>1 DEF IsFirst, rep_less, IsLeaf
<1>7. MergedAreEqual' /\ TableOK' /\ LeadersLead'
  BY <1>1, <1>2, <1>3, <1>5, <1>6 DEF MergedAreEqual, TableOK, LeadersLead, IsLeaf
<1>8. RefutedSplit'
  <2>1. \A a, b, u : AgreeOn(a, b, PhasesDiffer(a, b, first), u)'
                    <=> AgreeOn(a, b, PhasesDiffer(a, b, first), u)
    BY <1>1 DEF AgreeOn, PhasesDiffer
  <2>2. \A n : Follows(n)' <=> Follows(n)
    BY <1>1 DEF Follows, rep_less, IsLeaf
  <2> QED
    BY <1>1, <1>2, <2>1, <2>2 DEF RefutedSplit
<1>9. EqualsTogether' /\ ScanOK'
  BY <1>1, <1>2, <1>3 DEF EqualsTogether, ScanOK
<1>10. CompleteFindsAll'
  BY <1>1, <1>2, <1>3, <1>5 DEF CompleteFindsAll, fraig_complete
<1> QED
  BY <1>4, <1>7, <1>8, <1>9, <1>10 DEF IInv

(* A sweep whose preparation is cut at the start.                          *)
LEMMA Cutting ==
  ASSUME IInv, NEW needVerified \in BOOLEAN, TopologyCut(needVerified)
  PROVE  IInv'
<1>1. /\ UNCHANGED <<circuit, cap>> /\ level' \in {1, 2} /\ tried' = level' /\ pc' = "idle"
      /\ expired' = TRUE /\ truncated' = TRUE /\ swept' = {} /\ first' = {}
      /\ vectors' = {} /\ words' = 0 /\ classes' = {} /\ cursor' = 0
      /\ pendingNodes' = {} /\ pendingCex' = {} /\ rounds' = 0 /\ gaveUp' = 0
      /\ completed' = FALSE /\ refuted' = {} /\ inverted' = {}
      /\ state' = [n \in Nodes |-> "open"] /\ repr' = [n \in Nodes |-> n]
  BY DEF TopologyCut, Requested, Wanted
<1>2. TypeOK /\ Nodes' = Nodes /\ Assignments' = Assignments
  BY <1>1 DEF IInv, Nodes, Assignments
<1>3. TypeOK'
  <2>1. circuit' \in Circuits /\ cap' \in BOOLEAN
    BY <1>1, <1>2 DEF TypeOK
  <2> QED
    BY <1>1, <1>2, <2>1, NothingSwept
<1>4. EqualsTogether'
  BY <1>1 DEF EqualsTogether
<1> QED
  BY <1>1, <1>2, <1>3, <1>4, StartingOver

(* A sweep that simulates and classifies, all nodes or some.               *)
LEMMA Simulating ==
  ASSUME IInv, NEW needVerified \in BOOLEAN, Simulate(needVerified)
  PROVE  IInv'
<1>1. /\ UNCHANGED <<circuit, cap>> /\ tried' \in {1, 2} /\ level < tried'
      /\ cursor' = 0 /\ pendingNodes' = {} /\ pendingCex' = {} /\ rounds' = 0
      /\ gaveUp' = 0 /\ completed' = FALSE /\ refuted' = {} /\ inverted' = {}
      /\ state' = [n \in Nodes |-> "open"] /\ repr' = [n \in Nodes |-> n]
      /\ vectors' \in SUBSET Assignments /\ first' \in vectors'
      /\ expired' \in {truncated', TRUE}
      /\ \/ pc' = "idle" /\ level' = 1
         \/ pc' = "scan" /\ level' = level /\ tried' = 2
  BY DEF Simulate, Requested, Wanted
<1>2. PICK reached \in Nodes, classified \in Nodes :
         /\ classified <= reached
         /\ swept' = 0..reached
         /\ classes' = Partition(0..classified, first', vectors')
         /\ truncated' \in BOOLEAN /\ (classified < circuit.last => truncated')
  BY DEF Simulate
<1>3. TypeOK /\ Nodes' = Nodes /\ Assignments' = Assignments
  BY <1>1 DEF IInv, Nodes, Assignments
<1>4. circuit.last \in Nat /\ Nodes \subseteq Nat /\ reached <= circuit.last
  BY <1>3, NodesOfCircuit
<1>5. words' \in 0..MaxWords
  BY BoundsAssumption DEF Simulate
<1>6. 0..classified \subseteq Nodes /\ 0..reached \subseteq Nodes
  BY <1>2, <1>4 DEF Nodes
<1>7. \A c \in classes' : c \subseteq Nodes
  BY <1>2, <1>6, PartitionInside
<1>8. TypeOK'
  <2>1. expired' \in BOOLEAN /\ truncated' \in BOOLEAN
    BY <1>1, <1>2
  <2>4. /\ state' \in [Nodes -> {"open", "merged", "givenUp"}]
        /\ repr' \in [Nodes -> Nodes]
    BY <1>1, FreshTable
  <2>2. level' \in 0..2 /\ tried' \in 0..2 /\ level' <= tried' /\ pc' \in {"idle", "scan"}
    BY <1>1, <1>3 DEF TypeOK
  <2>3. 0 \in 0..(circuit.last + 1) /\ 0 \in 0..MaxRounds
    BY <1>4, BoundsAssumption
  <2> QED
    BY <1>1, <1>2, <1>3, <1>5, <1>6, <1>7, <2>1, <2>2, <2>3, <2>4 DEF TypeOK
<1>9. EqualsTogether'
  <2>1. CASE classified < circuit.last
    BY <1>1, <1>2, <2>1 DEF EqualsTogether
  <2>2. CASE ~(classified < circuit.last)
    <3>1. 0..classified = Nodes /\ 0..reached = Nodes
      BY <1>2, <1>4, <2>2 DEF Nodes
    <3>2. ASSUME NEW a \in Nodes, NEW b \in Nodes, NEW p \in BOOLEAN, a # b,
                 SameFunction(a, b, p)
          PROVE  \E c \in classes' : a \in c /\ b \in c
      BY <1>1, <1>2, <3>1, <3>2, PartitionKeepsEquals
    <3>3. \A a, b, p : SameFunction(a, b, p)' <=> SameFunction(a, b, p)
      BY <1>1, <1>3 DEF SameFunction, AgreeOn
    <3> QED
      BY <1>2, <1>3, <3>1, <3>2, <3>3 DEF EqualsTogether
  <2> QED
    BY <2>1, <2>2
<1>10. \A c, d \in classes' : (\E n \in c : n \in d) => c = d
  BY <1>2, PartitionDisjoint
<1> QED
  BY <1>1, <1>3, <1>8, <1>9, <1>10, StartingOver

(* The passing of time, or nothing at all.                                 *)
LEMMA NothingMoves ==
  ASSUME IInv, expired' \in BOOLEAN, expired => expired',
         UNCHANGED <<control, pc, simulation, completed, classes, table, cursor,
                     buffer, rounds, gaveUp, refuted>>
  PROVE  IInv'
<1> USE DEF IInv, control, simulation, table, buffer, Nodes, Assignments
<1>1. TypeOK'
  BY DEF TypeOK
<1>2. MergedAreEqual' /\ TableOK'
  BY DEF MergedAreEqual, SameFunction, AgreeOn, TableOK, IsLeaf
<1>3. LeadersLead'
  BY DEF LeadersLead, IsFirst, rep_less, IsLeaf
<1>4. RefutedSplit'
  BY DEF RefutedSplit, Follows, rep_less, IsLeaf, AgreeOn, PhasesDiffer
<1>5. EqualsTogether'
  BY DEF EqualsTogether, SameFunction, AgreeOn
<1>6. ScanOK'
  BY DEF ScanOK, Candidate, Follows, rep_less, IsLeaf
<1>7. CompleteFindsAll'
  BY DEF CompleteFindsAll, SameFunction, AgreeOn, fraig_complete, same_class
<1> QED
  BY <1>1, <1>2, <1>3, <1>4, <1>5, <1>6, <1>7

LEMMA NextIInv == IInv /\ [Next]_vars => IInv'
<1> SUFFICES ASSUME IInv, [Next]_vars PROVE IInv'
  OBVIOUS
<1>1. CASE rebuild
  BY <1>1, Rebuilding
<1>2. CASE \E on \in BOOLEAN : set_fraig_simulate_only(on)
  BY <1>2, Capping
<1>3. CASE \E needVerified \in BOOLEAN : TopologyCut(needVerified)
  BY <1>3, Cutting
<1>4. CASE \E needVerified \in BOOLEAN : Simulate(needVerified)
  BY <1>4, Simulating
<1>5. CASE SweepStep
  BY <1>5, Merging, Refuting, GivingUp, EmptyingLeftover, Ending DEF SweepStep
<1>6. CASE Expire
  BY <1>6, NothingMoves DEF Expire, control, simulation, table, buffer, IInv, TypeOK
<1>7. CASE UNCHANGED vars
  BY <1>7, NothingMoves DEF vars, control, simulation, table, buffer, IInv, TypeOK
<1> QED
  BY <1>1, <1>2, <1>3, <1>4, <1>5, <1>6, <1>7 DEF Next

LEMMA Invariance == Spec => []IInv
BY InitIInv, NextIInv, PTL DEF Spec

-----------------------------------------------------------------------------
(* What the table promises.                                                *)

(* Every variable of the sweep keeps its range: rounds and words stay      *)
(* within their budgets and no level is recorded that was not tried.       *)
THEOREM SweepTypes == Spec => []TypeOK
<1>1. IInv => TypeOK
  BY DEF IInv
<1> QED
  BY <1>1, Invariance, PTL

(* Whatever is cut short, a merged node is what its representative is, up  *)
(* to the phase stored with it (Fraig.cpp, merge_into).                    *)
THEOREM MergesAreSound == Spec => []MergedAreEqual
<1>1. IInv => MergedAreEqual
  BY DEF IInv
<1> QED
  BY <1>1, Invariance, PTL

(* A representative is never merged itself, so one look at repr_ decides   *)
(* (Fraig.h, same_class).                                                  *)
THEOREM RepresentativesAreFinal == Spec => []RepresentativesStay
<1>1. IInv => RepresentativesStay
  <2> SUFFICES ASSUME IInv, NEW n \in Nodes
               PROVE  /\ repr[repr[n]] = repr[n] /\ repr[n] \notin inverted
                      /\ repr[n] # n => Alive(repr[n])
    BY DEF RepresentativesStay
  <2>1. TableOK /\ repr[n] \in Nodes
    BY DEF IInv, TypeOK
  <2>2. CASE state[n] = "merged"
    BY <2>1, <2>2 DEF TableOK, Alive
  <2>3. CASE state[n] # "merged"
    BY <2>1, <2>3 DEF TableOK
  <2> QED
    BY <2>2, <2>3
<1> QED
  BY <1>1, Invariance, PTL

(* The loop makes progress with every refutation: the pair is not put to   *)
(* the solver again (Fraig.cpp, flush_cex).                                *)
THEOREM RefutationsAreUsed == Spec => []NeverAskedTwice
<1>1. IInv => NeverAskedTwice
  BY DEF IInv, RefutedSplit, NeverAskedTwice
<1> QED
  BY <1>1, Invariance, PTL

(* A difference the simulation has seen is a difference.                   *)
LEMMA DifferenceSeen ==
  ASSUME TypeOK, NEW a \in Nodes, NEW b \in Nodes, NEW p \in BOOLEAN,
         provably_different(a, b, p)
  PROVE  ~SameFunction(a, b, p)
<1>1. CASE a = b
  BY <1>1, NotItsComplement DEF provably_different
<1>2. CASE a # b
  BY <1>2 DEF provably_different, SameFunction, TypeOK
<1> QED
  BY <1>1, <1>2

(* Nodes of one class are equal with the phase the class gives them.       *)
LEMMA ClassesAreRight ==
  ASSUME TypeOK, MergedAreEqual, NEW a \in Nodes, NEW b \in Nodes, NEW p \in BOOLEAN,
         same_class(a, b, p)
  PROVE  SameFunction(a, b, p)
BY DEF MergedAreEqual, SameFunction, AgreeOn, same_class, TypeOK

(* The table of Primitives (fraig_lookup and fraig_lookup_const) never     *)
(* answers wrongly, also where it denies an equality for no other reason   *)
(* than that a complete sweep did not find it.                             *)
THEOREM TableNeverWrong == Spec => []LookupRight
<1>1. IInv => LookupRight
  <2> SUFFICES ASSUME IInv, pc = "idle" PROVE LookupRight
    BY DEF LookupRight
  <2>1. TypeOK /\ MergedAreEqual /\ TableOK /\ CompleteFindsAll
    BY DEF IInv
  <2>2. ASSUME NEW a \in Nodes, NEW b \in Nodes, NEW p \in BOOLEAN
        PROVE  /\ fraig_lookup(a, b, p) = "Equal" => SameFunction(a, b, p)
               /\ fraig_lookup(a, b, p) = "NotEqual" => ~SameFunction(a, b, p)
    <3>1. fraig_lookup(a, b, p) = "Equal" => same_class(a, b, p)
      BY DEF fraig_lookup
    <3>2. fraig_lookup(a, b, p) = "NotEqual" =>
             ~same_class(a, b, p) /\ (provably_different(a, b, p) \/ fraig_complete)
      BY DEF fraig_lookup
    <3>3. fraig_complete /\ SameFunction(a, b, p) => same_class(a, b, p)
      BY <2>1 DEF CompleteFindsAll
    <3> QED
      BY <2>1, <3>1, <3>2, <3>3, ClassesAreRight, DifferenceSeen
  <2>3. ASSUME NEW a \in Nodes, NEW val \in BOOLEAN
        PROVE  /\ fraig_lookup_const(a, val) = "Equal" => SameFunction(a, 0, val)
               /\ fraig_lookup_const(a, val) = "NotEqual" => ~SameFunction(a, 0, val)
    <3>1. 0 \in Nodes /\ {} \in Assignments
      BY <2>1, NodesOfCircuit
    <3>2. repr[0] = 0 /\ 0 \notin inverted
      BY <2>1, <3>1 DEF TableOK, IsLeaf
    <3>3. CASE repr[a] = 0
      <4>1. SameFunction(a, 0, a \in inverted)
        BY <2>1, <3>3 DEF MergedAreEqual
      <4>2. fraig_lookup_const(a, val) = "Equal" => ((a \in inverted) <=> val)
        BY <3>3 DEF fraig_lookup_const
      <4>3. fraig_lookup_const(a, val) = "NotEqual" => ~((a \in inverted) <=> val)
        BY <3>3 DEF fraig_lookup_const
      <4> QED
        BY <3>1, <4>1, <4>2, <4>3 DEF SameFunction, AgreeOn
    <3>4. CASE repr[a] # 0
      <4>1. fraig_lookup_const(a, val) # "Equal"
        BY <3>4 DEF fraig_lookup_const
      <4>2. fraig_lookup_const(a, val) = "NotEqual" =>
               provably_different(a, 0, val) \/ fraig_complete
        BY <3>4 DEF fraig_lookup_const
      <4>3. ~same_class(a, 0, val)
        BY <3>2, <3>4 DEF same_class
      <4> QED
        BY <2>1, <3>1, <4>1, <4>2, <4>3, DifferenceSeen DEF CompleteFindsAll
    <3> QED
      BY <3>3, <3>4
  <2> QED
    BY <2>2, <2>3 DEF LookupRight
<1> QED
  BY <1>1, Invariance, PTL

=============================================================================
