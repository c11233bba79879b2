-------------------------------- MODULE Fraig --------------------------------
(***************************************************************************)
(* The equivalence sweep (src/src/SATEngine/Fraig.cpp) and the table it    *)
(* answers from (Primitives.cpp, ensure_fraig and fraig_lookup).           *)
(*                                                                         *)
(* Random simulation groups nodes that may be equivalent up to a phase;    *)
(* each group is tested against its representative with the SAT solver,    *)
(* counterexamples are collected and become new simulation vectors that    *)
(* split the groups, and what was proved is given to the solver as         *)
(* permanent clauses. Budgets run out anywhere.                            *)
(*                                                                         *)
(* A node is its index, its function the set of assignments that make it   *)
(* 1. A word of simulation is the set of assignments in it; only the very  *)
(* first one, which fixes the phases, is told apart. The thread that       *)
(* sweeps is the one that asks, so questions are asked between sweeps.     *)
(***************************************************************************)
EXTENDS Integers, FiniteSets

CONSTANTS
  Circuits,        \* the and-inverter graphs a version of the netlist may become
  InitWords,       \* sim_words_init
  MaxWords,        \* the words the memory budget allows
  MaxRounds,       \* max_rounds
  CexPerWord       \* kCexPerWord

ASSUME CircuitsAssumption ==
  \A c \in Circuits :
    /\ c.last \in Nat
    /\ c.inputs \subseteq 1..c.last
    /\ c.on \in [0..c.last -> SUBSET SUBSET c.inputs]
    /\ c.on[0] = {}
    /\ \A p \in c.inputs : c.on[p] = {a \in SUBSET c.inputs : p \in a}

ASSUME BoundsAssumption ==
  /\ InitWords \in Nat \ {0} /\ MaxWords \in Nat /\ InitWords <= MaxWords
  /\ MaxRounds \in Nat /\ CexPerWord \in Nat \ {0}

VARIABLES
  circuit,       \* the graph of this version
  level,         \* fraigLevel_: 0 none, 1 simulated, 2 verified
  tried,         \* fraigTriedLevel_
  cap,           \* fraigSimOnlyCap_
  pc,            \* "idle", or "scan" inside the loop of run()
  expired,       \* the budget is used up (out_of_budget)
  truncated,
  swept,         \* the nodes below sweptNodeCount; empty before any sweep
  first,         \* the vector that fixed simPhase
  vectors,       \* all vectors simulated so far
  words,         \* how many words hold them
  classes,       \* candidate classes of two nodes or more
  state,         \* of a node: open, merged, givenUp
  repr,          \* of a node: the node of its representative
  inverted,      \* the nodes whose representative is complemented
  cursor,        \* where the scan stands
  pendingNodes, pendingCex,
  rounds, gaveUp, completed,
  refuted        \* the pairs the solver has told apart in this sweep

control == <<circuit, level, tried, cap>>
simulation == <<truncated, swept, first, vectors, words>>
table == <<state, repr, inverted>>
buffer == <<pendingNodes, pendingCex>>
vars == <<control, pc, expired, simulation, classes, table, cursor, buffer,
          rounds, gaveUp, completed, refuted>>

-----------------------------------------------------------------------------
(* Nodes, phases and classes.                                              *)

Nodes == 0..circuit.last
Assignments == SUBSET circuit.inputs

IsLeaf(n) == n = 0 \/ n \in circuit.inputs

Alive(n) == IsLeaf(n) \/ state[n] = "open"

(* Leaves first, then the lower index.                                     *)
rep_less(a, b) ==
  \/ IsLeaf(a) /\ ~IsLeaf(b)
  \/ (IsLeaf(a) <=> IsLeaf(b)) /\ a < b

(* Do two nodes agree under a vector, one of them complemented or not.     *)
AgreeOn(a, b, opposite, v) ==
  ((v \in circuit.on[a]) <=> (v \in circuit.on[b])) <=> ~opposite

SameFunction(a, b, opposite) ==
  \A v \in Assignments : AgreeOn(a, b, opposite, v)

(* simPhase[a] # simPhase[b], the phase being the value under vector f.    *)
PhasesDiffer(a, b, f) == ~((f \in circuit.on[a]) <=> (f \in circuit.on[b]))

(* Equal signatures under the vectors vs, each node normalised by its phase.*)
sig_equal(a, b, f, vs) ==
  \A v \in vs : AgreeOn(a, b, PhasesDiffer(a, b, f), v)

(* The classes of two or more among the nodes ns.                          *)
Partition(ns, f, vs) ==
  {c \in {{m \in ns : sig_equal(m, n, f, vs)} : n \in ns} :
     \E m, n \in c : m # n}

-----------------------------------------------------------------------------
(* The parts of the sweep.                                                 *)

IsFirst(r, c) == \A m \in c : m # r => rep_less(r, m)

(* A node inside a class it does not lead; a leaf is never tested.         *)
Follows(i) == ~IsLeaf(i) /\ \E c \in classes : i \in c /\ \E m \in c : rep_less(m, i)

(* A node still to be tested.                                              *)
Candidate(i) == i \in swept /\ state[i] = "open" /\ Follows(i)

NextCandidate(i) ==
  /\ cursor <= i /\ Candidate(i)
  /\ \A j \in Nodes : cursor <= j /\ j < i => ~Candidate(j)

ScanEnded == \A j \in Nodes : cursor <= j => ~Candidate(j)

(* classes[classOf[i]][0]. It is a leaf or open, so the test of that in    *)
(* the loop never skips anything (RepresentativesStay).                    *)
RepOf(r, i) == \E c \in classes : i \in c /\ r \in c /\ r # i /\ IsFirst(r, c)

(* The assignments the permanent clauses leave to the solver.              *)
ClauseModels ==
  {v \in Assignments :
     \A n \in Nodes : state[n] = "merged" => AgreeOn(n, repr[n], n \in inverted, v)}

(* repartition_last_word: only open nodes and leaves stay, and only the    *)
(* vectors of the new word split.                                          *)
repartition_last_word(word) ==
  classes' = UNION {Partition({n \in c : Alive(n)}, first, word) : c \in classes}

(* Mutant: the phase between the two is forgotten.                         *)
merge_into_without_phase(member, target, compl) ==
  /\ state' = [state EXCEPT ![member] = "merged"]
  /\ repr' = [repr EXCEPT ![member] = target]
  /\ UNCHANGED inverted

(* repr_[member] = target, with the phase between the two.                 *)
merge_into(member, target, compl) ==
  /\ state' = [state EXCEPT ![member] = "merged"]
  /\ repr' = [repr EXCEPT ![member] = target]
  /\ inverted' = IF compl THEN inverted \union {member} ELSE inverted

(* Mutant: the buffer is emptied and its nodes stay open.                  *)
abandon_pending_left_open(nodes) ==
  /\ pendingNodes' = {} /\ pendingCex' = {}
  /\ UNCHANGED <<state, gaveUp, classes, repr, inverted, rounds, vectors, words>>

(* Every node still pending is given up.                                   *)
abandon_pending(nodes) ==
  /\ state' = [n \in Nodes |-> IF n \in nodes /\ state[n] = "open"
                               THEN "givenUp" ELSE state[n]]
  /\ gaveUp' = gaveUp + Cardinality({n \in nodes : state[n] = "open"})
  /\ pendingNodes' = {} /\ pendingCex' = {}
  /\ UNCHANGED <<classes, repr, inverted, rounds, vectors, words>>

(* Mutant: the word is simulated, and the classes are left as they were.   *)
flush_cex_unsplit(cex) ==
  /\ words < MaxWords
  /\ vectors' = vectors \union cex
  /\ words' = words + 1 /\ rounds' = rounds + 1 /\ cursor' = 0
  /\ pendingNodes' = {} /\ pendingCex' = {}
  /\ UNCHANGED <<classes, state, repr, inverted, gaveUp, truncated, expired>>

(* The counterexamples become a word, its other bits are random, the       *)
(* classes are split, and the scan starts over.                            *)
flush_cex(cex) ==
  /\ words < MaxWords
  /\ \E fill \in SUBSET Assignments :
       /\ Cardinality(fill) <= CexPerWord - Cardinality(cex)
       /\ vectors' = vectors \union cex \union fill
       /\ repartition_last_word(cex \union fill)
  /\ words' = words + 1
  /\ rounds' = rounds + 1
  /\ cursor' = 0
  /\ pendingNodes' = {} /\ pendingCex' = {}
  /\ UNCHANGED <<state, repr, inverted, gaveUp, truncated, expired>>

(* Flush, or give up: when the rounds or the words are used up, or when    *)
(* the budget runs out inside the simulation of the new word.              *)
FlushOrAbandon(nodes, cex, next) ==
  \/ rounds < MaxRounds /\ flush_cex(cex)
  \/ /\ rounds >= MaxRounds \/ words >= MaxWords
     /\ abandon_pending(nodes)
     /\ cursor' = next
     /\ UNCHANGED <<truncated, expired>>
  \/ /\ rounds < MaxRounds /\ words < MaxWords
     /\ expired' = TRUE /\ truncated' = TRUE
     /\ abandon_pending(nodes)
     /\ cursor' = next

-----------------------------------------------------------------------------
(* Versions and requests.                                                  *)

NotSwept ==
  /\ pc' = "idle" /\ expired' = FALSE /\ truncated' = FALSE /\ swept' = {}
  /\ first' = {} /\ vectors' = {} /\ words' = 0 /\ classes' = {}
  /\ cursor' = 0 /\ pendingNodes' = {} /\ pendingCex' = {}
  /\ rounds' = 0 /\ gaveUp' = 0 /\ completed' = FALSE /\ refuted' = {}
  /\ inverted' = {}

Init ==
  /\ circuit \in Circuits
  /\ level = 0 /\ tried = 0 /\ cap = FALSE
  /\ pc = "idle" /\ expired = FALSE /\ truncated = FALSE /\ swept = {}
  /\ first = {} /\ vectors = {} /\ words = 0 /\ classes = {}
  /\ state = [n \in Nodes |-> "open"]
  /\ repr = [n \in Nodes |-> n]
  /\ inverted = {}
  /\ cursor = 0 /\ pendingNodes = {} /\ pendingCex = {}
  /\ rounds = 0 /\ gaveUp = 0 /\ completed = FALSE /\ refuted = {}

(* rebuild(): the netlist changed, and nothing of the old sweep survives.  *)
rebuild ==
  /\ pc = "idle"
  /\ circuit' \in Circuits
  /\ level' = 0 /\ tried' = 0
  /\ NotSwept
  /\ state' = [n \in 0..circuit'.last |-> "open"]
  /\ repr' = [n \in 0..circuit'.last |-> n]
  /\ UNCHANGED cap

(* Mutant: lifting the cap lets every level be tried again.                *)
set_fraig_simulate_only_forgets(on) ==
  /\ pc = "idle" /\ cap # on
  /\ cap' = on
  /\ tried' = IF on THEN tried ELSE 0
  /\ UNCHANGED <<circuit, level, pc, expired, simulation, classes, table,
                 cursor, buffer, rounds, gaveUp, completed, refuted>>

set_fraig_simulate_only(on) ==
  /\ pc = "idle" /\ cap # on
  /\ cap' = on
  /\ tried' = IF ~on /\ tried > level THEN level ELSE tried
  /\ UNCHANGED <<circuit, level, pc, expired, simulation, classes, table,
                 cursor, buffer, rounds, gaveUp, completed, refuted>>

Wanted(needVerified) == IF needVerified /\ ~cap THEN 2 ELSE 1

(* A request that sweeps: this level was neither reached nor tried.        *)
Requested(want) ==
  /\ pc = "idle" /\ level < want /\ tried < want
  /\ tried' = want
  /\ UNCHANGED <<circuit, cap>>

(* build_topology is cut: no node has simulation data.                     *)
TopologyCut(needVerified) ==
  /\ Requested(Wanted(needVerified))
  /\ level' = Wanted(needVerified)
  /\ pc' = "idle" /\ expired' = TRUE /\ truncated' = TRUE /\ swept' = {}
  /\ first' = {} /\ vectors' = {} /\ words' = 0 /\ classes' = {}
  /\ state' = [n \in Nodes |-> "open"]
  /\ repr' = [n \in Nodes |-> n]
  /\ inverted' = {}
  /\ cursor' = 0 /\ pendingNodes' = {} /\ pendingCex' = {}
  /\ rounds' = 0 /\ gaveUp' = 0 /\ completed' = FALSE /\ refuted' = {}

(* Simulation and classification. Either may be cut at a node, and so may  *)
(* the growth that adds words when verification follows (truncated then    *)
(* although all nodes are classified). A simulation-only sweep ends here.  *)
Simulate(needVerified) ==
  /\ Requested(Wanted(needVerified))
  /\ \/ words' = InitWords
     \/ words' \in InitWords..(MaxWords \div 2) /\ Wanted(needVerified) = 2
  /\ vectors' \in SUBSET Assignments
  /\ first' \in vectors'
  /\ Cardinality(vectors') <= CexPerWord * words'
  /\ \E reached, classified \in Nodes :
       /\ classified <= reached
       /\ swept' = 0..reached
       /\ classes' = Partition(0..classified, first', vectors')
       /\ truncated' \in {t \in BOOLEAN :
                            /\ classified < circuit.last => t
                            /\ t => classified < circuit.last \/ Wanted(needVerified) = 2}
  /\ expired' \in {truncated', TRUE}
  /\ state' = [n \in Nodes |-> "open"]
  /\ repr' = [n \in Nodes |-> n]
  /\ inverted' = {}
  /\ cursor' = 0 /\ pendingNodes' = {} /\ pendingCex' = {}
  /\ rounds' = 0 /\ gaveUp' = 0 /\ completed' = FALSE /\ refuted' = {}
  /\ IF Wanted(needVerified) = 1
     THEN pc' = "idle" /\ level' = 1
     ELSE pc' = "scan" /\ UNCHANGED level

-----------------------------------------------------------------------------
(* The verification loop. The deadline is read before every question.      *)

Expire ==
  /\ pc = "scan" /\ ~expired
  /\ expired' = TRUE
  /\ UNCHANGED <<control, pc, simulation, classes, table, cursor, buffer,
                 rounds, gaveUp, completed, refuted>>

Scanning == pc = "scan" /\ ~expired /\ UNCHANGED <<control, pc, swept, first, completed>>

(* The solver finds no model in which i and its representative differ:     *)
(* the equality becomes a clause and i is merged.                          *)
ProveEqual(i, r) ==
  /\ Scanning /\ NextCandidate(i) /\ RepOf(r, i)
  /\ \A v \in ClauseModels : AgreeOn(i, r, PhasesDiffer(i, r, first), v)
  /\ merge_into(i, r, PhasesDiffer(i, r, first))
  /\ cursor' = i + 1
  /\ UNCHANGED <<expired, truncated, vectors, words, classes, buffer,
                 rounds, gaveUp, refuted>>

(* The solver finds one; its inputs are kept until the buffer is full.     *)
Refute(i, r) ==
  /\ Scanning /\ NextCandidate(i) /\ RepOf(r, i)
  /\ refuted' = refuted \union {<<i, r>>}
  /\ \E v \in ClauseModels :
       /\ ~AgreeOn(i, r, PhasesDiffer(i, r, first), v)
       /\ IF Cardinality(pendingNodes \union {i}) < CexPerWord
          THEN /\ pendingNodes' = pendingNodes \union {i}
               /\ pendingCex' = pendingCex \union {v}
               /\ cursor' = i + 1
               /\ UNCHANGED <<expired, truncated, vectors, words, classes,
                              table, rounds, gaveUp>>
          ELSE FlushOrAbandon(pendingNodes \union {i}, pendingCex \union {v}, i + 1)

(* The solver hits its own limit.                                          *)
GiveUp(i) ==
  /\ Scanning /\ NextCandidate(i)
  /\ state' = [state EXCEPT ![i] = "givenUp"]
  /\ gaveUp' = gaveUp + 1
  /\ cursor' = i + 1
  /\ UNCHANGED <<expired, truncated, vectors, words, classes, repr, inverted,
                 buffer, rounds, refuted>>

(* The end of a scan with counterexamples left: they are used, or given    *)
(* up, and in both cases the nodes are scanned once more.                  *)
Leftover ==
  /\ Scanning /\ ScanEnded /\ pendingNodes # {}
  /\ FlushOrAbandon(pendingNodes, pendingCex, 0)
  /\ UNCHANGED refuted

(* Nothing is left to test; the clock is read a last time.                 *)
Finish ==
  /\ pc = "scan" /\ ~expired /\ ScanEnded /\ pendingNodes = {}
  /\ expired' \in BOOLEAN
  /\ completed' = ~expired'
  /\ pc' = "idle" /\ level' = 2
  /\ UNCHANGED <<circuit, tried, cap, simulation, classes, table, cursor, buffer,
                 rounds, gaveUp, refuted>>

(* The budget is gone: what was proved stays, the rest is left open.       *)
Stop ==
  /\ pc = "scan" /\ expired
  /\ pc' = "idle" /\ level' = 2
  /\ UNCHANGED <<circuit, tried, cap, expired, simulation, classes, table, cursor,
                 buffer, rounds, gaveUp, completed, refuted>>

SweepStep ==
  \/ \E i, r \in Nodes : ProveEqual(i, r) \/ Refute(i, r)
  \/ \E i \in Nodes : GiveUp(i)
  \/ Leftover
  \/ Finish
  \/ Stop

Next ==
  \/ rebuild
  \/ \E on \in BOOLEAN : set_fraig_simulate_only(on)
  \/ \E needVerified \in BOOLEAN : TopologyCut(needVerified) \/ Simulate(needVerified)
  \/ SweepStep
  \/ Expire

Spec == Init /\ [][Next]_vars

(* The loop of run() goes on as long as it can.                            *)
FairSpec == Spec /\ WF_vars(SweepStep)

-----------------------------------------------------------------------------
(* The table (Primitives::fraig_lookup, fraig_lookup_const). A question is *)
(* about two nodes and whether one edge is complemented and the other not. *)

same_class(a, b, compl) ==
  /\ repr[a] = repr[b]
  /\ ((a \in inverted) <=> (b \in inverted)) <=> ~compl

provably_different(a, b, compl) ==
  IF a = b THEN compl ELSE \E v \in vectors : ~AgreeOn(a, b, compl, v)

(* Mutant: pairs the solver gave up on are not counted against it.         *)
fraig_complete_ignoring_limits == level = 2 /\ completed

fraig_complete == level = 2 /\ completed /\ gaveUp = 0

fraig_lookup(a, b, compl) ==
  CASE a \notin swept \/ b \notin swept  -> "Unknown"
    [] OTHER -> IF same_class(a, b, compl) THEN "Equal"
                ELSE IF provably_different(a, b, compl) \/ fraig_complete
                THEN "NotEqual" ELSE "Unknown"

(* Is the node constantly val?                                             *)
fraig_lookup_const(a, val) ==
  CASE a \notin swept -> "Unknown"
    [] OTHER -> IF repr[a] = 0
                THEN IF (a \in inverted) <=> val THEN "Equal" ELSE "NotEqual"
                ELSE IF provably_different(a, 0, val) \/ fraig_complete
                THEN "NotEqual" ELSE "Unknown"

-----------------------------------------------------------------------------
(* Properties.                                                             *)

TypeOK ==
  /\ circuit \in Circuits
  /\ level \in 0..2 /\ tried \in 0..2 /\ level <= tried /\ cap \in BOOLEAN
  /\ pc \in {"idle", "scan"}
  /\ expired \in BOOLEAN /\ truncated \in BOOLEAN /\ completed \in BOOLEAN
  /\ swept \subseteq Nodes
  /\ first \in Assignments /\ vectors \subseteq Assignments
  /\ words \in 0..MaxWords
  /\ classes \subseteq SUBSET Nodes
  /\ state \in [Nodes -> {"open", "merged", "givenUp"}]
  /\ repr \in [Nodes -> Nodes] /\ inverted \subseteq Nodes
  /\ cursor \in 0..(circuit.last + 1)
  /\ pendingNodes \subseteq Nodes /\ pendingCex \subseteq Assignments
  /\ rounds \in 0..MaxRounds /\ gaveUp \in Nat
  /\ refuted \subseteq Nodes \X Nodes

(* "Any early stop makes the result incomplete, never wrong" (Fraig.cpp,   *)
(* safety note of the file head): at every moment, the middle of a sweep   *)
(* included, each node is what the table says its representative is, and   *)
(* so every clause the solver was given holds.                             *)
MergedAreEqual ==
  \A n \in Nodes : SameFunction(n, repr[n], n \in inverted)

(* same_class() compares representatives without following chains: the     *)
(* representative of a merged node is never merged or given up later.      *)
RepresentativesStay ==
  \A n \in Nodes : /\ repr[repr[n]] = repr[n] /\ repr[n] \notin inverted
                    /\ repr[n] # n => Alive(repr[n])

(* "The whole value of the sweep": between sweeps the table never answers  *)
(* wrongly, also the negative answers it gives without any counterexample, *)
(* on the ground that the sweep was complete.                              *)
LookupRight ==
  pc = "idle" =>
    /\ \A a, b \in Nodes, compl \in BOOLEAN :
         /\ fraig_lookup(a, b, compl) = "Equal" => SameFunction(a, b, compl)
         /\ fraig_lookup(a, b, compl) = "NotEqual" => ~SameFunction(a, b, compl)
    /\ \A a \in Nodes, val \in BOOLEAN :
         /\ fraig_lookup_const(a, val) = "Equal" => SameFunction(a, 0, val)
         /\ fraig_lookup_const(a, val) = "NotEqual" => ~SameFunction(a, 0, val)

(* The argument for termination in the source: a pair the solver has told  *)
(* apart is not put to it again, because its counterexample waits in the   *)
(* buffer, has split the pair, or the node was given up.                   *)
NeverAskedTwice ==
  \A p \in refuted :
    \/ p[1] \in pendingNodes
    \/ state[p[1]] # "open"
    \/ \A c \in classes : ~(p[1] \in c /\ p[2] \in c)

(* "The loop must end": whatever the solver answers, with no budget at all.*)
SweepEnds == pc = "scan" ~> pc = "idle"

-----------------------------------------------------------------------------
(* What makes these inductive (see Fraig_proofs).                          *)

(* Only open nodes that are not leaves are ever tested, merged into what   *)
(* is a leaf or open, or given up.                                         *)
TableOK ==
  \A n \in Nodes :
    /\ IsLeaf(n) => state[n] = "open"
    /\ state[n] # "merged" => repr[n] = n /\ n \notin inverted
    /\ state[n] = "merged" => repr[n] # n /\ state[repr[n]] = "open"

(* A representative leads the one class it is in, so it is never tested.   *)
LeadersLead ==
  /\ \A c, d \in classes : (\E n \in c : n \in d) => c = d
  /\ \A c \in classes : \A r \in c : IsFirst(r, c) => state[r] = "open"
  /\ \A n \in Nodes, c \in classes :
       state[n] = "merged" /\ repr[n] \in c => IsFirst(repr[n], c)

(* The pairs told apart whose node waits have their vector in the buffer;  *)
(* only followers wait.                                                    *)
RefutedSplit ==
  /\ \A n \in pendingNodes : Follows(n)
  /\ \A p \in refuted :
       \/ /\ p[1] \in pendingNodes
          /\ \E v \in pendingCex :
               ~AgreeOn(p[1], p[2], PhasesDiffer(p[1], p[2], first), v)
       \/ state[p[1]] # "open"
       \/ \A c \in classes : ~(p[1] \in c /\ p[2] \in c)

(* Two open nodes with one function are candidates of each other, unless   *)
(* the preparation was cut; then the budget is gone.                       *)
EqualsTogether ==
  pc = "scan" =>
    \/ truncated /\ expired
    \/ /\ swept = Nodes
       /\ \A a, b \in Nodes, compl \in BOOLEAN :
            a # b /\ state[a] = "open" /\ state[b] = "open" /\ SameFunction(a, b, compl)
              => \E c \in classes : a \in c /\ b \in c

(* What the scan has passed and is still a candidate waits in the buffer;  *)
(* what was given up was counted.                                          *)
ScanOK ==
  /\ pc = "scan" => /\ ~completed /\ tried = 2
                    /\ \A j \in Nodes : j < cursor /\ Candidate(j) => j \in pendingNodes
  /\ (\E n \in Nodes : state[n] = "givenUp") => gaveUp > 0

(* A complete sweep has found every equality there is.                     *)
CompleteFindsAll ==
  pc = "idle" /\ fraig_complete =>
    \A a, b \in Nodes, compl \in BOOLEAN :
      SameFunction(a, b, compl) => same_class(a, b, compl)

IInv ==
  /\ TypeOK /\ MergedAreEqual /\ TableOK /\ LeadersLead
  /\ RefutedSplit /\ EqualsTogether /\ ScanOK /\ CompleteFindsAll

=============================================================================
