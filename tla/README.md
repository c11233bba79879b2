# A verification project for the gate-level netlist tool

TLA+ models of this repository's code, the TLC configurations that check them
on small instances, and TLAPS proofs of the most important results for every
instance. Sections 1 and 2 are the inventory, 3 to 5 what is modelled, checked
and proved, 6 the disagreements met on the way, 7 what is left out and why.

## 1. The system

The tool loads a gate-level Verilog netlist, answers questions about it, edits
and optimises it, and writes it back. One process (`src/tools.cpp`) holds one
session. It prints a prompt, reads one command line, obeys it, prints the reply
and the next prompt. A Python agent (`src/LLM_final/agent_final.py`) starts that
process, talks to a language model, and turns each request of the user into a
sequence of commands and one answer.

| Part | State it keeps | Operations | Talks to |
|---|---|---|---|
| Netlist graph (`core/Netlist`, `NetlistTypes.h`) | gates with input pins and an output, nets with driver and load list, name tables, revision, a flag that defers load-list upkeep | add, connect, move loads, bury, compact, copy, move, restore | everything below |
| Edit report and validation (`analysis/NetlistEditReport.cpp`) | none | count structure violations before and after, decide on rollback, certify | netlist |
| Local rewriting (`optimization/NetlistOptimization.cpp`) | candidate lists of a call | constant and same-input folding, buffers, inverter pairs, structural merge, dead logic, flip-flop merge, redundancy, fixpoint runners with a deadline | netlist, validation, Boolean cache |
| Structural edits (`transformation/NetlistTransformation.cpp`) | none | rename, merge nets, six kinds of buffer insertion | netlist, validation |
| Technology mapping, functional merge | rule tables, candidates | propose, check, apply | netlist, Boolean cache |
| Boolean cache (`SATEngine/Session.cpp`, `Primitives.cpp`) | and-inverter graph with the revision it was built from, FRAIG table and level, cofactor memo, generation, borrowed deadline | resolve a name to a handle, ask, cofactor, sweep, switch the engines | the netlist's revision, callers' handles |
| Sweep (`SATEngine/Fraig.cpp`) | candidate classes, representatives with their phase, simulation words, counterexamples that wait, budgets | simulate, question a pair, split, merge, give up; look up two nodes | the Boolean cache, the SAT solver |
| Equivalence of two designs (`analysis/WholeDesignEquivalence.cpp`) | one formula with the free values shared, lists of endpoints, the time left | compare the interfaces, ask globally, ask by endpoint, report | netlist, SAT solver |
| Optimizer flow (`OptimizationFlow.cpp`, `Optimizer.cpp`) | a request, the original, a working copy, two search paths with one lowering switch, a deadline | validate, search, lower, legacy stages, judge, commit or restore | netlist, converters |
| Edit flow (`EditFlow.cpp`) | a request | validate, dispatch, roll back | all of the above |
| Session (`tools.cpp`) | current design, original design, baseline of the last edit, last report | read, write, query, edit, optimise, quit | the flows; its standard input and output |
| Agent: backend process (`EDABackend`) | the child, its pipes, the file of the last read | start, send, read to the prompt, restart, reload | session |
| Agent: request loop (`handle_react`) | contract, workflow, stages done, commands that failed or timed out, ledger of results | one turn: refuse, run, or answer | model, backend |

What is hard about each, beyond what a unit test reaches (PROJECT.json lists
each hazard at its line):

- *Local rewriting*: within a round, gates are visited in id order while load
  lists are out of date on purpose; what one visit leaves stale the next reads.
  A round that claims progress without making any would never end.
- *Boolean cache*: nothing tells it of an edit; it compares revisions at the
  next question. Rollbacks go back to older netlists, and four things that were
  made together (graph, table, memo, handles) must be invalidated together.
- *Sweep*: it may be cut short at six kinds of places, and the table it leaves is
  asked all the same; what it proves becomes a clause in every later proof, so
  one wrong phase proves anything; a scan that starts over has to end.
- *Optimizer flow*: a dozen exits, each of which has to put the snapshot back; a
  switch set by one path and read after another one won; four reasons to keep
  or replace a design that overrule one another; a deadline that passes after
  the find.
- *Equivalence*: the free values of two designs are matched by names that edits
  change; the time runs out in the global question, between endpoints, in a
  share, in the last share, and a reply is put together from what is left.
- *Buffer insertion*: counting places in a chain, collecting sinks before the
  netlist changes, and names that may be in use.
- *Backend process*: two ends of two pipes, a process that may die between any
  two steps, a start that speaks first, a retry that must not obey twice.
- *Request loop*: a model that may say anything, and sets of things remembered
  for a whole request about a design that changes within it.

## 2. Properties that make the parts correct

- Rewriting keeps the function of the design at every step, leaves no pin
  without a driver, ends, ends only when done, and a certified result is right.
- Answers are about the netlist as it is now, on handles that were made for it;
  what is stale stays stale; no deadline outlives its request.
- A sweep merges only equal nodes, and a lookup in its table is never wrong,
  however it ended; it ends.
- An optimisation command is one transaction: the design is replaced at once by
  an acceptable one, or kept, and the report says which.
- An equivalence reply that is complete is the truth, and every endpoint is
  accounted for once.
- Buffering meets the limit without waste and without changing any signal.
- A reply belongs to the command it is returned for; what the caller may
  conclude from the replies is what the session holds; every send returns.
- A request is always answered; stages are done in order; the ledger accounts
  for the design.

## 3. The modules

    GateFunctions ── Netlist ── DesignKit ──┐     AigService <── PrimitivesCache ── MCPrimitivesCache
          │             └────── ConstFold ──┴── MCConstFold      (implemented by) └── PrimitivesCache_proofs
          │                        └── ConstFold_proofs
          └── CrossSat ─────────────┐
              WholeEquivalence ─────┼── MCWholeEquivalence        AigSim ──┐
                                    └── WholeEquivalence_proofs   Fraig ───┴── MCFraig
                                                                    └── Fraig_proofs
    ToolSession ── EdaBackend ── MCEdaBackend
          │            └── EdaBackend_proofs
          └─────── ReactLoop ─── MCReactLoop
                       └── ReactLoop_proofs
    FanoutBuffers ── MCFanoutBuffers             DesignTransaction <── OptApply ── MCOptApply
          └── FanoutBuffers_proofs               (implemented by)        └── OptApply_proofs

**GateFunctions** is what a gate computes from what its pins carry, 0, 1 or
undefined. It is the reference that both netlist models are held to.

**Netlist** is the data structure: gates and nets by id, load lists kept beside the
pins they should agree with, the structure and Problem A categories the
validation counts, `MoveLoads` (`replaceAllLoadsOfNet` while upkeep is deferred) and
`BuryGate`. The pins of a gate are a function from positions to nets, and a
gate that drops a pin drops the position; a load list is the bag of its entries,
since no code depends on its order. `WellFormed` is what the reader makes of a
source and what an edit is handed; `DriversFirst` says that every driver is listed
before the gates it feeds, which a source may or may not do. The reference that
folding is judged by is `SameFunction`: both netlists evaluated (`Settle`, by
as many sweeps as there are gates) at the output ports and flip-flop pins.

**ConstFold** is `simplifyGatesWithConstants`: `Scan` rebuilds the load lists and
collects candidates, `Visit` runs `simplifyGateWithConstant` on the next one, in
id order and with deferred upkeep, `EndRound` decides on another round, and
`Validate` is `finalizeEditReport` with its rollback. One visit is one step. Its
type invariant says that drivers and outputs name each other and buried gates are
bare at every step (`Consistent`); what load lists owe the pins it leaves out.

**PrimitivesCache** is `Primitives`: one action per public operation, each with
the `ensure_fresh` it begins with. A netlist is the number of its version. An
edit makes a new version and a new revision; `Restore` returns to an old version
under a new revision and destroys the netlist's own cache, as `restoreFrom`
does; a caller's cache survives it. A question takes one of the ways the code
has (on the graph, from the table, by the solver, with an automatic sweep), or
fails. **AigService** is what the cache is for, with no cache in it; the run
`cache` and the theorem `CacheImplementsService` show it implemented.

**Fraig** is the sweep itself and the table it leaves. `Simulate` starts a sweep at a
level (the topology, the words of simulation and the classes, each of which the
budget may cut; `TopologyCut` is the cut before any simulation), or leaves it at a
simulated table. `ProveEqual`, `Refute` and `GiveUp` are the three answers to the
question the scan asks next, `Leftover` deals with the counterexamples that wait at
the end of a scan, and `Finish` and `Stop` are the two ends. The budget may be used
up at any step (`Expire`). A node is its index, its function the set of
assignments under which it is 1, which **AigSim** computes from a graph for the
instances; the solver gives any answer that is right, or none. `fraig_lookup` has
both its readings: nodes in one class are equal, and after a complete sweep nodes
not in one class are not.

**OptApply** is `runOptApply` around `executeOptimization`: what is answered at
once (validation, an empty scope, nothing to do), the core's stages in their
order, each of which may fail or find the deadline passed, the two search paths
with the one lowering switch they share, the legacy stages, and the judgement of
the result in the caller. What a pass makes of a circuit is any design within
the costs; a path leaves nothing but its circuit and the switch and is one
action. **DesignTransaction** is the contract, in three actions: commit an
acceptable design, keep the design, start another command.

**CrossSat** is the formula of `WholeDesignEquivalence.cpp`: the shared variables
(`netVar`), the clauses of each gate with the chained exclusive ors, and beside
them what the two designs compute (`Values`: sweeps over the gates, from values of
inputs, states and undriven nets). **WholeEquivalence** is the procedure on what a
formula can tell (which endpoints are satisfiable) and the reply of `equiv_query`.
It has no formula in it, so that any pairs will do for its constant; `Comparison`
of CrossSat is what ties the two together, in the run and in the proofs. `IsDesign` says
which designs the formula is meant for: one driver to a net, no driver to an
input, no loop of gates.

**FanoutBuffers** is the buffer insertion for all nets, for a named net or bus,
and for the clock and reset nets of flip-flops. They share their loop in the
code (three copies of it) and here: `StartTarget` picks the sinks that stay,
`InsertBuffer` adds one buffer to the chain, `Finish` validates and maybe rolls
back. `NetFor` is `addNet`, which returns an existing net for a name in use.

**ToolSession** is the session as its clients see it: for a session and a
command, the set of pairs of next session and reply. It has the outcomes of
reading (a bad file leaves the old design), of editing (changed, unchanged,
rolled back, out of time) and of the queries on the last edit and on
equivalence, with the status and completeness the reply is marked with. It lets
`equiv_query` answer "partial", which WholeEquivalence proves it never does: its
clients are shown to bear more than they meet.

**EdaBackend** puts that session behind two pipes. The process prints its prompt
and obeys (`PrintPrompt`, `Obey`), dies whenever it likes (`Die`), and
`EDABackend` is a program counter through `_start`, `_reload`, `send` and
`_read_until_prompt`. `believed` and `intact` are history variables: the design
as the replies tell it, and whether a death came in between.

**ReactLoop** is `handle_react`, one action per way a turn can go: `Redo` (what
the model proposed is turned down), `Refuse` (it failed or timed out before),
`Run`, and the exits. The tool under it is ToolSession again, and may die of a
command, before it, or be restarted and obey it a second time, which is what
EdaBackend shows a send to amount to (`Sent`). What the model says is any choice.

## 4. What is checked

Passing runs (deadlock is checked in all of them):

| Run | Instance | Shows |
|---|---|---|
| `fold` | drivers listed before their loads: three gates over two or three undriven nets, one or two output ports; and every gate type, two and three pins, a flip-flop that closes a loop | every visit keeps the function, leaves no pin floating and shrinks the design by what it counts; a command ends only at the fixpoint |
| `cache` | the netlist's own cache and a caller's, one handle each, three revisions after the first by edits and rollbacks, engine switches in two generations | the core of the inductive invariant, the refinement of AigService, stale handles stay stale |
| `fraig` | four graphs of two inputs and up to three ANDs, holding equal nodes, a constant and a complemented input; four words, three rounds, two counterexamples in a word | merges are sound, lookups right, no question asked twice, a sweep ends |
| `opt_apply` | two designs for each of two costs, gate constraints nowhere, everywhere, in a cone, in and outside it, any number of commands | the command is a transaction, a failed core leaves no trace, a lowered winner complies and is used however late it is, a success reports the constraints truly, but for an empty scope |
| `equivalence` | some 150 pairs of designs with two inputs, two flip-flops, a constant, an undriven net and two gates of every type and one to three inputs; other interfaces, renamed nets, open pins, nothing to compare | the formula has exactly the differences of the two designs, each endpoint is reported once, a complete reply is true |
| `fanout` | six pins split over an input and a driven output net in ten ways, limits 0 to 3, at most four buffers, names given and taken away | limit met, nothing wasted, signals kept, no circle of buffers, rollback whole |
| `eda_backend` | two readable files, one that is not, two edits, deaths without bound | replies in step, belief, edits as reported, last file, send returns |
| `react` | one design, an optimizer and a fanout edit, both workflows of the two, four turns, a tool that may die of any command | stages in order, a ledger that accounts for the design, every request is answered |

Why the bounds are enough for what they are meant to show:

- Folding: a fold moves a constant one gate forward; with three gates in a row a
  visit works on what an earlier visit of the round left (two are needed), the
  third is the port whose driver must stay. The bound that matters is whether a
  net's driver comes before its loads in id order; a family exists for either.
- Cache: an edit, a rollback and another edit is the shortest way for a revision
  number to name two netlists, were it taken over from the clone; there is room
  for that, and for a handle older than a graph that is older than the netlist.
  `OneBuilt` (a constraint) lets one cache at a time have built a graph: two
  caches share nothing but the netlist, and every property is about one cache.
  The proofs have no such bounds.
- Sweep: three equal nodes are the smallest class that can be split and merged in
  the same scan; a class against a complement and against the constant are the
  two phases. Two counterexamples to a word make the buffer flush both full and
  part full; three rounds and four words are used up before the scan is over.
  `InitWords` is one word, since more make the first classes finer, not other.
- Optimizer: two costs give a better, an equal and a worse candidate and a target
  on either side; two tags tell "another design of the same measures" from "the
  same design". Commands are not bounded.
- Equivalence: pairs for which the formula and the designs agree in the same way
  are one comparison to the procedure. A pair has four endpoints, two ports and
  two flip-flops, so that the time runs out before, between and after
  mismatches; two flip-flops are needed for the exchange of their output names.
  The formula needs gates only one by one, since each has variables and clauses of
  its own, and two in a row to connect. The proofs have no such bounds.
- Fanout: four buffers allow a second command on the result of a first, and
  chains of two and three buffers at every limit from two; six pins fill a chain
  to the last place. Which pin has which role (clock, reset, either, none) is
  fixed, how they are split over the nets is not. `HasRoom` enables a command
  only when the buffers it takes are left, so that none is cut short by the bound.
- Backend: `MaxEdits` bounds the edits that succeed. Deaths, retries and commands
  that fail are not bounded: the state graph is finite without.
- Request loop: `MAX_REACT_STEPS` is 8 in the code; a workflow has two stages
  here, so that the three turns before the last hold both stages and a failure,
  a death or another command at any place between them.

Fairness. ConstFold states none: `EveryChangeShrinks` is a measure that every
rewrite lowers, so a round that reports a change differs from all before it and
the rounds end. Fraig: weak fairness of the steps inside a sweep, which is a loop
of one thread around questions with a limit of their own; none of requests.
EdaBackend: weak fairness of the tool (each command has its own time budget) and
of the client (it waits without a timer, but only for output); no fairness for
sending or dying. ReactLoop: weak fairness of the step, since each model call and
each command is bounded. The other modules state no liveness: that no command
gets stuck half way is the deadlock check.

A definition called a *mutant* in its comment is a plausible bug in the
definition after it; PROJECT.json names the property that finds it.

## 5. What is proved

Eight modules hold proofs, all checked by tlapm to the last leaf. Each theorem is
about every value of the constants, under the named assumptions of the module it
extends. Each has the same shape: an inductive invariant, one lemma per action,
and a last step of temporal logic.

**ConstFold_proofs**, for designs with any number of gates and nets and gates of any
width, from `FamiliesAssumption` (the designs are `WellFormed`):

- with no further hypothesis, `TypeCorrect`, `ChangesShrink` (the action property of
  `fold`), and beyond the run `NeverRolledBack`: the validation at the end of a fold
  never undoes one, because no fold can make worse what it counts;
- if drivers come before loads (`InOrderDesigns`), `FunctionKept` and
  `CertificateRight`. The run `fold_any_order` shows that neither holds without
  it, although what `NeverRolledBack` says does: the validation is no safeguard;
- if moreover no pin floats to begin with (`NoFloatingDesigns`),
  `NothingLeftFloating` and `FoldComplete`. `InOrderAssumption` has TLC evaluate
  both hypotheses on the designs of `fold`.

There are three invariants, each on top of the last. `Sound` carries the first
group: the netlist is consistent, ports, constants and flip-flops stand where
they did (`Frame`), the candidates are gates that compute. `Ordered` adds that
drivers still come first, that the candidates' entries in the load lists are
complete although upkeep is deferred (`LoadsKnown`: a pin only moves to a net whose
driver comes before all candidates still to be visited), and that ports and
flip-flop pins carry their values (`SameValues`). `Settled` adds that nothing floats
and that a round without a change has left nothing to fold. `SimplifyCases` says
that a visit does nothing, and why, or finds a net or a smaller gate that computes
what the gate did; `VisitCases`, that the gate then stays, is rewritten or is
buried.

What the values are is the hard part. `Settle` is a recursive function over the
number of gates, and induction over data is out of reach as a rule of inference.
With drivers first, however, a design has exactly one assignment that solves the
equations of its gates: `SettleSolves` (what a net carries is final after as many
sweeps as its driver's id) and `OneSolution` (two solutions differ at no
first gate). Both argue by the least gate at which they would fail, which exists
because `<` on the naturals is well founded (`LeastNatural`, `Climb`); no step of
induction with an operator is needed. A visit then only has to be shown to turn
the solution of the one netlist into a solution of the other.

**PrimitivesCache_proofs**, for any number of caches and handles, any sequence of
edits, rollbacks, sweeps that fail and engine switches, from `CacheAssumption`:
`TypeCorrect` and `GraphDiscipline` (the invariants of `cache`), `StaleForever` (its
action property), `CacheImplementsService` (the refinement), and beyond the run
`AnswersCurrent` and `DeadlinesReleased`. `AnswersAreCurrent` alone is not
inductive: it speaks of the reply just given, and says nothing of the table or
memo the next reply will come from. What carries the induction is
`NothingOutlivesItsGraph`: equal revisions mean equal netlists, a table and a memo
are of the graph beside them, and a handle that would be accepted was made on
it. `FreshenedIsGood` shows that `ensure_fresh` turns any cache the invariant allows
into one about the current netlist, `SweptIsGood` that a sweep keeps it so, and
`InstallKeeps` that putting such a state back keeps the invariant for all caches.

**Fraig_proofs**, for any graph, any solver and any budgets, from
`CircuitsAssumption` (what `on` of inputs and of the constant is) and
`BoundsAssumption`: `SweepTypes`, `MergesAreSound`, `RepresentativesAreFinal`,
`RefutationsAreUsed`, `TableNeverWrong`. That lookups are right is not inductive; a
denial ("not in one class, so not equal") rests on every pair having been
settled. The invariant says why: equal nodes that are open are in one class
(`EqualsTogether`, because every vector that splits a class tells its members
apart), a refuted pair is split or its node is done with (`RefutedSplit`), nodes
the scan has passed are settled (`ScanOK`), leaders lead (`LeadersLead`), and so a
complete sweep found every pair there is (`CompleteFindsAll`). None of it needs a
sweep to finish: each conjunct holds wherever it is cut.

**OptApply_proofs**, for any costs, tags and constraint bases, from `MaxCostIsNat`
and `BasesKnown`: `DesignStaysSound`, `FailureLeavesNoTrace`, `LoweredNeedsNoConversion`,
`LateWinnerIsUsed`, `SuccessIsWithinConstraints`, and `CommandIsTransaction`, that
the command refines DesignTransaction. The invariant adds to the properties what
each stage may rely on (`Control`: what the program counter says of the copy and
of the switch), that an accepted result was judged (`Judged`), and that a lowered
winner is what will be judged (`Handed`): no stage rewrites it and no exit is taken
with it. `LateWinnerIsUsed` speaks of a winner with the switch on at the end of the
search; with the switch off the deadline does throw winners away (section 6). The
constraints are excepted where the cost scope has no gates (ibid.). The model takes
it that a circuit the lowering returns consists of allowed gates; the code relies
on that only to skip a conversion, and checks the result again in the caller.

**WholeEquivalence_proofs** has two halves. About the formula, for any two designs
with any gates, widths, nets and flip-flops (`IsDesign` for both): what its models
make differ is what the designs make differ (`FormulaExact`, for a set of pairs;
`ComparisonOfDesigns`, for one, which also shows that `ComparisonsAssumption` holds of
every pair). A gate is treated alone: its clauses allow the value it computes and no other
(`ClausesExact`); for exclusive ors that is because link k of a chain is the parity of
the first k inputs (`ChainIsOdd`), and a chain that says so exists (`ChainExists`).
So a model of a design's clauses is a solution of its gates (`ClausesSolve`). The
sweeps of the reference end in one (`ValuesSolve`: sweep k settles all gates up to
rank k), and there is no other, or take a gate of the least rank at which two
differ (`OneSolution`). Hence a model is a run of each design (`ModelIsRun`) and two
runs from the same free values are a model (`RunIsModel`), which is where the
sharing of `netVar` is used. About the procedure, for any endpoints and any point at
which the time runs out: `NoReplyIsPartial` and `ReportIsPartition`, from
`ComparisonsAssumption`, and with the first half `ListsAreRight` and
`CompleteVerdictIsTrue`, from `OfDesigns`: every pair is the comparison of two designs.
The invariant ties the lists to the index of the loop (`Progress`), to what the
solver said (`AsSolved`) and the reply to both (`ReplyAsSolved`). `OfDesigns` holds of
the pairs of the run, where `PairsAssumption` has TLC evaluate it. The code does not
test it; a loop or a driven input is what the hazard at
WholeDesignEquivalence.cpp:157 is about.

**EdaBackend_proofs**, for any files, any edits and any number of them, and any
number of deaths, from `FilesAssumption`, `EditsAssumption` and
`MarkersAssumption`: all six invariants of `backend` (`Typed`, `RepliesStayInStep`,
`RestartsReload`, `RepliesTellTheDesign`, `NoEditOutOfNowhere`,
`QuestionsAreOfOneEdit`). Four of these speak of the moments between commands; the
invariant follows one command through the pipes. It is written (`Unanswered`: the
line waits, or went with the process), then answered (`Answered`: the reply, with
or without its prompt, is in the pipe or read), and from the moment the process
has obeyed, its session is what the client *will* believe when it has read the
reply (`Awaits`, over `Learnt` and `FileAfter`). A restart is the same twice over: the
greeting (`Greets`) and the reload (`Reloads`), during which `intact` is false, so that
only the file and the order of edits are claimed. `OutcomesFine` shows that no outcome of a command breaks the session's own
consistency; `AppendOccurs` carries the order of edits over an edit on both sides.

**ReactLoop_proofs**, for any edits, any workflows and any number of turns, from
`LoopAssumption` and `FilesAssumption`: all three invariants of `react` (`Typed`,
`StagesAreDoneInOrder`, `LedgerTellsTheDesign`). Together with a session that is
loaded and consistent they are inductive as they stand. Both of the last two say
that certain results lie at increasing positions of the ledger. A result that is
run either leaves the positions as they are (`OtherResult`, `NoChangeAccounted`) or
adds its own behind them (`StageResult`, `ChangeAccounted`, both over `Extended`).
`SentReport` is the fact about the tool the second rests on: while it lives, a
command other than `read` and `quit` changes the design exactly when its reply
says so, and `RecordFacts` that the record keeps what the reply said.

**FanoutBuffers_proofs**, for any design, any limits, any number of buffers and any
sequence of commands and renamings, from `FanoutAssumption`: all five invariants of
`fanout` (`Typed`, `SignalsStay`, `NoBufferCircle`, `LimitKept`, `NothingWasted`). All but
the first have one hypothesis, `Takers \cap Inputs = {}`: no input is given a
`dff_ctrl_net` name. It is needed, see section 6. The five speak of the moments
between commands, and the netlist may be wrong while one is served, so the
invariant follows a command: the copy for a rollback is good (`Good`), and as long
as no net has two drivers, what has been done so far is good too (`HalfWay`,
`Exactly`). `RegressesIff` shows that the validation rolls back exactly when
that condition fails, and `NewNetIsNew` that it fails whenever the name for a new
net is in use: a name leads to a net of the design or to one a buffer drives
(`NamesAccounted`). `HalfWay` says that the sinks still to be moved carry the same
signal as the end of the chain, which has a place left; `Exactly` counts: the
loads a net will have (`Settled`) fill it, but for at most one net per target
that is done with. That there is no circle is an argument about the graph in
which the sinks to be moved are already at the end of the chain (`Advanced`):
`ExtendsCircle` shows that a circle through the new buffer would have been one
through its source.

Only model-checked: all liveness, `SweepEnds`, `SendReturns` and `Answered` (fairness and
ENABLED are beyond TLAPS). Neither the library's induction theorems nor RECURSIVE
operators can be used, so the recursive functions `Values` and `Settle` (ConstFold) are reached by hand: the
sweeps up to n exist for every n (`SweepsExist`), by the least number argument of
`LeastNatural`.

## 6. Disagreements between the code and what it says

Each is a run that TLC must find violated, and a finding in PROJECT.json.

- `fold_any_order`: with a driver listed after its load, constant folding can
  leave a pin on a net nothing drives and certify the result as equivalent. With
  drivers first `fold` shows, and `FunctionKept` proves, `FunctionPreserved`, which is
  stronger.
- `sweep_deadline`: a sweep asked for under a request's deadline runs without it
  when the graph was stale, because the refresh drops the deadline first.
- `fanout_twice`: buffering flip-flop control nets a second time (clocks, then
  resets) collides with the names of the first time and is rolled back.
- `late_candidate`: TIMEOUT is said to mean that there is no compliant candidate to
  hand over (OPTIMIZATION_TOOL.md:325). What decides is the lowering switch
  (`Optimizer.cpp:618`, 635), not the candidate: where a cone cannot be lowered, or a
  lowering fails, before or after the winner was found, a winner that obeys the
  constraints, is sound and improves the design is discarded at the deadline. The
  run has cone constraints only; circuits that were not lowered consist of AND,
  NOT and XOR, and comply where a cone may have these. Without constraints
  anywhere every candidate complies, and is discarded likewise.
  `WinnerIsUsed` is what does hold.

Others were seen while modelling and have no run, because what they contradict is
nowhere stated as a property of the program, lies outside what is modelled, or is
plain from one line of the code:

- A cost scope without gates makes a command succeed and report the gate
  constraints as satisfied on a design that violates them (`EmptyScope`;
  `OptimizationFlow.cpp:877`), where OPTIMIZATION_TOOL.md:314 says of the field that it
  tells whether the candidate meets them. `SuccessObeysConstraints` excepts it; the
  flag is one assignment, and there is nothing more for a run to find.
- An undriven net (an input) called `dff_ctrl_net_0` is taken by the control
  buffering for the new buffer's output, and nothing notices
  (`Netlist.cpp:154`). `fanout` lets only driven nets have such names (`Takers`);
  there the validation catches it.
- After a read that failed, a restart reads the bad file again
  (`agent_final.py:418`); SESSION_AND_IO_TOOL.md says the old design is kept.
  `StandsOnLastRead` states what the code does.
- Commands that failed or timed out stay refused after an edit changed the design
  (`agent_final.py:4099`). A stage that failed is demanded again and refused as a
  repetition until the turns are spent. Prose in the last turn is taken for the
  answer whatever is left to do (3851). Out of stages any command is accepted,
  an optimizer after the fanout edit too (2663). A death between two stages
  loses the edit of the first, which stays counted as done.
- If the last endpoint's question is undecided after it used all the time that
  was left, the report does not say that the time budget was exceeded and the
  status is "unsupported" (WholeDesignEquivalence.cpp:407).
- A difference proved by the global question is lost if no share of the time
  finds its endpoint: the reply is cut short, and the agent's fallback then words
  it as functionally equivalent (`agent_final.py:2793`).
- `Fraig::sweep()` is documented as callable again (`Fraig.h:102`), but the count of
  nodes given up is not reset. The cache makes a new object for every sweep.
- After a core that timed out or missed its constraints `rolledBack` is false,
  where OPT_APPLY_API.md says a timeout rolls back; the design is as it was.

## 7. Not modelled, and why

- *The other rewritings* (same-input gates, buffers, inverter pairs, structural
  merge, dead logic, flip-flop merge, redundancy) and the runners that repeat
  them: each is a rewriting with the validation and rollback that ConstFold models
  for one of them. A runner over rules that are any choice would show nothing.
- *Structural edits besides buffering and net renames*: connecting and
  disconnecting are primitives no command reaches; constant nets and the names
  of gates reach nothing but the written file.
- *Technology mapping, functional merge, Mockturtle conversion*: rule tables and
  translations between graphs. OptApply takes any result and models how it is
  judged. Cost functions are abstracted to a number.
- *Stage 7 of the optimizer* (its own equivalence check) and `run_cec`: switched
  off in, or not reached from, the commands of the tool.
- *The SAT solver and the construction of graphs with their names*: the solver is
  taken to be right when it answers, and may not answer. Vendored libraries
  likewise; they are most of the repository (1.7 million lines, of which the
  tool's own code is a few tens of thousands), and no share of them is claimed.
- *Verilog reading and writing, analyses*: text, and pure queries that change no
  state but the Boolean cache. That a read may fail, and what the session keeps
  then, is in ToolSession.
- *The agent's parsing, evidence matching, wording, model transport*: any outcome
  of them is allowed in the loop. Statistics, costs and messages everywhere.
