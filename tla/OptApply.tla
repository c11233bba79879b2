------------------------------- MODULE OptApply ------------------------------
(***************************************************************************)
(* The optimisation command: runOptApply (OptimizationFlow.cpp) around     *)
(* executeOptimization and runStage2Path (Optimizer.cpp), for the depth    *)
(* and the gate-count objective.                                           *)
(*                                                                         *)
(* The command works on a copy of the design. The core rewrites that copy  *)
(* in stages, each of which may fail or find the time used up after the    *)
(* stages before it changed the copy; then it puts the copy back and says  *)
(* why. Two paths search for a cheaper circuit and share one switch: as    *)
(* long as lowering works, every circuit a path returns consists of        *)
(* allowed gates; the first lowering that fails turns the switch off for   *)
(* good, and circuits have to be converted afterwards, in the legacy       *)
(* stages, which need time. The command accepts the copy only after checks *)
(* of its own.                                                             *)
(*                                                                         *)
(* What a pass makes of a circuit is any design. The iterations of a path  *)
(* leave nothing behind but its circuit and the switch, so a path is one   *)
(* action. The equivalence check of stage 7 is switched off in the         *)
(* Optimizer that runOptApply constructs, and left out.                    *)
(***************************************************************************)
EXTENDS Integers

CONSTANTS
  Tags,      \* tells apart designs with the same measures
  MaxCost,   \* bound on costs (depth or number of gates)
  Bases      \* where gates are constrained: nowhere, everywhere, in a cone, in and outside it

ASSUME MaxCostIsNat == MaxCost \in Nat
ASSUME BasesKnown   == Bases \subseteq {"none", "whole", "cone", "both"}

VARIABLES
  design,    \* the session's netlist (this, and original while a command runs)
  request,   \* the request being worked on
  pc,        \* the stage reached
  expired,   \* the request's deadline has passed
  working,   \* the copy the core works on
  lowering,  \* [usable, active]: may be tried; works still
  best,      \* the winner of the paths so far
  core,      \* what executeOptimization returned
  answer,    \* the report the caller got
  final      \* what it says of the gate constraints (finalConstraintsSatisfied)

vars  == <<design, request, pc, expired, working, lowering, best, core, answer, final>>
reply == <<answer, final>>

Costs        == 0 .. MaxCost
Targets      == -1 .. MaxCost             \* -1: no target
Unmeasurable == -1
Compliances  == IF request.basis = "none" THEN {TRUE} ELSE BOOLEAN

(* A design in the session, and what a pass may make of one: valid is      *)
(* said of a result compared with the design the command started from.     *)
Designs == [tag : Tags, cost : Costs, compliant : BOOLEAN, valid : {TRUE}]
Results == [tag : Tags, cost : Costs \cup {Unmeasurable},
            compliant : Compliances, valid : BOOLEAN]

Wishes   == [target : Targets, requireCostImprovement : BOOLEAN]
Requests == [basis : Bases, emptyScope : BOOLEAN, wish : Wishes]

NoAnswer == [given |-> FALSE, success |-> FALSE, changed |-> FALSE, rolledBack |-> FALSE]
NotRun   == [status |-> "NOT_RUN", changed |-> FALSE]
Off      == [usable |-> FALSE, active |-> FALSE]

(* A path that measured no circuit; lowering: the switch as it left it.    *)
NoPath(on) == [ok |-> FALSE, lowering |-> on]
Paths == {NoPath(on) : on \in BOOLEAN} \cup
         [ok : {TRUE}, lowering : BOOLEAN, design : {d \in Results : d.cost # Unmeasurable}]

hasLocalBasisScope == request.basis \in {"cone", "both"}
outsideConstrains  == request.basis \in {"whole", "both"}
requiresLowering   == hasLocalBasisScope /\ outsideConstrains

(* A lowered candidate: no stage has to convert it.                        *)
loweringApplied == lowering.active /\ best.ok

targetMet(d)     == request.wish.target >= 0 => d.cost <= request.wish.target
costImproved(d)  == d.cost < design.cost

-----------------------------------------------------------------------------
(* runOptApply up to the core.                                             *)

Init ==
  /\ request \in Requests
  /\ design \in {d \in Designs : request.basis = "none" => d.compliant}
  /\ pc = "request" /\ expired = FALSE
  /\ working = design /\ lowering = Off /\ best = NoPath(FALSE) /\ core = NotRun
  /\ answer = NoAnswer /\ final = FALSE

(* Time passes at any point of a command.                                  *)
Expire ==
  /\ pc # "done" /\ ~expired
  /\ expired' = TRUE
  /\ UNCHANGED <<design, request, pc, working, lowering, best, core, reply>>

Answer(success, changed, rolledBack, satisfied) ==
  /\ answer' = [given |-> TRUE, success |-> success, changed |-> changed,
                rolledBack |-> rolledBack]
  /\ final' = satisfied
  /\ pc' = "done"

(* Before the core the design is kept, and nothing was tried.              *)
AnswerAtOnce(success, satisfied) ==
  /\ pc = "request"
  /\ Answer(success, FALSE, FALSE, satisfied)
  /\ UNCHANGED <<design, request, expired, working, lowering, best, core>>

(* Arguments, constraints or scopes that make no sense.                    *)
RejectRequest == AnswerAtOnce(FALSE, FALSE)

PreCoreTimeout == expired /\ AnswerAtOnce(FALSE, design.compliant)

(* A scope without gates. The report says the constraints hold, whatever   *)
(* the gates outside the scope are.                                        *)
EmptyScope == request.emptyScope /\ AnswerAtOnce(targetMet(design), TRUE)

(* The scope's depth is proved to be the least one possible.               *)
AlreadyOptimal ==
  /\ ~request.emptyScope /\ ~expired /\ ~hasLocalBasisScope
  /\ design.compliant
  /\ AnswerAtOnce(targetMet(design), TRUE)

StartCore ==
  /\ pc = "request" /\ ~request.emptyScope /\ ~expired
  /\ working' = design
  /\ pc' = "core"
  /\ UNCHANGED <<design, request, expired, lowering, best, core, reply>>

-----------------------------------------------------------------------------
(* executeOptimization.                                                    *)

(* Mutant: the working copy stays as the failed stage left it.             *)
returnFailureInPlace(status) ==
  /\ core' = [status |-> status, changed |-> FALSE]
  /\ pc' = "judge"
  /\ UNCHANGED <<design, request, expired, working, lowering, best, reply>>

(* returnFailure: the snapshot comes back.                                 *)
returnFailure(status) ==
  /\ working' = design
  /\ core' = [status |-> status, changed |-> FALSE]
  /\ pc' = "judge"
  /\ UNCHANGED <<design, request, expired, lowering, best, reply>>

returnTimeout == expired /\ returnFailure("TIMEOUT")

Invalid     == "ERROR_INVALID_REQUEST"
Unsatisfied == "ERROR_CONSTRAINT_UNSATISFIED"

(* Lowering can be used if the gates allowed inside and outside the cone   *)
(* can express everything, and the cone has a root; without constraints    *)
(* that is so. A request that constrains both sides has no other way.      *)
Plan ==
  /\ pc = "core" /\ ~expired
  /\ \E usable \in BOOLEAN :
       /\ request.basis = "none" => usable
       /\ requiresLowering => usable
       /\ lowering' = [usable |-> usable, active |-> usable]
  /\ pc' = "first"
  /\ UNCHANGED <<design, request, expired, working, best, core, reply>>

PlanFails ==
  /\ pc = "core"
  /\ \/ returnFailure(Invalid)
     \/ returnTimeout
     \/ requiresLowering /\ returnFailure(Unsatisfied)

(* Mutant: each path starts with the switch as it was planned.             *)
runStage2PathAfresh(p) ==
  /\ p.lowering => lowering.usable
  /\ p.ok /\ p.lowering => p.design.compliant
  /\ lowering' = [lowering EXCEPT !.active = p.lowering]

(* A path and the switch: once off it stays off, and while it is on the    *)
(* circuit consists of allowed gates.                                      *)
runStage2Path(p) ==
  /\ p.lowering => lowering.active
  /\ p.ok /\ p.lowering => p.design.compliant
  /\ lowering' = [lowering EXCEPT !.active = p.lowering]

(* The better of two circuits; what decides between equal costs (depth,    *)
(* then gates, or the other way round) is not modelled.                    *)
Winner(p) ==
  /\ best' \in {best, p}
  /\ ~p.ok => best' = best
  /\ p.ok /\ (~best.ok \/ p.design.cost < best.design.cost) => best' = p
  /\ p.ok /\ best.ok /\ p.design.cost > best.design.cost => best' = best

FirstPath ==
  /\ pc = "first"
  /\ \E p \in Paths : runStage2Path(p) /\ Winner(p)
  /\ pc' = "second"
  /\ UNCHANGED <<design, request, expired, working, core, reply>>

(* The second path runs if enough time seems to be left; on the same terms *)
(* the winner is resumed, if it kept what that takes.                      *)
SecondPath ==
  /\ pc = "second" /\ ~expired
  /\ \E p \in Paths : runStage2Path(p) /\ Winner(p)
  /\ pc' = "resume"
  /\ UNCHANGED <<design, request, expired, working, core, reply>>

Resume ==
  /\ pc = "resume" /\ ~expired
  /\ best.ok
  /\ \E p \in Paths : runStage2Path(p) /\ Winner(p)
  /\ pc' = "adopt"
  /\ UNCHANGED <<design, request, expired, working, core, reply>>

Skip ==
  /\ \/ pc = "second" /\ pc' = "resume"
     \/ pc = "resume" /\ pc' = "adopt"
  /\ UNCHANGED <<design, request, expired, working, lowering, best, core, reply>>

(* The winner takes the place of the copy; without one the copy only loses *)
(* its dead logic.                                                         *)
Adopt ==
  /\ pc = "adopt"
  /\ IF best.ok THEN working' = best.design
     ELSE \E d \in Results :
            /\ d.cost <= design.cost
            /\ design.compliant => d.compliant
            /\ working' = d
  /\ pc' = "adopted"
  /\ UNCHANGED <<design, request, expired, lowering, best, core, reply>>

(* Mutant: the time is looked at first.                                    *)
OutOfTimeAfterSearch == expired

(* A lowered candidate may be handed over however late it is.              *)
OutOfTime == expired /\ ~loweringApplied

SearchFails ==
  /\ pc = "adopted"
  /\ \/ requiresLowering /\ ~loweringApplied /\ returnFailure(Unsatisfied)
     \/ ~(requiresLowering /\ ~loweringApplied) /\ OutOfTime /\ returnTimeout

Found ==
  /\ pc = "adopted"
  /\ ~(requiresLowering /\ ~loweringApplied) /\ ~OutOfTime
  /\ pc' = IF loweringApplied THEN "measure"
           ELSE IF hasLocalBasisScope THEN "enforceCone" ELSE "enforceWhole"
  /\ UNCHANGED <<design, request, expired, working, lowering, best, core, reply>>

(* The legacy stages in order.                                             *)
Legacy == {"enforceCone", "absorbCone", "absorbOutside", "enforceWhole", "absorbWhole"}
After  == [enforceCone |-> "absorbCone", absorbCone |-> "absorbOutside",
           absorbOutside |-> "measure", enforceWhole |-> "absorbWhole",
           absorbWhole |-> "measure"]

(* A stage that finishes in time rewrites the copy.                        *)
LegacyStage ==
  /\ pc \in Legacy /\ ~expired
  /\ pc = "enforceWhole" => outsideConstrains /\ ~working.compliant
  /\ working' \in Results
  /\ pc' = After[pc]
  /\ UNCHANGED <<design, request, expired, lowering, best, core, reply>>

(* Nothing to enforce; no gate that could absorb an inverter.              *)
LegacySkip ==
  /\ \/ pc = "enforceWhole" /\ ~(outsideConstrains /\ ~working.compliant)
     \/ pc = "absorbWhole" /\ request.basis # "none"
  /\ pc' = After[pc]
  /\ UNCHANGED <<design, request, expired, working, lowering, best, core, reply>>

(* The cone may have become unresolvable; the conversion may not succeed.  *)
(* Whole-design enforcement is tried only where something is to enforce.   *)
LegacyFails ==
  /\ pc \in Legacy
  /\ pc = "enforceWhole" => outsideConstrains /\ ~working.compliant
  /\ \/ returnTimeout
     \/ pc \in {"enforceCone", "absorbCone", "absorbOutside"} /\ returnFailure(Invalid)
     \/ pc \in {"enforceCone", "enforceWhole"} /\ returnFailure(Unsatisfied)

(* sameNetlistGraph against the snapshot decides what is returned.         *)
Measure ==
  /\ pc = "measure" /\ working.cost # Unmeasurable
  /\ core' = [status |-> IF working # design THEN "SUCCESS" ELSE "NO_IMPROVEMENT",
              changed |-> working # design]
  /\ pc' = "judge"
  /\ UNCHANGED <<design, request, expired, working, lowering, best, reply>>

MeasureFails ==
  /\ pc = "measure" /\ working.cost = Unmeasurable
  /\ returnFailure(Invalid)

-----------------------------------------------------------------------------
(* runOptApply after the core.                                             *)

(* Mutant: the structure of the copy is not looked at.                     *)
Acceptable_StructureUnchecked ==
  /\ core.status \in {"SUCCESS", "NO_IMPROVEMENT"}
  /\ working.compliant
  /\ targetMet(working)

(* Mutant: the target is not looked at.                                    *)
Acceptable_TargetUnchecked ==
  /\ core.status \in {"SUCCESS", "NO_IMPROVEMENT"}
  /\ working.valid
  /\ working.compliant

(* The checks of the copy, in the order of the code: the core's status,    *)
(* structure, gate constraints, target.                                    *)
Acceptable ==
  /\ core.status \in {"SUCCESS", "NO_IMPROVEMENT"}
  /\ working.valid
  /\ working.compliant
  /\ targetMet(working)

Rejected ==
  /\ pc = "judge" /\ ~Acceptable
  /\ Answer(FALSE, FALSE, core.changed, working.compliant)
  /\ UNCHANGED <<design, request, expired, working, lowering, best, core>>

Unchanged ==
  /\ pc = "judge" /\ Acceptable /\ ~core.changed
  /\ Answer(TRUE, FALSE, FALSE, working.compliant)
  /\ UNCHANGED <<design, request, expired, working, lowering, best, core>>

(* Mutant: no improvement is reason enough to keep the original.           *)
NotWorthIt_WhateverBaseline ==
  request.wish.requireCostImprovement /\ ~costImproved(working)

(* A design that breaks the constraints is worth any price.                *)
NotWorthIt ==
  /\ request.wish.requireCostImprovement
  /\ design.compliant                              \* baselineConstraintsSatisfied
  /\ ~costImproved(working)

OriginalKept ==
  /\ pc = "judge" /\ Acceptable /\ core.changed /\ NotWorthIt
  /\ Answer(TRUE, FALSE, core.changed, working.compliant)
  /\ UNCHANGED <<design, request, expired, working, lowering, best, core>>

(* restoreFrom(working).                                                   *)
Accepted ==
  /\ pc = "judge" /\ Acceptable /\ core.changed /\ ~NotWorthIt
  /\ design' = working
  /\ Answer(TRUE, core.changed, FALSE, working.compliant)
  /\ UNCHANGED <<request, expired, working, lowering, best, core>>

(* Another command on the same objective.                                  *)
NextCommand ==
  /\ pc = "done"
  /\ \E w \in Wishes : request' = [request EXCEPT !.wish = w]
  /\ pc' = "request" /\ expired' = FALSE
  /\ working' = design /\ lowering' = Off /\ best' = NoPath(FALSE) /\ core' = NotRun
  /\ answer' = NoAnswer /\ final' = FALSE
  /\ UNCHANGED design

Next ==
  \/ Expire
  \/ RejectRequest \/ PreCoreTimeout \/ EmptyScope \/ AlreadyOptimal \/ StartCore
  \/ Plan \/ PlanFails \/ FirstPath \/ SecondPath \/ Resume \/ Skip \/ Adopt
  \/ SearchFails \/ Found \/ LegacyStage \/ LegacySkip \/ LegacyFails
  \/ Measure \/ MeasureFails
  \/ Rejected \/ Unchanged \/ OriginalKept \/ Accepted
  \/ NextCommand

Spec == Init /\ [][Next]_vars

-----------------------------------------------------------------------------
(* Properties.                                                             *)

Stages == {"request", "core", "first", "second", "resume", "adopt", "adopted",
           "measure", "judge", "done"} \cup Legacy
Statuses == {"NOT_RUN", "SUCCESS", "NO_IMPROVEMENT", "TIMEOUT", Invalid, Unsatisfied}

(* Types; the session never holds a design an edit made worse in structure *)
(* (runOptApply).                                                          *)
TypeOK ==
  /\ request \in Requests
  /\ design \in Designs /\ (request.basis = "none" => design.compliant)
  /\ pc \in Stages /\ expired \in BOOLEAN
  /\ working \in Results
  /\ lowering \in [usable : BOOLEAN, active : BOOLEAN]
  /\ best \in Paths
  /\ core \in [status : Statuses, changed : BOOLEAN]
  /\ answer \in [given : BOOLEAN, success : BOOLEAN, changed : BOOLEAN, rolledBack : BOOLEAN]
  /\ final \in BOOLEAN

(* However far the core had come when it failed, the netlist it was given  *)
(* is back as it was: the snapshot is taken before the first stage and     *)
(* restored by every failing exit (executeOptimization).                   *)
FailureRestores ==
  pc = "judge" /\ core.status \notin {"SUCCESS", "NO_IMPROVEMENT"} => working = design

(* What skips the legacy stages needs no conversion: a switch still on     *)
(* means that every circuit in the race was lowered, also the one that won *)
(* before a later path ran (executeOptimization, runStage2Path).           *)
LoweredComplies ==
  loweringApplied => best.design.compliant

(* A lowered winner that passes the checks of the command reaches the      *)
(* session, however late the deadline falls, unless the caller insists on  *)
(* an improvement, it is none, and the design complies. Of a winner found  *)
(* with the switch off in the end nothing is claimed: see                  *)
(* TimeoutMeansNoCandidate (executeOptimization, runOptApply).             *)
WinnerIsUsed ==
  pc = "done" /\ loweringApplied /\ best.design.valid /\ targetMet(best.design) =>
    /\ answer.success
    /\ \/ design = best.design
       \/ /\ request.wish.requireCostImprovement
          /\ design.compliant /\ design.cost <= best.design.cost

(* The core times out only without a compliant candidate to hand over      *)
(* (TOOLS_SPEC/OPTIMIZATION_TOOL.md:325), much less one that would pass    *)
(* every check and improve the design. False: only the switch is asked. If *)
(* no lowering is possible, or one fails before or after that candidate is *)
(* found, it is discarded without a look at its gates                      *)
(* (executeOptimization, Optimizer.cpp:618 and 635).                       *)
TimeoutMeansNoCandidate ==
  core.status = "TIMEOUT" =>
    ~(/\ best.ok /\ best.design.compliant /\ best.design.valid
      /\ targetMet(best.design) /\ costImproved(best.design))

(* A success says that the constraints hold, and leaves a design, replaced *)
(* or kept, of which it is true; unless the scope had no gates, when the   *)
(* report says so and nothing is looked at (runOptApply).                  *)
SuccessObeysConstraints ==
  answer.success /\ ~request.emptyScope => final /\ design.compliant

(* The command is the transaction it is meant to be.                       *)
Transaction == INSTANCE DesignTransaction WITH
  design <- design,
  wish   <- request.wish,
  answer <- [success |-> answer.success, changed |-> answer.changed,
             given |-> answer.given]

ImplementsTransaction == Transaction!Spec

=============================================================================
