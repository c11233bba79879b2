--------------------------- MODULE OptApply_proofs ---------------------------
(***************************************************************************)
(* For every range of costs, every tag and every kind of constraint: the   *)
(* optimisation command is a transaction, a core that fails leaves no      *)
(* trace, a lowered winner needs no conversion and is used however late it *)
(* is, and a success leaves a design within the constraints.               *)
(*                                                                         *)
(* A command answers at once, fails in the core, searches, or passes       *)
(* judgement on what was found. There is one lemma per way.                *)
(***************************************************************************)
EXTENDS OptApply, TLAPS

-----------------------------------------------------------------------------
(* The inductive invariant.                                                *)

Usable == {"SUCCESS", "NO_IMPROVEMENT"}

(* What is known by the stage a command has reached: nothing was found     *)
(* before the search, nothing returned before the end of the core, nothing *)
(* answered before the end of the command; and only circuits that were not *)
(* lowered are in the legacy stages.                                       *)
Control ==
  /\ pc = "done" <=> answer.given
  /\ pc # "done" => answer = NoAnswer
  /\ pc \notin {"judge", "done"} => core = NotRun
  /\ pc \in {"request", "core"} => best = NoPath(FALSE)
  /\ pc \in Legacy => ~loweringApplied

(* A result to be judged was measured, and the core says truly whether it  *)
(* differs from the design.                                                *)
Judged ==
  pc = "judge" /\ core.status \in Usable =>
    /\ working.cost # Unmeasurable
    /\ core.changed <=> working # design

(* A lowered winner takes the place of the copy, no stage touches it there *)
(* and no exit is taken: it is what will be judged.                        *)
Handed ==
  loweringApplied =>
    /\ pc \in {"adopted", "measure", "judge"} => working = best.design
    /\ pc = "judge" => core.status \in Usable

IInv ==
  /\ TypeOK /\ Control /\ Judged /\ Handed
  /\ FailureRestores /\ LoweredComplies /\ WinnerIsUsed /\ SuccessObeysConstraints

-----------------------------------------------------------------------------
(* The design is something the core could have made.                       *)
LEMMA DesignIsResult ==
  ASSUME TypeOK
  PROVE  design \in Results
BY MaxCostIsNat DEF TypeOK, Designs, Results, Compliances, Costs

LEMMA PathFacts ==
  ASSUME NEW p \in Paths
  PROVE  /\ p.ok \in BOOLEAN /\ p.lowering \in BOOLEAN
         /\ p.ok => p.design \in Results /\ p.design.cost # Unmeasurable
<1>1. CASE p \in {NoPath(on) : on \in BOOLEAN}
  <2>1. PICK on \in BOOLEAN : p = NoPath(on)
    BY <1>1
  <2> QED
    BY <2>1 DEF NoPath
<1>2. CASE p \in [ok : {TRUE}, lowering : BOOLEAN,
                   design : {d \in Results : d.cost # Unmeasurable}]
  BY <1>2
<1> QED
  BY <1>1, <1>2 DEF Paths

(* What a pass may make depends on the request alone.                      *)
LEMMA RangesStay ==
  ASSUME request' = request
  PROVE  Results' = Results /\ Paths' = Paths
<1>1. Results' = Results
  BY DEF Results, Compliances
<1> QED
  BY <1>1 DEF Paths, NoPath

LEMMA InitEstablishes == ASSUME Init PROVE IInv
<1>1. NoPath(FALSE) \in Paths
  BY DEF Paths
<1>2. TypeOK
  <2>1. design \in Results
    BY MaxCostIsNat DEF Init, Designs, Results, Compliances, Costs
  <2> QED
    BY <1>1, <2>1 DEF Init, TypeOK, Stages, Statuses, Off, NotRun, NoAnswer
<1>3. Control /\ Judged /\ Handed /\ FailureRestores
  BY DEF Init, Control, Judged, Handed, FailureRestores, Legacy, NoAnswer
<1>4. LoweredComplies /\ WinnerIsUsed /\ SuccessObeysConstraints
  BY DEF Init, LoweredComplies, WinnerIsUsed, SuccessObeysConstraints, loweringApplied,
         Off, NotRun, NoAnswer
<1> QED
  BY <1>2, <1>3, <1>4 DEF IInv

(* Time that passes changes nothing else.                                  *)
LEMMA ExpireKeeps == ASSUME IInv, Expire PROVE IInv'
<1>1. TypeOK'
  BY RangesStay DEF IInv, TypeOK, Expire, reply
<1>2. Control' /\ Judged' /\ Handed' /\ FailureRestores'
  BY DEF IInv, Expire, reply, Control, Judged, Handed, FailureRestores, loweringApplied
<1>3. LoweredComplies' /\ WinnerIsUsed' /\ SuccessObeysConstraints'
  BY DEF IInv, Expire, reply, LoweredComplies, WinnerIsUsed, SuccessObeysConstraints,
         loweringApplied
<1> QED
  BY <1>1, <1>2, <1>3 DEF IInv

-----------------------------------------------------------------------------
(* The ways a command goes on.                                             *)

(* An answer before the core.                                              *)
LEMMA EarlyAnswerKeeps ==
  ASSUME IInv, NEW success \in BOOLEAN, NEW satisfied \in BOOLEAN,
         AnswerAtOnce(success, satisfied),
         success /\ ~request.emptyScope => satisfied /\ design.compliant
  PROVE  IInv'
<1> USE DEF IInv, AnswerAtOnce, Answer
<1>1. TypeOK'
  BY RangesStay DEF TypeOK, Stages
<1>2. ~loweringApplied'
  BY DEF Control, loweringApplied, NoPath
<1>3. Control' /\ Judged' /\ Handed' /\ FailureRestores'
  BY <1>2 DEF Control, Judged, Handed, FailureRestores, Legacy
<1>4. LoweredComplies' /\ WinnerIsUsed' /\ SuccessObeysConstraints'
  BY <1>2 DEF LoweredComplies, WinnerIsUsed, SuccessObeysConstraints
<1> QED
  BY <1>1, <1>3, <1>4

(* A failing exit of the core, at whatever stage: none is taken with a     *)
(* lowered winner.                                                         *)
LEMMA FailureKeeps ==
  ASSUME IInv, pc \notin {"judge", "done"},
         NEW status \in {"TIMEOUT", Invalid, Unsatisfied}, returnFailure(status),
         ~loweringApplied
  PROVE  IInv'
<1> USE DEF IInv, returnFailure, reply
<1>1. TypeOK'
  <2>1. design \in Results
    BY DesignIsResult
  <2> QED
    BY <2>1, RangesStay DEF TypeOK, Stages, Statuses
<1>2. Control' /\ Judged' /\ Handed' /\ FailureRestores'
  BY DEF Control, Judged, Handed, FailureRestores, Legacy, Usable, Invalid, Unsatisfied,
         NoAnswer, loweringApplied
<1>3. LoweredComplies' /\ WinnerIsUsed' /\ SuccessObeysConstraints'
  BY DEF Control, NoAnswer, LoweredComplies, WinnerIsUsed, SuccessObeysConstraints,
         loweringApplied
<1> QED
  BY <1>1, <1>2, <1>3

(* A path: the switch only goes off, and what comes back lowered complies. *)
LEMMA PathKeeps ==
  ASSUME IInv, pc \in {"first", "second", "resume"}, pc' \in {"second", "resume", "adopt"},
         NEW p \in Paths, runStage2Path(p), Winner(p),
         UNCHANGED <<design, request, expired, working, core, reply>>
  PROVE  IInv'
<1> USE DEF IInv, reply
<1>1. best' \in Paths /\ lowering' \in [usable : BOOLEAN, active : BOOLEAN]
  <2>1. best' \in Paths
    BY DEF TypeOK, Winner
  <2>2. p.lowering \in BOOLEAN
    BY PathFacts
  <2> QED
    BY <2>1, <2>2 DEF TypeOK, runStage2Path
<1>2. TypeOK'
  BY <1>1, RangesStay DEF TypeOK, Stages
<1>3. Control' /\ Judged' /\ Handed' /\ FailureRestores'
  BY DEF Control, Judged, Handed, FailureRestores, Legacy
<1>4. LoweredComplies'
  <2>1. lowering'.active = p.lowering
    BY DEF TypeOK, runStage2Path
  <2>2. p.lowering => lowering.active
    BY DEF runStage2Path
  <2>3. CASE best' = p
    BY <2>1, <2>3 DEF runStage2Path, LoweredComplies, loweringApplied
  <2>4. CASE best' = best
    BY <2>1, <2>2, <2>4 DEF LoweredComplies, loweringApplied
  <2> QED
    BY <2>3, <2>4 DEF Winner
<1>5. WinnerIsUsed' /\ SuccessObeysConstraints'
  BY DEF Control, WinnerIsUsed, SuccessObeysConstraints, NoAnswer
<1> QED
  BY <1>2, <1>3, <1>4, <1>5

(* A step inside the core that leaves the race as it was.                  *)
LEMMA CoreStepKeeps ==
  ASSUME IInv, pc \notin {"judge", "done"}, pc' \in Stages \ {"request", "core", "done"},
         pc' \in Legacy => ~loweringApplied,
         loweringApplied /\ pc' \in {"adopted", "measure", "judge"} => working' = best.design,
         working' \in Results, core' \in [status : Statuses, changed : BOOLEAN],
         pc' # "judge" => core' = core,
         pc' = "judge" => /\ core'.status \in Usable
                          /\ working'.cost # Unmeasurable
                          /\ core'.changed <=> working' # design,
         UNCHANGED <<design, request, expired, lowering, best, reply>>
  PROVE  IInv'
<1> USE DEF IInv, reply
<1>1. TypeOK'
  BY RangesStay DEF TypeOK
<1>2. Control' /\ Judged' /\ Handed' /\ FailureRestores'
  BY DEF Control, Judged, Handed, FailureRestores, Legacy, Usable, loweringApplied
<1>3. LoweredComplies' /\ WinnerIsUsed' /\ SuccessObeysConstraints'
  BY DEF Control, NoAnswer, LoweredComplies, WinnerIsUsed, SuccessObeysConstraints,
         loweringApplied
<1> QED
  BY <1>1, <1>2, <1>3

(* A judgement: the design is kept or replaced by the copy, a success      *)
(* leaves a design within the constraints, and a lowered winner is used.   *)
LEMMA VerdictKeeps ==
  ASSUME IInv, pc = "judge",
         NEW success \in BOOLEAN, NEW changed \in BOOLEAN, NEW rolledBack \in BOOLEAN,
         NEW satisfied \in BOOLEAN, Answer(success, changed, rolledBack, satisfied),
         design' \in Designs, request.basis = "none" => design'.compliant,
         success => satisfied /\ design'.compliant, WinnerIsUsed',
         UNCHANGED <<request, expired, working, lowering, best, core>>
  PROVE  IInv'
<1> USE DEF IInv, Answer
<1>1. TypeOK'
  BY RangesStay DEF TypeOK, Stages
<1>2. Control' /\ Judged' /\ Handed' /\ FailureRestores'
  BY DEF Control, Judged, Handed, FailureRestores, Legacy
<1>3. LoweredComplies' /\ SuccessObeysConstraints'
  BY DEF LoweredComplies, SuccessObeysConstraints, loweringApplied
<1> QED
  BY <1>1, <1>2, <1>3

(* A lowered winner of sound structure that meets the target passes the    *)
(* checks of the command.                                                  *)
LEMMA LoweredIsAcceptable ==
  ASSUME IInv, pc = "judge",
         loweringApplied, best.design.valid, targetMet(best.design)
  PROVE  Acceptable
BY DEF IInv, Handed, Usable, LoweredComplies, Acceptable

(* The next command starts from nothing but the design.                    *)
LEMMA NextCommandKeeps == ASSUME IInv, NextCommand PROVE IInv'
<1>1. PICK w \in Wishes : request' = [request EXCEPT !.wish = w]
  BY DEF NextCommand
<1>2. request' \in Requests /\ request'.basis = request.basis
  BY <1>1 DEF IInv, TypeOK, Requests
<1>3. TypeOK'
  <2>1. design \in Results
    BY DesignIsResult DEF IInv
  <2>2. Results' = Results
    BY <1>2 DEF Results, Compliances
  <2> QED
    BY <1>2, <2>1, <2>2 DEF IInv, TypeOK, NextCommand, Stages, Statuses, Paths, NoPath, Off,
       NotRun, NoAnswer
<1>4. Control' /\ Judged' /\ Handed' /\ FailureRestores'
  BY DEF NextCommand, Control, Judged, Handed, FailureRestores, Legacy, NoAnswer
<1>5. LoweredComplies' /\ WinnerIsUsed' /\ SuccessObeysConstraints'
  BY DEF NextCommand, LoweredComplies, WinnerIsUsed, SuccessObeysConstraints, loweringApplied,
     Off, NotRun, NoAnswer
<1> QED
  BY <1>3, <1>4, <1>5 DEF IInv

-----------------------------------------------------------------------------
(* Every step.                                                             *)

LEMMA StepKeeps == ASSUME IInv, [Next]_vars PROVE IInv'
<1> USE DEF IInv
<1>1. CASE Expire
  BY <1>1, ExpireKeeps
<1>2. CASE RejectRequest
  BY <1>2, EarlyAnswerKeeps DEF RejectRequest
<1>3. CASE PreCoreTimeout
  <2>1. design.compliant \in BOOLEAN
    BY DEF TypeOK, Designs
  <2> QED
    BY <1>3, <2>1, EarlyAnswerKeeps DEF PreCoreTimeout
<1>4. CASE EmptyScope
  <2>1. targetMet(design) \in BOOLEAN
    BY DEF targetMet
  <2> QED
    BY <1>4, <2>1, EarlyAnswerKeeps DEF EmptyScope
<1>5. CASE AlreadyOptimal
  <2>1. targetMet(design) \in BOOLEAN
    BY DEF targetMet
  <2> QED
    BY <1>5, <2>1, EarlyAnswerKeeps DEF AlreadyOptimal
<1>6. CASE StartCore
  <2>1. TypeOK'
    BY <1>6, DesignIsResult, RangesStay DEF StartCore, TypeOK, Stages, reply
  <2>2. Control' /\ Judged' /\ Handed' /\ FailureRestores'
    BY <1>6 DEF StartCore, Control, Judged, Handed, FailureRestores, Legacy, reply
  <2>3. LoweredComplies' /\ WinnerIsUsed' /\ SuccessObeysConstraints'
    BY <1>6 DEF StartCore, LoweredComplies, WinnerIsUsed, SuccessObeysConstraints,
       loweringApplied, reply
  <2> QED
    BY <2>1, <2>2, <2>3
<1>7. CASE Plan
  <2>1. TypeOK'
    <3>1. lowering' \in [usable : BOOLEAN, active : BOOLEAN]
      BY <1>7 DEF Plan
    <3> QED
      BY <1>7, <3>1, RangesStay DEF Plan, TypeOK, Stages, reply
  <2>2. Control' /\ Judged' /\ Handed' /\ FailureRestores'
    BY <1>7 DEF Plan, Control, Judged, Handed, FailureRestores, Legacy, reply
  <2>3. ~best.ok
    BY <1>7 DEF Plan, Control, NoPath
  <2>4. LoweredComplies' /\ WinnerIsUsed' /\ SuccessObeysConstraints'
    BY <1>7, <2>3 DEF Plan, LoweredComplies, WinnerIsUsed, SuccessObeysConstraints,
       loweringApplied, reply
  <2> QED
    BY <2>1, <2>2, <2>4
<1>8. CASE PlanFails
  <2>1. ~loweringApplied /\ pc \notin {"judge", "done"}
    BY <1>8 DEF PlanFails, Control, NoPath, loweringApplied
  <2> QED
    BY <1>8, <2>1, FailureKeeps DEF PlanFails, returnTimeout
<1>9. CASE FirstPath
  BY <1>9, PathKeeps DEF FirstPath
<1>10. CASE SecondPath
  BY <1>10, PathKeeps DEF SecondPath
<1>11. CASE Resume
  BY <1>11, PathKeeps DEF Resume
<1>12. CASE Skip
  BY <1>12, CoreStepKeeps DEF Skip, TypeOK, Stages, Legacy, reply
<1>13. CASE Adopt
  <2>1. working' \in Results
    <3>1. CASE best.ok
      <4>1. best.design \in Results
        BY <3>1, PathFacts DEF TypeOK
      <4> QED
        BY <1>13, <3>1, <4>1 DEF Adopt
    <3>2. CASE ~best.ok
      BY <1>13, <3>2 DEF Adopt
    <3> QED
      BY <3>1, <3>2
  <2>2. loweringApplied => working' = best.design
    BY <1>13 DEF Adopt, loweringApplied
  <2> QED
    BY <1>13, <2>1, <2>2, CoreStepKeeps DEF Adopt, TypeOK, Stages, Legacy, reply
<1>14. CASE SearchFails
  BY <1>14, FailureKeeps DEF SearchFails, returnTimeout, OutOfTime
<1>15. CASE Found
  BY <1>15, CoreStepKeeps DEF Found, Handed, TypeOK, Stages, Legacy, reply
<1>16. CASE LegacyStage
  <2>1. pc' \in Legacy \cup {"measure"} /\ ~loweringApplied
    BY <1>16 DEF LegacyStage, Control, Legacy, After
  <2>2. core' \in [status : Statuses, changed : BOOLEAN]
    BY <1>16 DEF LegacyStage, TypeOK
  <2> QED
    BY <1>16, <2>1, <2>2, CoreStepKeeps DEF LegacyStage, Stages, Legacy
<1>17. CASE LegacySkip
  <2>1. pc \in Legacy
    BY <1>17 DEF LegacySkip, Legacy
  <2>2. pc' \in Legacy \cup {"measure"} /\ ~loweringApplied
    BY <1>17, <2>1 DEF LegacySkip, Control, Legacy, After
  <2>3. working' \in Results /\ core' \in [status : Statuses, changed : BOOLEAN]
    BY <1>17 DEF LegacySkip, TypeOK
  <2> QED
    BY <1>17, <2>1, <2>2, <2>3, CoreStepKeeps DEF LegacySkip, Stages, Legacy
<1>18. CASE LegacyFails
  <2>1. ~loweringApplied /\ pc \notin {"judge", "done"}
    BY <1>18 DEF LegacyFails, Control, Legacy
  <2> QED
    BY <1>18, <2>1, FailureKeeps DEF LegacyFails, returnTimeout
<1>19. CASE Measure
  <2>1. /\ core' \in [status : Statuses, changed : BOOLEAN]
        /\ core'.status \in Usable
        /\ core'.changed <=> working # design
    BY <1>19 DEF Measure, Statuses, Usable
  <2>2. /\ pc = "measure" /\ pc' = "judge"
        /\ working' = working /\ working \in Results /\ working.cost # Unmeasurable
        /\ loweringApplied => working' = best.design
        /\ UNCHANGED <<design, request, expired, lowering, best, reply>>
    BY <1>19 DEF Measure, Handed, TypeOK
  <2>3. pc' \in Stages \ {"request", "core", "done"} /\ pc' \notin Legacy
    BY <2>2 DEF Stages, Legacy
  <2> QED
    BY <2>1, <2>2, <2>3, CoreStepKeeps
<1>20. CASE MeasureFails
  <2>1. ~loweringApplied
    BY <1>20, PathFacts DEF MeasureFails, Handed, TypeOK, loweringApplied
  <2> QED
    BY <1>20, <2>1, FailureKeeps DEF MeasureFails
<1>21. CASE Rejected
  <2>1. working.compliant \in BOOLEAN /\ core.changed \in BOOLEAN
    BY DEF TypeOK, Results, Compliances
  <2>2. ~(loweringApplied /\ best.design.valid /\ targetMet(best.design))
    BY <1>21, LoweredIsAcceptable DEF Rejected
  <2>3. WinnerIsUsed'
    BY <1>21, <2>2 DEF Rejected, WinnerIsUsed, loweringApplied, targetMet
  <2> QED
    BY <1>21, <2>1, <2>3, VerdictKeeps DEF Rejected, TypeOK
<1>22. CASE Unchanged
  <2>1. working = design /\ working.compliant
    BY <1>22 DEF Unchanged, Acceptable, Judged, Usable
  <2>2. WinnerIsUsed'
    BY <1>22, <2>1 DEF Unchanged, Answer, Handed, WinnerIsUsed, loweringApplied
  <2> QED
    BY <1>22, <2>1, <2>2, VerdictKeeps DEF Unchanged, TypeOK, Designs
<1>23. CASE OriginalKept
  <2>1. working.compliant \in BOOLEAN /\ core.changed \in BOOLEAN /\ working.compliant
    BY <1>23 DEF OriginalKept, Acceptable, TypeOK, Results, Compliances
  <2>2. working.cost \in Int /\ design.cost \in Int
    BY MaxCostIsNat DEF TypeOK, Results, Designs, Costs, Unmeasurable
  <2>3. request.wish.requireCostImprovement /\ design.compliant /\ design.cost <= working.cost
    BY <1>23, <2>2 DEF OriginalKept, NotWorthIt, costImproved
  <2>4. WinnerIsUsed'
    BY <1>23, <2>3 DEF OriginalKept, Answer, Handed, WinnerIsUsed, loweringApplied
  <2> QED
    BY <1>23, <2>1, <2>3, <2>4, VerdictKeeps DEF OriginalKept, TypeOK
<1>24. CASE Accepted
  <2>1. working \in Designs /\ working.compliant
    BY <1>24 DEF Accepted, Acceptable, Judged, Usable, TypeOK, Designs, Results, Compliances
  <2>2. working.compliant \in BOOLEAN /\ core.changed \in BOOLEAN
    BY DEF TypeOK, Results, Compliances
  <2>3. WinnerIsUsed'
    BY <1>24 DEF Accepted, Answer, Handed, WinnerIsUsed, loweringApplied
  <2> QED
    BY <1>24, <2>1, <2>2, <2>3, VerdictKeeps DEF Accepted
<1>25. CASE NextCommand
  BY <1>25, NextCommandKeeps
<1>26. CASE UNCHANGED vars
  <2>1. TypeOK'
    BY <1>26, RangesStay DEF vars, reply, TypeOK
  <2>2. Control' /\ Judged' /\ Handed' /\ FailureRestores'
    BY <1>26 DEF vars, reply, Control, Judged, Handed, FailureRestores, loweringApplied
  <2>3. LoweredComplies' /\ WinnerIsUsed' /\ SuccessObeysConstraints'
    BY <1>26 DEF vars, reply, LoweredComplies, WinnerIsUsed, SuccessObeysConstraints,
       loweringApplied, targetMet
  <2> QED
    BY <2>1, <2>2, <2>3
<1> QED
  BY <1>1, <1>2, <1>3, <1>4, <1>5, <1>6, <1>7, <1>8, <1>9, <1>10, <1>11, <1>12, <1>13,
     <1>14, <1>15, <1>16, <1>17, <1>18, <1>19, <1>20, <1>21, <1>22, <1>23, <1>24, <1>25,
     <1>26
  DEF Next

LEMMA Invariance == Spec => []IInv
<1>1. Init => IInv
  BY InitEstablishes
<1>2. IInv /\ [Next]_vars => IInv'
  BY StepKeeps
<1> QED
  BY <1>1, <1>2, PTL DEF Spec

-----------------------------------------------------------------------------
(* The theorems.                                                           *)

(* TypeOK: in particular the session never holds a design whose structure  *)
(* an optimisation made worse (runOptApply).                               *)
THEOREM DesignStaysSound == Spec => []TypeOK
BY Invariance, PTL DEF IInv

(* FailureRestores: the snapshot comes back from every failing exit of     *)
(* executeOptimization.                                                    *)
THEOREM FailureLeavesNoTrace == Spec => []FailureRestores
BY Invariance, PTL DEF IInv

(* LoweredComplies: the switch two or three paths share is evidence for    *)
(* the winner, whichever of them it came from (executeOptimization).       *)
THEOREM LoweredNeedsNoConversion == Spec => []LoweredComplies
BY Invariance, PTL DEF IInv

(* WinnerIsUsed: a lowered winner that passes the checks of the command    *)
(* reaches the session, or is turned down for want of improvement; the     *)
(* deadline cannot come between. With the switch off a winner may be lost  *)
(* (executeOptimization, runOptApply).                                     *)
THEOREM LateWinnerIsUsed == Spec => []WinnerIsUsed
BY Invariance, PTL DEF IInv

(* SuccessObeysConstraints: a success says that the gate constraints hold, *)
(* and they do for the design it leaves, unless the scope is empty         *)
(* (runOptApply).                                                          *)
THEOREM SuccessIsWithinConstraints == Spec => []SuccessObeysConstraints
BY Invariance, PTL DEF IInv

-----------------------------------------------------------------------------
(* The command as a transaction.                                           *)

(* Steps before the answer are no steps of the transaction.                *)
LEMMA WorkIsInvisible ==
  ASSUME UNCHANGED <<design, request, answer>>
  PROVE  [Transaction!Next]_(Transaction!vars)
BY DEF Transaction!vars

LEMMA EarlyAnswerIsKept ==
  ASSUME IInv, NEW success \in BOOLEAN, NEW satisfied \in BOOLEAN,
         AnswerAtOnce(success, satisfied), success => targetMet(design)
  PROVE  Transaction!Keep
BY DEF AnswerAtOnce, Answer, IInv, Control, Transaction!Keep, Transaction!Kept,
   Transaction!Reaches, targetMet

LEMMA KeptIsKept ==
  ASSUME IInv, pc = "judge", NEW success \in BOOLEAN, NEW rolledBack, NEW satisfied,
         Answer(success, FALSE, rolledBack, satisfied),
         success => targetMet(design), UNCHANGED <<design, request>>
  PROVE  Transaction!Keep
BY DEF Answer, IInv, Control, Transaction!Keep, Transaction!Kept, Transaction!Reaches,
   targetMet

LEMMA StepImplements ==
  ASSUME IInv, [Next]_vars
  PROVE  [Transaction!Next]_(Transaction!vars)
<1> USE DEF Transaction!Next
<1>1. CASE \/ Expire \/ StartCore \/ Plan \/ FirstPath \/ SecondPath \/ Resume \/ Skip
           \/ Adopt \/ Found \/ LegacyStage \/ LegacySkip \/ Measure
  BY <1>1, WorkIsInvisible
  DEF Expire, StartCore, Plan, FirstPath, SecondPath, Resume, Skip, Adopt, Found,
      LegacyStage, LegacySkip, Measure, reply
<1>2. CASE PlanFails \/ SearchFails \/ LegacyFails \/ MeasureFails
  BY <1>2, WorkIsInvisible
  DEF PlanFails, SearchFails, LegacyFails, MeasureFails, returnTimeout, returnFailure, reply
<1>3. targetMet(design) \in BOOLEAN /\ design.compliant \in BOOLEAN
  BY DEF IInv, TypeOK, Designs, targetMet
<1>4. CASE RejectRequest \/ PreCoreTimeout \/ EmptyScope \/ AlreadyOptimal
  BY <1>3, <1>4, EarlyAnswerIsKept
  DEF RejectRequest, PreCoreTimeout, EmptyScope, AlreadyOptimal
<1>5. CASE Rejected
  BY <1>5, KeptIsKept DEF Rejected
<1>6. CASE Unchanged
  <2>1. working = design
    BY <1>6 DEF Unchanged, Acceptable, IInv, Judged, Usable
  <2> QED
    BY <1>6, <2>1, KeptIsKept DEF Unchanged, Acceptable
<1>7. CASE OriginalKept
  <2>1. /\ working.cost \in Int /\ design.cost \in Int
        /\ request.wish.target \in Int
    BY MaxCostIsNat
    DEF IInv, TypeOK, Results, Designs, Costs, Unmeasurable, Requests, Wishes, Targets
  <2>2. targetMet(design)
    BY <1>7, <2>1 DEF OriginalKept, Acceptable, NotWorthIt, targetMet, costImproved
  <2> QED
    BY <1>7, <2>2, KeptIsKept DEF OriginalKept
<1>8. CASE Accepted
  <2>1. working \in Transaction!Designs /\ working # design /\ core.changed
    BY <1>8
    DEF Accepted, Acceptable, IInv, Judged, Usable, TypeOK, Results, Compliances, Costs,
        Transaction!Designs, Transaction!Costs
  <2>2. Transaction!MayReplace(design, working, request.wish)
    BY <1>8
    DEF Accepted, Acceptable, NotWorthIt, targetMet, costImproved, Transaction!MayReplace,
        Transaction!Reaches
  <2>3. Transaction!Commit
    BY <1>8, <2>1, <2>2
    DEF Accepted, Answer, IInv, Control, Transaction!Commit, Transaction!Replaced
  <2> QED
    BY <2>3
<1>9. CASE NextCommand
  <2>1. PICK w \in Wishes : request' = [request EXCEPT !.wish = w]
    BY <1>9 DEF NextCommand
  <2>2. request'.wish = w
    BY <2>1 DEF IInv, TypeOK, Requests
  <2>3. Transaction!Submit
    BY <1>9, <2>2
    DEF NextCommand, IInv, Control, Transaction!Submit, Transaction!Wishes,
        Transaction!Targets, Wishes, Targets, NoAnswer, Transaction!NoAnswer
  <2> QED
    BY <2>3
<1>10. CASE UNCHANGED vars
  BY <1>10, WorkIsInvisible DEF vars, reply
<1> QED
  BY <1>1, <1>2, <1>4, <1>5, <1>6, <1>7, <1>8, <1>9, <1>10 DEF Next

(* The optimisation command implements DesignTransaction: whatever the     *)
(* stages do, the design is replaced by one that satisfies the request and *)
(* the caller is told, or kept and the caller is told that (runOptApply).  *)
THEOREM CommandIsTransaction == Spec => ImplementsTransaction
<1>1. Init => Transaction!Init
  <2> SUFFICES ASSUME Init PROVE Transaction!Init
    OBVIOUS
  <2>1. design \in Transaction!Designs
    BY DEF Init, Designs, Costs, Transaction!Designs, Transaction!Costs
  <2>2. request.wish \in Transaction!Wishes
    BY DEF Init, Requests, Wishes, Targets, Transaction!Wishes, Transaction!Targets
  <2> QED
    BY <2>1, <2>2 DEF Init, NoAnswer, Transaction!Init, Transaction!NoAnswer
<1>2. IInv /\ [Next]_vars => [Transaction!Next]_(Transaction!vars)
  BY StepImplements
<1> QED
  BY <1>1, <1>2, Invariance, PTL DEF Spec, ImplementsTransaction, Transaction!Spec
=============================================================================
