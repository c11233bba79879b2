-------------------------- MODULE DesignTransaction --------------------------
(***************************************************************************)
(* What an optimisation command promises its caller, however it searches:  *)
(* the design is replaced in one step by a candidate that satisfies the    *)
(* request, and the caller is told so; or it is kept, and the caller is    *)
(* told that. Between a request and its answer the design does not move.   *)
(*                                                                         *)
(* A design is what the request can tell apart: its cost, whether its      *)
(* gates obey the gate-type constraints (compliant), whether an edit left  *)
(* its structure as sound as before (valid, and so it must be to stand in  *)
(* the session), and a tag for designs that agree in all three.            *)
(***************************************************************************)
EXTENDS Integers

CONSTANTS
  Tags,      \* tells apart designs with the same measures
  MaxCost    \* bound on costs (depth or number of gates)

Costs   == 0 .. MaxCost
Targets == -1 .. MaxCost                  \* -1: no target
Designs == [tag : Tags, cost : Costs, compliant : BOOLEAN, valid : {TRUE}]

Wishes   == [target : Targets, requireCostImprovement : BOOLEAN]
NoAnswer == [success |-> FALSE, changed |-> FALSE, given |-> FALSE]
Kept(ok) == [success |-> ok, changed |-> FALSE, given |-> TRUE]
Replaced == [success |-> TRUE, changed |-> TRUE, given |-> TRUE]

VARIABLES
  design,    \* the session's design
  wish,      \* what the command being worked on asks for
  answer     \* what it was answered

vars == <<design, wish, answer>>

(* No target, or a cost that reaches it.                                   *)
Reaches(d, w) == w.target >= 0 => d.cost <= w.target

(* A candidate worth the place of the design: within the gate constraints  *)
(* and the target; and cheaper, if that was asked for and the design       *)
(* itself already obeys the constraints.                                   *)
MayReplace(old, new, w) ==
  /\ new.compliant
  /\ Reaches(new, w)
  /\ w.requireCostImprovement /\ old.compliant => new.cost < old.cost

Init == design \in Designs /\ wish \in Wishes /\ answer = NoAnswer

Commit ==
  /\ ~answer.given
  /\ \E new \in Designs :
       /\ new # design /\ MayReplace(design, new, wish)
       /\ design' = new
  /\ answer' = Replaced
  /\ UNCHANGED wish

(* A design kept with success reaches the target, like a new one.          *)
Keep ==
  /\ ~answer.given
  /\ \E ok \in BOOLEAN :
       /\ ok => Reaches(design, wish)
       /\ answer' = Kept(ok)
  /\ UNCHANGED <<design, wish>>

(* The next command on the same objective.                                 *)
Submit ==
  /\ answer.given
  /\ wish' \in Wishes
  /\ answer' = NoAnswer
  /\ UNCHANGED design

Next == Commit \/ Keep \/ Submit

Spec == Init /\ [][Next]_vars

=============================================================================
