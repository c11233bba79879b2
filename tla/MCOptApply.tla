----------------------------- MODULE MCOptApply ------------------------------
(***************************************************************************)
(* OptApply with two costs, every kind of constraint, and two designs for  *)
(* each set of measures: a result can differ from the design and yet       *)
(* measure the same. The tags are interchangeable. LateCandidate looks at  *)
(* constraints in a cone only, where lowering is not to be had for a       *)
(* fanout cone, and fails for a root that is neither an output port nor a  *)
(* flip-flop's input.                                                      *)
(***************************************************************************)
EXTENDS OptApply, TLC

CONSTANTS t1, t2

TwoTags     == {t1, t2}
AllBases    == {"none", "whole", "cone", "both"}
ConeBasis   == {"cone"}
TagSymmetry == Permutations(TwoTags)
=============================================================================
