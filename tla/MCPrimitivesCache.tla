-------------------------- MODULE MCPrimitivesCache --------------------------
(***************************************************************************)
(* Two caches on one netlist: the netlist's own and one a caller built.    *)
(***************************************************************************)
EXTENDS PrimitivesCache

CONSTANTS own, other

TwoCaches == {own, other}

(* Bound: the two share nothing but the netlist and every property is     *)
(* about one cache at a time, so it is enough that one of them at a time   *)
(* has built a graph. The other is there to be looked at, and the netlist's *)
(* own to be destroyed by a rollback.                                      *)
OneBuilt == Cardinality({c \in Caches : cache[c].generation > 0}) <= 1
=============================================================================
