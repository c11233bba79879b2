---------------------------- MODULE MCEdaBackend ----------------------------
(***************************************************************************)
(* EdaBackend on two readable files and one that is not.                   *)
(***************************************************************************)
EXTENDS EdaBackend

CONSTANTS a, b, broken, e1, e2

AllFiles  == {a, b, broken}
GoodFiles == {a, b}
TwoEdits  == {e1, e2}
OneEdit   == {e1}
OneFile   == {a}
=============================================================================
