---------------------------- MODULE MCReactLoop ----------------------------
(***************************************************************************)
(* ReactLoop with an optimization and a fanout edit, and a workflow of the *)
(* two either way round (only one of which is valid).                      *)
(***************************************************************************)
EXTENDS ReactLoop

CONSTANTS a, opt, buffer

OneFile        == {a}
OptAndBuffer   == {opt, buffer}
Opts           == {opt}
Buffers        == {buffer}
EitherWorkflow == {<<opt, buffer>>, <<buffer, opt>>}
=============================================================================
