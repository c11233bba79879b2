--------------------------- MODULE MCFanoutBuffers ---------------------------
(***************************************************************************)
(* FanoutBuffers on a design of two nets: net 1 is an input, net 2 is      *)
(* driven by a gate and is an output port.                                 *)
(***************************************************************************)
EXTENDS FanoutBuffers

TheInput  == {1}
ThePort   == {2}
TheDriven == {2}
OneBus    == {{1, 2}}
Clocks    == {1, 2, 3}
Resets    == {3, 4}
NoNets    == {}
AnyHome   == [Pins -> DesignNets]
Splits    == {[p \in Pins |-> IF p <= k THEN n ELSE 3 - n] : k \in 2..NPins, n \in DesignNets}
==============================================================================
