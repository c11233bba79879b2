------------------------------ MODULE AigService -----------------------------
(***************************************************************************)
(* What the Boolean-analysis service promises its callers, whatever it     *)
(* caches: a question put with a handle is answered about the netlist as   *)
(* it is now, and only if the handle was resolved on that same netlist;    *)
(* otherwise the question is refused (StaleSignal, Types.h). A refusal is  *)
(* always allowed; an answer about another netlist never is.               *)
(*                                                                         *)
(* A netlist is represented by the number of its version; an edit makes a  *)
(* version that never existed before, a rollback returns to an older one.  *)
(***************************************************************************)
EXTENDS Naturals

VARIABLES
  content,   \* the version of the netlist in the session
  reply      \* the reply of this step: asked about which version, answered about which

vars == <<content, reply>>

Silent == [status |-> "silent", asked |-> 0, about |-> 0]

Init == content = 0 /\ reply = Silent

(* Between two questions the netlist may become any version: an edit, a    *)
(* rollback, or nothing at all.                                            *)
Change == content' \in Nat /\ reply' = Silent

Answer ==
  /\ reply' = [status |-> "answered", asked |-> content, about |-> content]
  /\ UNCHANGED content

Refuse ==
  /\ reply' = [status |-> "refused", asked |-> 0, about |-> 0]
  /\ UNCHANGED content

Next == Change \/ Answer \/ Refuse

Spec == Init /\ [][Next]_vars

=============================================================================
