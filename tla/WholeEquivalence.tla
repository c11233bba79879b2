--------------------------- MODULE WholeEquivalence --------------------------
(***************************************************************************)
(* The equivalence query: checkWholeDesignEquivalence and                  *)
(* compareEndpointsBySat (WholeDesignEquivalence.cpp) and the reply of     *)
(* equiv_query (tools.cpp).                                                *)
(*                                                                         *)
(* One question to the solver settles all endpoints if there is no         *)
(* difference anywhere. If there is one, the endpoints are asked about one *)
(* by one, each for its share of the time that is left; the time may run   *)
(* out between any two of them, and a share before its answer.             *)
(***************************************************************************)
EXTENDS Integers, SequencesExt

CONSTANT Comparisons      \* pairs of designs, as CrossSat!Comparison gives them

(* Endpoints have different names, and only endpoints differ.              *)
ASSUME ComparisonsAssumption ==
  \A c \in Comparisons :
    /\ c.endpoints \in Seq(ToSet(c.endpoints)) /\ IsInjective(c.endpoints)
    /\ c.satisfiable \subseteq ToSet(c.endpoints)

VARIABLES
  comparison,  \* the pair being compared
  pc,
  spent,       \* the time budget is used up
  next,        \* index of the endpoint to ask about
  matched, mismatched, skipped,
  failed,      \* errors is not empty
  exceeded,    \* timeBudgetExceeded
  reply        \* of equiv_query

progress == <<next, matched, mismatched, skipped, failed, exceeded>>
vars == <<comparison, pc, spent, progress, reply>>

endpoints == comparison.endpoints
Rest      == {endpoints[i] : i \in next .. Len(endpoints)}

Statuses == {"ok", "timeout", "unsupported", "partial", "error"}
NoReply  == [given |-> FALSE, status |-> "ok", complete |-> FALSE, equivalent |-> FALSE]
Reply(status, equivalent) ==
  [given |-> TRUE, status |-> status, complete |-> status = "ok", equivalent |-> equivalent]

Nothing == [sameInterface |-> FALSE, endpoints |-> <<>>, encodable |-> FALSE,
            satisfiable |-> {}, unequal |-> {}]

Init ==
  /\ comparison = Nothing
  /\ pc = "idle" /\ spent = FALSE /\ reply = NoReply
  /\ next = 1 /\ matched = {} /\ mismatched = {} /\ skipped = {}
  /\ failed = FALSE /\ exceeded = FALSE

(* The budget starts with the query.                                       *)
Ask ==
  /\ pc = "idle"
  /\ comparison' \in Comparisons
  /\ pc' = "interface"
  /\ UNCHANGED <<spent, progress, reply>>

Expire ==
  /\ pc \notin {"idle", "done"} /\ ~spent
  /\ spent' = TRUE
  /\ UNCHANGED <<comparison, pc, progress, reply>>

-----------------------------------------------------------------------------
(* checkWholeDesignEquivalence up to the solver.                           *)

InterfaceDiffers ==
  /\ pc = "interface" /\ ~comparison.sameInterface
  /\ reply' = Reply("ok", FALSE)
  /\ pc' = "done"
  /\ UNCHANGED <<comparison, spent, progress>>

NothingToCompare ==
  /\ pc = "interface" /\ comparison.sameInterface /\ endpoints = <<>>
  /\ reply' = Reply("error", FALSE)
  /\ pc' = "done"
  /\ UNCHANGED <<comparison, spent, progress>>

CannotEncode ==
  /\ pc = "interface" /\ comparison.sameInterface /\ endpoints # <<>>
  /\ ~comparison.encodable
  /\ skipped' = ToSet(endpoints) /\ failed' = TRUE
  /\ pc' = "report"
  /\ UNCHANGED <<comparison, spent, next, matched, mismatched, exceeded, reply>>

Encode ==
  /\ pc = "interface" /\ comparison.sameInterface /\ endpoints # <<>>
  /\ comparison.encodable
  /\ pc' = "global"
  /\ UNCHANGED <<comparison, spent, progress, reply>>

-----------------------------------------------------------------------------
(* compareEndpointsBySat. The solver is right when it answers.             *)

(* No endpoint can differ.                                                 *)
GlobalUnsat ==
  /\ pc = "global" /\ comparison.satisfiable = {}
  /\ matched' = ToSet(endpoints)
  /\ pc' = "report"
  /\ UNCHANGED <<comparison, spent, next, mismatched, skipped, failed, exceeded, reply>>

(* Nothing but the time stops the solver here, and that is all the time.   *)
GlobalUnknown ==
  /\ pc = "global" /\ spent
  /\ skipped' = ToSet(endpoints) /\ failed' = TRUE /\ exceeded' = TRUE
  /\ pc' = "report"
  /\ UNCHANGED <<comparison, spent, next, matched, mismatched, reply>>

GlobalSat ==
  /\ pc = "global" /\ comparison.satisfiable # {}
  /\ pc' = "endpoints"
  /\ UNCHANGED <<comparison, spent, progress, reply>>

(* The head of the loop: the rest is skipped when the time is up.          *)
OutOfTime ==
  /\ pc = "endpoints" /\ next <= Len(endpoints) /\ spent
  /\ exceeded' = TRUE /\ skipped' = skipped \cup Rest
  /\ pc' = "report"
  /\ UNCHANGED <<comparison, spent, next, matched, mismatched, failed, reply>>

Solve ==
  /\ pc = "endpoints" /\ next <= Len(endpoints) /\ ~spent
  /\ LET e == endpoints[next]
     IN IF e \in comparison.satisfiable
        THEN mismatched' = mismatched \cup {e} /\ UNCHANGED matched
        ELSE matched' = matched \cup {e} /\ UNCHANGED mismatched
  /\ next' = next + 1
  /\ UNCHANGED <<comparison, pc, spent, skipped, failed, exceeded, reply>>

(* Mutant: no reason is given for a skipped endpoint.                      *)
GiveUp_Unexplained ==
  /\ pc = "endpoints" /\ next <= Len(endpoints) /\ ~spent
  /\ skipped' = skipped \cup {endpoints[next]}
  /\ next' = next + 1
  /\ spent' = (next = Len(endpoints))
  /\ UNCHANGED <<comparison, pc, matched, mismatched, failed, exceeded, reply>>

(* Mutant: an endpoint without an answer is passed over.                   *)
GiveUp_Silently ==
  /\ pc = "endpoints" /\ next <= Len(endpoints) /\ ~spent
  /\ next' = next + 1
  /\ spent' = (next = Len(endpoints))
  /\ UNCHANGED <<comparison, pc, matched, mismatched, skipped, failed, exceeded, reply>>

(* An endpoint whose share of the time is over. The last one's share is    *)
(* all that was left.                                                      *)
GiveUp ==
  /\ pc = "endpoints" /\ next <= Len(endpoints) /\ ~spent
  /\ skipped' = skipped \cup {endpoints[next]} /\ failed' = TRUE
  /\ next' = next + 1
  /\ spent' = (next = Len(endpoints))
  /\ UNCHANGED <<comparison, pc, matched, mismatched, exceeded, reply>>

AllAsked ==
  /\ pc = "endpoints" /\ next > Len(endpoints)
  /\ pc' = "report"
  /\ UNCHANGED <<comparison, spent, progress, reply>>

-----------------------------------------------------------------------------
(* The reply.                                                              *)

ok         == ~failed /\ skipped = {}
equivalent == ok /\ mismatched = {}

(* "partial" is for skipped outputs without a reason: there are none.      *)
ReportStatus ==
  CASE exceeded -> "timeout"
    [] ~exceeded /\ failed -> "unsupported"
    [] ~exceeded /\ ~failed /\ \E e \in skipped : e[1] = "PO" -> "partial"
    [] OTHER -> IF ok THEN "ok" ELSE "error"

Report ==
  /\ pc = "report"
  /\ reply' = Reply(ReportStatus, equivalent)
  /\ pc' = "done"
  /\ UNCHANGED <<comparison, spent, progress>>

(* The session is ready for another query.                                 *)
Return ==
  /\ pc = "done"
  /\ comparison' = Nothing
  /\ pc' = "idle" /\ spent' = FALSE /\ reply' = NoReply
  /\ next' = 1 /\ matched' = {} /\ mismatched' = {} /\ skipped' = {}
  /\ failed' = FALSE /\ exceeded' = FALSE

Next ==
  \/ Ask \/ Expire
  \/ InterfaceDiffers \/ NothingToCompare \/ CannotEncode \/ Encode
  \/ GlobalUnsat \/ GlobalUnknown \/ GlobalSat
  \/ OutOfTime \/ Solve \/ GiveUp \/ AllAsked
  \/ Report \/ Return

Spec == Init /\ [][Next]_vars

-----------------------------------------------------------------------------
(* Properties.                                                             *)

TypeOK ==
  /\ pc \in {"idle", "interface", "global", "endpoints", "report", "done"}
  /\ spent \in BOOLEAN
  /\ next \in 1 .. Len(endpoints) + 1
  /\ {matched, mismatched, skipped} \subseteq SUBSET ToSet(endpoints)
  /\ failed \in BOOLEAN /\ exceeded \in BOOLEAN
  /\ reply.given \in BOOLEAN /\ reply.status \in Statuses \ {"partial"}

(* Wherever the time runs out, each endpoint is in exactly one list of the *)
(* report (compareEndpointsBySat).                                         *)
EveryEndpointOnce ==
  pc = "report" =>
    /\ matched \cup mismatched \cup skipped = ToSet(endpoints)
    /\ matched \cap mismatched = {}
    /\ skipped \cap (matched \cup mismatched) = {}

(* Also a report that was cut short lists no endpoint wrongly: what it     *)
(* says is matched is equal under every assignment of inputs and states,   *)
(* what it says is mismatched is not (netVar, addGateClauses).             *)
EndpointsRight ==
  /\ matched \cap comparison.unequal = {}
  /\ mismatched \subseteq comparison.unequal

(* A complete reply is right, either way; an incomplete one claims nothing *)
(* (equiv_query).                                                          *)
VerdictRight ==
  reply.given =>
    /\ reply.complete =>
         (reply.equivalent <=> comparison.sameInterface /\ comparison.unequal = {})
    /\ reply.equivalent => reply.complete

=============================================================================
