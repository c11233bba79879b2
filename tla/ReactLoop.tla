----------------------------- MODULE ReactLoop -----------------------------
(***************************************************************************)
(* handle_react (agent_final.py): one request of the user, worked off in a *)
(* bounded number of turns with a language model.                          *)
(*                                                                         *)
(* In each turn the model either proposes a command or proposes an answer. *)
(* The loop does not trust it: a command must fit the contract and the     *)
(* workflow frozen by the first command, and must not have failed or timed *)
(* out before; an answer must be supported by the ledger of results. What  *)
(* it turns down costs a turn. The last turn must answer.                  *)
(*                                                                         *)
(* The model is free to say anything. A command that is run acts on the    *)
(* tool's session (ToolSession); if the tool dies of it, nothing is read   *)
(* back, and the next command finds the file loaded anew (EdaBackend).     *)
(***************************************************************************)
EXTENDS ToolSession

CONSTANTS
  File,             \* the design the session was loaded with (for several: EdaBackend)
  Optimizations,    \* the edits that are opt_apply commands
  FanoutEdits,      \* those of _FINAL_FANOUT_EDIT_MODES
  Workflows,        \* the ordered workflows a request or a model may state
  None,
  MaxSteps          \* MAX_REACT_STEPS

ASSUME LoopAssumption ==
  /\ Files = {File} /\ Readable = Files
  /\ Optimizations \subseteq Edits /\ FanoutEdits \subseteq Edits
  /\ Workflows \subseteq Seq(Edits)
  /\ MaxSteps \in Nat \ {0}
  /\ None \notin {"model", "fallback", "unproved"}

VARIABLES
  step,
  contract,       \* frozen_deliverables
  workflow,       \* frozen_workflow, its stages
  completed,      \* completed_workflow_stages
  timed_out,      \* timed_out_commands
  failed,         \* failed_commands
  usable,         \* usable_backend_evidence
  ledger,         \* evidence_ledger
  comparing,      \* is equiv_query among the families
  session,        \* the tool's
  died,           \* has the tool died in this request (history)
  told,           \* what the model was told last: a result, or why it has to try again
  answer          \* what was answered, or None

frozen == <<contract, workflow>>
memory == <<completed, timed_out, failed, usable, ledger>>
vars == <<step, frozen, memory, comparing, session, died, told, answer>>

(* One deliverable is enough: a summary of what was done, or a value.      *)
Contracts == {"summary", "scalar"}

(* validate_workflow_contract: the fanout is enforced after optimizing.    *)
ValidWorkflow(w) ==
  \A i, j \in DOMAIN w : w[i] \in FanoutEdits /\ j > i => w[j] \notin Optimizations

Init ==
  /\ step = 0 /\ contract = None
  /\ workflow \in {None} \cup {w \in Workflows : ValidWorkflow(w)}
  /\ completed = 0 /\ timed_out = {} /\ failed = {} /\ usable = FALSE
  /\ ledger = <<>>
  /\ comparing \in BOOLEAN
  /\ session = Loaded(BlankSession, File)
  /\ died = FALSE /\ told = "request" /\ answer = None

-----------------------------------------------------------------------------
Stage(e) == [verb |-> "edit", arg |-> e]

StagesLeft(w) == w # None /\ completed < Len(w)

(* Mutant: any stage of the workflow will do.                              *)
MatchesAnyStage(w, c) == StagesLeft(w) => \E i \in DOMAIN w : c = Stage(w[i])

(* _workflow_action_matches_stage: out of stages, anything goes.           *)
MatchesStage(w, c) == StagesLeft(w) => c = Stage(w[completed + 1])

(* _usable_evidence                                                        *)
Counts(r) ==
  /\ r.ok /\ r.complete /\ ~r.flawed
  /\ r.status \notin {"error", "unsupported", "timeout", "partial"}

(* evidence_satisfies_deliverables: a summary wants some result for its    *)
(* clause, a value one that counts and contains it. Whether a result is    *)
(* for the clause is any choice: an answer it does not serve is turned     *)
(* down (Redo).                                                            *)
Supported(d) ==
  d # None => \E i \in DOMAIN ledger : d = "summary" \/ Counts(ledger[i])

(* _needs_unproved_equivalence_fallback                                    *)
NeedsComparison == comparing /\ ~usable

Go == answer = None /\ step < MaxSteps - 1 /\ step' = step + 1

(* Mutant: a turn that is turned down is not counted.                      *)
TurnedDownForFree(why) ==
  answer = None /\ step < MaxSteps - 1 /\ UNCHANGED step /\ told' = why

(* The model is told why it has to try again; that costs a turn too.       *)
TurnedDown(why) == Go /\ told' = why

(* Anything the loop turns down: no action in it, another contract or      *)
(* workflow than the frozen one, a mode that does not fit the request. The *)
(* card of the family it named is kept. An answer is turned down while     *)
(* stages are left, without evidence, or once for its wording.             *)
Redo ==
  /\ TurnedDown("redo")
  /\ comparing' \in {comparing, TRUE}
  /\ UNCHANGED <<frozen, memory, session, died, answer>>

(* The contract and the workflow a command has to come with to be valid: a *)
(* new one only if none is frozen.                                         *)
ContractOf == IF contract = None THEN Contracts ELSE {contract}
WorkflowOf == IF workflow = None THEN {None} \cup {w \in Workflows : ValidWorkflow(w)}
                                 ELSE {workflow}

Refuse ==
  /\ TurnedDown("refused")
  /\ \E c \in timed_out \cup failed :
       /\ \E w \in WorkflowOf : MatchesStage(w, c)
       /\ comparing' = (comparing \/ c.verb = "equiv_query")
  /\ UNCHANGED <<frozen, memory, session, died, answer>>

(* Nothing is read back from a tool that dies, and what has no complete    *)
(* line reads as complete.                                                 *)
Silence(c) == Reply(c, FALSE, "", TRUE)

(* What the next command finds: a tool that ended is started again.        *)
Restarted == Loaded(BlankSession, File)
Standing(s) == IF s.loaded THEN s ELSE Restarted

(* backend.send(): the tool obeys, or dies of it, or had died before and   *)
(* is started again, or twice and cannot be written to.                    *)
Sent(c) ==
  {<<Standing(o[1]), o[2], FALSE>> : o \in Outcomes(session, c)}
    \cup {<<Standing(o[1]), o[2], TRUE>> : o \in Outcomes(Restarted, c)}
    \cup {<<Restarted, r, TRUE>> : r \in {Silence(c), WriteError(c)}}

(* _build_evidence_record; flawed is its semantic_error, an optimization   *)
(* that says it kept the constraints and did not (only looked for in       *)
(* complete successes).                                                    *)
Records(r) ==
  {[command |-> r.to, ok |-> r.ok, complete |-> r.complete, status |-> r.status,
    changed |-> r.changed, flawed |-> fl] :
     fl \in {FALSE} \cup {r.to.arg \in Optimizations /\ r.ok /\ r.complete}}

(* Mutant: a stage counts even when there is none left.                    *)
StagesAfterUnbounded(w, rec) ==
  completed + (IF w # None /\ Counts(rec) THEN 1 ELSE 0)

StagesAfter(w, rec) ==
  completed + (IF StagesLeft(w) /\ Counts(rec) THEN 1 ELSE 0)

TimedOutAfter(rec) ==
  timed_out \cup {c \in {rec.command} : rec.status = "timeout"}

FailedAfter(rec) ==
  failed \cup {c \in {rec.command} : rec.status \in {"error", "unsupported"} /\ ~rec.ok}

UsableAfter(rec) ==
  \/ usable
  \/ /\ rec.status # "" /\ ~rec.flawed
     /\ rec.ok \/ rec.status \in {"partial", "timeout", "no_change"}

(* Mutant: only results that count enter the ledger.                       *)
LedgerOfUsable(rec) == IF Counts(rec) THEN Append(ledger, rec) ELSE ledger

LedgerAfter(rec) == Append(ledger, rec)

(* The first command that is about to be run freezes the contract, and the *)
(* first that brings one, the workflow; then it is sent, and its result    *)
(* entered.                                                                *)
Run ==
  /\ Go
  /\ contract' \in ContractOf /\ workflow' \in WorkflowOf
  /\ \E c \in Commands \ (timed_out \cup failed) :
       /\ MatchesStage(workflow', c)
       /\ comparing' = (comparing \/ c.verb = "equiv_query")
       /\ \E o \in Sent(c) :
            /\ session' = o[1] /\ died' = (died \/ o[3])
            /\ \E rec \in Records(o[2]) :
                 /\ ledger' = LedgerAfter(rec)
                 /\ completed' = StagesAfter(workflow', rec)
                 /\ timed_out' = TimedOutAfter(rec)
                 /\ failed' = FailedAfter(rec)
                 /\ usable' = UsableAfter(rec)
  /\ told' = "result"
  /\ UNCHANGED answer

(* What the loop remembers are locals, gone when it returns.               *)
End(a) ==
  /\ answer' = a
  /\ contract' = None /\ workflow' = None /\ completed' = 0
  /\ timed_out' = {} /\ failed' = {} /\ usable' = FALSE /\ ledger' = <<>>
  /\ comparing' = FALSE /\ told' = "request"
  /\ UNCHANGED <<step, session, died>>

(* An answer before the last turn.                                         *)
Finish ==
  /\ answer = None /\ step < MaxSteps - 1
  /\ ~StagesLeft(workflow) /\ ~NeedsComparison /\ Supported(contract)
  /\ End("model")

(* The last turn, for want of turns or of time: an answer in the protocol, *)
FinishInTime ==
  /\ answer = None
  /\ End(CASE StagesLeft(workflow) -> "fallback"
           [] ~StagesLeft(workflow) /\ NeedsComparison -> "unproved"
           [] OTHER -> "model")

(* or in prose, which is taken for one,                                    *)
FinishInProse ==
  /\ answer = None
  /\ End(IF NeedsComparison THEN "unproved" ELSE "model")

(* or none that can be used, or no model to ask (in any turn).             *)
GiveUp == answer = None /\ End("fallback")

Done == answer # None /\ UNCHANGED vars

Next ==
  \/ Redo \/ Refuse \/ Run
  \/ Finish \/ FinishInTime \/ FinishInProse \/ GiveUp
  \/ Done

(* The loop is one thread; each model call and each command has a limit.   *)
Spec == Init /\ [][Next]_vars /\ WF_vars(Next)

-----------------------------------------------------------------------------
Results ==
  [command : Commands, ok : BOOLEAN, complete : BOOLEAN, changed : BOOLEAN,
   status : {"", "ok", "no_change", "partial", "timeout", "unsupported", "error"},
   flawed : BOOLEAN]

(* Types; the stages done are never more than there are.                   *)
TypeOK ==
  /\ step \in 0 .. MaxSteps - 1
  /\ contract \in Contracts \cup {None}
  /\ workflow \in Workflows \cup {None}
  /\ completed \in 0 .. (IF workflow = None THEN 0 ELSE Len(workflow))
  /\ timed_out \subseteq Commands /\ failed \subseteq Commands
  /\ usable \in BOOLEAN /\ comparing \in BOOLEAN
  /\ Len(ledger) <= step /\ \A i \in DOMAIN ledger : ledger[i] \in Results
  /\ died \in BOOLEAN /\ told \in {"request", "result", "redo", "refused"}
  /\ answer \in {None, "model", "fallback", "unproved"}

Increasing(at) == \A i, j \in DOMAIN at : i < j => at[i] < at[j]

(* The stages said to be done were done, in the order of the workflow and  *)
(* with no other command that counts between them, the last of them last   *)
(* as long as some are left.                                               *)
StagesInOrder ==
  workflow # None =>
    \E at \in [1 .. completed -> DOMAIN ledger] :
      /\ Increasing(at)
      /\ \A i \in 1 .. completed :
           Counts(ledger[at[i]]) /\ ledger[at[i]].command = Stage(workflow[i])
      /\ \A k \in DOMAIN ledger :
           /\ Counts(ledger[k])
           /\ completed > 0 /\ at[1] <= k
           /\ StagesLeft(workflow) \/ k <= at[completed]
           => \E i \in 1 .. completed : at[i] = k

(* As long as the tool lives and reads no file, the ledger that an answer  *)
(* is drawn from accounts for the design: its edits are those of the       *)
(* results that report a change, in their order.                           *)
LedgerAccountsForDesign ==
  answer = None /\ ~died
    /\ (\A i \in DOMAIN ledger : ledger[i].command.verb \notin {"read", "quit"}) =>
    LET edits == session.current.edits
    IN  \E at \in [DOMAIN edits -> DOMAIN ledger] :
          /\ Increasing(at)
          /\ \A i \in DOMAIN edits : ledger[at[i]].command.arg = edits[i]
          /\ \A k \in DOMAIN ledger :
               ledger[k].changed <=> \E i \in DOMAIN edits : at[i] = k

(* Every request is answered.                                              *)
Answered == <>(answer # None)
=============================================================================
