--------------------------- MODULE PrimitivesCache ---------------------------
(***************************************************************************)
(* Primitives (SATEngine/Session.cpp, Primitives.cpp): the lazily built    *)
(* and-inverter graph that answers Boolean questions about a netlist that  *)
(* keeps being edited under it.                                            *)
(*                                                                         *)
(* Nothing tells a cache that the netlist changed. It finds out at the     *)
(* next question, by comparing the revision it was built from with the     *)
(* netlist's (ensure_fresh), and then throws away the graph, the FRAIG     *)
(* table and the memoised cofactors together. Handles (SigRef) survive in  *)
(* the callers' hands and carry the generation they were made in.          *)
(*                                                                         *)
(* Several caches may look at the same netlist: the one the netlist owns,  *)
(* which dies whenever the netlist is assigned to (restoreFrom), and any   *)
(* that a caller constructed on it, which survive.                         *)
(***************************************************************************)
EXTENDS Naturals, FiniteSets

CONSTANTS
  Caches,         \* the Primitives objects bound to the netlist
  Owned,          \* the netlist's own, netlist.booleanPrimitives()
  AutoSweep,      \* fraig_auto_sweep_threshold of a caller's cache
  MaxHandles,     \* bound: handles a caller keeps per cache
  MaxRevision,    \* bound: edits are enabled below this revision
  MaxGeneration   \* bound: engine switches are enabled below this generation

ASSUME CacheAssumption ==
  /\ Owned \in Caches
  /\ AutoSweep \in Nat /\ MaxHandles \in Nat
  /\ MaxRevision \in Nat /\ MaxGeneration \in Nat

VARIABLES
  content,     \* version of the netlist: what its gates and nets are
  newest,      \* the largest version made so far
  revision,    \* Netlist::revision_
  backup,      \* the clone an edit keeps for rollback, or NoBackup
  cache,       \* the state of each Primitives
  refs,        \* the handles callers hold, with the version they were made on
  scope,       \* is a FraigDeadlineScope with a deadline open, on Owned
  sweep,       \* how the FRAIG sweep of this step was bounded, if there was one
  reply        \* the reply this step gave a caller, if it gave one

vars == <<content, newest, revision, backup, cache, refs, scope, sweep, reply>>

NoBackup == [valid |-> FALSE, content |-> 0, revision |-> 0]

(* kInvalidGeneration is 0: no handle of generation 0 is ever valid.       *)
NewCache ==
  [built |-> FALSE, builtRevision |-> 0, aig |-> 0, generation |-> 0,
   phaseB |-> FALSE, level |-> 0, tried |-> 0, table |-> 0, misses |-> 0,
   memo |-> {}, deadline |-> FALSE]

(* booleanPrimitives() switches the incremental engines on at once.        *)
NewOwned == [NewCache EXCEPT !.phaseB = TRUE]

Silent == [status |-> "silent", asked |-> 0, about |-> 0]

-----------------------------------------------------------------------------
(* The cache's own operations, as functions of its state k.                *)

IsFresh(k) == k.built /\ k.builtRevision = revision

(* rebuild(): everything derived from the old graph goes, and so does the  *)
(* sweep deadline the caller may have installed.                           *)
Rebuilt(k) ==
  [built |-> TRUE, builtRevision |-> revision, aig |-> content,
   generation |-> k.generation + 1, phaseB |-> k.phaseB, level |-> 0,
   tried |-> 0, table |-> 0, misses |-> 0, memo |-> {}, deadline |-> FALSE]

(* ensure_fresh()                                                          *)
Freshened(k) == IF IsFresh(k) THEN k ELSE Rebuilt(k)

(* unwrap() under StaleSigPolicy::Throw, the default.                      *)
Accepts(k, r) == r.generation = k.generation /\ r.generation # 0

(* ensure_fraig(): may this cache sweep for the wanted level at all? Once  *)
(* per level and graph, whether the sweep succeeds or not.                 *)
MaySweep(k, want) == k.phaseB /\ k.level < want /\ k.tried < want

(* Mutant: a successful sweep adds its level to the one already reached.   *)
SweptAddingLevel(k, want, ok) ==
  [k EXCEPT !.tried = want,
            !.level = IF ok THEN k.level + want ELSE 0,
            !.table = IF ok THEN k.aig ELSE 0]

(* Mutant: a sweep that fails leaves the level an earlier one reached.     *)
SweptKeepingLevel(k, want, ok) ==
  [k EXCEPT !.tried = want,
            !.level = IF ok THEN want ELSE k.level,
            !.table = IF ok THEN k.aig ELSE 0]

(* The sweep itself; ok is whether it got as far as a usable table. A      *)
(* sweep that does not loses the table an earlier one had built.           *)
Swept(k, want, ok) ==
  [k EXCEPT !.tried = want,
            !.level = IF ok THEN want ELSE 0,
            !.table = IF ok THEN k.aig ELSE 0]

SweepBound(c, k) ==
  CASE k.deadline -> "bounded"
    [] c = Owned /\ scope /\ ~k.deadline -> "escaped"
    [] OTHER -> "unbounded"

(* The owned cache is configured never to sweep of its own accord.         *)
Threshold(c) == IF c = Owned THEN 0 ELSE AutoSweep

AtThreshold(c, k) ==
  k.phaseB /\ k.level = 0 /\ Threshold(c) > 0 /\ k.misses >= Threshold(c)

(* The caller keeps the handle it is given, or lets it go at once.         *)
Keep(c, r) ==
  \/ /\ refs' = [refs EXCEPT ![c] = @ \cup {r}]
     /\ Cardinality(refs[c] \cup {r}) <= MaxHandles
  \/ UNCHANGED refs

Install(c, k) == cache' = [cache EXCEPT ![c] = k]

Ref(k, v)    == [generation |-> k.generation, content |-> v]
Reply(r, v)  == [status |-> "answered", asked |-> r.content, about |-> v]
Refusal      == [status |-> "refused", asked |-> 0, about |-> 0]

(* A step that replies nothing and sweeps nothing.                         *)
Quiet == reply' = Silent /\ sweep' = "none"

-----------------------------------------------------------------------------
Init ==
  /\ content = 0 /\ newest = 0 /\ revision = 0
  /\ backup = NoBackup
  /\ cache = [c \in Caches |-> IF c = Owned THEN NewOwned ELSE NewCache]
  /\ refs = [c \in Caches |-> {}]
  /\ scope = FALSE
  /\ sweep = "none"
  /\ reply = Silent

(* Any mutation of gates or nets, through markDirty().                     *)
Edit ==
  /\ revision < MaxRevision
  /\ newest' = newest + 1
  /\ content' = newest + 1
  /\ revision' = revision + 1
  /\ Quiet
  /\ UNCHANGED <<backup, cache, refs, scope>>

(* cloneForRollback()                                                      *)
Clone ==
  /\ ~backup.valid
  /\ backup' = [valid |-> TRUE, content |-> content, revision |-> revision]
  /\ Quiet
  /\ UNCHANGED <<content, newest, revision, cache, refs, scope>>

(* The edit is kept, the clone goes out of scope.                          *)
DropClone ==
  /\ backup.valid
  /\ backup' = NoBackup
  /\ Quiet
  /\ UNCHANGED <<content, newest, revision, cache, refs, scope>>

(* Mutant: a plain assignment, which takes the clone's revision over.      *)
RestoredRevisionByAssignment(now, old) == old

(* restoreFrom(): past both revisions, so that no cache built on either    *)
(* side takes the restored netlist for its own.                            *)
RestoredRevision(now, old) == (IF now > old THEN now ELSE old) + 1

(* The assignment in restoreFrom destroys the owned cache; the code never  *)
(* rolls back while a deadline scope on it is open, nor keeps its handles. *)
Restore ==
  /\ backup.valid /\ ~scope
  /\ revision < MaxRevision
  /\ content' = backup.content
  /\ revision' = RestoredRevision(revision, backup.revision)
  /\ backup' = NoBackup
  /\ cache' = [cache EXCEPT ![Owned] = NewOwned]
  /\ refs' = [refs EXCEPT ![Owned] = {}]
  /\ Quiet
  /\ UNCHANGED <<newest, scope>>

(* resolve(name), constant(b): a new handle on the current graph.          *)
Resolve(c) ==
  LET k == Freshened(cache[c]) IN
  /\ Install(c, k)
  /\ Keep(c, Ref(k, content))
  /\ Quiet
  /\ UNCHANGED <<content, newest, revision, backup, scope>>

(* A handle goes out of its caller's scope.                                *)
Forget(c, r) ==
  /\ refs' = [refs EXCEPT ![c] = @ \ {r}]
  /\ Quiet
  /\ UNCHANGED <<content, newest, revision, backup, cache, scope>>

(* A question without an answer: the handle is stale, its net is not       *)
(* trusted, or the time is up. The graph has been brought up to date       *)
(* first, and the last two are decided before staleness is looked at.      *)
AskInVain(c, r) ==
  LET k == Freshened(cache[c]) IN
  /\ Install(c, k)
  /\ reply' = Refusal
  /\ sweep' = "none"
  /\ UNCHANGED <<content, newest, revision, backup, refs, scope>>

(* equiv_checked, decided by the graph alone: both sides are one node.     *)
AskGraph(c, r) ==
  LET k == Freshened(cache[c]) IN
  /\ Accepts(k, r)
  /\ Install(c, k)
  /\ reply' = Reply(r, k.aig)
  /\ sweep' = "none"
  /\ UNCHANGED <<content, newest, revision, backup, refs, scope>>

(* equiv_checked, answered from the FRAIG table.                           *)
AskTable(c, r) ==
  LET k == Freshened(cache[c]) IN
  /\ Accepts(k, r) /\ k.level > 0
  /\ Install(c, k)
  /\ reply' = Reply(r, k.table)
  /\ sweep' = "none"
  /\ UNCHANGED <<content, newest, revision, backup, refs, scope>>

(* equiv_checked, answered by the solver; below the sweep threshold.       *)
AskSolver(c, r) ==
  LET k == Freshened(cache[c]) IN
  /\ Accepts(k, r)
  /\ ~AtThreshold(c, k)
  /\ Install(c, [k EXCEPT !.misses = IF @ < Threshold(c) THEN @ + 1 ELSE @])
  /\ reply' = Reply(r, k.aig)
  /\ sweep' = "none"
  /\ UNCHANGED <<content, newest, revision, backup, refs, scope>>

(* equiv_checked at the threshold: one simulate-only sweep is tried first, *)
(* then the table or, failing that, the solver answers.                    *)
AskAutoSweep(c, r) ==
  LET k == Freshened(cache[c]) IN
  /\ Accepts(k, r)
  /\ AtThreshold(c, k)
  /\ \/ /\ MaySweep(k, 1)
        /\ \E ok \in BOOLEAN :
             /\ Install(c, Swept(k, 1, ok))
             /\ \/ ok /\ reply' = Reply(r, Swept(k, 1, ok).table)
                \/ reply' = Reply(r, k.aig)
        /\ sweep' = SweepBound(c, k)
     \/ /\ ~MaySweep(k, 1)
        /\ Install(c, k)
        /\ reply' = Reply(r, k.aig)
        /\ sweep' = "none"
  /\ UNCHANGED <<content, newest, revision, backup, refs, scope>>

(* cofactor(): the memo, keyed by raw signals of the graph it was filled   *)
(* on, is consulted before anything is built.                              *)
Cofactor(c, r) ==
  LET k == Freshened(cache[c]) IN
  /\ Accepts(k, r)
  /\ \/ \E v \in k.memo :
          /\ Install(c, k)
          /\ Keep(c, Ref(k, v))
          /\ reply' = Reply(r, v)
     \/ /\ Install(c, [k EXCEPT !.memo = @ \cup {k.aig}])
        /\ Keep(c, Ref(k, k.aig))
        /\ reply' = Reply(r, k.aig)
  /\ sweep' = "none"
  /\ UNCHANGED <<content, newest, revision, backup, scope>>

(* request_fraig_sweep(): refresh, then sweep unless this graph had its    *)
(* chance at that level.                                                   *)
RequestSweep(c, want) ==
  LET k == Freshened(cache[c]) IN
  /\ \/ /\ MaySweep(k, want)
        /\ \E ok \in BOOLEAN : Install(c, Swept(k, want, ok))
        /\ sweep' = SweepBound(c, k)
     \/ /\ ~MaySweep(k, want)
        /\ Install(c, k)
        /\ sweep' = "none"
  /\ reply' = Silent
  /\ UNCHANGED <<content, newest, revision, backup, refs, scope>>

(* FraigDeadlineScope: removeConstantRedundancy lends the owned cache its  *)
(* request's deadline for as long as the scope lives.                      *)
OpenScope ==
  /\ ~scope
  /\ scope' = TRUE
  /\ Install(Owned, [cache[Owned] EXCEPT !.deadline = TRUE])
  /\ Quiet
  /\ UNCHANGED <<content, newest, revision, backup, refs>>

CloseScope ==
  /\ scope
  /\ scope' = FALSE
  /\ Install(Owned, [cache[Owned] EXCEPT !.deadline = FALSE])
  /\ Quiet
  /\ UNCHANGED <<content, newest, revision, backup, refs>>

(* Mutant: the switch makes the cache as good as new, generation included. *)
EnablePhaseBFromScratch(c, on) ==
  /\ c # Owned
  /\ cache[c].phaseB # on
  /\ cache[c].generation < MaxGeneration
  /\ Install(c, [NewCache EXCEPT !.phaseB = on])
  /\ Quiet
  /\ UNCHANGED <<content, newest, revision, backup, refs, scope>>

(* enable_phase_b(): drops the engines and the graph but keeps counting    *)
(* generations, and leaves the memo to the rebuild that must follow. The   *)
(* owned cache is switched once, before anyone sees it (NewOwned).         *)
EnablePhaseB(c, on) ==
  /\ c # Owned
  /\ cache[c].phaseB # on
  /\ cache[c].generation < MaxGeneration
  /\ Install(c, [cache[c] EXCEPT !.phaseB = on, !.built = FALSE, !.level = 0,
                                 !.tried = 0, !.table = 0, !.misses = 0])
  /\ Quiet
  /\ UNCHANGED <<content, newest, revision, backup, refs, scope>>

Next ==
  \/ Edit \/ Clone \/ DropClone \/ Restore \/ OpenScope \/ CloseScope
  \/ \E c \in Caches :
       \/ Resolve(c)
       \/ \E want \in {1, 2} : RequestSweep(c, want)
       \/ \E on \in BOOLEAN : EnablePhaseB(c, on)
       \/ \E r \in refs[c] :
            \/ AskInVain(c, r) \/ AskGraph(c, r) \/ AskTable(c, r) \/ AskSolver(c, r)
            \/ AskAutoSweep(c, r) \/ Cofactor(c, r) \/ Forget(c, r)

Spec == Init /\ [][Next]_vars

-----------------------------------------------------------------------------
CacheState ==
  [built : BOOLEAN, builtRevision : Nat, aig : Nat, generation : Nat,
   phaseB : BOOLEAN, level : 0 .. 2, tried : 0 .. 2, table : Nat, misses : Nat,
   memo : SUBSET Nat, deadline : BOOLEAN]

SigRef == [generation : Nat, content : Nat]

SweepKinds == {"none", "bounded", "unbounded", "escaped"}
Replies == [status : {"silent", "answered", "refused"}, asked : Nat, about : Nat]

TypeOK ==
  /\ content \in Nat /\ newest \in Nat /\ revision \in Nat
  /\ backup \in [valid : BOOLEAN, content : Nat, revision : Nat]
  /\ cache \in [Caches -> CacheState]
  /\ refs \in [Caches -> SUBSET SigRef]
  /\ scope \in BOOLEAN
  /\ sweep \in SweepKinds
  /\ reply \in Replies

(* What a cache state may hold: a graph no younger than the netlist, and   *)
(* of the netlist itself when the revisions agree; a table and a memo of   *)
(* that graph and of no other.                                             *)
Consistent(k) ==
  /\ k.built => k.builtRevision <= revision
  /\ IsFresh(k) => k.aig = content
  /\ k.level > 0 => k.table = k.aig
  /\ k.memo \subseteq {k.aig}

(* A handle is never ahead of its cache, and one that would be accepted    *)
(* was resolved on the graph the cache holds.                              *)
Vouched(k, r) ==
  /\ r.generation <= k.generation
  /\ Accepts(k, r) => r.content = k.aig

(* Table, memo and handles never outlive the graph they were made on, and  *)
(* equal revisions mean equal netlists: the four things Session.cpp keeps  *)
(* in step by hand (rebuild, :230, enable_phase_b, :317, restoreFrom,      *)
(* NetlistOptimization.cpp:2612). The induction behind every other         *)
(* property of this module.                                                *)
NothingOutlivesItsGraph ==
  \A c \in Caches :
    Consistent(cache[c]) /\ \A r \in refs[c] : Vouched(cache[c], r)

(* No answer is ever about another netlist than the one in the session, or *)
(* than the one its handle was resolved on: not after an edit, not after a *)
(* rollback to an older netlist, not from a table or a memo of the graph   *)
(* before (ensure_fresh, Session.cpp:219, unwrap, :296).                   *)
AnswersAreCurrent ==
  reply.status = "answered" => reply.asked = content /\ reply.about = content

(* A handle that a cache would refuse now it never accepts later, whatever *)
(* is edited, rolled back or switched in between: a generation number is   *)
(* not used twice (enable_phase_b, Session.cpp:328).                       *)
StaleStaysStale ==
  [][\A c \in Caches : \A r \in refs[c] \cap refs'[c] :
       r.generation # cache[c].generation => r.generation # cache'[c].generation]_vars

(* The cache never holds a pointer to a deadline whose request is over.    *)
(* FraigDeadlineScope, Primitives.h:512.                                   *)
NoDanglingDeadline == \A c \in Caches : cache[c].deadline => c = Owned /\ scope

(* A sweep that runs while a request lends its deadline is bounded by it.  *)
(* Primitives.h:399 "let the sweep use the whole request's deadline rather *)
(* than start its own clock" (translated).                                 *)
SweepUsesRequestDeadline == sweep # "escaped"

(* The cache implements the service it stands for: every step of it is an  *)
(* edit, an answer about the netlist as it is, a refusal, or invisible.    *)
Service == INSTANCE AigService
ImplementsService == Service!Spec

=============================================================================
