------------------------ MODULE PrimitivesCache_proofs ------------------------
(***************************************************************************)
(* For any number of caches, handles, edits and rollbacks: the cache is    *)
(* well typed, its answers are about the netlist as it is, stale handles   *)
(* stay stale, and it implements AigService.                               *)
(*                                                                         *)
(* Every action but Edit and Restore replaces the state of one cache, so   *)
(* the proof rests on two lemmas: what ensure_fresh yields, and that a     *)
(* good state installed in one cache keeps the invariant of all.           *)
(***************************************************************************)
EXTENDS PrimitivesCache, TLAPS

(* What rebuild() or a cache already fresh has in common.                  *)
LEMMA FreshenedIsGood ==
  ASSUME TypeOK, NothingOutlivesItsGraph, NEW c \in Caches
  PROVE  /\ Freshened(cache[c]) \in CacheState
         /\ Consistent(Freshened(cache[c]))
         /\ Freshened(cache[c]).aig = content
         /\ \A r \in refs[c] : Vouched(Freshened(cache[c]), r)
         /\ Freshened(cache[c]).deadline => cache[c].deadline
         /\ Freshened(cache[c]).generation >= cache[c].generation
<1> DEFINE k == cache[c]
<1>1. k \in CacheState /\ refs[c] \subseteq SigRef /\ content \in Nat /\ revision \in Nat
  BY DEF TypeOK
<1>2. Consistent(k) /\ \A r \in refs[c] : Vouched(k, r)
  BY DEF NothingOutlivesItsGraph
<1>3. CASE IsFresh(k)
  <2>1. Freshened(k) = k
    BY <1>3 DEF Freshened
  <2>2. k.aig = content
    BY <1>2, <1>3 DEF Consistent
  <2> QED
    BY <1>1, <1>2, <2>1, <2>2 DEF CacheState
<1>4. CASE ~IsFresh(k)
  <2>1. Freshened(k) = Rebuilt(k)
    BY <1>4 DEF Freshened
  <2>2. Rebuilt(k) \in CacheState
    BY <1>1 DEF Rebuilt, CacheState
  <2>3. Consistent(Rebuilt(k)) /\ Rebuilt(k).aig = content
    BY <1>1 DEF Rebuilt, Consistent, IsFresh
  <2>4. ASSUME NEW r \in refs[c] PROVE Vouched(Rebuilt(k), r)
    <3>1. r.generation \in Nat /\ r.generation <= k.generation /\ k.generation \in Nat
      BY <1>1, <1>2 DEF Vouched, SigRef, CacheState
    <3> QED
      BY <3>1 DEF Vouched, Accepts, Rebuilt
  <2>5. ~Rebuilt(k).deadline /\ Rebuilt(k).generation >= k.generation
    BY <1>1 DEF Rebuilt, CacheState
  <2> QED
    BY <2>1, <2>2, <2>3, <2>4, <2>5
<1> QED
  BY <1>3, <1>4

(* Replacing the state of one cache by a good one, with handles it vouches *)
(* for, disturbs no other cache.                                           *)
LEMMA InstallKeeps ==
  ASSUME TypeOK, NothingOutlivesItsGraph,
         NEW c \in Caches, NEW k \in CacheState,
         Install(c, k), Consistent(k),
         refs' \in [Caches -> SUBSET SigRef],
         \A d \in Caches \ {c} : refs'[d] = refs[d],
         \A r \in refs'[c] : Vouched(k, r),
         NoDanglingDeadline,
         k.deadline => c = Owned /\ scope',
         scope => scope' \/ c = Owned,
         UNCHANGED <<content, revision>>
  PROVE  /\ cache' \in [Caches -> CacheState]
         /\ NothingOutlivesItsGraph'
         /\ NoDanglingDeadline'
<1>1. /\ cache' \in [Caches -> CacheState]
      /\ cache'[c] = k
      /\ \A d \in Caches \ {c} : cache'[d] = cache[d]
  BY DEF TypeOK, Install
<1>2. ASSUME NEW d \in Caches
      PROVE  /\ Consistent(cache[d])' /\ \A r \in refs'[d] : Vouched(cache'[d], r)
  <2>1. CASE d = c
    BY <1>1, <2>1 DEF Consistent, IsFresh
  <2>2. CASE d # c
    <3>1. Consistent(cache[d]) /\ \A r \in refs[d] : Vouched(cache[d], r)
      BY DEF NothingOutlivesItsGraph
    <3> QED
      BY <1>1, <2>2, <3>1 DEF Consistent, IsFresh
  <2> QED
    BY <2>1, <2>2
<1>3. NoDanglingDeadline'
  BY <1>1 DEF NoDanglingDeadline
<1>4. NothingOutlivesItsGraph'
  BY <1>2 DEF NothingOutlivesItsGraph, Vouched, Accepts
<1> QED
  BY <1>1, <1>3, <1>4

(* A sweep of a good graph leaves a good cache, whether it succeeds or not.*)
LEMMA SweptIsGood ==
  ASSUME NEW k \in CacheState, Consistent(k), NEW want \in {1, 2}, NEW ok \in BOOLEAN
  PROVE  /\ Swept(k, want, ok) \in CacheState
         /\ Consistent(Swept(k, want, ok))
         /\ Swept(k, want, ok).generation = k.generation
         /\ Swept(k, want, ok).aig = k.aig
         /\ Swept(k, want, ok).deadline = k.deadline
         /\ ok => Swept(k, want, ok).table = k.aig
         /\ \A r \in SigRef : Vouched(k, r) => Vouched(Swept(k, want, ok), r)
<1> DEFINE s == Swept(k, want, ok)
<1>1. s \in CacheState
  <2> DEFINE level == IF ok THEN want ELSE 0
             table == IF ok THEN k.aig ELSE 0
             k1 == [k EXCEPT !.tried = want]
             k2 == [k1 EXCEPT !.level = level]
  <2>1. want \in 0 .. 2 /\ level \in 0 .. 2 /\ table \in Nat
    <3>1. want \in 0 .. 2 /\ 0 \in 0 .. 2 /\ k.aig \in Nat
      BY DEF CacheState
    <3> QED
      BY <3>1, Zenon
  <2> HIDE DEF level, table
  <2>2. k1 \in CacheState
    BY <2>1 DEF CacheState
  <2> HIDE DEF k1
  <2>3. k2 \in CacheState
    BY <2>1, <2>2 DEF CacheState
  <2> HIDE DEF k2
  <2>4. [k2 EXCEPT !.table = table] \in CacheState
    BY <2>1, <2>3 DEF CacheState
  <2> QED
    BY <2>4 DEF Swept, k1, k2, level, table
<1>2. /\ s.built = k.built /\ s.builtRevision = k.builtRevision
      /\ s.aig = k.aig /\ s.generation = k.generation
      /\ s.memo = k.memo /\ s.deadline = k.deadline
      /\ ok => s.table = k.aig
      /\ ~ok => s.level = 0
  BY Zenon DEF Swept, CacheState
<1>3. Consistent(s)
  <2>1. s.level > 0 => s.table = s.aig
    <3>1. CASE ok
      BY <1>2, <3>1
    <3>2. CASE ~ok
      BY <1>2, <3>2
    <3> QED
      BY <3>1, <3>2
  <2> HIDE DEF s
  <2> QED
    BY <1>2, <2>1 DEF Consistent, IsFresh
<1>4. ASSUME NEW r \in SigRef, Vouched(k, r) PROVE Vouched(s, r)
  <2> HIDE DEF s
  <2> QED
    BY <1>2, <1>4 DEF Vouched, Accepts
<1> QED
  BY <1>1, <1>2, <1>3, <1>4

-----------------------------------------------------------------------------
(* The inductive invariant. AnswersAreCurrent by itself is not inductive:  *)
(* whether the next answer is current depends on what the cache holds.     *)
IInv ==
  /\ TypeOK /\ NothingOutlivesItsGraph
  /\ AnswersAreCurrent /\ NoDanglingDeadline

LEMMA NewCachesAreTyped == NewCache \in CacheState /\ NewOwned \in CacheState
<1>1. NewCache \in CacheState
  BY DEF NewCache, CacheState
<1>2. NewOwned \in CacheState
  BY <1>1 DEF NewOwned, CacheState
<1> QED
  BY <1>1, <1>2

LEMMA InitGood == Init => IInv
<1> SUFFICES ASSUME Init PROVE IInv
  OBVIOUS
<1>1. NewCache \in CacheState /\ NewOwned \in CacheState
  BY NewCachesAreTyped
<1>2. TypeOK
  BY <1>1 DEF Init, TypeOK, NoBackup, Silent, SweepKinds, Replies
<1>3. NothingOutlivesItsGraph
  BY DEF Init, NothingOutlivesItsGraph, Consistent, NewCache, NewOwned
<1>4. AnswersAreCurrent
  BY DEF Init, AnswersAreCurrent, Silent
<1>5. NoDanglingDeadline
  BY DEF Init, NoDanglingDeadline, NewCache, NewOwned
<1> QED
  BY <1>2, <1>3, <1>4, <1>5 DEF IInv

(* Steps that reply nothing.                                               *)
LEMMA SilentIsFine ==
  ASSUME reply' = Silent PROVE reply' \in Replies /\ AnswersAreCurrent'
BY DEF Silent, Replies, AnswersAreCurrent

LEMMA QuietIsFine ==
  ASSUME Quiet PROVE sweep' \in SweepKinds /\ reply' \in Replies /\ AnswersAreCurrent'
BY SilentIsFine DEF Quiet, SweepKinds

(* The two actions that change the netlist. Both move the revision past    *)
(* that of every graph built so far, so no graph is taken for fresh.       *)
LEMMA EditGood == IInv /\ Edit => IInv'
<1> SUFFICES ASSUME IInv, Edit PROVE IInv'
  OBVIOUS
<1>0. sweep' \in SweepKinds /\ reply' \in Replies /\ AnswersAreCurrent'
  BY QuietIsFine DEF Edit
<1>1. TypeOK'
  BY <1>0 DEF IInv, TypeOK, Edit
<1>2. NothingOutlivesItsGraph'
  <2> SUFFICES ASSUME NEW c \in Caches
               PROVE  Consistent(cache[c])' /\ \A r \in refs'[c] : Vouched(cache'[c], r)
    BY DEF NothingOutlivesItsGraph, Vouched, Accepts
  <2>1. cache[c] \in CacheState /\ revision \in Nat
    BY DEF IInv, TypeOK
  <2>2. Consistent(cache[c]) /\ \A r \in refs[c] : Vouched(cache[c], r)
    BY DEF IInv, NothingOutlivesItsGraph
  <2> QED
    BY <2>1, <2>2 DEF Edit, Consistent, IsFresh, CacheState
<1>3. NoDanglingDeadline'
  BY DEF IInv, Edit, NoDanglingDeadline
<1> QED
  BY <1>0, <1>1, <1>2, <1>3 DEF IInv

LEMMA RestoreGood == IInv /\ Restore => IInv'
<1> SUFFICES ASSUME IInv, Restore PROVE IInv'
  OBVIOUS
<1>0. NewOwned \in CacheState /\ cache \in [Caches -> CacheState]
  BY NewCachesAreTyped DEF IInv, TypeOK
<1>1. sweep' \in SweepKinds /\ reply' \in Replies /\ AnswersAreCurrent'
  BY QuietIsFine DEF Restore
<1>2. NothingOutlivesItsGraph'
  <2> SUFFICES ASSUME NEW c \in Caches
               PROVE  Consistent(cache[c])' /\ \A r \in refs'[c] : Vouched(cache'[c], r)
    BY DEF NothingOutlivesItsGraph, Vouched, Accepts
  <2>1. /\ revision \in Nat /\ backup.revision \in Nat /\ cache[c] \in CacheState
        /\ refs \in [Caches -> SUBSET SigRef]
    BY DEF IInv, TypeOK
  <2>2. revision' \in Nat /\ revision' > revision
    BY <2>1 DEF Restore, RestoredRevision
  <2>3. CASE c = Owned
    <3>1. cache'[c] = NewOwned /\ refs'[c] = {}
      BY <1>0, <2>1, <2>3 DEF Restore
    <3> QED
      BY <3>1 DEF NewOwned, NewCache, Consistent, IsFresh
  <2>4. CASE c # Owned
    <3>1. cache'[c] = cache[c] /\ refs'[c] = refs[c]
      BY <1>0, <2>1, <2>4 DEF Restore
    <3>2. Consistent(cache[c]) /\ \A r \in refs[c] : Vouched(cache[c], r)
      BY DEF IInv, NothingOutlivesItsGraph
    <3> QED
      BY <2>1, <2>2, <3>1, <3>2 DEF Consistent, IsFresh, CacheState
  <2> QED
    BY <2>3, <2>4
<1>3. TypeOK'
  BY <1>0, <1>1, CacheAssumption DEF IInv, TypeOK, Restore, RestoredRevision, NoBackup
<1>4. NoDanglingDeadline'
  <2>1. cache'[Owned] = NewOwned /\ \A c \in Caches \ {Owned} : cache'[c] = cache[c]
    BY <1>0, CacheAssumption DEF Restore
  <2> QED
    BY <2>1 DEF IInv, NoDanglingDeadline, NewOwned, NewCache
<1> QED
  BY <1>1, <1>2, <1>3, <1>4 DEF IInv

-----------------------------------------------------------------------------
(* What every question starts from: the cache brought up to date, or       *)
(* anything made of it that keeps its graph, its handles and its deadline. *)
Good(c, k) ==
  /\ k \in CacheState /\ Consistent(k)
  /\ k.aig = content
  /\ \A r \in refs[c] : Vouched(k, r)
  /\ k.deadline => cache[c].deadline
  /\ k.generation >= cache[c].generation

LEMMA FreshenedGood ==
  ASSUME IInv, NEW c \in Caches PROVE Good(c, Freshened(cache[c]))
BY FreshenedIsGood DEF IInv, Good

LEMMA SweptGood ==
  ASSUME IInv, NEW c \in Caches, NEW k, Good(c, k), NEW want \in {1, 2}, NEW ok \in BOOLEAN
  PROVE  /\ Good(c, Swept(k, want, ok))
         /\ Swept(k, want, ok).generation = k.generation
         /\ ok => Swept(k, want, ok).table = content
<1>1. refs[c] \subseteq SigRef
  BY DEF IInv, TypeOK
<1> QED
  BY <1>1, SweptIsGood DEF Good

(* An action that installs a good cache, keeps the netlist and hands out   *)
(* no handle, or one the new state vouches for, keeps the invariant; what  *)
(* it replies is for the action to show.                                   *)
LEMMA InstallGood ==
  ASSUME IInv, NEW c \in Caches, NEW k, Good(c, k), Install(c, k),
         UNCHANGED <<content, newest, revision, backup, scope>>,
         sweep' \in SweepKinds,
         NEW R \in SUBSET SigRef, \A r \in R : Vouched(k, r),
         refs' = [refs EXCEPT ![c] = @ \cup R],
         reply' \in Replies,
         AnswersAreCurrent'
  PROVE  IInv'
<1>1. refs \in [Caches -> SUBSET SigRef]
  BY DEF IInv, TypeOK
<1>2. /\ refs' \in [Caches -> SUBSET SigRef]
      /\ refs'[c] = refs[c] \cup R
      /\ \A d \in Caches \ {c} : refs'[d] = refs[d]
  BY <1>1
<1>3. k.deadline => c = Owned /\ scope'
  BY DEF Good, IInv, NoDanglingDeadline
<1>4. /\ cache' \in [Caches -> CacheState]
      /\ NothingOutlivesItsGraph' /\ NoDanglingDeadline'
  <2>1. \A r \in refs'[c] : Vouched(k, r)
    BY <1>2 DEF Good
  <2> QED
    BY <1>2, <1>3, <2>1, InstallKeeps DEF IInv, Good
<1>5. TypeOK'
  BY <1>2, <1>4 DEF IInv, TypeOK
<1> QED
  BY <1>4, <1>5 DEF IInv

(* The same for the actions that hand out no handle.                       *)
LEMMA InstallQuietly ==
  ASSUME IInv, NEW c \in Caches, NEW k, Good(c, k), Install(c, k),
         UNCHANGED <<content, newest, revision, backup, refs, scope>>,
         sweep' \in SweepKinds,
         reply' \in Replies,
         AnswersAreCurrent'
  PROVE  IInv'
<1> DEFINE R == {}
<1>1. refs' = [refs EXCEPT ![c] = @ \cup R]
  BY DEF IInv, TypeOK
<1>2. R \in SUBSET SigRef /\ \A r \in R : Vouched(k, r)
  OBVIOUS
<1> HIDE DEF R
<1> QED
  BY <1>1, <1>2, InstallGood, Zenon

(* Answering a handle that the refreshed cache accepts, about its graph.   *)
LEMMA AnswerIsCurrent ==
  ASSUME IInv, NEW c \in Caches, NEW r \in refs[c],
         Accepts(Freshened(cache[c]), r),
         NEW v, v = content, reply' = Reply(r, v), content' = content
  PROVE  /\ r.content = content
         /\ reply' = [status |-> "answered", asked |-> content, about |-> content]
         /\ reply' \in Replies
         /\ AnswersAreCurrent'
<1>1. r.content = content
  BY FreshenedGood DEF Good, Vouched
<1>2. content \in Nat
  BY DEF IInv, TypeOK
<1> QED
  BY <1>1, <1>2 DEF Reply, Replies, AnswersAreCurrent

LEMMA SweepBoundIsTyped ==
  ASSUME NEW c, NEW k
  PROVE  SweepBound(c, k) \in SweepKinds
BY DEF SweepBound, SweepKinds

(* The handle a question returns is kept, or is dropped on the spot.       *)
LEMMA KeptHandles ==
  ASSUME IInv, NEW c \in Caches, NEW k, NEW r \in SigRef, Vouched(k, r), Keep(c, r)
  PROVE  \E R \in SUBSET SigRef : /\ \A x \in R : Vouched(k, x)
                                /\ refs' = [refs EXCEPT ![c] = @ \cup R]
<1>1. CASE refs' = [refs EXCEPT ![c] = @ \cup {r}]
  <2> DEFINE R == {r}
  <2>1. R \in SUBSET SigRef /\ \A x \in R : Vouched(k, x)
    OBVIOUS
  <2>2. refs' = [refs EXCEPT ![c] = @ \cup R]
    BY <1>1
  <2> HIDE DEF R
  <2> QED
    BY <2>1, <2>2
<1>2. CASE UNCHANGED refs
  <2> DEFINE R == {}
  <2>1. R \in SUBSET SigRef /\ \A x \in R : Vouched(k, x)
    OBVIOUS
  <2>2. refs' = [refs EXCEPT ![c] = @ \cup R]
    BY <1>2 DEF IInv, TypeOK
  <2> HIDE DEF R
  <2> QED
    BY <2>1, <2>2
<1> QED
  BY <1>1, <1>2 DEF Keep

LEMMA ResolveGood ==
  ASSUME IInv, NEW c \in Caches, Resolve(c) PROVE IInv'
<1> DEFINE k == Freshened(cache[c])
           r == Ref(k, content)
<1>1. Good(c, k)
  BY FreshenedGood
<1>2. r \in SigRef /\ Vouched(k, r)
  <2>1. k.generation \in Nat /\ k.aig = content /\ content \in Nat
    BY <1>1 DEF Good, CacheState, IInv, TypeOK
  <2> HIDE DEF k
  <2> QED
    BY <2>1 DEF Ref, SigRef, Vouched
<1>3. /\ Install(c, k) /\ Keep(c, r) /\ Quiet
      /\ UNCHANGED <<content, newest, revision, backup, scope>>
  BY DEF Resolve
<1> HIDE DEF k, r
<1>4. PICK R \in SUBSET SigRef : /\ \A x \in R : Vouched(k, x)
                               /\ refs' = [refs EXCEPT ![c] = @ \cup R]
  BY <1>2, <1>3, KeptHandles
<1> QED
  BY <1>1, <1>3, <1>4, QuietIsFine, InstallGood

LEMMA AskInVainGood ==
  ASSUME IInv, NEW c \in Caches, NEW r \in refs[c], AskInVain(c, r) PROVE IInv'
<1>1. reply' \in Replies /\ AnswersAreCurrent'
  BY DEF AskInVain, Refusal, Replies, AnswersAreCurrent
<1>2. sweep' \in SweepKinds
  BY DEF AskInVain, SweepKinds
<1> QED
  BY <1>1, <1>2, FreshenedGood, InstallQuietly DEF AskInVain

LEMMA AskGraphGood ==
  ASSUME IInv, NEW c \in Caches, NEW r \in refs[c], AskGraph(c, r)
  PROVE  IInv' /\ reply' = [status |-> "answered", asked |-> content, about |-> content]
<1>1. Good(c, Freshened(cache[c])) /\ Freshened(cache[c]).aig = content
  BY FreshenedGood DEF Good
<1>2. sweep' \in SweepKinds
  BY DEF AskGraph, SweepKinds
<1> QED
  BY <1>1, <1>2, AnswerIsCurrent, InstallQuietly DEF AskGraph

LEMMA AskTableGood ==
  ASSUME IInv, NEW c \in Caches, NEW r \in refs[c], AskTable(c, r)
  PROVE  IInv' /\ reply' = [status |-> "answered", asked |-> content, about |-> content]
<1> DEFINE k == Freshened(cache[c])
<1>1. Good(c, k) /\ k.table = content
  BY FreshenedGood DEF AskTable, Good, Consistent
<1>2. sweep' \in SweepKinds
  BY DEF AskTable, SweepKinds
<1> QED
  BY <1>1, <1>2, AnswerIsCurrent, InstallQuietly DEF AskTable

LEMMA AskSolverGood ==
  ASSUME IInv, NEW c \in Caches, NEW r \in refs[c], AskSolver(c, r)
  PROVE  IInv' /\ reply' = [status |-> "answered", asked |-> content, about |-> content]
<1> DEFINE k == Freshened(cache[c])
           m == IF k.misses < Threshold(c) THEN k.misses + 1 ELSE k.misses
           j == [k EXCEPT !.misses = m]
<1>1. Good(c, k)
  BY FreshenedGood
<1>2. m \in Nat
  BY <1>1 DEF Good, CacheState
<1>3. Install(c, j)
  <2>1. k \in CacheState
    BY <1>1 DEF Good
  <2> QED
    BY <2>1 DEF AskSolver
<1> HIDE DEF k, m
<1>4. j \in CacheState
  BY <1>1, <1>2 DEF Good, CacheState
<1>5. /\ j.built = k.built /\ j.builtRevision = k.builtRevision
      /\ j.aig = k.aig /\ j.generation = k.generation /\ j.level = k.level
      /\ j.table = k.table /\ j.memo = k.memo /\ j.deadline = k.deadline
  BY <1>1, Zenon DEF Good, CacheState
<1> HIDE DEF j
<1>6. Good(c, j)
  BY <1>1, <1>4, <1>5 DEF Good, Consistent, IsFresh, Vouched, Accepts
<1>7. sweep' \in SweepKinds
  BY DEF AskSolver, SweepKinds
<1>8. Accepts(Freshened(cache[c]), r) /\ reply' = Reply(r, k.aig) /\ k.aig = content
  BY <1>1 DEF AskSolver, k, Good
<1>9. UNCHANGED <<content, newest, revision, backup, refs, scope>>
  BY DEF AskSolver
<1> QED
  BY <1>3, <1>6, <1>7, <1>8, <1>9, AnswerIsCurrent, InstallQuietly

LEMMA AskAutoSweepGood ==
  ASSUME IInv, NEW c \in Caches, NEW r \in refs[c], AskAutoSweep(c, r)
  PROVE  IInv' /\ reply' = [status |-> "answered", asked |-> content, about |-> content]
<1> DEFINE k == Freshened(cache[c])
<1>1. Good(c, k) /\ k.aig = content
  BY FreshenedGood DEF Good
<1>2. /\ Accepts(Freshened(cache[c]), r)
      /\ UNCHANGED <<content, newest, revision, backup, refs, scope>>
  BY DEF AskAutoSweep
<1>3. CASE MaySweep(k, 1)
  <2>1. PICK ok \in BOOLEAN :
          /\ Install(c, Swept(k, 1, ok))
          /\ \/ ok /\ reply' = Reply(r, Swept(k, 1, ok).table)
             \/ reply' = Reply(r, k.aig)
    BY <1>3 DEF AskAutoSweep
  <2>2. sweep' = SweepBound(c, k)
    BY <1>3 DEF AskAutoSweep
  <2> HIDE DEF k
  <2>3. Good(c, Swept(k, 1, ok)) /\ (ok => Swept(k, 1, ok).table = content)
    BY <1>1, SweptGood
  <2>4. PICK v : v = content /\ reply' = Reply(r, v)
    BY <1>1, <2>1, <2>3
  <2> QED
    BY <1>2, <2>1, <2>2, <2>3, <2>4, SweepBoundIsTyped, AnswerIsCurrent, InstallQuietly
<1>4. CASE ~MaySweep(k, 1)
  <2>1. Install(c, k) /\ reply' = Reply(r, k.aig) /\ sweep' = "none"
    BY <1>4 DEF AskAutoSweep
  <2>2. sweep' \in SweepKinds
    BY <2>1 DEF SweepKinds
  <2> HIDE DEF k
  <2> QED
    BY <1>1, <1>2, <2>1, <2>2, AnswerIsCurrent, InstallQuietly
<1> QED
  BY <1>3, <1>4

LEMMA CofactorGood ==
  ASSUME IInv, NEW c \in Caches, NEW r \in refs[c], Cofactor(c, r)
  PROVE  IInv' /\ reply' = [status |-> "answered", asked |-> content, about |-> content]
<1> DEFINE k == Freshened(cache[c])
           filled == [k EXCEPT !.memo = @ \cup {k.aig}]
<1>1. Good(c, k) /\ k \in CacheState /\ k.aig = content /\ k.memo \subseteq {k.aig}
  BY FreshenedGood DEF Good, Consistent
<1>2. /\ Accepts(Freshened(cache[c]), r)
      /\ UNCHANGED <<content, newest, revision, backup, scope>> /\ sweep' = "none"
  BY DEF Cofactor
<1>3. PICK j \in {k, filled} :
        Install(c, j) /\ Keep(c, Ref(k, content)) /\ reply' = Reply(r, content)
  <2>1. CASE \E v \in k.memo : Install(c, k) /\ Keep(c, Ref(k, v)) /\ reply' = Reply(r, v)
    BY <1>1, <2>1
  <2>2. CASE Install(c, filled) /\ Keep(c, Ref(k, k.aig)) /\ reply' = Reply(r, k.aig)
    BY <1>1, <2>2
  <2> QED
    BY <2>1, <2>2 DEF Cofactor
<1>4. Good(c, j) /\ j.generation = k.generation /\ j.aig = k.aig
  <2>1. /\ filled.built = k.built /\ filled.builtRevision = k.builtRevision
        /\ filled.aig = k.aig /\ filled.generation = k.generation
        /\ filled.level = k.level /\ filled.table = k.table
        /\ filled.memo \subseteq {k.aig} /\ filled.deadline = k.deadline
    BY <1>1, Zenon DEF CacheState
  <2>2. filled \in CacheState
    BY <1>1 DEF CacheState
  <2> HIDE DEF filled, k
  <2>3. Good(c, filled)
    BY <1>1, <2>1, <2>2 DEF Good, Consistent, IsFresh, Vouched, Accepts
  <2> QED
    BY <1>1, <1>3, <2>1, <2>3
<1>5. Ref(k, content) \in SigRef /\ Vouched(j, Ref(k, content))
  <2>1. k.generation \in Nat /\ content \in Nat
    BY <1>1 DEF CacheState, IInv, TypeOK
  <2> HIDE DEF k, filled
  <2> QED
    BY <1>1, <1>4, <2>1 DEF Ref, SigRef, Vouched
<1>6. sweep' \in SweepKinds
  BY <1>2 DEF SweepKinds
<1> HIDE DEF k, filled
<1>7. PICK R \in SUBSET SigRef : /\ \A x \in R : Vouched(j, x)
                               /\ refs' = [refs EXCEPT ![c] = @ \cup R]
  BY <1>3, <1>5, KeptHandles
<1>8. /\ AnswersAreCurrent' /\ reply' \in Replies
      /\ reply' = [status |-> "answered", asked |-> content, about |-> content]
  BY <1>2, <1>3, AnswerIsCurrent
<1>9. IInv'
  BY <1>2, <1>3, <1>4, <1>6, <1>7, <1>8, InstallGood
<1> QED
  BY <1>8, <1>9

LEMMA RequestSweepGood ==
  ASSUME IInv, NEW c \in Caches, NEW want \in {1, 2}, RequestSweep(c, want) PROVE IInv'
<1> DEFINE k == Freshened(cache[c])
<1>1. Good(c, k)
  BY FreshenedGood
<1>2. UNCHANGED <<content, newest, revision, backup, refs, scope>> /\ reply' = Silent
  BY DEF RequestSweep
<1>3. CASE MaySweep(k, want)
  <2>1. PICK ok \in BOOLEAN : Install(c, Swept(k, want, ok))
    BY <1>3 DEF RequestSweep
  <2>2. sweep' = SweepBound(c, k)
    BY <1>3 DEF RequestSweep
  <2> HIDE DEF k
  <2> QED
    BY <1>1, <1>2, <2>1, <2>2, SweptGood, SweepBoundIsTyped, SilentIsFine, InstallQuietly
<1>4. CASE ~MaySweep(k, want)
  <2>1. Install(c, k) /\ sweep' = "none"
    BY <1>4 DEF RequestSweep
  <2>2. sweep' \in SweepKinds
    BY <2>1 DEF SweepKinds
  <2> HIDE DEF k
  <2> QED
    BY <1>1, <1>2, <2>1, <2>2, SilentIsFine, InstallQuietly
<1> QED
  BY <1>3, <1>4

LEMMA EnablePhaseBGood ==
  ASSUME IInv, NEW c \in Caches, NEW on \in BOOLEAN, EnablePhaseB(c, on) PROVE IInv'
<1> DEFINE k == [cache[c] EXCEPT !.phaseB = on, !.built = FALSE, !.level = 0,
                                 !.tried = 0, !.table = 0, !.misses = 0]
<1>1. /\ cache[c] \in CacheState /\ Consistent(cache[c])
      /\ cache[c].deadline => c = Owned /\ scope
      /\ \A r \in refs[c] : Vouched(cache[c], r)
  BY DEF IInv, TypeOK, NothingOutlivesItsGraph, NoDanglingDeadline
<1>2. /\ k.phaseB = on /\ k.built = FALSE /\ k.level = 0 /\ k.tried = 0
      /\ k.table = 0 /\ k.misses = 0 /\ k.builtRevision = cache[c].builtRevision
      /\ k.aig = cache[c].aig /\ k.generation = cache[c].generation
      /\ k.memo = cache[c].memo /\ k.deadline = cache[c].deadline
  BY <1>1, Zenon DEF CacheState
<1>3. /\ Install(c, k)
      /\ Quiet /\ UNCHANGED <<content, newest, revision, backup, refs, scope>>
  BY DEF EnablePhaseB
<1>4. k \in CacheState
  <2> DEFINE k1 == [cache[c] EXCEPT !.phaseB = on]
             k2 == [k1 EXCEPT !.built = FALSE]
             k3 == [k2 EXCEPT !.level = 0]
             k4 == [k3 EXCEPT !.tried = 0]
             k5 == [k4 EXCEPT !.table = 0]
             k6 == [k5 EXCEPT !.misses = 0]
  <2>1. k1 \in CacheState
    BY <1>1 DEF CacheState
  <2> HIDE DEF k1
  <2>2. k2 \in CacheState
    BY <2>1 DEF CacheState
  <2> HIDE DEF k2
  <2>3. k3 \in CacheState
    BY <2>2 DEF CacheState
  <2> HIDE DEF k3
  <2>4. k4 \in CacheState
    BY <2>3 DEF CacheState
  <2> HIDE DEF k4
  <2>5. k5 \in CacheState
    BY <2>4 DEF CacheState
  <2> HIDE DEF k5
  <2>6. k6 \in CacheState
    BY <2>5 DEF CacheState
  <2> QED
    BY <2>6 DEF k1, k2, k3, k4, k5, k6
<1> HIDE DEF k
<1>5. Consistent(k) /\ \A r \in refs'[c] : Vouched(k, r)
  BY <1>1, <1>2, <1>3 DEF Consistent, IsFresh, Vouched, Accepts
<1>6. /\ cache' \in [Caches -> CacheState]
      /\ NothingOutlivesItsGraph' /\ NoDanglingDeadline'
  BY <1>1, <1>2, <1>3, <1>4, <1>5, InstallKeeps DEF IInv, TypeOK
<1>7. TypeOK' /\ AnswersAreCurrent'
  BY <1>3, <1>6, QuietIsFine DEF IInv, TypeOK
<1> QED
  BY <1>6, <1>7 DEF IInv

(* Opening and closing the deadline scope changes one field of the owned   *)
(* cache, which no graph and no handle depends on.                         *)
LEMMA ScopeGood == IInv /\ (OpenScope \/ CloseScope) => IInv'
<1> SUFFICES ASSUME IInv, OpenScope \/ CloseScope PROVE IInv'
  OBVIOUS
<1> DEFINE k == [cache[Owned] EXCEPT !.deadline = scope']
<1>1. /\ Install(Owned, k) /\ scope' \in BOOLEAN
      /\ Quiet /\ UNCHANGED <<content, newest, revision, backup, refs>>
  BY DEF OpenScope, CloseScope, Install
<1>2. cache[Owned] \in CacheState /\ Consistent(cache[Owned])
      /\ \A r \in refs[Owned] : Vouched(cache[Owned], r)
  BY CacheAssumption DEF IInv, TypeOK, NothingOutlivesItsGraph
<1>3. k \in CacheState
  BY <1>1, <1>2 DEF CacheState
<1>4. /\ k.built = cache[Owned].built /\ k.builtRevision = cache[Owned].builtRevision
      /\ k.aig = cache[Owned].aig /\ k.generation = cache[Owned].generation
      /\ k.level = cache[Owned].level /\ k.table = cache[Owned].table
      /\ k.memo = cache[Owned].memo /\ k.deadline = scope'
  BY <1>2, Zenon DEF CacheState
<1> HIDE DEF k
<1>5. Consistent(k) /\ \A r \in refs'[Owned] : Vouched(k, r)
  BY <1>1, <1>2, <1>4 DEF Consistent, IsFresh, Vouched, Accepts
<1>6. /\ cache' \in [Caches -> CacheState]
      /\ NothingOutlivesItsGraph' /\ NoDanglingDeadline'
  BY <1>1, <1>3, <1>4, <1>5, CacheAssumption, InstallKeeps DEF IInv, TypeOK
<1>7. TypeOK' /\ AnswersAreCurrent'
  BY <1>1, <1>6, QuietIsFine DEF IInv, TypeOK
<1> QED
  BY <1>6, <1>7 DEF IInv

(* Actions that only take something away, or copy the netlist aside.       *)
LEMMA BookkeepingGood ==
  IInv /\ (Clone \/ DropClone \/ \E c \in Caches : \E r \in refs[c] : Forget(c, r)) => IInv'
<1>1. ASSUME IInv, Clone \/ DropClone PROVE IInv'
  <2>1. /\ backup' \in [valid : BOOLEAN, content : Nat, revision : Nat]
        /\ Quiet /\ UNCHANGED <<content, newest, revision, cache, refs, scope>>
    <3>1. CASE Clone
      BY <1>1, <3>1 DEF IInv, TypeOK, Clone
    <3>2. CASE DropClone
      BY <3>2 DEF DropClone, NoBackup
    <3> QED
      BY <1>1, <3>1, <3>2
  <2>2. TypeOK' /\ AnswersAreCurrent' /\ NoDanglingDeadline'
    BY <1>1, <2>1, QuietIsFine DEF IInv, TypeOK, NoDanglingDeadline
  <2>3. NothingOutlivesItsGraph'
    BY <1>1, <2>1 DEF IInv, NothingOutlivesItsGraph, Consistent, IsFresh, Vouched, Accepts
  <2> QED
    BY <2>2, <2>3 DEF IInv
<1>2. ASSUME IInv, NEW c \in Caches, NEW r \in refs[c], Forget(c, r) PROVE IInv'
  <2>1. /\ refs' = [refs EXCEPT ![c] = @ \ {r}]
        /\ Quiet /\ UNCHANGED <<content, newest, revision, backup, cache, scope>>
    BY <1>2 DEF Forget
  <2>2. refs \in [Caches -> SUBSET SigRef]
    BY <1>2 DEF IInv, TypeOK
  <2>3. refs' \in [Caches -> SUBSET SigRef] /\ \A d \in Caches : refs'[d] \subseteq refs[d]
    BY <2>1, <2>2
  <2>4. TypeOK' /\ AnswersAreCurrent' /\ NoDanglingDeadline'
    BY <1>2, <2>1, <2>3, QuietIsFine DEF IInv, TypeOK, NoDanglingDeadline
  <2>5. NothingOutlivesItsGraph'
    BY <1>2, <2>1, <2>3 DEF IInv, NothingOutlivesItsGraph, Consistent, IsFresh, Vouched, Accepts
  <2> QED
    BY <2>4, <2>5 DEF IInv
<1> QED
  BY <1>1, <1>2

-----------------------------------------------------------------------------
LEMMA NextGood == IInv /\ [Next]_vars => IInv'
<1> SUFFICES ASSUME IInv, [Next]_vars PROVE IInv'
  OBVIOUS
<1>1. CASE Edit \/ Restore
  BY <1>1, EditGood, RestoreGood
<1>2. CASE OpenScope \/ CloseScope \/ Clone \/ DropClone
  BY <1>2, ScopeGood, BookkeepingGood
<1>3. ASSUME NEW c \in Caches, Resolve(c) PROVE IInv'
  BY <1>3, ResolveGood
<1>4. ASSUME NEW c \in Caches, NEW want \in {1, 2}, RequestSweep(c, want) PROVE IInv'
  BY <1>4, RequestSweepGood
<1>5. ASSUME NEW c \in Caches, NEW on \in BOOLEAN, EnablePhaseB(c, on) PROVE IInv'
  BY <1>5, EnablePhaseBGood
<1>6. ASSUME NEW c \in Caches, NEW r \in refs[c],
             \/ AskInVain(c, r) \/ AskGraph(c, r) \/ AskTable(c, r) \/ AskSolver(c, r)
             \/ AskAutoSweep(c, r) \/ Cofactor(c, r)
      PROVE  IInv'
  BY <1>6, AskInVainGood, AskGraphGood, AskTableGood, AskSolverGood,
       AskAutoSweepGood, CofactorGood
<1>7. ASSUME NEW c \in Caches, NEW r \in refs[c], Forget(c, r) PROVE IInv'
  BY <1>7, BookkeepingGood
<1>8. CASE UNCHANGED vars
  BY <1>8 DEF vars, IInv, TypeOK, NothingOutlivesItsGraph, Consistent, IsFresh,
              Vouched, Accepts, AnswersAreCurrent, NoDanglingDeadline
<1> QED
  BY <1>1, <1>2, <1>3, <1>4, <1>5, <1>6, <1>7, <1>8 DEF Next

LEMMA Invariance == Spec => []IInv
<1>1. Init => IInv
  BY InitGood
<1>2. IInv /\ [Next]_vars => IInv'
  BY NextGood
<1> QED
  BY <1>1, <1>2, PTL DEF Spec

(* The variables keep their types, for any number of caches and edits.     *)
THEOREM TypeCorrect == Spec => []TypeOK
<1>1. IInv => TypeOK
  BY DEF IInv
<1> QED
  BY <1>1, Invariance, PTL

(* Table, memo and handles never outlive their graph.                      *)
(* Session.cpp:230.                                                        *)
THEOREM GraphDiscipline == Spec => []NothingOutlivesItsGraph
<1>1. IInv => NothingOutlivesItsGraph
  BY DEF IInv
<1> QED
  BY <1>1, Invariance, PTL

(* No answer is about a netlist other than the one in the session.         *)
(* Session.cpp:219 (ensure_fresh), :296 (unwrap).                          *)
THEOREM AnswersCurrent == Spec => []AnswersAreCurrent
<1>1. IInv => AnswersAreCurrent
  BY DEF IInv
<1> QED
  BY <1>1, Invariance, PTL

(* No cache keeps a pointer to the deadline of a request that is over.     *)
(* Primitives.h:512.                                                       *)
THEOREM DeadlinesReleased == Spec => []NoDanglingDeadline
<1>1. IInv => NoDanglingDeadline
  BY DEF IInv
<1> QED
  BY <1>1, Invariance, PTL

-----------------------------------------------------------------------------
(* Whatever a cache is asked, the state it is left in has counted on from  *)
(* the one it was in.                                                      *)
LEMMA QuestionsCountOn ==
  ASSUME IInv, NEW d \in Caches,
         \/ Resolve(d)
         \/ \E want \in {1, 2} : RequestSweep(d, want)
         \/ \E on \in BOOLEAN : EnablePhaseB(d, on)
         \/ \E r \in refs[d] :
              \/ AskInVain(d, r) \/ AskGraph(d, r) \/ AskTable(d, r) \/ AskSolver(d, r)
              \/ AskAutoSweep(d, r) \/ Cofactor(d, r)
  PROVE  \E k : Install(d, k) /\ k.generation >= cache[d].generation
<1> DEFINE k == Freshened(cache[d])
           Forward(j) == Install(d, j) /\ j.generation >= cache[d].generation
<1>1. Good(d, k) /\ k \in CacheState /\ k.generation >= cache[d].generation
  BY FreshenedGood DEF Good
<1>2. ASSUME NEW want \in {1, 2}, NEW ok \in BOOLEAN, Install(d, Swept(k, want, ok))
      PROVE  \E j : Forward(j)
  <2> HIDE DEF k
  <2>1. Forward(Swept(k, want, ok))
    BY <1>1, <1>2, SweptGood
  <2> QED
    BY <2>1
<1>3. CASE Resolve(d) \/ \E r \in refs[d] : AskInVain(d, r) \/ AskGraph(d, r) \/ AskTable(d, r)
  <2>1. Forward(k)
    BY <1>1, <1>3 DEF Resolve, AskInVain, AskGraph, AskTable
  <2> QED
    BY <2>1
<1>4. ASSUME NEW r \in refs[d], AskSolver(d, r) PROVE \E j : Forward(j)
  <2> DEFINE j == [k EXCEPT !.misses = IF @ < Threshold(d) THEN @ + 1 ELSE @]
  <2>1. Install(d, j)
    BY <1>4 DEF AskSolver
  <2>2. j.generation = k.generation
    BY <1>1, Zenon DEF CacheState
  <2> HIDE DEF j
  <2> QED
    BY <1>1, <2>1, <2>2
<1>5. ASSUME NEW r \in refs[d], Cofactor(d, r) PROVE \E j : Forward(j)
  <2> DEFINE filled == [k EXCEPT !.memo = @ \cup {k.aig}]
  <2>1. Install(d, k) \/ Install(d, filled)
    BY <1>5 DEF Cofactor
  <2>2. filled.generation = k.generation
    BY <1>1, Zenon DEF CacheState
  <2> HIDE DEF filled
  <2> QED
    BY <1>1, <2>1, <2>2
<1>6. ASSUME NEW on \in BOOLEAN, EnablePhaseB(d, on) PROVE \E j : Forward(j)
  <2> DEFINE j == [cache[d] EXCEPT !.phaseB = on, !.built = FALSE, !.level = 0,
                                   !.tried = 0, !.table = 0, !.misses = 0]
  <2>1. Install(d, j)
    BY <1>6 DEF EnablePhaseB
  <2>2. cache[d] \in CacheState
    BY DEF IInv, TypeOK
  <2>3. j.generation = cache[d].generation
    BY <2>2, Zenon DEF CacheState
  <2>4. cache[d].generation \in Nat
    BY <2>2 DEF CacheState
  <2> HIDE DEF j
  <2> QED
    BY <2>1, <2>3, <2>4
<1>7. ASSUME NEW want \in {1, 2}, RequestSweep(d, want) PROVE \E j : Forward(j)
  <2>1. Install(d, k) \/ \E ok \in BOOLEAN : Install(d, Swept(k, want, ok))
    BY <1>7 DEF RequestSweep
  <2> QED
    BY <1>1, <1>2, <2>1
<1>8. ASSUME NEW r \in refs[d], AskAutoSweep(d, r) PROVE \E j : Forward(j)
  <2>1. Install(d, k) \/ \E ok \in BOOLEAN : Install(d, Swept(k, 1, ok))
    BY <1>8 DEF AskAutoSweep
  <2> QED
    BY <1>1, <1>2, <2>1
<1> HIDE DEF k
<1> QED
  BY <1>3, <1>4, <1>5, <1>6, <1>7, <1>8

(* Generations only grow, except in a cache that loses all its handles.    *)
LEMMA GenerationGrows ==
  ASSUME IInv, [Next]_vars, NEW c \in Caches
  PROVE  cache'[c].generation >= cache[c].generation \/ refs'[c] = {}
<1>1. cache[c] \in CacheState /\ cache[c].generation \in Nat
      /\ cache \in [Caches -> CacheState] /\ refs \in [Caches -> SUBSET SigRef]
  BY DEF IInv, TypeOK, CacheState
<1>2. ASSUME cache'[c] = cache[c] PROVE cache'[c].generation >= cache[c].generation
  BY <1>1, <1>2
<1>3. CASE Restore
  <2>1. CASE c = Owned
    BY <1>1, <1>3, <2>1 DEF Restore
  <2>2. CASE c # Owned
    BY <1>1, <1>2, <1>3, <2>2 DEF Restore
  <2> QED
    BY <2>1, <2>2
<1>4. CASE UNCHANGED cache
  BY <1>2, <1>4
<1>5. CASE OpenScope \/ CloseScope
  <2>1. cache'[c].generation = cache[c].generation
    BY <1>1, <1>5, CacheAssumption DEF OpenScope, CloseScope, Install, CacheState
  <2> QED
    BY <1>1, <2>1
<1>6. ASSUME NEW d \in Caches, NEW k, Install(d, k), k.generation >= cache[d].generation
      PROVE  cache'[c].generation >= cache[c].generation
  <2>1. CASE c = d
    BY <1>1, <1>6, <2>1 DEF Install
  <2>2. CASE c # d
    BY <1>1, <1>2, <1>6, <2>2 DEF Install
  <2> QED
    BY <2>1, <2>2
<1>7. CASE Edit \/ Clone \/ DropClone \/ UNCHANGED vars
      \/ \E d \in Caches : \E r \in refs[d] : Forget(d, r)
  BY <1>4, <1>7 DEF Edit, Clone, DropClone, Forget, vars
<1>8. ASSUME NEW d \in Caches,
             \/ Resolve(d)
             \/ \E want \in {1, 2} : RequestSweep(d, want)
             \/ \E on \in BOOLEAN : EnablePhaseB(d, on)
             \/ \E r \in refs[d] :
                  \/ AskInVain(d, r) \/ AskGraph(d, r) \/ AskTable(d, r) \/ AskSolver(d, r)
                  \/ AskAutoSweep(d, r) \/ Cofactor(d, r)
      PROVE  cache'[c].generation >= cache[c].generation
  BY <1>6, <1>8, QuestionsCountOn
<1> QED
  BY <1>3, <1>5, <1>7, <1>8 DEF Next

(* A handle once refused is refused for good: only the owned cache of a    *)
(* netlist that is assigned to starts counting anew, and nobody holds a    *)
(* handle of it then. Session.cpp:328.                                     *)
THEOREM StaleForever == Spec => StaleStaysStale
<1> DEFINE Step == \A c \in Caches : \A r \in refs[c] \cap refs'[c] :
       r.generation # cache[c].generation => r.generation # cache'[c].generation
<1>1. IInv /\ [Next]_vars => [Step]_vars
  <2> SUFFICES ASSUME IInv, [Next]_vars, NEW c \in Caches, NEW r \in refs[c] \cap refs'[c],
                      r.generation # cache[c].generation
               PROVE  r.generation # cache'[c].generation
    OBVIOUS
  <2>1. /\ r.generation \in Nat /\ cache[c].generation \in Nat
        /\ r.generation <= cache[c].generation
    BY DEF IInv, TypeOK, NothingOutlivesItsGraph, Vouched, SigRef, CacheState
  <2>2. cache'[c].generation >= cache[c].generation /\ cache'[c].generation \in Nat
    BY GenerationGrows, NextGood DEF IInv, TypeOK, CacheState
  <2> QED
    BY <2>1, <2>2
<1> QED
  BY <1>1, Invariance, PTL DEF Spec, StaleStaysStale

-----------------------------------------------------------------------------
(* Every step of the cache is, for a caller who sees only the netlist's    *)
(* version and the replies, a step of the service.                         *)
LEMMA StepsImplement == IInv /\ [Next]_vars => [Service!Next]_<<content, reply>>
<1> SUFFICES ASSUME IInv, [Next]_vars
             PROVE  Service!Next \/ UNCHANGED <<content, reply>>
  BY DEF Service!vars
<1>1. content \in Nat /\ newest \in Nat /\ backup.content \in Nat
  BY DEF IInv, TypeOK
<1>2. ASSUME content' \in Nat, reply' = Silent PROVE Service!Next
  BY <1>2 DEF Service!Next, Service!Change, Service!Silent, Silent
<1>3. ASSUME UNCHANGED content,
             reply' = [status |-> "answered", asked |-> content, about |-> content]
      PROVE  Service!Next
  BY <1>3 DEF Service!Next, Service!Answer
<1>4. CASE Edit
  BY <1>1, <1>2, <1>4 DEF Edit, Quiet
<1>5. CASE Restore
  BY <1>1, <1>2, <1>5 DEF Restore, Quiet
<1>6. CASE \E c \in Caches : Resolve(c) \/ \E want \in {1, 2} : RequestSweep(c, want)
  BY <1>1, <1>2, <1>6 DEF Resolve, RequestSweep, Quiet
<1>7. ASSUME NEW c \in Caches, NEW r \in refs[c],
             \/ AskGraph(c, r) \/ AskTable(c, r) \/ AskSolver(c, r)
             \/ AskAutoSweep(c, r) \/ Cofactor(c, r)
      PROVE  Service!Next
  <2>1. UNCHANGED content
    BY <1>7 DEF AskGraph, AskTable, AskSolver, AskAutoSweep, Cofactor
  <2> QED
    BY <1>3, <1>7, <2>1, AskGraphGood, AskTableGood, AskSolverGood,
       AskAutoSweepGood, CofactorGood
<1>8. ASSUME NEW c \in Caches, NEW r \in refs[c], AskInVain(c, r) PROVE Service!Next
  BY <1>8 DEF AskInVain, Refusal, Service!Next, Service!Refuse
<1>9. CASE \/ Clone \/ DropClone \/ OpenScope \/ CloseScope
           \/ \E c \in Caches : \E on \in BOOLEAN : EnablePhaseB(c, on)
           \/ \E c \in Caches : \E r \in refs[c] : Forget(c, r)
  BY <1>1, <1>2, <1>9 DEF Clone, DropClone, OpenScope, CloseScope, EnablePhaseB, Forget, Quiet
<1>10. CASE UNCHANGED vars
  BY <1>10 DEF vars
<1> QED
  BY <1>4, <1>5, <1>6, <1>7, <1>8, <1>9, <1>10 DEF Next

(* The lazily rebuilt, memoising, sweeping cache is indistinguishable from *)
(* a service that computes every answer from the netlist at hand.          *)
THEOREM CacheImplementsService == Spec => ImplementsService
<1>1. Init => Service!Init
  BY DEF Init, Service!Init, Silent, Service!Silent
<1> QED
  BY <1>1, Invariance, StepsImplement, PTL
     DEF Spec, ImplementsService, Service!Spec, Service!vars

=============================================================================
